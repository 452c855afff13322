-------------------------------- MODULE Plan --------------------------------
(***************************************************************************)
(* The typed plan every planner returns and exec runs (plan.py): steps in  *)
(* order, the refusals a planner recorded, and whether the operator gave   *)
(* --yes.  A step is a record of the CONSTANT set Step, so that a planner  *)
(* module may add fields of its own; what exec looks at is assumed here.   *)
(***************************************************************************)
EXTENDS Naturals, Sequences

CONSTANTS
  Host,      \* host names, the cockpit among them
  Slot,      \* slot ids: the durable identities of the occupants
  NoSlot,    \* the slot_id of a step that is about no occupant (None)
  Step       \* the steps a plan is made of

(* plan.StepKind *)
Kind == {"herdr", "shell", "local", "snap", "guard", "wait", "journal", "note", "manual", "check"}

Verb == {"secure", "set", "relieve"}

(* What a step is for.  Of these exec itself tells apart only the three    *)
(* JOURNAL descriptions: host-start, set-complete and the rest ("ids").    *)
Op == {"snap", "guard", "host-start", "keep", "action", "stop", "verify", "expect",
       "clear", "type", "enter", "exit", "interrupt", "fold",
       "reach", "start", "up", "viewport", "attach", "create", "tab", "split", "layout",
       "config", "agent", "native", "idle", "prompt", "relaunch", "ids", "set-complete"}

ASSUME NoSlotAssumption == NoSlot \notin Slot

(* The fields of plan.Step that exec reads.  never stands for a verb on    *)
(* the never-emit list without its planned_stop mark.                      *)
ASSUME StepAssumption ==
  \A s \in Step :
    /\ s.op \in Op
    /\ s.kind \in Kind
    /\ s.host \in Host
    /\ s.slot \in Slot \cup {NoSlot}
    /\ s.mutating \in BOOLEAN
    /\ s.restore \in BOOLEAN      \* phase = "restore"
    /\ s.never \in BOOLEAN
    \* exec has no way to fail a marker: NOTE, SNAP, GUARD and JOURNAL
    \* steps return None; a JOURNAL step is about a host, and planned as
    \* mutating, so a dry run writes no mark
    /\ s.kind = "journal" <=> s.op \in {"host-start", "set-complete", "ids"}
    /\ s.kind = "journal" => s.mutating /\ s.slot = NoSlot

PlanRecord ==
  [verb : Verb, steps : Seq(Step), refused : BOOLEAN, approved : BOOLEAN, force : BOOLEAN]

(* Plan.scheduled: without --yes neither a mutating step nor a wait for    *)
(* the effect of one is run.                                               *)
Scheduled(p, s) == p.approved \/ (~s.mutating /\ s.kind # "wait")

(* check_verbs_allowed: a forbidden verb needs --force-server-stop. *)
Violations(p) == {k \in DOMAIN p.steps : p.steps[k].never /\ ~p.force}

(* The steps whose failure can be seen: the markers always succeed. *)
CanFail(s) == s.kind \notin {"note", "snap", "guard", "journal"}

(* What a failure costs, in the order the code asks: one occupant, or the  *)
(* host.  What is neither (a read-only probe such as reach) is tolerated.  *)
SlotFatal(s) == s.restore /\ s.slot # NoSlot

HostFatal(s) == ~SlotFatal(s) /\ (s.mutating \/ s.kind \in {"wait", "check"})

Tolerated(s) == ~SlotFatal(s) /\ ~HostFatal(s)

(* The hosts that have work of their own in the plan (exec.run's worked). *)
Worked(p) == {p.steps[k].host : k \in {j \in DOMAIN p.steps :
                                        p.steps[j].kind \in {"herdr", "shell", "wait", "local"}}}
=============================================================================
