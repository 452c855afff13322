----------------------------- MODULE MCExecutor -----------------------------
(***************************************************************************)
(* Executor on plans of the shape plan_relieve gives two hosts: a window   *)
(* that parks, stops, starts and restores two occupants, a viewport step   *)
(* on the cockpit, a short window of a second host, and the same steps     *)
(* under a dry run, a refusal and a forbidden verb.                        *)
(***************************************************************************)
EXTENDS Executor

CONSTANTS h1, h2, cockpit, s1, s2

MCHost == {h1, h2, cockpit}
MCSlot == {s1, s2}

MkStep(op, kind, host, slot, mutating, restore) ==
  [op |-> op, kind |-> kind, host |-> host, slot |-> slot, mutating |-> mutating,
   restore |-> restore, never |-> FALSE]

(* The window of one host: two occupants parked, the second one restored   *)
(* by a single step, the first one after a check of its configuration.     *)
WindowOf(h) ==
  << MkStep("host-start", "journal", h, NoSlot, TRUE, FALSE),
     MkStep("type", "herdr", h, s1, TRUE, FALSE),
     MkStep("exit", "wait", h, s1, FALSE, FALSE),
     MkStep("stop", "herdr", h, NoSlot, TRUE, FALSE),
     MkStep("reach", "shell", h, NoSlot, FALSE, FALSE),
     MkStep("start", "shell", h, NoSlot, TRUE, FALSE),
     MkStep("config", "check", h, s1, FALSE, TRUE),
     MkStep("agent", "herdr", h, s1, TRUE, TRUE),
     MkStep("relaunch", "herdr", h, s2, TRUE, TRUE),
     MkStep("prompt", "herdr", h, s1, TRUE, TRUE),
     MkStep("set-complete", "journal", h, NoSlot, TRUE, FALSE) >>

(* The window of a host with one occupant, which needs no check. *)
ShortWindowOf(h) ==
  << MkStep("stop", "herdr", h, NoSlot, TRUE, FALSE),
     MkStep("agent", "herdr", h, s1, TRUE, TRUE),
     MkStep("prompt", "herdr", h, s1, TRUE, TRUE),
     MkStep("set-complete", "journal", h, NoSlot, TRUE, FALSE) >>

Snap == MkStep("snap", "snap", cockpit, NoSlot, TRUE, FALSE)
Viewport == MkStep("viewport", "herdr", cockpit, NoSlot, TRUE, FALSE)
ForcedStop == [MkStep("stop", "herdr", h1, NoSlot, TRUE, FALSE) EXCEPT !.never = TRUE]

Rolling == <<Snap>> \o WindowOf(h1) \o <<Viewport>> \o ShortWindowOf(h2)

MCStep == {Snap, Viewport, ForcedStop}
            \cup {WindowOf(h1)[i] : i \in 1..11} \cup {ShortWindowOf(h2)[i] : i \in 1..4}

PlanOf(steps, refused, approved, force) ==
  [verb |-> "relieve", steps |-> steps, refused |-> refused, approved |-> approved, force |-> force]

MCPlans ==
  { PlanOf(Rolling, FALSE, TRUE, FALSE),
    PlanOf(WindowOf(h1), FALSE, TRUE, FALSE),
    PlanOf(WindowOf(h1), FALSE, FALSE, FALSE),
    PlanOf(WindowOf(h1), TRUE, TRUE, FALSE),
    PlanOf(<<Snap, ForcedStop>>, FALSE, TRUE, FALSE),
    PlanOf(<<Snap, ForcedStop>>, FALSE, TRUE, TRUE) }
=============================================================================
