----------------------------- MODULE RosterStore -----------------------------
(***************************************************************************)
(* The roster files of one fleet and the current.json symlink: who writes  *)
(* them (cli._run_plan, cmd_snap, roster.write), what the occupant guard   *)
(* lets through, and which roster `set` falls in from (cli.set_source).    *)
(* Every watchbill command is a process of its own; nothing locks the      *)
(* directory, so the heartbeat timer's snap interleaves with a manual      *)
(* verb, and any of them may be killed between two steps.                  *)
(***************************************************************************)
EXTENDS Integers, FiniteSets

CONSTANTS
  Slot,          \* the panes of the fleet, named by their slot ids
  Host,
  HostOf,        \* the host of each slot
  Proc,          \* the processes that may run at once
  Timer,         \* those of them that the heartbeat timer starts
  SnapReason,    \* what an operator's snap may be given as its -m
  DropNum, DropDen,   \* guard.drop_ratio as a fraction
  MinOccupants,  \* guard.min_occupants
  MaxRolls,      \* bound: rolls, hence roster files, per behaviour
  MaxEvents      \* bound: things that happen to the fleet by themselves

ASSUME BoundsAssumption == MaxRolls \in Nat /\ MaxEvents \in Nat
ASSUME GuardAssumption ==
  DropNum \in Nat /\ DropDen \in Nat \ {0} /\ DropNum <= DropDen /\ MinOccupants \in Nat
ASSUME HostAssumption == HostOf \in [Slot -> Host]
ASSUME SlotAssumption == IsFiniteSet(Slot)

VARIABLES
  panes,     \* the panes that exist
  agents,    \* those of them an agent runs in
  parked,    \* history: agents a verb made exit, not running again since
  lastPark,  \* history: the agents parked since the newest roster of a secure
  posing,    \* history: the rosters a snap wrote with -m pre-secure
  events,    \* how many things happened to the fleet by themselves
  clock,     \* taken_at of the newest roll (rolls are seconds apart)
  files,     \* the rosters on disk, by taken_at
  current,   \* the roster current.json points to; 0: there is none
  tmp,       \* what current.json.tmp points to; 0: there is none
  proc       \* the commands that run, see Process

store == <<clock, files, current, tmp>>
fleet == <<panes, agents, parked, events>>
past == <<lastPark, posing>>
vars == <<store, fleet, past, proc>>

Verb == {"snap", "secure", "set", "relieve"}

(* Those a verb writes, and manual and heartbeat of a snap; but any of     *)
(* them may be the -m of a snap by hand.                                   *)
Reason == {"manual", "heartbeat", "pre-secure", "pre-relieve", "post-secure", "post-set"}

ASSUME SnapAssumption == SnapReason \subseteq Reason

(* What a roster says of the fleet: the panes seen, and who was an agent.  *)
(* An agent that was parked is a plain shell in the next one.              *)
Roster == [reason : Reason, agents : SUBSET Slot, panes : SUBSET Slot]

(* Where a command is: before a roll, holding a roster not yet saved,      *)
(* before the guard, at the three system calls that move the symlink, in   *)
(* exec before the parking or before the restoring, or not running.        *)
Stage == {"idle", "roll", "save", "guard", "unlink", "link", "replace", "exec", "restore"}

(* A command knows the roster it rolled and when, and the agents it is to  *)
(* restore; its leg says whether it is at the roster before or after a run. *)
Process ==
  [verb : Verb, force : BOOLEAN, stage : Stage, leg : {"pre", "post"},
   at : Nat, draft : Roster, task : SUBSET Slot]

TypeOK ==
  /\ agents \subseteq panes /\ panes \subseteq Slot
  /\ parked \subseteq Slot /\ lastPark \subseteq Slot
  /\ posing \subseteq DOMAIN files
  /\ events \in 0..MaxEvents
  /\ clock \in 0..MaxRolls
  /\ DOMAIN files \subseteq 1..clock
  /\ \A t \in DOMAIN files : files[t] \in Roster
  /\ current \in {0} \cup DOMAIN files
  /\ tmp \in {0} \cup DOMAIN files
  /\ proc \in [Proc -> Process]
  /\ \A p \in Proc : proc[p].at <= clock

Nothing == [reason |-> "manual", agents |-> {}, panes |-> {}]

Idle == [verb |-> "snap", force |-> FALSE, stage |-> "idle", leg |-> "post",
         at |-> 0, draft |-> Nothing, task |-> {}]

Init ==
  /\ panes = Slot
  /\ agents = Slot
  /\ parked = {} /\ lastPark = {} /\ posing = {} /\ events = 0
  /\ clock = 0
  /\ files = [t \in {} |-> Nothing]
  /\ current = 0
  /\ tmp = 0
  /\ proc = [p \in Proc |-> Idle]

-----------------------------------------------------------------------------
(* occupant_guard, on numbers of occupants.                                *)
GuardAllows(previous, new) ==
  \/ previous = 0
  \/ /\ new * DropDen > previous * (DropDen - DropNum)
     /\ previous >= MinOccupants => new >= MinOccupants

(* current_count: 0 also when there is no current.json. *)
CountOf(t) == IF t = 0 THEN 0 ELSE Cardinality(files[t].panes)

(* --force reaches the guard of a snap and of the roster written before a  *)
(* run, not of the one written after it.                                   *)
Forced(p) == proc[p].force /\ (proc[p].leg = "pre" \/ proc[p].verb = "snap")

(* set_source: current.json, unless that was written after a secure; then  *)
(* the newest roster written before one.                                   *)
PreSecure == {t \in DOMAIN files : files[t].reason = "pre-secure"}

(* Wrong: the oldest. *)
SetOldestSource ==
  IF current # 0 /\ files[current].reason = "post-secure" /\ PreSecure # {}
    THEN CHOOSE t \in PreSecure : \A u \in PreSecure : u >= t
    ELSE current

SetSource ==
  IF current # 0 /\ files[current].reason = "post-secure" /\ PreSecure # {}
    THEN CHOOSE t \in PreSecure : \A u \in PreSecure : u <= t
    ELSE current

(* The reasons a command may give its roster: the timer's snap says        *)
(* heartbeat, an operator's whatever its -m says.                          *)
ReasonsOf(p) ==
  CASE proc[p].verb = "snap" -> IF p \in Timer THEN {"heartbeat"} ELSE SnapReason
    [] proc[p].leg = "pre" -> IF proc[p].verb = "secure" THEN {"pre-secure"} ELSE {"pre-relieve"}
    [] OTHER -> IF proc[p].verb = "secure" THEN {"post-secure"} ELSE {"post-set"}

(* The command goes on to a stage with a leg, a roster rolled at a time,   *)
(* and a task; or it ends, and what it knew is gone.                       *)
Continue(p, s, l, time, roster, k) ==
  proc' = [proc EXCEPT ![p] =
            [verb |-> proc[p].verb, force |-> proc[p].force, stage |-> s, leg |-> l,
             at |-> time, draft |-> roster, task |-> k]]

Go(p, s) == Continue(p, s, proc[p].leg, proc[p].at, proc[p].draft, proc[p].task)

End(p) == proc' = [proc EXCEPT ![p] = Idle]

-----------------------------------------------------------------------------
(* A command starts with a roll; set starts from a roster on disk.  (The   *)
(* refusals and the dry run of _run_plan end it with nothing written.)     *)
Begin(p) ==
  /\ proc[p].stage = "idle"
  /\ clock < MaxRolls
  /\ \E v \in Verb, f \in BOOLEAN :
       /\ p \in Timer => v = "snap" /\ ~f
       /\ v = "set" => SetSource \in DOMAIN files /\ ~f
       /\ proc' = [proc EXCEPT ![p] =
            [verb |-> v, force |-> f, stage |-> IF v = "set" THEN "restore" ELSE "roll",
             leg |-> IF v \in {"secure", "relieve"} THEN "pre" ELSE "post", at |-> 0, draft |-> Nothing,
             task |-> IF v = "set" THEN files[SetSource].agents ELSE {}]]
  /\ UNCHANGED <<store, fleet, past>>

(* Wrong: goes on without saving the roster. *)
RollUnsaved(p) ==
  /\ proc[p].stage = "roll"
  /\ clock < MaxRolls
  /\ clock' = clock + 1
  /\ \E up \in SUBSET Host, why \in ReasonsOf(p) :
       LET seen == {s \in Slot : HostOf[s] \in up}
           roster == [reason |-> why, agents |-> agents \cap seen, panes |-> panes \cap seen]
       IN  IF up = {} /\ proc[p].leg = "post"
             THEN End(p)
             ELSE Continue(p, "guard", proc[p].leg, clock + 1, roster, {})
  /\ UNCHANGED <<files, current, tmp, fleet, past>>

(* _roll: the hosts that answer tell what runs on them.  A snap, and the   *)
(* roster after a run, is not written when none does; the roster before a  *)
(* run is.                                                                 *)
Roll(p) ==
  /\ proc[p].stage = "roll"
  /\ clock < MaxRolls
  /\ clock' = clock + 1
  /\ \E up \in SUBSET Host, why \in ReasonsOf(p) :
       LET seen == {s \in Slot : HostOf[s] \in up}
           roster == [reason |-> why, agents |-> agents \cap seen, panes |-> panes \cap seen]
       IN  IF up = {} /\ proc[p].leg = "post"
             THEN End(p)
             ELSE Continue(p, "save", proc[p].leg, clock + 1, roster, {})
  /\ UNCHANGED <<files, current, tmp, fleet, past>>

(* roster.save: the timestamped file, by an atomic rename. *)
Save(p) ==
  /\ proc[p].stage = "save"
  /\ files' = [t \in DOMAIN files \cup {proc[p].at} |-> IF t = proc[p].at THEN proc[p].draft ELSE files[t]]
  /\ IF proc[p].draft.reason # "pre-secure" THEN UNCHANGED past
     ELSE IF proc[p].verb = "snap" THEN posing' = posing \cup {proc[p].at} /\ UNCHANGED lastPark
     ELSE lastPark' = {} /\ UNCHANGED posing
  /\ Go(p, "guard")
  /\ UNCHANGED <<clock, current, tmp, fleet>>

(* The guard, against the current.json of this moment.  A refusal ends the *)
(* command: before a run nothing is executed, after one the link is kept.  *)
Guard(p) ==
  /\ proc[p].stage = "guard"
  /\ IF Forced(p) \/ GuardAllows(CountOf(current), Cardinality(proc[p].draft.panes))
       THEN Go(p, "unlink") ELSE End(p)
  /\ UNCHANGED <<store, fleet, past>>

(* write moves the link in three system calls on one shared temporary      *)
(* name: unlink it, symlink it, rename it over current.json.  The second   *)
(* fails when another process has put it back, the third when it has been  *)
(* taken away; either ends the command with a traceback.                   *)
Unlink(p) ==
  /\ proc[p].stage = "unlink"
  /\ tmp' = 0
  /\ Go(p, "link")
  /\ UNCHANGED <<clock, files, current, fleet, past>>

Link(p) ==
  /\ proc[p].stage = "link"
  /\ IF tmp = 0 THEN tmp' = proc[p].at /\ Go(p, "replace")
                ELSE tmp' = tmp /\ End(p)
  /\ UNCHANGED <<clock, files, current, fleet, past>>

Replace(p) ==
  /\ proc[p].stage = "replace"
  /\ tmp' = 0
  /\ current' = IF tmp = 0 THEN current ELSE tmp
  /\ IF tmp # 0 /\ proc[p].leg = "pre" THEN Go(p, "exec") ELSE End(p)
  /\ UNCHANGED <<clock, files, fleet, past>>

(* Wrong: parks every agent there is, not those of the roster just saved. *)
ParkAnyone(p) ==
  /\ proc[p].stage = "exec"
  /\ \E gone \in SUBSET agents :
       /\ agents' = agents \ gone
       /\ parked' = parked \cup gone
       /\ lastPark' = IF proc[p].verb = "secure" THEN lastPark \cup gone ELSE lastPark
       /\ \/ proc[p].verb = "relieve" /\ Continue(p, "restore", "post", 0, Nothing, gone)
          \/ proc[p].verb = "secure" /\ (Continue(p, "roll", "post", 0, Nothing, {}) \/ End(p))
  /\ UNCHANGED <<store, panes, events, posing>>

(* exec's steps on agents, as one step: some of those the plan knew exit.  *)
(* A relieve goes on to restore them.  The roster after the run is taken   *)
(* unless exec gave up every host.                                         *)
Park(p) ==
  /\ proc[p].stage = "exec"
  /\ \E gone \in SUBSET (proc[p].draft.agents \cap agents) :
       /\ agents' = agents \ gone
       /\ parked' = parked \cup gone
       /\ lastPark' = IF proc[p].verb = "secure" THEN lastPark \cup gone ELSE lastPark
       /\ \/ proc[p].verb = "relieve" /\ Continue(p, "restore", "post", 0, Nothing, gone)
          \/ proc[p].verb = "secure" /\ (Continue(p, "roll", "post", 0, Nothing, {}) \/ End(p))
  /\ UNCHANGED <<store, panes, events, posing>>

Restore(p) ==
  /\ proc[p].stage = "restore"
  /\ \E back \in SUBSET proc[p].task :
       /\ agents' = agents \cup back
       /\ panes' = panes \cup back
       /\ parked' = parked \ back
       /\ lastPark' = lastPark \ back
  /\ Continue(p, "roll", "post", 0, Nothing, {}) \/ End(p)
  /\ UNCHANGED <<store, events, posing>>

(* The command is killed. *)
Die(p) ==
  /\ proc[p].stage # "idle"
  /\ End(p)
  /\ UNCHANGED <<store, fleet, past>>

(* A host reboots and its mux comes back empty (#3415); somebody starts an *)
(* agent by hand.                                                          *)
Reboot(h) ==
  /\ events < MaxEvents
  /\ events' = events + 1
  /\ panes' = {s \in panes : HostOf[s] # h}
  /\ agents' = {s \in agents : HostOf[s] # h}
  /\ UNCHANGED <<store, parked, past, proc>>

StartByHand(s) ==
  /\ events < MaxEvents
  /\ s \notin agents
  /\ events' = events + 1
  /\ panes' = panes \cup {s}
  /\ agents' = agents \cup {s}
  /\ parked' = parked \ {s}
  /\ lastPark' = lastPark \ {s}
  /\ UNCHANGED <<store, posing, proc>>

Command(p) ==
  \/ Begin(p) \/ Roll(p) \/ Save(p) \/ Guard(p)
  \/ Unlink(p) \/ Link(p) \/ Replace(p) \/ Park(p) \/ Restore(p) \/ Die(p)

Next ==
  \/ \E p \in Proc : Command(p)
  \/ \E h \in Host : Reboot(h)
  \/ \E s \in Slot : StartByHand(s)

Spec == Init /\ [][Next]_vars

-----------------------------------------------------------------------------
(* roster.write keeps every timestamped file "so nothing is lost": an      *)
(* agent a verb made exit is an agent in a roster on disk, whatever was    *)
(* refused, killed or overtaken since, so some `set --from` restores it.   *)
NothingLost == \A s \in parked : \E t \in DOMAIN files : s \in files[t].agents

(* set_source: while current.json is the roster after a secure, `set`      *)
(* falls in from a roster in which every agent the last secure parked is   *)
(* still an agent, unless somebody's `snap -m pre-secure` has since taken  *)
(* the place of the secure's own roster, which set_source tells by nothing *)
(* but its reason.                                                         *)
SetSeesLastPark ==
  current # 0 /\ files[current].reason = "post-secure" /\ SetSource \notin posing
    => lastPark \subseteq files[SetSource].agents

(* The occupant guard: without --force, current.json is never moved to a   *)
(* roster the guard would refuse against the roster it replaces.           *)
GuardKept ==
  [][ \A p \in Proc :
        proc[p].stage = "replace" /\ proc'[p].stage # "replace" /\ current' # current /\ ~Forced(p)
          => GuardAllows(CountOf(current), CountOf(current')) ]_vars

=============================================================================
