------------------------------ MODULE Planner ------------------------------
(***************************************************************************)
(* The three planners (plan_secure.py, plan_set.py, plan_relieve.py): pure *)
(* functions from a roster and the operator's options to a plan.  A roster *)
(* is the sequence of its occupants in layout order, which also stands for *)
(* the recorded shape.  What never changes about an occupant is in Trait.  *)
(* A session here is a pair (host, session) of the code.                   *)
(***************************************************************************)
EXTENDS Plan, SequencesExt

CONSTANTS
  Session, NoSession,
  HostOf,         \* the host of each session
  Mux,            \* "herdr", "tmux" or "cmux", per host
  Cockpit,        \* the host Watchbill runs on
  Attended,       \* herdr hosts with attach_before_resume
  SelfPane,       \* the cockpit's own pane (HERDR_PANE_ID); 0: not inside herdr
  Label,          \* the labels of workspaces and tabs
  Trait           \* what is known of each slot, see below

ASSUME PlannerAssumption ==
  /\ NoSession \notin Session /\ IsFiniteSet(Session)
  /\ HostOf \in [Session -> Host]
  /\ \A h \in Host : \E s \in Session : HostOf[s] = h    \* sessions[0], cli.py:169
  /\ Mux \in [Host -> {"herdr", "tmux", "cmux"}]
  /\ Cockpit \in Host
  /\ Attended \subseteq Host
  /\ SelfPane \in Nat
  /\ {"", "watchbill"} \subseteq Label         \* none, and that of an empty session
  /\ \A s \in Slot :
       /\ Trait[s].guard \in {"none", "excluded", "ignored"}   \* hosts.toml exclude, ignore
       /\ Trait[s].config \in BOOLEAN      \* an agent configuration was recorded
       /\ Trait[s].seat \in BOOLEAN        \* with environment to restore
       /\ Trait[s].auto \in BOOLEAN        \* cmux resumes the conversation itself
       /\ Trait[s].prompt \in BOOLEAN      \* it has a resume prompt
       /\ Trait[s].relaunch \in BOOLEAN    \* its command is in the allowlist

(* An occupant of a roster: its slot, where its pane is (ids and labels),  *)
(* and what was seen in it.  Its role is "agent", "watcher" (a poller or a *)
(* server too), "shell" (an editor too) or "bridge".                       *)
HostOfOccupant(o) == HostOf[o.session]
(* Wrong: only what is out of scope is left alone. *)
ProtectedIgnored(o) == Trait[o.slot].guard = "ignored"

Protected(o) == Trait[o.slot].guard # "none"

SessionsOf(roster) == {roster[i].session : i \in DOMAIN roster}

Some(roster, P(_)) == \E i \in DOMAIN roster : P(roster[i])

(* Those of a sequence that P holds of, in their order. *)
Selection(seq, P(_)) == FlattenSeq([i \in DOMAIN seq |-> IF P(seq[i]) THEN <<seq[i]>> ELSE << >>])

-----------------------------------------------------------------------------
(* Steps.  target is a pane id known when the plan is made, a slot whose   *)
(* pane exec looks up when the step runs (a placeholder), or NoSlot.       *)
NoPlace == [ws |-> "", tab |-> "", at |-> 0]

KindOf(op, h) ==
  CASE op \in {"snap", "guard"} -> op
    [] op \in {"host-start", "set-complete", "ids"} -> "journal"
    [] op = "expect" -> "note"
    [] op = "config" -> "check"
    [] op \in {"keep", "action", "start", "reach"} -> "shell"
    [] op = "stop" /\ Mux[h] = "cmux" -> "shell"
    [] op \in {"exit", "idle", "up", "verify", "native"} -> "wait"
    [] OTHER -> "herdr"

ReadOnly == {"guard", "reach", "up", "verify", "expect", "config", "idle"}

Blank(op, h) ==
  [op |-> op, kind |-> KindOf(op, h), host |-> h, slot |-> NoSlot, mutating |-> op \notin ReadOnly,
   restore |-> FALSE, never |-> FALSE, session |-> NoSession, target |-> NoSlot,
   creates |-> NoSlot, place |-> NoPlace, text |-> ""]

OnSession(op, s) == [Blank(op, HostOf[s]) EXCEPT !.session = s]

(* A step about occupant o, on the pane target names. *)
About(op, o, target) == [OnSession(op, o.session) EXCEPT !.slot = o.slot, !.target = target]

Typed(o, target, text) ==
  << [About("type", o, target) EXCEPT !.text = text], About("enter", o, target) >>

-----------------------------------------------------------------------------
(* park_steps *)
IsSelf(o) == HostOfOccupant(o) = Cockpit /\ SelfPane # 0 /\ o.pane = SelfPane

Candidate(o) == ~Protected(o) /\ ~IsSelf(o) /\ o.role \in {"agent", "watcher"}

(* A blocked agent is refused whatever the flags; any other that is not    *)
(* known to be at its prompt, without --force.                             *)
ParkRefused(o, force) ==
  /\ Candidate(o) /\ o.role = "agent"
  /\ o.status = "blocked" \/ (o.status # "idle" /\ ~force)

IsParked(o, force) == Candidate(o) /\ ~ParkRefused(o, force)

(* Wrong: typed behind what is in the input already. *)
ParkUncleared(o) ==
  IF o.role = "agent" THEN Typed(o, o.pane, "exit") \o <<About("exit", o, o.pane)>>
  ELSE <<About("interrupt", o, o.pane)>>

(* Wrong: nobody waits until the agent has exited. *)
ParkUnwaited(o) ==
  IF o.role = "agent" THEN <<About("clear", o, o.pane)>> \o Typed(o, o.pane, "exit")
  ELSE <<About("interrupt", o, o.pane)>>

ParkSteps(o) ==
  IF o.role = "agent"
    THEN <<About("clear", o, o.pane)>> \o Typed(o, o.pane, "exit") \o <<About("exit", o, o.pane)>>
    ELSE <<About("interrupt", o, o.pane)>>

Parked(pool, force) == Selection(pool, LAMBDA o : IsParked(o, force))
AllParkSteps(pool, force) ==
  LET parked == Parked(pool, force) IN FlattenSeq([i \in DOMAIN parked |-> ParkSteps(parked[i])])

-----------------------------------------------------------------------------
(* select: the occupants the operator means.  Without targets: every one   *)
(* (of opts.hosts) that is not protected or on the cockpit; with targets a *)
(* protected one, or one on the cockpit, is refused.                       *)
OffLimits(o, opts) == Protected(o) \/ (HostOfOccupant(o) = Cockpit /\ ~opts.local)

Named(o, opts) ==
  IF opts.targets = {} THEN HostOfOccupant(o) \in opts.hosts ELSE o.slot \in opts.targets

Selected(roster, opts) == Selection(roster, LAMBDA o : Named(o, opts) /\ ~OffLimits(o, opts))

SelectRefused(roster, opts) ==
  /\ opts.targets # {}
  /\ \/ Some(roster, LAMBDA o : Named(o, opts) /\ OffLimits(o, opts))
     \/ \E t \in opts.targets : ~Some(roster, LAMBDA o : o.slot = t)

-----------------------------------------------------------------------------
PlanOf(verb, steps, refused, opts) ==
  [verb |-> verb, steps |-> steps, refused |-> refused, approved |-> opts.approved, force |-> FALSE]

Snap == Blank("snap", Cockpit)

(* plan_secure: park what is selected, then close the workspaces (fold) or *)
(* stop the sessions (dismiss, host), unless an excluded occupant lives in *)
(* one.                                                                    *)
SecurePool(roster, opts) ==
  IF opts.mode # "host" THEN Selected(roster, opts)
  ELSE LET hosts == {HostOf[s] : s \in SessionsOf(Selected(roster, opts))}
       IN Selection(roster, LAMBDA o : /\ HostOfOccupant(o) \in hosts
                                       /\ HostOfOccupant(o) # Cockpit \/ opts.local)

SecureKills(roster, opts) ==
  LET pool == SecurePool(roster, opts)
      parked == Parked(pool, opts.force)
  IN {o \in {roster[i] : i \in DOMAIN roster} :
        CASE opts.mode = "fold" -> Some(parked, LAMBDA p : p.session = o.session /\ p.ws = o.ws)
          [] opts.mode \in {"dismiss", "host"} -> o.session \in SessionsOf(pool)
          [] OTHER -> FALSE}

(* A workspace is closed once, by the first of its panes that was parked. *)
Folds(parked) ==
  LET first(i) == \A j \in 1..(i - 1) : parked[j].session # parked[i].session \/ parked[j].ws # parked[i].ws
      fold(o) == [OnSession("fold", o.session) EXCEPT !.target = o.pane]
  IN FlattenSeq([i \in DOMAIN parked |-> IF first(i) THEN <<fold(parked[i])>> ELSE << >>])

SecureClosings(roster, opts) ==
  LET pool == SecurePool(roster, opts)
  IN CASE opts.mode = "fold" -> Folds(Parked(pool, opts.force))
       [] opts.mode \in {"dismiss", "host"} -> SetToSeq({OnSession("stop", s) : s \in SessionsOf(pool)})
       [] OTHER -> << >>

PlanSecure(roster, opts) ==
  IF opts.mode = "detach" THEN PlanOf("secure", <<Snap>>, FALSE, opts)
  ELSE LET pool == SecurePool(roster, opts)
       IN PlanOf("secure",
            <<Snap>> \o AllParkSteps(pool, opts.force) \o SecureClosings(roster, opts),
            \/ SelectRefused(roster, opts)
            \/ Some(pool, LAMBDA o : ParkRefused(o, opts.force))
            \/ \E o \in SecureKills(roster, opts) : Trait[o.slot].guard = "excluded"
            \/ /\ opts.mode \in {"dismiss", "host"}
               /\ \E s \in SessionsOf(pool) : Mux[HostOf[s]] = "cmux",
            opts)

-----------------------------------------------------------------------------
(* start_steps: a tmux server starts with its first pane, for slot boot. *)
StartSteps(s, boot, place) ==
  << [OnSession("start", s) EXCEPT !.creates = boot, !.place = place], OnSession("up", s) >>

(* attach_steps: a viewport, when the host asks for one, split off the     *)
(* pane Watchbill runs in.                                                 *)
AttachSteps(s) ==
  IF HostOf[s] \in Attended /\ Mux[HostOf[s]] = "herdr" /\ SelfPane # 0 /\ Mux[Cockpit] = "herdr"
    THEN << Blank("viewport", Cockpit), Blank("attach", Cockpit) >>
    ELSE << >>

(* The shape: one step for each wanted pane, in layout order.  The first   *)
(* of a workspace creates it, the first of a further tab creates the tab,  *)
(* the others split off the first pane of their tab.  With a live roster   *)
(* the first ones are taken as they are.  place tells exec which restored  *)
(* pane to take instead: its number is counted over the wanted panes.      *)
SameTab(o, q) == o.tab = q.tab
FirstOfTab(want, i) == \A j \in 1..(i - 1) : ~SameTab(want[j], want[i])
FirstOfWorkspace(want, i) == \A j \in 1..(i - 1) : want[j].ws # want[i].ws
LeadOfTab(want, i) == CHOOSE j \in 1..i : SameTab(want[j], want[i]) /\ FirstOfTab(want, j)
LeadOfWorkspace(want, i) == CHOOSE j \in 1..i : want[j].ws = want[i].ws /\ FirstOfWorkspace(want, j)
At(want, i) == Cardinality({j \in 1..(i - 1) : SameTab(want[j], want[i])})

PlaceOf(want, i) == [ws |-> want[i].wl, tab |-> want[i].tl, at |-> At(want, i)]

ShapeStep(op, want, i, target) ==
  [OnSession(op, want[i].session) EXCEPT !.target = target, !.creates = want[i].slot, !.place = PlaceOf(want, i)]

Creation(want, i, live, boot) ==
  IF FirstOfTab(want, i)
    THEN IF live \/ want[i].slot = boot THEN << >>
         ELSE IF FirstOfWorkspace(want, i) THEN <<ShapeStep("create", want, i, NoSlot)>>
         ELSE <<ShapeStep("tab", want, i, want[LeadOfWorkspace(want, i)].slot)>>
    ELSE <<ShapeStep("split", want, i, want[LeadOfTab(want, i)].slot)>>

(* tmux puts the recorded layout back on a tab it has rebuilt whole. *)
Relayout(roster, want, i, live) ==
  LET lastOfTab == \A j \in (i + 1)..Len(want) : ~SameTab(want[j], want[i])
      whole == At(want, i) + 1 = Len(Selection(roster, LAMBDA o : SameTab(o, want[i])))
  IN IF Mux[HostOf[want[i].session]] = "tmux" /\ lastOfTab /\ whole /\ At(want, i) > 0 /\ ~live
       THEN <<OnSession("layout", want[i].session)>> ELSE << >>

ShapeSteps(roster, want, live, boot) ==
  FlattenSeq([i \in DOMAIN want |-> Creation(want, i, live, boot) \o Relayout(roster, want, i, live)])

(* The steps that bring one occupant back, each of which can cost only     *)
(* this occupant (phase = "restore").                                      *)
AgentSteps(o, target, live, noPrompt) ==
  LET mux == Mux[HostOfOccupant(o)]
      native == mux = "cmux" /\ ~live /\ Trait[o.slot].auto
  IN   (IF Trait[o.slot].config THEN <<About("config", o, NoSlot)>> ELSE << >>)
    \o (IF Trait[o.slot].seat /\ ~native THEN Typed(o, target, "seat") ELSE << >>)
    \o (IF native THEN <<About("native", o, target)>>
        ELSE IF mux = "herdr" THEN <<About("agent", o, target)>>
        ELSE Typed(o, target, "resume"))
    \o (IF noPrompt \/ ~Trait[o.slot].prompt THEN << >>
        ELSE <<About("idle", o, target), About("clear", o, target)>>
             \o (IF mux = "herdr" THEN <<About("prompt", o, target)>>
                 ELSE << [About("prompt", o, target) EXCEPT !.text = "prompt"],
                         [About("enter", o, target) EXCEPT !.text = "prompt"] >>))

WatcherSteps(o, target) ==
  IF ~Trait[o.slot].relaunch THEN << >>
  ELSE <<About("relaunch", o, target)>>
       \o (IF Mux[HostOfOccupant(o)] = "cmux" THEN <<About("enter", o, target)>> ELSE << >>)

(* Wrong: looks up the pane of an occupant that never moved. *)
RestoreMapped(want, i, o, live, noPrompt) ==
  LET steps == CASE Protected(o) -> << >>
                 [] ~Protected(o) /\ o.role = "agent" -> AgentSteps(o, o.slot, live, noPrompt)
                 [] ~Protected(o) /\ o.role = "watcher" -> WatcherSteps(o, o.slot)
                 [] OTHER -> << >>
  IN [k \in DOMAIN steps |-> [steps[k] EXCEPT !.restore = TRUE]]

RestoreSteps(want, i, o, live, noPrompt) ==
  LET target == IF live /\ FirstOfTab(want, i) THEN o.pane ELSE o.slot
      steps == CASE Protected(o) -> << >>
                 [] ~Protected(o) /\ o.role = "agent" -> AgentSteps(o, target, live, noPrompt)
                 [] ~Protected(o) /\ o.role = "watcher" -> WatcherSteps(o, target)
                 [] OTHER -> << >>
  IN [k \in DOMAIN steps |-> [steps[k] EXCEPT !.restore = TRUE]]

(* set_steps for one session.  occs is the order of the occupants, want    *)
(* the same in layout order.                                               *)
SetGroup(roster, s, occs, live, running, noPrompt) ==
  LET mine == Selection(occs, LAMBDA o : o.session = s)
      want == Selection(roster, LAMBDA o : o.session = s /\ Some(mine, LAMBDA q : q.slot = o.slot))
      boot == IF ~running /\ Mux[HostOf[s]] = "tmux" THEN want[1].slot ELSE NoSlot
      spot(o) == CHOOSE i \in DOMAIN want : want[i].slot = o.slot
  IN   <<OnSession("reach", s)>>
    \o (IF running THEN << >> ELSE StartSteps(s, boot, PlaceOf(want, 1)))
    \o AttachSteps(s)
    \o ShapeSteps(roster, want, live, boot)
    \o FlattenSeq([i \in DOMAIN mine |-> RestoreSteps(want, spot(mine[i]), mine[i], live, noPrompt)])
    \o <<OnSession("ids", s)>>

SetSteps(roster, occs, live, running, noPrompt) ==
  LET sessions == SetToSeq(SessionsOf(occs))
  IN FlattenSeq([i \in DOMAIN sessions |->
                   SetGroup(roster, sessions[i], occs, live, HostOf[sessions[i]] \in running, noPrompt)])
     \o <<Snap>>

(* plan_set, as cmd_set calls it: from a roster on disk, with no live one. *)
(* opts.running: the hosts whose probe found a server.                     *)
PlanSet(roster, opts) ==
  LET occs == Selected(roster, opts)
  IN PlanOf("set",
       IF occs = << >> THEN << >>
       ELSE SetSteps(roster, occs, FALSE, opts.running, opts.noPrompt),
       SelectRefused(roster, opts), opts)

-----------------------------------------------------------------------------
(* The blast radius of an action: the roles it parks and whether it stops  *)
(* the sessions.  What custom parks and stops is the operator's choice.    *)
Parks(opts) ==
  CASE opts.action \in {"upgrade-mux", "restart-harness", "omarchy-update", "upgrade-agents"} -> {"agent"}
    [] opts.action = "install-plugin" -> IF opts.stop THEN {"agent"} ELSE {}
    [] opts.action = "custom" -> opts.park
    [] OTHER -> {}

Stops(opts) ==
  CASE opts.action \in {"upgrade-mux", "restart-harness", "omarchy-update"} -> ~opts.live
    [] opts.action \in {"install-plugin", "custom"} -> opts.stop /\ ~opts.live
    [] OTHER -> FALSE

(* Commands that need no running server go before the stop. *)
Early(opts) ==
  CASE opts.action \in {"upgrade-agents", "reload-config", "install-plugin", "custom"} -> <<"action">>
    [] opts.action = "upgrade-mux" /\ opts.live -> <<"action">>
    [] OTHER -> << >>

Late(opts) ==
  IF opts.action = "omarchy-update" \/ (opts.action = "upgrade-mux" /\ ~opts.live) THEN <<"action">> ELSE << >>

-----------------------------------------------------------------------------
(* plan_relieve: the steps of the window of one host. *)
InScope(h, opts) == (h # Cockpit \/ opts.local) /\ h \notin opts.done

Pool(roster, h, opts) ==
  IF opts.live THEN << >>
  ELSE Selection(roster, LAMBDA o : /\ HostOfOccupant(o) = h /\ o.role \in Parks(opts) /\ ~Protected(o)
                                    /\ opts.action = "upgrade-agents" => o.slot \in opts.kinds)

HostRefused(roster, h, opts) ==
  \/ h \notin opts.probed \/ h \in opts.unavailable
  \/ opts.reboot /\ (h = Cockpit \/ ~opts.allowReboot)
  \/ opts.live /\ h \notin opts.handoff
  \/ Some(Pool(roster, h, opts), LAMBDA o : ParkRefused(o, opts.force))
  \/ Stops(opts) /\ Some(roster, LAMBDA o : HostOfOccupant(o) = h /\ Trait[o.slot].guard = "excluded")

HostSessions(roster, h) ==
  LET seen == {s \in SessionsOf(roster) : HostOf[s] = h}
  IN SetToSeq(IF seen # {} THEN seen ELSE {s \in Session : HostOf[s] = h})

(* A stop takes down everything in the session, so everything but bridges, *)
(* protected occupants and agents that were not parked is put back.        *)
Restored(roster, h, opts) ==
  LET parked == Parked(Pool(roster, h, opts), opts.force)
      others == Selection(roster, LAMBDA o : /\ HostOfOccupant(o) = h /\ ~Protected(o)
                                             /\ o.role \notin {"agent", "bridge"}
                                             /\ ~Some(parked, LAMBDA p : p.slot = o.slot))
  IN IF Stops(opts) THEN parked \o others ELSE parked

(* Wrong: the session is not started. *)
BringUpNothing(roster, s) == AttachSteps(s)

BringUp(roster, s) ==
  LET all == Selection(roster, LAMBDA o : o.session = s)
  IN StartSteps(s, NoSlot, IF all = << >> THEN [NoPlace EXCEPT !.ws = "watchbill"] ELSE [NoPlace EXCEPT !.ws = all[1].wl])
     \o AttachSteps(s)

EachSession(sessions, Steps(_)) == FlattenSeq([i \in DOMAIN sessions |-> Steps(sessions[i])])
Commands(names, h) == [i \in DOMAIN names |-> Blank(names[i], h)]

RelieveHost(roster, h, opts) ==
  LET sessions == HostSessions(roster, h)
      stop == Stops(opts)
      restored == Restored(roster, h, opts)
      verify == <<OnSession("verify", sessions[1])>> \o (IF opts.expected THEN <<Blank("expect", h)>> ELSE << >>)
  IN   <<Blank("host-start", h)>>
    \o AllParkSteps(Pool(roster, h, opts), opts.force)
    \o (IF Mux[h] = "herdr" THEN EachSession(sessions, LAMBDA s : <<OnSession("keep", s)>>) ELSE << >>)
    \o Commands(Early(opts), h)
    \o (IF stop THEN EachSession(sessions, LAMBDA s : <<OnSession("stop", s)>>) ELSE << >>)
    \o Commands(Late(opts), h)
    \o (IF stop THEN << >> ELSE verify)
    \o (IF restored # << >> THEN SetSteps(roster, restored, ~stop, IF stop THEN {} ELSE {h}, opts.noPrompt)
        ELSE IF stop THEN EachSession(sessions, LAMBDA s : BringUp(roster, s))
        ELSE << >>)
    \o (IF stop THEN verify ELSE << >>)
    \o <<Blank("set-complete", h)>>

PlanRelieve(roster, opts) ==
  LET hosts == Selection(opts.hosts, LAMBDA h : InScope(h, opts))
  IN PlanOf("relieve",
       <<Snap, Blank("guard", Cockpit)>> \o FlattenSeq([i \in DOMAIN hosts |-> RelieveHost(roster, hosts[i], opts)]),
       \E i \in DOMAIN hosts : HostRefused(roster, hosts[i], opts),
       opts)
=============================================================================
