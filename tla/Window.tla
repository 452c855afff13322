------------------------------- MODULE Window -------------------------------
(***************************************************************************)
(* Verbs run one after another against a fleet that changes under them:    *)
(* each rolls the fleet, plans (Planner) and runs the plan (Executor).     *)
(* What a step does to the panes of a multiplexer, and what the agents do  *)
(* in the meantime, is the environment.                                    *)
(***************************************************************************)
EXTENDS Executor, Planner

CONSTANTS
  Worlds,      \* the fleets to start from: panes and the sessions that are up
  Requests,    \* what the operator may ask for: [verb, resume, opts]
  MaxRuns,     \* how many verbs are run
  MaxTurns,    \* how often an agent changes its status by itself
  Faults       \* the operations whose commands may fail

VARIABLES
  world,       \* the multiplexers: panes, and the sessions that are up
  memory,      \* exec's pane_map, _claimed and _restored
  source,      \* the roster a set would fall in from
  request,     \* what the operator asked for
  turns,       \* status changes so far
  away,        \* history: the conversations that ran and now do not
  blind        \* history: the panes with an agent a wait took for gone

fleet == <<world, memory, source, request, turns, away, blind>>

allVars == <<vars, fleet>>

(* A pane: where it is (ws and tab are the ids of the workspace and tab,   *)
(* the number of their first pane; wl and tl their labels), the slot of    *)
(* that place, what runs in it, whose conversation that is, and what was   *)
(* typed into it and not submitted, for whom.                              *)
Pane ==
  [session : Session, ws : Nat, wl : Label, tab : Nat, tl : Label, slot : Slot,
   runs : {"shell", "agent", "watcher", "bridge", "down", "gone"},
   who : Slot \cup {NoSlot}, status : {"idle", "working", "blocked", "none"},
   typed : {"", "draft", "exit", "seat", "resume", "prompt", "relaunch", "mixed"},
   whose : Slot \cup {NoSlot}]

World == [panes : Seq(Pane), up : SUBSET Session]

ASSUME WindowAssumption ==
  /\ Worlds \subseteq World
  /\ Slot # {}
  /\ MaxRuns \in Nat /\ MaxTurns \in Nat
  /\ \A q \in Requests :
       /\ q.verb \in Verb
       /\ q.verb = "relieve" => "hosts" \in DOMAIN q.opts /\ q.opts.hosts \in Seq(Host)

Mem == [map : [Slot -> Nat], claimed : SUBSET Nat, seen : [Session -> SUBSET Nat], read : SUBSET Session]

FreshMemory == [map |-> [s \in Slot |-> 0], claimed |-> {}, seen |-> [s \in Session |-> {}], read |-> {}]

Alive(w, p) == p \in DOMAIN w.panes /\ w.panes[p].session \in w.up /\ w.panes[p].runs \notin {"down", "gone"}

AgentIsIn(w, p, slot) == Alive(w, p) /\ w.panes[p].runs = "agent" /\ w.panes[p].who = slot

(* The conversations that are running. *)
Running(w) == {slot \in Slot : \E p \in DOMAIN w.panes : AgentIsIn(w, p, slot)}

LivePanes(w, s) == {p \in DOMAIN w.panes : Alive(w, p) /\ w.panes[p].session = s}

-----------------------------------------------------------------------------
(* The roll: one occupant for each pane, in layout order. *)
Roll(w) ==
  LET pane == Selection([p \in DOMAIN w.panes |-> p], LAMBDA p : Alive(w, p))
      seen(p) == [slot |-> w.panes[p].slot, session |-> w.panes[p].session, pane |-> p,
                  ws |-> w.panes[p].ws, wl |-> w.panes[p].wl, tab |-> w.panes[p].tab, tl |-> w.panes[p].tl,
                  role |-> w.panes[p].runs, status |-> w.panes[p].status]
  IN [i \in DOMAIN pane |-> seen(pane[i])]

Idle == code # "running"

(* --resume: the hosts that the last relieve run in the journal completed. *)
LastRelieve ==
  LET runs == {journal[i].run : i \in {j \in DOMAIN journal : journal[j].verb = "relieve"}}
  IN IF runs = {} THEN 0 ELSE CHOOSE r \in runs : \A q \in runs : q <= r

ResumeDone ==
  {journal[i].host : i \in {j \in DOMAIN journal :
                              journal[j].run = LastRelieve /\ journal[j].status = "set-complete"}}

(* _probes looks at the first session of a host. *)
FirstSession(h) == CHOOSE s \in Session : HostOf[s] = h
ServerUp == {h \in Host : (\E s \in Session : HostOf[s] = h) /\ FirstSession(h) \in world.up}

PlanFor(q) ==
  CASE q.verb = "secure" -> PlanSecure(Roll(world), q.opts)
    [] q.verb = "set" -> PlanSet(source, [q.opts EXCEPT !.running = ServerUp])
    [] q.verb = "relieve" ->
         PlanRelieve(Roll(world), IF q.resume THEN [q.opts EXCEPT !.done = ResumeDone] ELSE q.opts)

(* A verb whose plan is refused runs nothing. *)
Begin(q) ==
  /\ Idle /\ run < MaxRuns
  /\ q.verb = "set" => source # << >>
  /\ q.resume => LastRelieve # 0
  /\ plan' = PlanFor(q)
  /\ ~plan'.refused
  /\ request' = q
  /\ run' = run + 1
  /\ pos' = 0 /\ attempt' = "none" /\ code' = "running"
  /\ failedHosts' = {} /\ failedSlots' = NoFailedSlots /\ result' = ZeroResult
  /\ memory' = FreshMemory
  /\ source' = IF q.verb = "set" THEN source ELSE Roll(world)
  /\ blind' = {}
  /\ UNCHANGED <<journal, world, turns, away>>

(* Wrong: set falls in from the newest roster. *)
EndNewest ==
  /\ Finish
  /\ source' = IF code' = "TRANSPORT" THEN source ELSE Roll(world)
  /\ UNCHANGED <<world, memory, request, turns, away, blind>>

(* The post-secure roster has the parked agents as shells: set then falls  *)
(* in from the pre-secure one.  After the other verbs it uses the post-set *)
(* roster, which is written unless every host was lost.                    *)
End ==
  /\ Finish
  /\ source' = IF plan.verb = "secure" \/ code' = "TRANSPORT" THEN source ELSE Roll(world)
  /\ UNCHANGED <<world, memory, request, turns, away, blind>>

-----------------------------------------------------------------------------
(* What a step does.  A result is an outcome with the world and exec's     *)
(* memory after it.                                                        *)
Result(out, w, m) == [out |-> out, world |-> w, memory |-> m]

Fails == {Result("fail", world, memory)}

(* A command with the effect w: done, or (a fault) reported as failed,     *)
(* with or without the effect.                                             *)
Does(w, m) ==
  {Result("ok", w, m)} \cup (IF This.op \in Faults THEN {Result("fail", world, memory), Result("fail", w, memory)} ELSE {})

Nothing == Does(world, memory)

With(p, q) == [world EXCEPT !.panes[p] = q]

(* herdr speaks to an agent by its name, wherever it is. *)
ByName(s) == s.op \in {"idle", "prompt"} /\ Mux[s.host] = "herdr"

WhereIs(slot) == {p \in DOMAIN world.panes : AgentIsIn(world, p, slot)}

PaneOf(s) ==
  IF ByName(s) THEN IF WhereIs(s.slot) = {} THEN 0 ELSE CHOOSE p \in WhereIs(s.slot) : TRUE
  ELSE IF s.target \in Slot THEN memory.map[s.target]
  ELSE IF s.target = NoSlot THEN 0 ELSE s.target

(* A placeholder that no step has filled: exec raises KeyError. *)
Unfilled(s) == ~ByName(s) /\ s.target \in Slot /\ memory.map[s.target] = 0

Shell(q) == [q EXCEPT !.runs = "shell", !.who = NoSlot, !.status = "none", !.typed = "", !.whose = NoSlot]
AgentIn(q, slot) ==
  [q EXCEPT !.runs = "agent", !.who = slot, !.status = "idle", !.typed = "", !.whose = NoSlot]
Job(q) == [Shell(q) EXCEPT !.runs = "watcher"]

Type(q, text, slot) ==
  IF q.typed = "" THEN [q EXCEPT !.typed = text, !.whose = slot] ELSE [q EXCEPT !.typed = "mixed"]

Submitted(q) == [q EXCEPT !.typed = "", !.whose = NoSlot]

(* Enter.  An idle agent obeys /exit (the first Enter may only complete    *)
(* the command) and works on anything else; a working one queues it; a     *)
(* blocked one takes Enter as its answer.  A shell runs what was typed.    *)
Enter(q) ==
  LET goes == q.status = "idle" /\ q.typed = "exit"
  IN IF q.typed = "" /\ q.status # "blocked" THEN {q}
     ELSE CASE q.runs = "agent" /\ goes -> {Shell(q)} \cup (IF This.op \in Faults THEN {q} ELSE {})
            [] q.runs = "agent" /\ ~goes -> {[Submitted(q) EXCEPT !.status = "working"]}
            [] q.runs = "shell" /\ q.typed = "resume" ->
                 {AgentIn(q, q.whose)} \cup (IF This.op \in Faults THEN {Shell(q)} ELSE {})
            [] q.runs = "shell" /\ q.typed = "relaunch" -> {Job(q)}
            [] OTHER -> {Submitted(q)}

(* A step that acts on a pane of a multiplexer which is there. *)
OnPane(s) ==
  LET p == PaneOf(s)
      q == world.panes[p]
      mux == Mux[s.host]
  IN CASE s.op = "clear" -> Does(With(p, Submitted(q)), memory)
       [] s.op = "type" -> Does(With(p, Type(q, s.text, s.slot)), memory)
       \* a prompt and its Enter are refused when the screen shows a dialog
       [] s.op = "enter" -> IF s.text = "prompt" /\ q.status = "blocked" THEN Fails
                            ELSE UNION {Does(With(p, r), memory) : r \in Enter(q)}
       [] s.op = "interrupt" -> Does(With(p, IF q.runs = "watcher" THEN Shell(q) ELSE q), memory)
       \* the wait presses Enter once more when the agent is still there; on
       \* herdr it ends well when `agent get` fails, whatever the reason
       [] s.op = "exit" ->
            IF q.runs # "agent" THEN Nothing
            ELSE {Result(IF r.runs = "agent" THEN "fail" ELSE "ok", With(p, r), memory) : r \in Enter(q)}
                   \cup (IF This.op \in Faults THEN Fails ELSE {})
                   \cup (IF This.op \in Faults /\ mux = "herdr"
                           THEN {Result("ok", With(p, r), memory) : r \in {q} \cup Enter(q)} ELSE {})
       \* herdr refuses to start an agent where something runs
       [] s.op \in {"agent", "native"} ->
            IF q.runs = "shell" THEN Does(With(p, AgentIn(q, s.slot)), memory)
            ELSE IF s.op = "native" /\ q.runs = "agent" THEN Nothing ELSE Fails
       [] s.op = "idle" -> IF q.runs \in {"agent", "watcher"} /\ q.status # "working" THEN Nothing ELSE Fails
       [] s.op = "prompt" ->
            IF q.status = "blocked" THEN Fails
            ELSE IF mux = "herdr" THEN Does(With(p, [q EXCEPT !.status = "working"]), memory)
            ELSE Does(With(p, Type(q, s.text, s.slot)), memory)
       [] s.op = "relaunch" ->
            CASE mux = "tmux" -> Does(With(p, Job(q)), memory)     \* respawn-pane -k
              [] mux = "herdr" -> Does(With(p, IF q.runs = "shell" THEN Job(q) ELSE q), memory)
              [] OTHER -> Does(With(p, Type(q, "relaunch", s.slot)), memory)
       [] s.op = "fold" ->
            Does([world EXCEPT !.panes = [r \in DOMAIN world.panes |->
                    IF world.panes[r].session = q.session /\ world.panes[r].ws = q.ws
                      THEN [Shell(world.panes[r]) EXCEPT !.runs = "gone"] ELSE world.panes[r]]], memory)

-----------------------------------------------------------------------------
(* A server stops: herdr and cmux bring the layout back with plain shells  *)
(* when it starts again (herdr may have lost it, #3415), tmux nothing.     *)
Stopped(s) ==
  [world EXCEPT !.up = @ \ {s},
                !.panes = [p \in DOMAIN world.panes |->
                  LET q == world.panes[p]
                  IN IF q.session # s \/ q.runs = "gone" THEN q
                     ELSE [Shell(q) EXCEPT !.runs = IF Mux[HostOf[s]] = "tmux" THEN "gone" ELSE "down"]]]

Restarted(s, as) ==
  [world EXCEPT !.up = @ \cup {s},
                !.panes = [p \in DOMAIN world.panes |->
                  LET q == world.panes[p]
                  IN IF q.session = s /\ q.runs = "down" THEN [q EXCEPT !.runs = as] ELSE q]]

(* A new pane is the next number.  ws and tab 0: its own. *)
Added(w, s, ws, tab, place, slot) ==
  LET n == Len(w.panes) + 1
  IN [w EXCEPT !.panes = Append(@,
        [session |-> s, ws |-> IF ws = 0 THEN n ELSE ws, wl |-> place.ws, tab |-> IF tab = 0 THEN n ELSE tab,
         tl |-> place.tab, slot |-> slot, runs |-> "shell", who |-> NoSlot, status |-> "none",
         typed |-> "", whose |-> NoSlot])]

(* Wrong: an index is taken for an id. *)
BoundNext(m, slot, p) == IF slot = NoSlot THEN m ELSE [m EXCEPT !.map[slot] = p + 1]

Bound(m, slot, p) == IF slot = NoSlot THEN m ELSE [m EXCEPT !.map[slot] = p]

Exists(s, label) == \E p \in LivePanes(world, s) : world.panes[p].wl = label

Start(s) ==
  IF Mux[s.host] # "tmux"
    THEN Does(Restarted(s.session, "shell"), memory)
           \cup (IF This.op \in Faults /\ Mux[s.host] = "herdr" THEN Does(Restarted(s.session, "gone"), memory) ELSE {})
  ELSE IF Exists(s.session, s.place.ws) THEN Fails    \* duplicate session
  ELSE LET slot == IF s.creates = NoSlot THEN CHOOSE x \in Slot : TRUE ELSE s.creates
       IN Does(Added([world EXCEPT !.up = @ \cup {s.session}], s.session, 0, 0, s.place, slot),
               Bound(memory, s.creates, Len(world.panes) + 1))

(* _try_reuse.  The layout is read once, at the first step that could take *)
(* a pane from it; where that fails, no pane is taken from it at all.      *)
Looked(s) ==
  LET saw(panes) == [memory EXCEPT !.read = @ \cup {s.session}, !.seen[s.session] = panes]
  IN IF s.session \in memory.read THEN {memory}
     ELSE {saw(LivePanes(world, s.session))} \cup (IF This.op \in Faults THEN {saw({})} ELSE {})

(* Wrong: a restored pane can be taken twice. *)
ReusableTwice(s, m) ==
  LET seen == m.seen[s.session]
      inWs == {p \in seen : world.panes[p].wl = s.place.ws /\
                 \A r \in seen : world.panes[r].wl = s.place.ws => world.panes[p].ws <= world.panes[r].ws}
      inTab == {p \in inWs : world.panes[p].tl = s.place.tab /\
                 \A r \in inWs : world.panes[r].tl = s.place.tab => world.panes[p].tab <= world.panes[r].tab}
  IN {p \in inTab : Cardinality({r \in inTab : r < p}) = s.place.at}

(* The panes of a tab are in order. *)
Reusable(s, m) ==
  LET seen == m.seen[s.session]
      inWs == {p \in seen : world.panes[p].wl = s.place.ws /\
                 \A r \in seen : world.panes[r].wl = s.place.ws => world.panes[p].ws <= world.panes[r].ws}
      inTab == {p \in inWs : world.panes[p].tl = s.place.tab /\
                 \A r \in inWs : world.panes[r].tl = s.place.tab => world.panes[p].tab <= world.panes[r].tab}
  IN {p \in inTab : Cardinality({r \in inTab : r < p}) = s.place.at} \ m.claimed

Reused(s, m, p) == [Bound(m, s.creates, p) EXCEPT !.claimed = @ \cup {p}]

(* workspace create, tab create, pane split *)
MadeAnew(s, m) ==
  LET base == PaneOf(s)
      ws == IF s.op = "create" THEN 0 ELSE world.panes[base].ws
      tab == IF s.op = "split" THEN world.panes[base].tab ELSE 0
      wl == IF s.op = "create" THEN s.place.ws ELSE world.panes[base].wl
  IN IF s.op = "create" /\ Mux[s.host] = "tmux" /\ Exists(s.session, s.place.ws)
       THEN {Result("fail", world, m)}        \* duplicate session
     ELSE Does(Added(world, s.session, ws, tab, [s.place EXCEPT !.ws = wl], s.creates),
               Bound(m, s.creates, Len(world.panes) + 1))

Make(s) ==
  IF s.session \notin world.up THEN Fails
  ELSE UNION {IF Reusable(s, m) # {}
                THEN {Result("ok", world, Reused(s, m, CHOOSE p \in Reusable(s, m) : TRUE))}
                ELSE MadeAnew(s, m) : m \in Looked(s)}

Keys == {"clear", "type", "enter", "interrupt", "exit", "agent", "native", "idle", "prompt", "relaunch", "fold"}

Results(s) ==
  CASE ~CanFail(s) -> {Result("ok", world, memory)}
    [] CanFail(s) /\ Unfilled(s) -> Fails
    [] s.op \in {"create", "tab", "split"} /\ ~Unfilled(s) -> Make(s)
    [] s.op = "start" -> Start(s)
    \* tmux has no server to kill when it is down
    [] s.op = "stop" -> IF Mux[s.host] = "tmux" /\ s.session \notin world.up THEN Fails
                        ELSE Does(Stopped(s.session), memory)
    [] s.op \in {"up", "layout"} -> IF s.session \in world.up THEN Nothing ELSE Fails
    [] s.op = "verify" -> IF s.session \in world.up \/ Mux[s.host] = "herdr" THEN Nothing ELSE Fails
    [] s.op \in Keys /\ ~Unfilled(s) -> IF s.op = "exit" /\ ~Alive(world, PaneOf(s)) THEN Nothing
                                        ELSE IF Alive(world, PaneOf(s)) THEN OnPane(s) ELSE Fails
    [] s.op \in {"keep", "action", "reach", "viewport", "attach", "config"} -> Nothing

Run ==
  /\ Attempt
  /\ \E r \in Results(This) :
       /\ attempt' = r.out
       /\ world' = r.world
       /\ memory' = r.memory
  /\ away' = (away \cup Running(world)) \ Running(world')
  /\ blind' = {p \in blind \cup (IF This.op = "exit" /\ attempt' = "ok" THEN {PaneOf(This)} ELSE {}) :
                p \in DOMAIN world'.panes /\ world'.panes[p].runs = "agent"}
  /\ UNCHANGED <<source, request, turns>>

-----------------------------------------------------------------------------
(* An agent changes its status by itself: someone talks to it, it asks for *)
(* an approval, it is done.                                                *)
Turn(p) ==
  /\ turns < MaxTurns
  /\ code = "running"
  /\ Alive(world, p) /\ world.panes[p].runs = "agent"
  /\ \E st \in {"idle", "working", "blocked"} \ {world.panes[p].status} :
       /\ world.panes[p].status = "idle" => st = "working"
       /\ world' = [world EXCEPT !.panes[p].status = st]
  /\ turns' = turns + 1
  /\ UNCHANGED <<vars, memory, source, request, away, blind>>

Killed == Crash /\ UNCHANGED fleet

Bookkeeping == (Admit \/ Skip \/ RecordOk \/ RecordFail) /\ UNCHANGED fleet

NoPlan == [verb |-> "secure", steps |-> << >>, refused |-> FALSE, approved |-> TRUE, force |-> FALSE]

WindowInit ==
  /\ world \in Worlds
  /\ memory = FreshMemory
  /\ source = << >>
  /\ request = [verb |-> "none"]
  /\ turns = 0 /\ away = {} /\ blind = {}
  /\ plan = NoPlan /\ run = 0 /\ pos = 0 /\ attempt = "none" /\ code = "OK"
  /\ failedHosts = {} /\ failedSlots = NoFailedSlots /\ result = ZeroResult /\ journal = << >>

WindowNext ==
  \/ \E q \in Requests : Begin(q)
  \/ Bookkeeping \/ Run \/ End \/ Killed
  \/ \E p \in DOMAIN world.panes : Turn(p)
  \/ (Idle /\ UNCHANGED allVars)

WindowSpec == WindowInit /\ [][WindowNext]_allVars

-----------------------------------------------------------------------------
(* What the planners write into a step: it names sessions and slots of the *)
(* fleet, and what makes a pane or stops a server says in which session.   *)
PlannedStep(s) ==
  /\ s.op \in Op /\ s.host \in Host /\ s.kind = KindOf(s.op, s.host)
  /\ s.slot \in Slot \cup {NoSlot} /\ s.creates \in Slot \cup {NoSlot}
  /\ s.target \in Slot \cup {NoSlot} \cup Nat
  /\ s.session \in Session \cup {NoSession}
  /\ s.op \in {"start", "stop", "create", "tab", "split"} => s.session \in Session
  /\ s.op \in {"create", "tab", "split"} => s.creates \in Slot
  /\ s.op \in {"tab", "split"} => s.target \in Slot
  /\ s.op \notin Keys \cup {"tab", "split"} => s.target = NoSlot
  /\ s.place \in [ws : Label, tab : Label, at : Nat]
  /\ s.text \in {"", "exit", "seat", "resume", "prompt"}

StepIsPlanned == AtStep => PlannedStep(This)

WindowTypeOK ==
  /\ StepIsPlanned
  /\ world \in World
  /\ memory \in Mem
  /\ \A s \in Slot : memory.map[s] \in 0..Len(world.panes)
  /\ away \subseteq Slot
  /\ turns \in 0..MaxTurns
  /\ run \in 0..MaxRuns

(* A step of a plan is being run. *)
ByStep == attempt = "none" /\ attempt' # "none"

GuardOf(p) == Trait[world.panes[p].slot].guard

(* A window never kills an agent it could have parked: the agent of a pane *)
(* that hosts.toml does not exempt ends by its own /exit and nothing else  *)
(* (custom actions and targets take down what the operator names with      *)
(* what is beside it).  It takes every agent parked, every park waited for,*)
(* and no stop, respawn or close before; only an agent that a wait took    *)
(* for gone, when herdr failed to tell of it, is stopped with its session. *)
NoAgentKilled ==
  [][ByStep /\ (IF request.verb = "relieve" THEN request.opts.action # "custom" ELSE request.opts.targets = {}) =>
       \A p \in DOMAIN world.panes :
         /\ world.panes[p].runs = "agent" /\ GuardOf(p) = "none" /\ p \notin blind
         /\ ~AgentIsIn(world', p, world.panes[p].who)
         => This.op \in {"enter", "exit"} /\ PaneOf(This) = p /\ world.panes[p].typed = "exit"]_allVars

(* An Enter submits one whole text, to the kind of program it was meant    *)
(* for: /exit and prompts go to an agent, commands to a shell, and neither *)
(* ever ends up in a draft or in the other; but where a wait took an agent *)
(* for gone, what should go to its shell goes to it.                       *)
MeantFor(q) ==
  CASE q.typed = "" -> TRUE
    [] q.typed \in {"exit", "prompt"} -> q.runs = "agent"
    [] q.typed \in {"seat", "resume", "relaunch"} -> q.runs = "shell"
    [] OTHER -> FALSE

EntersMeant ==
  [][ByStep /\ request.verb # "set" /\ This.op \in {"enter", "exit"} /\ ~Unfilled(This) /\ Alive(world, PaneOf(This))
       /\ PaneOf(This) \notin blind => MeantFor(world.panes[PaneOf(This)])]_allVars

(* When a host is marked set-complete, every agent the window parked on it *)
(* is running, in the pane that has the place it was parked in.  relieve   *)
(* --resume leaves the host alone on the strength of the mark.             *)
CompleteMeansBack ==
  attempt = "ok" /\ Logged(pos, "set-complete") =>
    \A k \in 1..pos :
      plan.steps[k].host = This.host /\ plan.steps[k].op = "exit" =>
        \E p \in DOMAIN world.panes :
          AgentIsIn(world, p, plan.steps[k].slot) /\ world.panes[p].slot = plan.steps[k].slot

(* Two occupants are never restored into one pane. *)
OnePaneEach ==
  \A s, t \in Slot : s # t /\ memory.map[s] # 0 => memory.map[s] # memory.map[t]

(* A window that ends well leaves every session it stopped up. *)
StoppedIsUp ==
  code = "OK" /\ plan.verb = "relieve" =>
    \A k \in 1..Length : plan.steps[k].op = "stop" => plan.steps[k].session \in world.up

(* No step changes what runs in an excluded pane, or what is typed there.  *)
ExcludedUntouched ==
  [][ByStep => \A p \in DOMAIN world.panes :
       GuardOf(p) = "excluded" =>
         /\ world'.panes[p].runs = world.panes[p].runs
         /\ world'.panes[p].who = world.panes[p].who
         /\ world'.panes[p].typed = world.panes[p].typed]_allVars

(* When no command fails and no agent stirs, a window ends well and every  *)
(* conversation it put away is back.                                       *)
WindowIsWhole ==
  code \notin {"running", "crashed"} /\ plan.verb = "relieve" /\ run = 1 /\ turns = 0
    => code = "OK" /\ away = {}

(* A set that ends well has brought back all that was put away before it,  *)
(* whatever way it was put away and however far that got.                  *)
SetBringsBack == code = "OK" /\ plan.verb = "set" => away = {}

(* A relieve --resume that ends well has come back for the occupants whose *)
(* restoring failed.                                                       *)
ResumeBringsBack ==
  /\ code = "OK" /\ run > 1 /\ request.resume
  /\ \E i \in DOMAIN journal : journal[i].status = "set-partial"
  => away = {}

=============================================================================
