------------------------------- MODULE Collect -------------------------------
(***************************************************************************)
(* A roll of one host: collect.gather asks the multiplexer for its panes   *)
(* and then asks about each pane in turn, and collect.build_roster makes   *)
(* occupants of the answers (classify, detect, resume).  Agents start,     *)
(* exit and ask questions between any two of the commands, and a command   *)
(* may fail.                                                               *)
(***************************************************************************)
EXTENDS Integers, FiniteSets, Functions

CONSTANTS
  NPanes,       \* how many panes the host has, in the order they are listed
  Cwd,          \* the directories something runs in
  Hosts,        \* what the host may be: its multiplexer, its sessions, its panes
  DefaultName,  \* what a pane without a name is called, by its index
  MaxMoves,     \* bound: changes of the panes during the roll
  MaxFaults     \* bound: commands that fail

Pane == 1..NPanes

(* Where a pane is: ws is the number of its workspace in the session, tab  *)
(* its tab, name what its operator called it.                              *)
Places(sessions) ==
  [session : 1..sessions, ws : Nat, wsLabel : STRING, tab : Nat, name : STRING, index : Nat]

ASSUME CollectBounds == NPanes \in Nat /\ MaxMoves \in Nat /\ MaxFaults \in Nat

(* herdr and cmux number the panes of a tab as they are listed, tmux keeps *)
(* a number of its own for each.                                           *)
ASSUME HostsAreHosts ==
  \A h \in Hosts :
    /\ h.mux \in {"herdr", "tmux", "cmux"} /\ h.sessions \in Nat \ {0}
    /\ h.layout \in [Pane -> Places(h.sessions)]
    /\ \A p, q \in Pane :
         p # q /\ h.layout[p].session = h.layout[q].session /\ h.layout[p].tab = h.layout[q].tab =>
           h.layout[p].index # h.layout[q].index

VARIABLES
  host,     \* its multiplexer and where its panes are; never changes
  world,    \* what runs in each pane
  at,       \* the command that comes next: what, of which session, about which pane
  facts,    \* the answers so far, by pane
  done,     \* the sessions gathered
  up,       \* whether the host counts as reachable
  roster,   \* the occupants, once built
  truth,    \* history: what ran in each pane since its session was listed
  missed,   \* history: the commands that failed, by pane; 0 for a listing
  moves, faults

vars == <<host, world, at, facts, done, up, roster, truth, missed, moves, faults>>

Agents == {"claude", "helped", "codex"}      \* helped: a claude that runs caffeinate as well
Programs == Agents \cup {"shell", "server", "watcher", "respawned", "bridge"}

(* odd: a dialog that no pattern matches, or that herdr calls idle, as it  *)
(* does when codex asks to be trusted.                                     *)
Doing == {"idle", "working", "dialog", "odd"}

(* What a multiplexer was last told of an agent in a pane, by the agent's  *)
(* hooks: on herdr the session of the agent that runs, on cmux the record  *)
(* of the last one, which stays when that has exited.                      *)
Hook == [kind : {"", "claude", "codex"}, talk : Int]

NoHook == [kind |-> "", talk |-> -1]

Occupant == [prog : Programs, cwd : Cwd, doing : Doing, talk : Nat, hook : Hook]

IsAgent(o) == o.prog \in Agents

KindOf(o) == IF ~IsAgent(o) THEN "" ELSE IF o.prog = "codex" THEN "codex" ELSE "claude"

Own(o) == [kind |-> KindOf(o), talk |-> o.talk]

Native == host.mux # "tmux"

(* The multiplexer knows the conversation of the agent that runs. *)
Known(o) == Native /\ IsAgent(o) /\ o.hook = Own(o)

(* What a reader of the pane would call it. *)
RoleOf(o) ==
  CASE IsAgent(o) -> "agent" [] o.prog = "bridge" -> "bridge"
    [] o.prog \in {"watcher", "respawned"} -> "watcher" [] OTHER -> "shell"

(* The foreground processes of the pane: own is the process of the pane.   *)
Row(own, exe, arg) == [own |-> own, exe |-> exe, arg |-> arg]

Foreground(prog) ==
  CASE prog = "shell" -> <<Row(TRUE, "zsh", "")>>
    [] prog = "claude" -> <<Row(FALSE, "claude", "")>>
    [] prog = "helped" -> <<Row(FALSE, "caffeinate", ""), Row(FALSE, "claude", "")>>
    [] prog = "codex" -> <<Row(FALSE, "node", "codex")>>
    [] prog = "server" -> <<Row(FALSE, "node", "server.js")>>
    [] prog = "watcher" -> <<Row(FALSE, "watchexec", "make")>>
    [] prog = "respawned" -> <<Row(TRUE, "watchexec", "make")>>
    [] OTHER -> <<Row(FALSE, "herdr", "")>>

PanesIn(s) == {p \in Pane : host.layout[p].session = s}

NoFacts == [listed |-> FALSE, agent |-> "", status |-> "", talk |-> 0, quiet |-> FALSE,
            rows |-> <<>>, cwd |-> "", screen |-> "", binding |-> NoHook]

NoRoster == [p \in {} |-> NoFacts]

Init ==
  /\ host \in Hosts
  /\ world \in [Pane -> {o \in [prog : Programs, cwd : Cwd, doing : Doing, talk : {1},
                                hook : {NoHook} \cup [kind : {"claude", "codex"}, talk : {0, 1}]] :
                         /\ IsAgent(o) \/ o.doing = "idle"
                         /\ CASE host.mux = "cmux" -> IsAgent(o) /\ o.hook.talk = 1 => Known(o)
                              [] host.mux = "herdr" -> o.hook = NoHook \/ Known(o)
                              [] OTHER -> o.hook = NoHook}]
  /\ at = <<"list", 1, 0>>
  /\ facts = [p \in Pane |-> NoFacts]
  /\ done = {} /\ up = TRUE /\ roster = NoRoster
  /\ truth = [p \in Pane |-> {}] /\ missed = [p \in Pane \cup {0} |-> {}]
  /\ moves = 0 /\ faults = 0

Running == at[1] \in {"list", "info", "screen", "binding"}

-----------------------------------------------------------------------------
(* The panes, meanwhile *)

Becomes(p, o) ==
  /\ Running /\ moves < MaxMoves /\ moves' = moves + 1
  /\ world' = [world EXCEPT ![p] = o]
  /\ truth' = [truth EXCEPT ![p] = IF @ = {} THEN {} ELSE @ \cup {o}]
  /\ UNCHANGED <<host, at, facts, done, up, roster, missed, faults>>

Exits(p) ==
  IsAgent(world[p]) /\ Becomes(p, [world[p] EXCEPT !.prog = "shell", !.doing = "idle",
                                                  !.hook = IF host.mux = "cmux" THEN @ ELSE NoHook])

(* A new conversation. *)
Starts(p) ==
  /\ world[p].prog = "shell"
  /\ \E prog \in Agents : Becomes(p, [world[p] EXCEPT !.prog = prog, !.talk = @ + 1])

Turns(p) ==
  /\ IsAgent(world[p])
  /\ \E doing \in Doing \ {world[p].doing} : Becomes(p, [world[p] EXCEPT !.doing = doing])

(* Its hooks tell the multiplexer: some do only after the first prompt.    *)
Hooks(p) ==
  /\ Native /\ IsAgent(world[p]) /\ ~Known(world[p])
  /\ Becomes(p, [world[p] EXCEPT !.hook = Own(world[p])])

-----------------------------------------------------------------------------
(* collect.gather and gather_host *)

After(p) == {q \in Pane : q > p /\ host.layout[q].session = host.layout[p].session}

Least(S) == CHOOSE p \in S : \A q \in S : p <= q

EndOf(s) == IF s < host.sessions THEN <<"list", s + 1, 0>> ELSE <<"build", 0, 0>>

(* The next pane of the session, or the next session. *)
Onward(s, p) ==
  LET left == IF p = 0 THEN PanesIn(s) ELSE After(p)
  IN IF left # {} THEN at' = <<"info", s, Least(left)>> /\ UNCHANGED done
     ELSE at' = EndOf(s) /\ done' = done \cup {s}

(* tmux needs the screen for the status, cmux to tell a dialog from a      *)
(* notification; only cmux has bindings.                                   *)
AfterInfo(s, p) == IF host.mux = "herdr" THEN Onward(s, p) ELSE at' = <<"screen", s, p>> /\ UNCHANGED done

AfterScreen(s, p) == IF host.mux = "cmux" THEN at' = <<"binding", s, p>> /\ UNCHANGED done ELSE Onward(s, p)

(* What the multiplexer says an agent does.  cmux says needsInput of an    *)
(* agent that asks, and of one that has been idle for long; and unknown    *)
(* until it has had a turn.                                                *)
Says(o) ==
  (CASE o.doing = "idle" -> {"idle"} \cup (IF host.mux = "cmux" THEN {"blocked"} ELSE {})
     [] o.doing = "working" -> {"working"}
     [] o.doing = "dialog" -> {"blocked"}
     [] OTHER -> {"idle", "blocked"})
    \cup (IF host.mux = "cmux" THEN {"unknown"} ELSE {})

Entry(agent, status, talk, quiet) == [agent |-> agent, status |-> status, talk |-> talk, quiet |-> quiet]

Nothing == Entry("", "", -1, FALSE)

(* What the multiplexer lists of a pane.  A record that cmux has of an     *)
(* agent before is listed, with the status it last had, until it is no     *)
(* longer active for the surface.                                          *)
Entries(o) ==
  CASE host.mux = "tmux" -> {Entry("", "", -1, quiet) : quiet \in {FALSE, o.doing # "working"}}
    [] host.mux = "herdr" /\ IsAgent(o) ->
         {Entry(KindOf(o), says, IF Known(o) THEN o.talk ELSE -1, FALSE) : says \in Says(o)}
    [] host.mux = "cmux" /\ Known(o) -> {Entry(KindOf(o), says, o.talk, FALSE) : says \in Says(o)}
    [] host.mux = "cmux" /\ ~Known(o) /\ o.hook # NoHook ->
         {Nothing} \cup {Entry(o.hook.kind, says, o.hook.talk, FALSE) :
                          says \in {"idle", "working", "blocked", "unknown", "done"}}
    [] OTHER -> {Nothing}

Listed(p, e) ==
  [NoFacts EXCEPT !.listed = TRUE, !.cwd = world[p].cwd,
     !.quiet = e.quiet, !.agent = e.agent, !.status = e.status, !.talk = e.talk]

List ==
  /\ at[1] = "list"
  /\ LET s == at[2]
     IN /\ \E entry \in [PanesIn(s) -> UNION {Entries(world[p]) : p \in PanesIn(s)}] :
             /\ \A p \in PanesIn(s) : entry[p] \in Entries(world[p])
             /\ facts' = [p \in Pane |-> IF p \in PanesIn(s) THEN Listed(p, entry[p]) ELSE facts[p]]
        /\ truth' = [p \in Pane |-> IF p \in PanesIn(s) THEN {world[p]} ELSE truth[p]]
        /\ Onward(s, 0)
  /\ UNCHANGED <<host, world, up, roster, missed, moves, faults>>

(* Wrong: the process of the pane is never kept. *)
ParsedWithoutOwn(rows) ==
  IF host.mux = "herdr" THEN rows ELSE Restrict(rows, {n \in DOMAIN rows : ~rows[n].own})

(* parse_process_info: the pane's own process is its shell, unless it is   *)
(* the only one and no shell.  The rows keep their places.                 *)
Parsed(rows) ==
  LET others == {n \in DOMAIN rows : ~rows[n].own}
  IN IF host.mux = "herdr" THEN rows
     ELSE Restrict(rows, IF others # {} THEN others ELSE {n \in DOMAIN rows : rows[n].exe # "zsh"})

(* The processes of the pane. *)
Info ==
  /\ at[1] = "info"
  /\ LET p == at[3]
         o == world[p]
     IN /\ facts' = [facts EXCEPT ![p].rows = Parsed(Foreground(o.prog)), ![p].cwd = o.cwd]
        /\ AfterInfo(at[2], p)
  /\ UNCHANGED <<host, world, up, roster, truth, missed, moves, faults>>

(* The patterns are words, which may be there without a dialog; and those  *)
(* of the kind cmux has a record of, which may be another's.               *)
Shows(o) ==
  IF o.doing = "dialog" /\ (host.mux = "cmux" => Known(o)) THEN {"dialog"} ELSE {"dialog", "text"}

Screen ==
  /\ at[1] = "screen"
  /\ \E screen \in Shows(world[at[3]]) : facts' = [facts EXCEPT ![at[3]].screen = screen]
  /\ AfterScreen(at[2], at[3])
  /\ UNCHANGED <<host, world, up, roster, truth, missed, moves, faults>>

(* The command cmux would resume the agent of its record with: not every   *)
(* one is restorable.                                                      *)
Binding ==
  /\ at[1] = "binding"
  /\ \E binding \in {world[at[3]].hook, NoHook} : facts' = [facts EXCEPT ![at[3]].binding = binding]
  /\ Onward(at[2], at[3])
  /\ UNCHANGED <<host, world, up, roster, truth, missed, moves, faults>>

(* A command fails, and is done without: a listing with its whole session. *)
Lost ==
  /\ Running /\ faults < MaxFaults /\ faults' = faults + 1
  /\ missed' = [missed EXCEPT ![at[3]] = @ \cup {at[1]}]
  /\ CASE at[1] = "list" -> at' = EndOf(at[2]) /\ UNCHANGED done
       [] at[1] = "info" -> AfterInfo(at[2], at[3])
       [] at[1] = "screen" -> AfterScreen(at[2], at[3])
       [] OTHER -> Onward(at[2], at[3])
  /\ UNCHANGED <<host, world, facts, up, roster, truth, moves>>

(* The host does not answer, or an answer is not to be parsed: the host is *)
(* unreachable, and the session under way and those after it are not in    *)
(* the roster.                                                             *)
Broken ==
  /\ Running /\ faults < MaxFaults /\ faults' = faults + 1
  /\ up' = FALSE /\ at' = <<"build", 0, 0>>
  /\ UNCHANGED <<host, world, facts, done, roster, truth, missed, moves>>

-----------------------------------------------------------------------------
(* classify *)

AgentExe == {"claude", "codex"}

(* The agent a row is: itself, or behind an interpreter. *)
AgentOf(r) ==
  CASE r.exe \in AgentExe -> r.exe
    [] r.exe = "node" /\ r.arg \in AgentExe -> r.arg
    [] OTHER -> ""

FirstRow(rows) == IF DOMAIN rows = {} THEN Row(TRUE, "", "") ELSE rows[Least(DOMAIN rows)]

(* Wrong: the first process is the agent's. *)
AgentArgvFirst(kind, rows) == FirstRow(rows)

(* _agent_argv, or the first process. *)
AgentArgv(kind, rows) ==
  LET own == {n \in DOMAIN rows : AgentOf(rows[n]) = kind}
  IN IF own # {} THEN rows[Least(own)] ELSE FirstRow(rows)

As(role, kind, argv) == [role |-> role, kind |-> kind, argv |-> argv]

(* First match wins: bridge, the multiplexer's word, the processes. *)
Classify(detected, rows) ==
  LET agents == {n \in DOMAIN rows : AgentOf(rows[n]) # ""}
      agent == rows[Least(agents)]
      first == FirstRow(rows)
  IN IF \E n \in DOMAIN rows : rows[n].exe = "herdr" THEN As("bridge", "", Row(FALSE, "herdr", ""))
     ELSE IF detected # "" THEN As("agent", detected, AgentArgv(detected, rows))
     ELSE IF agents # {} THEN As("agent", AgentOf(agent), agent)
     ELSE As(IF first.exe = "watchexec" THEN "watcher" ELSE "shell", "", first)

-----------------------------------------------------------------------------
(* build_roster *)

(* Wrong: needsInput is not looked into, a screen not looked at. *)
StatusBlind(role, f) ==
  IF Native THEN f.status ELSE IF role # "agent" THEN ""
  ELSE IF f.quiet THEN "idle" ELSE "working"

Status(role, f) ==
  IF Native THEN IF role = "agent" /\ host.mux = "cmux" /\ f.status = "blocked" /\ f.screen = "text"
                 THEN "idle" ELSE f.status
  ELSE IF role # "agent" THEN ""
  ELSE IF f.screen = "dialog" THEN "blocked"
  ELSE IF f.quiet THEN "idle" ELSE "working"

Kept == {p \in Pane : facts[p].listed /\ host.layout[p].session \in done}

(* cwd_kind_count: who else of this session would continue here. *)
SameCwdKind(p, kind) ==
  {q \in Kept : /\ host.layout[q].session = host.layout[p].session
                /\ Classify(facts[q].agent, facts[q].rows).kind = kind
                /\ facts[q].cwd = facts[p].cwd}

(* The native id, the binding, the most recent conversation of the         *)
(* directory where nobody shares it, or nothing.                           *)
Resume(p, cls) ==
  LET by(how, talk) == [how |-> how, talk |-> talk]
  IN IF cls.role # "agent" THEN by("none", -1)
     ELSE IF Native /\ facts[p].talk >= 0
       THEN by(IF facts[p].binding.talk = facts[p].talk THEN "binding" ELSE "id", facts[p].talk)
     ELSE IF facts[p].binding # NoHook THEN by("binding", facts[p].binding.talk)
     ELSE IF ~Native /\ Cardinality(SameCwdKind(p, cls.kind)) = 1 THEN by("continue", -1)
     ELSE by("none", -1)

NoSuffix == -1

(* Equal workspace names of a session get their number, from the second.   *)
(* A label is a name and its suffix: a name that itself ends like one with *)
(* a suffix is left out.                                                   *)
WsLabel(p) ==
  LET l == host.layout[p]
      twins == {host.layout[q].ws : q \in {r \in Pane : /\ host.layout[r].session = l.session
                                                        /\ host.layout[r].wsLabel = l.wsLabel}}
  IN <<l.wsLabel, IF l.ws = Least(twins) THEN NoSuffix ELSE l.ws>>

BaseName(p) == IF host.layout[p].name # "" THEN host.layout[p].name ELSE DefaultName[host.layout[p].index]

(* Wrong: panes of one name are not told apart. *)
PaneLabelBare(p) == <<BaseName(p), NoSuffix>>

PaneLabel(p) ==
  LET before == {q \in Pane : /\ q < p /\ BaseName(q) = BaseName(p)
                              /\ host.layout[q].session = host.layout[p].session
                              /\ host.layout[q].tab = host.layout[p].tab}
  IN <<BaseName(p), IF before = {} THEN NoSuffix ELSE host.layout[p].index>>

(* Every tab has the same label: it tells no panes apart. *)
HumanId(p) == <<host.layout[p].session, WsLabel(p), PaneLabel(p)>>

(* On cmux a pane that looks like a shell, and has a binding, is an agent. *)
ClassOf(p) ==
  LET cls == Classify(facts[p].agent, facts[p].rows)
      kind == facts[p].binding.kind
  IN IF cls.role = "shell" /\ kind # "" THEN As("agent", kind, Row(FALSE, kind, "")) ELSE cls

(* The occupant of a pane. *)
Record(p) ==
  [role |-> ClassOf(p).role, kind |-> ClassOf(p).kind, argv |-> ClassOf(p).argv,
   status |-> Status(ClassOf(p).role, facts[p]), resume |-> Resume(p, ClassOf(p)), human |-> HumanId(p)]

Build ==
  /\ at[1] = "build"
  /\ roster' = [p \in Kept |-> Record(p)]
  /\ at' = <<"built", 0, 0>>
  /\ UNCHANGED <<host, world, facts, done, up, truth, missed, moves, faults>>

Next ==
  \/ \E p \in Pane : Exits(p) \/ Starts(p) \/ Turns(p) \/ Hooks(p)
  \/ List \/ Info \/ Screen \/ Binding \/ Lost \/ Broken \/ Build

Spec == Init /\ [][Next]_vars

-----------------------------------------------------------------------------
(* Properties *)

(* What is reported of a pane, its role and the kind of its agent, is what *)
(* ran there at some moment of the roll, unless its processes could not be *)
(* listed: an agent behind an interpreter, with a helper in front, or a    *)
(* watcher that is the pane's own process included.  On cmux it may also   *)
(* be the agent that the pane's record is of.                              *)
SeenAsItWas ==
  \A p \in DOMAIN roster :
    "info" \notin missed[p] =>
      \E o \in truth[p] :
        \/ roster[p].role = RoleOf(o) /\ roster[p].kind = KindOf(o)
        \/ host.mux = "cmux" /\ roster[p].role = "agent" /\ roster[p].kind = o.hook.kind

(* An agent that asked a question the patterns know, all through the roll, *)
(* is not reported as one to be parked, unless its screen could not be     *)
(* read; on cmux, an agent that its record is of.                          *)
DialogIsNotIdle ==
  \A p \in DOMAIN roster :
    "screen" \notin missed[p] /\ roster[p].status \in {"idle", "done"} =>
      \E o \in truth[p] : o.doing # "dialog" \/ (host.mux = "cmux" /\ ~Known(o))

(* Nothing changed in the pane and nothing about it failed. *)
Steady(p) == Cardinality(truth[p]) = 1 /\ missed[p] = {}

(* The command a steady agent is to be resumed with names its own          *)
(* conversation, where the multiplexer knows it, and on herdr no other; it *)
(* has its own flags, unless cmux has a record of an agent of another      *)
(* kind; and a continue-form is given to one agent only of its kind,       *)
(* session and directory.                                                  *)
ResumesItself ==
  \A p \in DOMAIN roster : Steady(p) =>
    \A o \in truth[p] :
      /\ Known(o) => roster[p].resume.talk = o.talk
      /\ IsAgent(o) /\ ~Known(o) /\ host.mux = "herdr" => roster[p].resume.how = "none"
      /\ IsAgent(o) /\ (host.mux = "cmux" => o.hook.kind \in {"", KindOf(o)}) =>
           AgentOf(roster[p].argv) = KindOf(o)
      /\ roster[p].resume.how = "continue" =>
           \A q \in DOMAIN roster \ {p} :
             Steady(q) /\ host.layout[p].session = host.layout[q].session =>
               \A x \in truth[q] : KindOf(x) # KindOf(o) \/ x.cwd # o.cwd

(* Where the host counts as reachable and its sessions could be listed,    *)
(* every pane is in the roster; and no two have one human id, even where   *)
(* workspaces or panes share a name, unless two tabs of a workspace have   *)
(* one label.                                                              *)
EveryPaneOnce ==
  /\ at[1] = "built" /\ up /\ missed[0] = {} => DOMAIN roster = Pane
  /\ \A p, q \in DOMAIN roster :
       p # q /\ roster[p].human = roster[q].human =>
         /\ host.layout[p].ws = host.layout[q].ws
         /\ host.layout[p].tab # host.layout[q].tab
=============================================================================
