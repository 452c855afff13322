----------------------------- MODULE AgentConfig -----------------------------
(***************************************************************************)
(* How an agent was launched, recorded while it runs and put back when it  *)
(* is resumed.  Flags and seat environment go onto the new command         *)
(* (resume.py, plan_set.py); what is on disk is compared with the record   *)
(* before the agent starts (agentconfig.diff).  One agent goes through     *)
(* roll, park, check and start again and again, while its settings change  *)
(* under it and probes fail.                                               *)
(***************************************************************************)
EXTENDS Integers, Sequences, SequencesExt

CONSTANTS
  MaxArgs,     \* bound: elements of the command line the agent was started with
  MaxRounds,   \* bound: how often it is parked and resumed
  MaxChanges,  \* bound: changes on disk, and probes that fail
  Phrases      \* whether a prompt may hold several words, or follow a `--`

ASSUME ConfigBounds ==
  /\ MaxArgs \in Nat /\ MaxRounds \in Nat /\ MaxChanges \in Nat /\ Phrases \in BOOLEAN

VARIABLES
  where,    \* the agent: its kind, its multiplexer, whether the host has /proc; never changes
  cmd,      \* what follows the executable in its command line
  seat,     \* its environment: its configuration directory, and ANTHROPIC_MODEL
  talk,     \* the conversation it is in
  disk,     \* what is in the directories, the CLI and the herdr integration
  phase,    \* "up", "rolled", "parked" or "checked"; "stopped": the check failed
  record,   \* agent_config and the resume command, as of the last roll
  before,   \* history: what it was when it was rolled
  told,     \* the notes of the check
  round, changes

vars == <<where, cmd, seat, talk, disk, phase, record, before, told, round, changes>>

Kinds == {"claude", "codex", "grok", "hermes"}
Dirs == {"default", "alt"}

(* What RESTORE_ENV is about, of which ANTHROPIC_MODEL is only Claude's.   *)
Seats == [dir : Dirs, model : {"", "sonnet"}]

NoSeat == [dir |-> "default", model |-> ""]

(* What settings say where no flag does. *)
Defaults == [a |-> [mode |-> "default", model |-> "opus"], b |-> [mode |-> "accept", model |-> "haiku"]]

-----------------------------------------------------------------------------
(* Command lines: a token is a word, a flag, or a flag with `=value`; an   *)
(* element of several words has the words that follow in more.             *)

Word(w) == [flag |-> "", val |-> w, more |-> <<>>]
Flag(f) == [flag |-> f, val |-> "", more |-> <<>>]
With(f, v) == [flag |-> f, val |-> v, more |-> <<>>]

IsFlag(t) == t.flag # ""

(* A few flags of every sort in the tables of resume.py, by kind. *)
ValueFlags ==
  [claude |-> {"--model", "--permission-mode"}, grok |-> {"--model", "--permission-mode"},
   codex |-> {"--model", "-c"}]

(* Wrong: a flag whose value is optional is taken for one without. *)
NoOptionalValues == [claude |-> {}, grok |-> {}, codex |-> {}]

OptionalValueFlags == [claude |-> {"--worktree"}, grok |-> {"--worktree"}, codex |-> {}]

(* Wrong: --continue is carried. *)
DropWithoutContinue ==
  [claude |-> [opt |-> {"--resume"}, none |-> {"-p"}, req |-> {"--session-id"}],
   grok |-> [opt |-> {"--resume"}, none |-> {}, req |-> {"--session-id", "-p"}],
   codex |-> [opt |-> {}, none |-> {}, req |-> {"--image"}]]

DropFlags ==
  [claude |-> [opt |-> {"--resume"}, none |-> {"--continue", "-p"}, req |-> {"--session-id"}],
   grok |-> [opt |-> {"--resume"}, none |-> {"--continue"}, req |-> {"--session-id", "-p"}],
   codex |-> [opt |-> {}, none |-> {"--last"}, req |-> {"--image"}]]

(* One token of carried_flags: next says what is done with the token after *)
(* a flag: keep it, or skip it, unless it is a flag; or skip it anyhow.    *)
Scan(kind, s, t) ==
  LET drop == DropFlags[kind]
      dropped == t.flag \in drop.opt \cup drop.none \cup drop.req
      takes == t.flag \in ValueFlags[kind] \cup OptionalValueFlags[kind]
      kept(next) == [out |-> Append(s.out, t), next |-> next]
  IN IF s.next = "skip" THEN [s EXCEPT !.next = ""]
     ELSE IF ~IsFlag(t) THEN IF s.next = "keep word" THEN kept("") ELSE [s EXCEPT !.next = ""]
     ELSE IF ~dropped THEN kept(IF takes /\ t.val = "" THEN "keep word" ELSE "")
     ELSE [s EXCEPT !.next = IF t.val # "" \/ t.flag \in drop.none THEN ""
                             ELSE IF t.flag \in drop.req THEN "skip" ELSE "skip word"]

HasTable(kind) == kind \in DOMAIN ValueFlags

Scanned(kind, argv) ==
  LET upto[n \in 0..Len(argv)] == IF n = 0 THEN [out |-> <<>>, next |-> ""]
                                  ELSE Scan(kind, upto[n - 1], argv[n])
  IN upto[Len(argv)]

CarriedFlags(kind, argv) == IF HasTable(kind) THEN Scanned(kind, argv).out ELSE <<>>

None == <<Word("none")>>

(* With the id a multiplexer knows, or the most recent conversation of the *)
(* directory; None where the kind has no such form.                        *)
ResumeArgv(kind, id, argv) ==
  LET flags == CarriedFlags(kind, argv)
  IN IF kind = "codex" THEN <<Word("resume")>> \o flags \o <<Word(id)>>
     ELSE flags \o <<Flag("--resume"), Word(id)>>

ContinueArgv(kind, argv) ==
  LET flags == CarriedFlags(kind, argv)
  IN CASE kind = "codex" -> <<Word("resume")>> \o flags \o <<Flag("--last")>>
       [] kind = "hermes" -> None
       [] OTHER -> flags \o <<Flag("--continue")>>

(* The value after the first flag of that name. *)
FlagValue(flags, name) ==
  LET at == {n \in DOMAIN flags : flags[n].flag = name
                /\ (flags[n].val # "" \/ (n < Len(flags) /\ ~IsFlag(flags[n + 1])))}
      n == CHOOSE m \in at : \A k \in at : m <= k
  IN IF at = {} THEN "" ELSE IF flags[n].val # "" THEN flags[n].val ELSE flags[n + 1].val

-----------------------------------------------------------------------------
(* What the agents' own CLIs make of a command line. *)

TakesValue(kind) ==
  {"--model", "--permission-mode", "-c", "--session-id", "--image"} \cup (IF kind = "grok" THEN {"-p"} ELSE {})

MayTakeValue == {"--resume", "--worktree"}

Pending(s) == IF s.next = "" THEN s.opts ELSE Append(s.opts, <<s.next, "">>)

CliScan(kind, s, t) ==
  IF s.ended \/ (~IsFlag(t) /\ s.next = "") THEN [s EXCEPT !.words = Append(@, t.val)]
  ELSE IF ~IsFlag(t) THEN [s EXCEPT !.opts = Append(@, <<s.next, t.val>>), !.next = ""]
  ELSE IF s.next \in TakesValue(kind) THEN [s EXCEPT !.ok = FALSE]
  ELSE IF t.flag = "--" THEN [s EXCEPT !.ended = TRUE, !.opts = Pending(s), !.next = ""]
  ELSE IF t.val = "" /\ t.flag \in TakesValue(kind) \cup MayTakeValue
    THEN [s EXCEPT !.opts = Pending(s), !.next = t.flag]
  ELSE [s EXCEPT !.opts = Append(Pending(s), <<t.flag, t.val>>), !.next = ""]

CliAtFirst == [ok |-> TRUE, ended |-> FALSE, next |-> "", opts |-> <<>>, words |-> <<>>]

CliScanned(kind, argv) ==
  LET upto[n \in 0..Len(argv)] == IF n = 0 THEN CliAtFirst ELSE CliScan(kind, upto[n - 1], argv[n])
  IN upto[Len(argv)]

Cli(kind, argv) ==
  LET s == CliScanned(kind, argv)
  IN [s EXCEPT !.ok = @ /\ s.next \notin TakesValue(kind),
               !.opts = Pending(s)]

Given(cli, name) == \E n \in DOMAIN cli.opts : cli.opts[n][1] = name

Option(cli, name, default) ==
  IF Given(cli, name) THEN LET n == CHOOSE m \in DOMAIN cli.opts :
                                       /\ cli.opts[m][1] = name
                                       /\ \A k \in DOMAIN cli.opts : cli.opts[k][1] = name => k <= m
                           IN cli.opts[n][2]
  ELSE default

Subcommand(kind, cli) == kind = "codex" /\ cli.words # <<>> /\ Head(cli.words) = "resume"

(* The conversation it opens; "ask" is a picker, "odd" two at once. *)
Opens(kind, cli) ==
  LET byId == (IF Given(cli, "--resume") THEN {Option(cli, "--resume", "")} ELSE {})
              \cup (IF Given(cli, "--session-id") THEN {Option(cli, "--session-id", "")} ELSE {})
              \cup (IF Subcommand(kind, cli) /\ Len(cli.words) > 1 THEN {cli.words[2]} ELSE {})
      latest == IF Given(cli, "--continue") \/ Given(cli, "--last") THEN {"latest"} ELSE {}
      named == byId \cup latest
  IN IF named = {} THEN IF Subcommand(kind, cli) THEN "ask" ELSE "new"
     ELSE IF \E s \in named : named = {s} THEN CHOOSE s \in named : TRUE
     ELSE "odd"

(* What it is told to do at once. *)
Prompts(kind, cli) ==
  {cli.words[n] : n \in DOMAIN cli.words \ (IF Subcommand(kind, cli) THEN 1..2 ELSE {})}
    \cup (IF Given(cli, "-p") /\ Option(cli, "-p", "") # "" THEN {Option(cli, "-p", "")} ELSE {})

(* The settings that decide: for Claude the local ones of a directory go   *)
(* before the project's, and these before the user's.                      *)
InForce(kind, dir, d) ==
  CASE kind = "claude" /\ d.local[dir] # "" -> d.local[dir]
    [] kind = "claude" /\ d.local[dir] = "" /\ d.project # "" -> d.project
    [] OTHER -> d.settings[dir]

(* The agent one gets: its permission mode, its model, its seat. *)
Effective(kind, argv, env, d) ==
  LET cli == Cli(kind, argv)
      settings == Defaults[InForce(kind, env.dir, d)]
      model == IF kind = "claude" /\ env.model # "" THEN env.model ELSE settings.model
  IN [mode |-> IF Given(cli, "--dangerously-skip-permissions") THEN "bypassPermissions"
               ELSE Option(cli, IF kind = "codex" THEN "-c" ELSE "--permission-mode", settings.mode),
      model |-> Option(cli, "--model", model), seat |-> env,
      asks |-> kind = "claude" /\ ~d.trusted[env.dir]]

(* What it was launched with, less what selects a conversation or prompts. *)
KeptOptions(kind, argv) ==
  LET cli == Cli(kind, argv)
  IN {cli.opts[n] : n \in DOMAIN cli.opts}
       \ ({"--resume", "--continue", "--session-id", "-p", "--last", "--image"} \X {"", "s0", "s1", "task"})

Now == [agent |-> Effective(where.kind, cmd, seat, disk), options |-> KeptOptions(where.kind, cmd)]

-----------------------------------------------------------------------------
(* The agents there are at first *)

Bypass == Flag("--dangerously-skip-permissions")

Tokens(kind) ==
  {Word("task"), Flag("--model"), With("--model", "sonnet"), Word("sonnet")}
  \cup (CASE kind = "claude" -> {Flag("--permission-mode"), Word("plan"), Bypass, Flag("--worktree"), Flag("--resume"),
                                 Word("s0"), Flag("--continue"), Flag("--session-id"), Flag("-p")}
          [] kind = "grok" -> {Flag("--permission-mode"), Word("plan"), Flag("--worktree"), Flag("--resume"),
                               Word("s0"), Flag("-p")}
          [] kind = "codex" -> {Word("resume"), Word("s0"), Flag("--last"), Flag("-c"), Word("plan"), Flag("--image")}
          [] OTHER -> {})
  \cup (IF Phrases THEN {Flag("--"), [Word("task") EXCEPT !.more = <<Bypass>>]} ELSE {})

(* A command line a CLI starts with, where every value fits its flag and   *)
(* no flag is given twice.                                                 *)
Sound(kind, argv) ==
  LET cli == Cli(kind, argv)
      fits == [f \in TakesValue(kind) \cup {"--resume", "--worktree", "-p"} |->
                 CASE f = "--model" -> {"sonnet"} [] f \in {"--permission-mode", "-c"} -> {"plan"}
                   [] f \in {"--resume", "--session-id"} -> {"s0"} [] OTHER -> {"task", ""}]
  IN /\ cli.ok /\ Opens(kind, cli) \in {"new", "s0", "latest"}
     /\ \A n \in DOMAIN cli.opts : cli.opts[n][1] \in DOMAIN fits => cli.opts[n][2] \in fits[cli.opts[n][1]]
     /\ \A n, m \in DOMAIN cli.opts : cli.opts[n][1] = cli.opts[m][1] => n = m
     /\ {cli.words[n] : n \in DOMAIN cli.words} \subseteq {"task", "resume", "s0"}
     /\ Prompts(kind, cli) \subseteq {"task"}

Argvs(kind) == {argv \in SeqOf(Tokens(kind), MaxArgs) : Sound(kind, argv)}

NoDisk ==
  [read |-> FALSE, exists |-> FALSE, settings |-> "", local |-> "", project |-> "", trusted |-> FALSE,
   version |-> 0, integration |-> FALSE]

NoRecord ==
  [flags |-> <<>>, carried |-> FALSE, captured |-> FALSE, env |-> NoSeat, dir |-> "default", mode |-> "",
   model |-> "", resume |-> None, id |-> "", disk |-> NoDisk]

Opened(kind, argv, latest) ==
  LET s == Opens(kind, Cli(kind, argv)) IN IF s = "latest" THEN latest ELSE IF s = "new" THEN "s1" ELSE s

Init ==
  /\ where \in [kind : Kinds, mux : {"herdr", "tmux"}, proc : BOOLEAN]
  /\ cmd \in Argvs(where.kind)
  /\ seat \in Seats
  /\ where.kind \notin {"claude", "codex"} => seat.dir = "default"
  /\ where.kind # "claude" => seat.model = ""
  /\ talk = Opened(where.kind, cmd, "s0")
  /\ disk = [exists |-> [d \in Dirs |-> TRUE], settings |-> [d \in Dirs |-> "a"], local |-> [d \in Dirs |-> ""],
             project |-> "", trusted |-> [d \in Dirs |-> TRUE], version |-> 1, integration |-> TRUE]
  /\ phase = "up" /\ record = NoRecord /\ before = Now /\ told = FALSE /\ round = 0 /\ changes = 0

-----------------------------------------------------------------------------
(* collect and agentconfig.build *)

(* herdr tells the arguments one by one; `ps` joins them with blanks, and  *)
(* shlex splits at every blank.                                            *)
Split(t) == <<[t EXCEPT !.more = <<>>]>> \o t.more

SeenArgv == IF where.mux = "herdr" THEN cmd ELSE FlattenSeq([n \in DOMAIN cmd |-> Split(cmd[n])])

ConfigDirFor(env) == env.dir

(* The probe: what it says of a directory depends on the kind.  It keeps   *)
(* fingerprints of all three settings files, and reads the user's only.    *)
Probe(dir) ==
  [read |-> TRUE, exists |-> disk.exists[dir],
   settings |-> IF where.kind \in {"claude", "grok"} THEN disk.settings[dir] ELSE "",
   local |-> IF where.kind = "claude" THEN disk.local[dir] ELSE "",
   project |-> IF where.kind = "claude" THEN disk.project ELSE "",
   trusted |-> where.kind = "claude" /\ disk.trusted[dir],
   version |-> disk.version, integration |-> where.mux = "herdr" /\ disk.integration]

(* Wrong: the flag that bypasses all questions is not looked at. *)
ModeByFlagOnly(flags, d) ==
  LET byFlag == FlagValue(flags, "--permission-mode")
  IN IF byFlag # "" THEN byFlag ELSE IF where.kind = "claude" /\ d.read THEN Defaults[d.settings].mode ELSE "default"

PermissionMode(flags, d) ==
  LET byFlag == FlagValue(flags, "--permission-mode")
  IN IF where.kind = "claude" /\ Bypass \in {flags[n] : n \in DOMAIN flags} THEN "bypassPermissions"
     ELSE IF byFlag # "" THEN byFlag
     ELSE IF where.kind = "claude" /\ d.read THEN Defaults[d.settings].mode ELSE "default"

Model(flags, d) ==
  LET byFlag == FlagValue(flags, "--model")
  IN IF byFlag # "" THEN byFlag ELSE IF d.settings # "" THEN Defaults[d.settings].model ELSE ""

Build(env, captured, d) ==
  LET flags == CarriedFlags(where.kind, SeenArgv)
  IN [flags |-> flags, carried |-> HasTable(where.kind), captured |-> captured, env |-> env,
      dir |-> ConfigDirFor(env), mode |-> PermissionMode(flags, d), model |-> Model(flags, d),
      resume |-> IF where.mux = "herdr" THEN ResumeArgv(where.kind, talk, SeenArgv)
                 ELSE ContinueArgv(where.kind, SeenArgv),
      id |-> IF where.mux = "herdr" THEN talk ELSE "", disk |-> d]

(* A probe that fails leaves an empty record. *)
Roll ==
  /\ phase = "up" /\ round < MaxRounds
  /\ \E captured \in {where.proc, FALSE}, read \in BOOLEAN :
       LET env == IF captured THEN seat ELSE NoSeat
           lost == (IF captured = where.proc THEN 0 ELSE 1) + (IF read THEN 0 ELSE 1)
       IN /\ changes + lost <= MaxChanges /\ changes' = changes + lost
          /\ record' = Build(env, captured, IF read THEN Probe(ConfigDirFor(env)) ELSE NoDisk)
  /\ phase' = "rolled" /\ before' = Now
  /\ UNCHANGED <<where, cmd, seat, talk, disk, told, round>>

-----------------------------------------------------------------------------
(* The window *)

Park ==
  /\ phase = "rolled"
  /\ phase' = "parked"
  /\ UNCHANGED <<where, cmd, seat, talk, disk, record, before, told, round, changes>>

(* Settings are edited, trust is revoked, a directory goes, a CLI or an    *)
(* integration is replaced: between the roll and the check.                *)
Change ==
  /\ phase \in {"rolled", "parked"} /\ changes < MaxChanges /\ changes' = changes + 1
  /\ \/ \E d \in Dirs : \/ disk' = [disk EXCEPT !.settings[d] = IF @ = "a" THEN "b" ELSE "a"]
                        \/ disk' = [disk EXCEPT !.local[d] = IF @ = "" THEN "b" ELSE ""]
                        \/ disk' = [disk EXCEPT !.trusted[d] = ~@]
                        \/ disk' = [disk EXCEPT !.exists[d] = FALSE, !.trusted[d] = FALSE,
                                                !.settings[d] = "a", !.local[d] = ""]
     \/ disk' = [disk EXCEPT !.project = IF @ = "" THEN "b" ELSE ""]
     \/ disk' = [disk EXCEPT !.version = 3 - @]
     \/ disk' = [disk EXCEPT !.integration = ~@]
  /\ UNCHANGED <<where, cmd, seat, talk, phase, record, before, told, round>>

(* Wrong: only the version is compared. *)
NotesOfVersion(rec, cur) == ~cur.read \/ rec.version # cur.version

(* diff: whether there is a note, and whether the resume must not go on.   *)
Notes(rec, cur) ==
  ~cur.read \/ rec.version # cur.version
    \/ rec.settings # cur.settings \/ rec.local # cur.local \/ rec.project # cur.project

Hard(rec, cur) ==
  cur.read /\ \/ rec.exists /\ ~cur.exists
              \/ rec.trusted /\ ~cur.trusted
              \/ rec.integration /\ ~cur.integration

Check ==
  /\ phase = "parked"
  /\ \E read \in BOOLEAN :
       /\ changes' = changes + (IF read THEN 0 ELSE 1) /\ changes' <= MaxChanges
       /\ LET cur == IF read THEN Probe(record.dir) ELSE NoDisk
          IN /\ told' = Notes(record.disk, cur)
             /\ phase' = IF Hard(record.disk, cur) THEN "stopped" ELSE "checked"
  /\ UNCHANGED <<where, cmd, seat, talk, disk, record, before, round>>

(* The pane's shell has nothing of a seat until it is exported into it.    *)
StartCmd == IF record.resume = None THEN record.flags ELSE record.resume

Start ==
  /\ phase = "checked"
  /\ cmd' = StartCmd /\ seat' = record.env
  /\ talk' = Opened(where.kind, StartCmd, talk)
  /\ phase' = "up" /\ round' = round + 1
  /\ UNCHANGED <<where, disk, record, before, told, changes>>

Next == Roll \/ Park \/ Change \/ Check \/ Start

Spec == Init /\ [][Next]_vars

-----------------------------------------------------------------------------
(* Properties *)

Resumed == phase = "up" /\ round > 0

(* A resume command is one the agent's CLI takes; it opens the             *)
(* conversation the agent was parked in, and sends nothing to it, whatever *)
(* the agent was once started with.                                        *)
ResumesItsConversation ==
  Resumed /\ record.resume # None =>
    LET cli == Cli(where.kind, cmd)
    IN /\ cli.ok
       /\ Opens(where.kind, cli) = IF where.mux = "herdr" THEN record.id ELSE "latest"
       /\ Prompts(where.kind, cli) = {}

(* Where the settings of the kind are probed and its environment was read, *)
(* an agent comes back with the permission mode, model and seat it was     *)
(* parked with, and without a trust dialog it did not have, or the         *)
(* operator is told.                                                       *)
SameAgentUnlessTold ==
  Resumed /\ where.kind \in {"claude", "grok"} /\ record.captured /\ ~told =>
    /\ Now.agent.asks => before.agent.asks
    /\ Now.agent = [before.agent EXCEPT !.asks = Now.agent.asks]

(* An agent of a kind with a flag table has the flags it had, with their   *)
(* values, however often it was parked; and no others.                     *)
FlagsRestored ==
  Resumed /\ HasTable(where.kind) => Now.options = before.options

(* What the record says of mode and model is what the agent runs with,     *)
(* where nothing but its flags and the user's settings decides: the record *)
(* is made without the local and the project's settings, of which it keeps *)
(* fingerprints, and without ANTHROPIC_MODEL, which it restores.           *)
RecordIsTrue ==
  phase = "rolled" /\ where.kind = "claude" /\ record.disk.read /\ record.dir = seat.dir
    /\ record.disk.local = "" /\ record.disk.project = "" =>
    /\ record.mode = before.agent.mode
    /\ seat.model = "" => record.model = before.agent.model
=============================================================================
