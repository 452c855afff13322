# Watchbill in TLA+

Watchbill parks the agents of a fleet of terminal multiplexers, runs
maintenance on the hosts, and restores the agents afterwards. It is a
sequential command-line program, but several of its commands can run at once (a
`systemd --user` timer takes heartbeat snaps beside the operator's verbs), any
of them can be killed at any point, and everything it knows between two
commands is in four kinds of files: rosters, `current.json`, `slots.json` and
`journal.jsonl`. What is hard to test is therefore not one function but orders:
of steps and failures inside a run, of runs after one another, of processes
beside one another, and of the fleet changing under a plan that was made from a
look at it.

## Inventory

| component | source | state it keeps | operations | what makes it correct |
|---|---|---|---|---|
| plan types | `plan.py` | none | `scheduled`, `check_verbs_allowed` | a dry run schedules nothing that changes a host |
| planners | `plan_secure.py`, `plan_set.py`, `plan_relieve.py` | none (roster in, plan out) | `plan_secure`, `plan_set`, `plan_relieve` | an excluded occupant is never touched or killed; a busy one refuses the plan; what is parked is restored |
| relieve actions | `actions/` | none | `remote_steps`, `blast_radius`, `verify` | the blast radius covers what the command does |
| executor | `exec.py` | failed hosts and slots, pane map | `run` | fail-stop per occupant and host, honest marks, honest exit code |
| journal | `journal.py` | `journal.jsonl` | `append`, `last_run_id`, `hosts_marked` | `relieve --resume` skips exactly what was done |
| rosters | `roster.py`, `cli.py` | roster files, `current.json` | `write`, `occupant_guard`, `set_source`, `merge` | nothing parked is forgotten; a bad roster never becomes current |
| slots | `slots.py` | `slots.json` | `load`, `assign`, `save` | an occupant has one slot, for good; no two share one |
| collect | `collect.py` | none (answers of one roll) | `gather_host`, `gather`, `build_roster` | every pane appears once, as something that ran there during the roll, with a resume command that is its own |
| mux backends | `mux/` | none (they build argv, poll loops and parse output) | one builder per verb | a wait ends, and ends for the right reason |
| transports, hosts | `transport/`, `hosts.py` | none | run a command, with a timeout | |
| classify, detect, resume, prompts | same names | none | `classify`, `agent_status`, `looks_blocked`, `carried_flags`, `resume_argv`, `continue_argv` | a resumed agent has its flags, its conversation and nothing else |
| agent configuration | `agentconfig.py` | none | `build`, `diff` | a change that would strand the agent is hard, one that matters is told |
| doctor, paths, session environment | same names | none | reports and names | |

The components interact by calls inside one process and by files across
processes: every verb rolls (`cli._roll`: gather the hosts, load the slots,
assign, save), plans from the roster, writes the roster under the guard, runs the
plan (journal), rolls and writes again.

## Modules

| module | what it models | code |
|---|---|---|
| `Plan` | a plan and its steps, `scheduled`, `check_verbs_allowed`, what a failed step costs | `plan.py`, `exec.py:286-304` |
| `Executor` | one run over one plan, step by step, with the journal | `exec.py:251-331`, `journal.py` |
| `RollingWindow` | what a run promises about its hosts, without plans or a journal | abstract; `Executor!KeepsPromise` maps onto it |
| `Planner` | the three planners, as functions from a roster and options to a plan | `plan_secure.py`, `plan_set.py`, `plan_relieve.py`, `actions/` |
| `Window` | verbs one after another against panes that change: roll, plan (`Planner`), run (`Executor`) | `cli.py:272-351`, `exec.py:68-136` and `332-386`, the effects of `mux/` |
| `RosterStore` | the roster files, `current.json`, the guard, `set_source`, concurrent commands | `roster.py:183-281`, `cli.py:224-317` |
| `Slots` | `slots.json` and the rolls that read and write it | `slots.py`, `cli.py:131-154` |
| `AgentIO` | one agent and the keys it is sent: what happens inside the steps that park an agent or bring it back, a command and an iteration of a wait at a time | `exec.py:138-248` and `342-367`, `plan_secure.py:177-191`, `plan_set.py:288-346`, the waits of `mux/` |
| `AgentConfig` | how an agent was launched, recorded at a roll and put back at a resume, round after round | `resume.py`, `agentconfig.py`, `exec.py:138-158`, `collect.py:145-171` |
| `Collect` | a roll of one host, command by command, and the roster made of it | `collect.py`, `classify.py`, `detect.py`, the parsers of `mux/` |
| `ExecutorProofs`, `RosterStoreProofs`, `SlotsProofs`, `CollectProofs`, `WindowProofs`, `AgentConfigProofs` | theorems about the module each is named for | |
| `AgentIOProofs` | theorems about `AgentIO`: dialogs, what an agent is told, an agent left alone | |
| `SequenceLemmas` | induction and recursion along a sequence, and what flattening and selecting return; for `WindowProofs` and `AgentConfigProofs` | |
| `MC...` | instances for TLC | |

`Window` extends `Executor` and `Planner`, which both extend `Plan`; the three
stores (`Executor`'s journal, `RosterStore`, `Slots`) are otherwise apart, as
their files are. `AgentIO` looks into steps that are atomic in `Window` ("exit",
"prompt", "native"), which allows each the outcomes `AgentIO` shows it can have, a
wait that takes a live agent for gone included (`blind`); `Collect` and
`AgentConfig` look into the roll that `Window` takes to be right and at one
moment.

### Executor

`Attempt` is `_run_step` (the command and the marks a JOURNAL step writes),
`RecordOk` and `RecordFail` are what `run` does with the outcome. They are two
actions because the process can die between the command and its journal line.
`Skip` and `DryRun` are the loop's `continue` branches, `Refuse`, `Admit` and
`Finish` its ends. A step is a record of the CONSTANT set `Step`, of which only
the fields exec reads are assumed (`StepAssumption`). From the command line
`exec.run` is reached only with an approved and unrefused plan; `Refuse` and
`DryRun` are modelled all the same, for `Executor.run` is called directly too.

### Planner and Window

A roster is the sequence of its occupants in layout order; that sequence is also
the recorded shape. A session in these modules is a pair (host, session) of the
code. What hosts.toml and a roll say about a slot and what never changes
(excluded, a recorded configuration, a resume prompt) is in `Trait`. Each host has a
session at least, which `cli.py:169` and `plan_set.py:136` take for granted
(`sessions[0]`), and `Label` has the labels of workspaces and tabs, among them none
and the one an empty session is started with.

A step's `target` is a pane number, or a slot whose pane exec looks up in
`pane_map` when the step runs. The steps of `Planner` are one for one those of
the planners, except: the commands of an action are one step "action" before or
after the stop, the CHECK of the configuration is "config", and an agent without
a conversation, which is started afresh, is a "resume" like the others.

`Window` adds what the steps do. `world` is the multiplexers: numbered panes with
the program in them and what was typed and not submitted, and the sessions that
are up. `memory` is exec's `pane_map`, `_claimed` and `_restored`. `Looked`,
`Reusable` and `Reused` are `_try_reuse`, with a look at the layout that may fail
and then leaves every pane to be made (`MadeAnew`); `PaneOf` and `Unfilled` are
`_resolve`; `Results` gives the outcomes a step can have with the state after it.
A command in `Faults` may fail with its effect or without, which stands for errors
and for timeouts after the remote side has acted. `Turn` is an agent that starts
to work, finishes or asks for an approval; `Killed` is a kill of Watchbill.

What the multiplexers do is external and taken from how `src/` uses it and what
its comments report as observed: herdr and cmux restore the layout with plain
shells when a stopped session starts (herdr may have lost it, #3415), tmux
restores nothing and `new-session` refuses a duplicate; herdr's `agent start`
refuses a pane in which something runs; the first Enter after `/exit` may only
complete the command. Restored panes keep their number, the labels of new tabs
are those asked for, cmux's own resume is inside the step "native", and a Remote
Control that cannot be disconnected is a failure of the step "type". On tmux an
agent that did not come up is noticed only by the wait before its prompt; the
runs give every agent a prompt unless they say otherwise.

### RosterStore

One process per command, one action per system call that another process can see:
`Save`, `Guard` (which reads `current.json`), `Unlink`, `Link`, `Replace`. All
share the name `current.json.tmp`. A snap by hand may have any reason `snap -m`
takes (`ReasonsOf`), pre-secure among them; `posing` has the rosters that came of
that. `Park` and `Restore` stand for whole runs:
some of the agents exit, some come back. A roster is known by the time it was
taken, so rolls are at least one second apart (the file names have that
resolution).

### Slots

A roll is `Gather`, `Load`, one `Assign` per occupant, `Open`, `Write` and
`Rename`; `fd` follows the file that an open descriptor of the shared
`slots.tmp` is by now. `Change` moves conversations between panes of a host.
Rolls may overlap in every way; `overlapped` is a history variable that says
whether any two have.

### AgentIO

`todo` is the rest of the steps `park_steps` or `set_steps` planned for the
agent, `stage` how far exec is inside the first of them: the question asked
before it (`_check_precondition`, `_remote_control`), the command, the retry of
a stalled prompt, the check after it. A wait is one action per iteration of its
shell loop, with the Enter of the nudge, or cmux's fallback, as an action of its
own. Between any two of these the agent comes up, works, asks, dies or exits
(`Progress`, `Stir`), somebody types into the pane, and cmux resumes the agent by
itself (`NativeResume`). `Fault` has the commands that are carried out and
reported as failed, and the ones that fail for another reason than the one the
code takes it for.

What keys do to an agent is external and follows the comments of `src/`: the
first Enter after a slash command may only complete it (codex), an agent that
redraws drops or delays what it is sent, a Claude with Remote Control ignores
`/exit`, `/rc` connects where nothing is connected. A dialog is one the patterns
of `detect.py` know ("dialog") or one they do not ("odd"). The steps of this
module are those that reach the agent; the CHECK of its configuration is in
`AgentConfig`. `seen` and `fresh` are history variables, which no action reads
to decide what to do, except that a cmux resumes once.

### AgentConfig

A command line is a sequence of tokens: a word, a flag, or a flag with `=value`.
The flag tables are represented by a few flags of every sort they distinguish
(value, optional value, boolean; dropped with an optional, a required or no
value), by kind. `CarriedFlags` is the loop of `carried_flags` as a recursive function
along the command line (`Scanned`). The other side, `Cli`, is how the agents' own
programs read such a command line, another such function (`CliScanned`), and is
external; the properties compare the two. The settings on disk are the user's and
the local ones of each configuration directory, and the project's: the record has
fingerprints of all three and its defaults from the user's (`Probe`), the agent
reads them in the order of `InForce`. A seat is a configuration directory and
`ANTHROPIC_MODEL`. `Roll` records, `Change` is the
world in the window, `Check` compares, `Start` starts the agent from the record,
and the next round starts from the command line that came of it.

### Collect

`at` is the command that comes next: the listing of a session, then for each pane
its processes, its screen (tmux and cmux) and its resume binding (cmux). The panes
change between any two commands. `Lost` is a command that fails and is done
without, `Broken` an exception, which makes the host unreachable. `Build` is
`build_roster`. Program lists are represented by a few programs of every sort: an
agent, one behind an interpreter, one with a helper in front, a watcher that
replaced its shell, a bridge. What the multiplexer was told of an agent by its
hooks is `hook`: on herdr the session of the agent that runs, which some agents
have only after their first prompt (`Hooks`), on cmux a record that stays when the
agent has exited and that its resume binding comes from. `Entries` is what a
listing says of a pane given its hook; an agent of the pane's own record is
`Known`. A dialog is one the patterns know or one that no pattern matches, or that
herdr calls idle ("odd"), and the patterns, which are words, may match a screen
without a dialog (`Shows`). `Parsed` drops the rows its parser drops, and the
others keep their places, so that "the first row" is the least place. `Record` is
what `build_roster` makes of one pane. The host is a parameter: any number of
panes, and any way they lie in sessions, workspaces and tabs in which no tab gives
two panes one index (`HostsAreHosts`: `herdr.py:238` and `cmux.py:145` count, tmux
has its `pane_index`). `truth` and `missed` are history variables.

## Runs

Passing:

| run | what it shows | bounds |
|---|---|---|
| `executor` | `FailStop`, `CompleteIsHonest`, `PartialIsHonest`, `ExitTellsTruth`: a failure stops what depends on it, the marks and the exit code say what happened. `Terminates`, and `KeepsPromise` (refinement of `RollingWindow`) | a window of 11 steps on one host and one of 4 on another, two occupants, the cockpit; dry, refused and forced plans |
| `rosters` | `NothingLost`: a parked agent is an agent in some roster on disk. `SetSeesLastPark`: `set` falls in from one that has the agents of the last secure, unless a snap labelled pre-secure took its place | an operator and a timer, 2 panes, 3 rolls, one reboot or manual start |
| `slots` | `OneSlotPerLabel`, however rolls overlap; `StillSameSlot` and `AlwaysReadable`, after a kill anywhere, until two have | two rolls at once, 3 in all, 2 moves, 2 human ids, 2 conversations |
| `window_stop` | `CompleteMeansBack`: behind every set-complete the agents run where they were parked. `StoppedIsUp`, `OnePaneEach`, `NoAgentKilled`, `EntersMeant` | one `upgrade-mux` on herdr (3 panes), tmux or cmux (2 each), every command and the look at the layout may fail, a wait may take a live agent for gone, one change of an agent's status, kills |
| `window_verbs` | `WindowIsWhole`: without faults a window over two hosts ends with 0 and everything back. `SetBringsBack`: a set that ends with 0 leaves nobody parked, however the verb before it ended. `ExcludedUntouched`, `NoAgentKilled` | two verbs in a row, 7 requests, 4 to 5 panes on up to 3 hosts, one change of an agent's status, kills |
| `agent_io` | `QuietParkWorks`, `QuietRestoreWorks`: left alone, an agent is parked and comes back, told its prompt and nothing else. `NoSeenDialogTouched`: no key of a prompt goes into a dialog that was up when exec looked. `PromptsCounted`, `ResumedOnce`, `OkMeansDone`: what a retry, a fallback and a wait may do twice, or wrongly take for done. `Terminates` | waits of 6 iterations with the nudge in the 4th, an agent up within 3 or slow, two things that go differently; all multiplexers, park and restore |
| `agent_config` | `ResumesItsConversation`, `FlagsRestored`: the resume command opens the conversation with the flags the agent had, and only those. `SameAgentUnlessTold`: mode, model and seat are as before and no dialog asks for trust that was there, or the operator is told. `RecordIsTrue`: where flags and the user's settings decide, the record has the mode and model the agent runs with | every sound command line of up to 3 tokens of 4 kinds of agents, 2 rounds, 3 changes or failed probes, two settings of every file |
| `collect` | `SeenAsItWas`: the role and kind reported of a pane were so at some moment of the roll, or on cmux are those of its record. `DialogIsNotIdle`: an agent that asks what the patterns know is not reported as one to be parked. `ResumesItself`: the resume command of an agent the multiplexer knows is its own, and a continue-form goes to one only. `EveryPaneOnce` | 2 panes in one tab, two tabs, two workspaces of one name, or two sessions; records of a claude or a codex before, agents not known yet; one change and one failure |

The bounds are small because the mechanisms are local. Two occupants and two hosts
are what an interaction of failures takes. A tab with two panes, two tabs of one
name, and two panes on different hosts are what the shape steps tell apart. Two
verbs are what one needs to leave something to the other. Three rolls are a roster
before a verb, one after it and one of a timer in between. In `agent_io` two
things that go differently are what it takes for a race with a second event behind
it (a dialog that comes up and a prompt that is retried); six iterations are room
for the nudge, the fallback, an agent that is in time and one that is late. Three
tokens are a flag with a value and a flag or a prompt beside it. Three changes are
what it takes for a trust that goes, a probe that does not see it go, and a trust
that comes back: an agent recorded without trust may then start without the dialog
it had, and nothing says so, which is why `SameAgentUnlessTold` speaks of a new
dialog and not of a different one. In `collect` the second pane is what a
continue-form and a label must be told apart from.

Violated. Each states what a doc or a comment of the code says, and the code does
otherwise:

| run | property | what happens |
|---|---|---|
| `split` | `WindowIsWhole` | `upgrade-agents` on a tab with two agents: the second pane is split off `{pane:<first>}`, which nothing has filled in a window that keeps the session up. The host fails with both agents parked |
| `resume` | `ResumeBringsBack` | after set-partial, `relieve --resume` plans from a roll in which the agent is a shell; it marks the host set-complete without it |
| `guard_race` | `GuardKept` | a heartbeat snap between a verb's guard and its rename moves `current.json` past the guard |
| `words` | `FlagsRestored` | an agent on tmux started with a prompt of several words in one argument: `ps` joins them, and a word that looks like a flag is carried to the resumed agent |

### Known disagreements without a run

Seen while modelling; no run of the project states them.

Runs, slots and rosters (the models have the behaviour):

- `relieve --resume` twice in a row: every run gets a new id (`cli.py:259`), so the
  second looks at the marks of the first resume only and opens a host that was
  completed before (`plan_relieve.py:14`: "skips hosts already marked
  set-complete").
- A failed host costs only itself (`exec.py:297`); `plan_relieve.py:81` tells the
  operator that "a failed host stops the run".
- `exec.py:14-15` says that after a failed mutating step "the run returns 4". It
  returns 4 only when every host with work was given up, and 1 otherwise
  (`exec.py:301-303`), which is also what `docs/architecture.md:365` says of 1 ("a
  later host failed after an earlier one completed"). `ExitTellsTruth` is that reading.
- `snap -m` takes any reason (`cli.py:47`, `226`), and `set_source` knows the roster
  before a secure by its reason alone (`cli.py:298`): a snap labelled pre-secure
  after a secure is what the next `set` falls in from, with the parked agents as
  shells. `SetSeesLastPark` excepts it (`posing`).
- The wait for an agent's exit on herdr is `agent get || exit 0` (`herdr.py:211`):
  any failure of `agent get` ends it well. A window then stops the session over
  the live agent, or, where the session stays up, types the commands that restart the
  agent into it. `NoAgentKilled` and `EntersMeant` except such panes (`blind`), and
  `OkMeansDone` says the same of the wait.
- A look at the restored layout that fails is not repeated (`exec.py:109-119`): every
  pane of the session is made a second time, beside the restored ones.
- A host with two sessions of which one has nothing to restore: both are stopped,
  only the other is started (`plan_relieve.py:227-238`).
- The status of an agent is that of the roll: keys go to an agent that has begun to
  work since (README: "Never a keystroke into an agent that is working").
- The precondition "pane at interactive shell prompt" is not checked
  (`exec.py:206-212`): a `set` after a secure that was killed halfway types into
  agents that still run.
- An agent that moved to another pane shares its slot with the shell it left, and
  after a second move may get the slot of a pane it left long ago
  (`slots.py:80-110`).
- Of two overlapping rolls the one that saves `slots.json` last forgets the slot
  the other minted, and the next roll mints a second one for an agent that never
  moved (`slots.py:3`: "assigned once per occupant").
- Two secures in a row: the newest pre-secure roster, from which `set` falls in,
  has the agents the first one parked as plain shells (`cli.py:282-298`).
- An agent behind an excluded pane in its tab: the index the planner gives counts
  the wanted panes (`plan_set.py:249`), exec counts all (`exec.py:129-131`), and
  the excluded pane is taken for the agent's.
- Two tmux windows of one name in a workspace: the pane the server starts with is
  not claimed (`exec.py:102`), and both agents are restored into it.
- Two overlapping saves of `slots.json` write one `slots.tmp`: a rename in between
  can leave a file that no command can load.

- Equal workspace labels are numbered in the roster (`Work#5`), and `_try_reuse`
  looks for the number among the labels of the multiplexer.

Talking to an agent (`AgentIO`):

- The check after a prompt reads the screen on tmux and cmux (`tmux.py:237`,
  `cmux.py:268`), which succeeds whatever runs in the pane: an agent that vanished
  is not noticed (`exec.py:237`, "agent must still be present after a prompt").
- A prompt whose own words look like a dialog is typed and then refused
  (`exec.py:231` reads the input line with the rest of the screen).
- A screen that cannot be read counts as Remote Control not connected
  (`exec.py:190`), and `/exit` is typed.

Flags and configuration (`AgentConfig`; the instance leaves these command lines out):

- `claude -- task` is resumed as `claude -- --resume <id>`: the `--` is carried.
- On codex a flag of no table that takes a value takes the conversation id for it.
- Of a flag given twice the record has the first value (`agentconfig.py:184`), the
  agent the last.
- The mode and model of the record come from the flags and the user's settings
  (`agentconfig.py:119-127`, `195-205`). Local and project settings, of which only
  fingerprints are kept, go before the user's, and `ANTHROPIC_MODEL`, which is
  captured and restored (`agentconfig.py:42`), before all of them: the record then
  names a mode or model the agent does not run with. The model has this, and
  `RecordIsTrue` excepts it.
- Where the environment of an agent cannot be read (macOS) its seat is lost and
  nothing says so; the settings of codex and most other kinds are not compared;
  settings that were edited while the agent ran are recorded as those it has.

Rolls (`Collect`; the model has the first four):

- On cmux the hook record and the binding of a pane stay after `/exit`
  (`docs/cmux-facts.md:96-98`), and `collect.py:313-315` makes an agent of the shell
  that is there; `collect.py:351-359` resumes an agent the hooks have not told of yet
  in the conversation of the one before it.
- herdr reports codex `idle` over its trust dialogs (`docs/agent-cli-facts.md:23`) and
  no screen is read there: the agent is reported idle, and parked. The same goes for a
  dialog no pattern knows, on tmux and cmux.
- The patterns of dialogs are words such as "Allow" and match the last 12 lines
  whatever they are about: an idle agent is then reported blocked, on tmux and cmux,
  and its park refused. `detect.py:17-18` chooses this; so no property says that an
  agent reported blocked asks something.
- An agent without a session id gets no resume command on herdr
  (`docs/herdr-0.8.2-facts.md:121`, `plan_set.py:321`), and starts afresh.
- An answer that cannot be parsed (an apostrophe in a command line,
  `tmux.py:132`; a `|` in a title, `tmux.py:98`) makes the whole host unreachable,
  where `collect.py:200` speaks of transport errors.
- `collect.py:286` asks for a kind and a directory to be unique per host, and counts
  per session; an agent whose processes could not be listed is not counted at all.
- Two tabs of one label in a workspace give two panes one human id.
- A listing that fails leaves a reachable host without occupants (`collect.py:80`);
  a screen that cannot be read on tmux leaves the quiet time to decide, and an
  agent over a dialog is reported idle.

### What the properties leave out

- `NoAgentKilled` excepts `custom` windows and a secure with targets, whose mode or
  options say that what is beside the target goes; `EntersMeant` excepts `set`,
  because of the unchecked precondition above.
- `EveryPaneOnce` takes a label for a name and its suffix: a pane that somebody
  named `claude#2` beside two named `claude` (or a workspace `Work#5`) can have the
  label that the numbering gives another (`collect.py:216` and `308`).
- `AlwaysReadable` and `StillSameSlot` are stated until two rolls have been under way
  at once: after that they fail. The guard is proved for one process at a time, and
  fails beside another (run `guard_race`).
- `SetSeesLastPark`, `NoAgentKilled` and `EntersMeant` have the exceptions named under
  Known disagreements (a snap labelled pre-secure, a wait that took an agent for gone).
- The properties of `AgentIO` that say "left alone" except agents that take longer
  than `ReadyBy`; `NoSeenDialogTouched` excepts dialogs that come up after the last
  look, which no client of a terminal can exclude.
- `SameAgentUnlessTold` holds for the kinds whose settings are probed, where the
  environment was read; `FlagsRestored` for the kinds with a flag table.
- `SeenAsItWas` and `DialogIsNotIdle` except panes about which a command failed. On
  cmux `SeenAsItWas` allows the agent of the pane's record, and `DialogIsNotIdle` is
  about agents their record is of. `ResumesItself` is about agents the multiplexer
  knows, and about flags where cmux has no record of another kind.
- `RecordIsTrue` is stated where no local or project settings are, and of the model
  where `ANTHROPIC_MODEL` is not set. Not represented: the project's own
  `settings.local.json` beside its `settings.json`, flags that take several values
  (`--add-dir a b`), credential flags.
- `CompleteMeansBack` looks at the moment the mark is written: what an agent does
  afterwards is not Watchbill's.

### Fairness

`Executor` states weak fairness of `Progress`, for `Terminates` and the
refinement. Every command exec runs has a timeout derived from the step
(`exec.step_timeout`), so an attempt comes to an outcome; the exceptions are
MANUAL steps, which wait for a person, and LOCAL steps, which no planner makes.
`AgentIO` states weak fairness of `Exec`, the steps of exec and of the waits it
runs, for the same reason: every command has its own deadline and every wait
counts its iterations. Nothing is assumed of the agent, the operator or cmux, so
`Terminates` holds over an agent that never answers.

## Proofs

Proved with TLAPS, for all values of the constants:

- `ExecutorProofs`: `TypeOK`, `FailStop`, `CompleteIsHonest`, `PartialIsHonest`,
  `ExitTellsTruth`, and that `Executor` implements `RollingWindow`. The
  properties speak of the journal and the code of two sets in memory, so the
  inductive invariant `IInv` ties them together: `MemoryIsJournal` (the failed
  hosts and slots are exactly those the journal has a fatal failure for),
  `StepsExplained` (every step passed over has left a line that explains it),
  `LinesAreOurs` (no line is ahead of the position), `AttemptAllowed` and
  `CodeIsEarned`. One lemma per action shows that it keeps `IInv`; `Recorded`
  and `PassOver` carry what the two recording and the two skipping actions have
  in common. The refinement maps a host's marks to its verdict and shows per
  action that it is one step of `RollingWindow` or none. It needs
  `MarkAssumption`: after the mark of a host no step of its occupants follows,
  which is how the planners lay plans out.
- `RosterStoreProofs`: `TypeOK` and `NothingLost` for any number of processes. A
  parked agent was in the roster of the command that parked it, so the invariant
  adds that from the guard on this roster is in its file (`DraftOnDisk`) and that
  no two commands have the same time (`OwnTime`), so none saves over it.
  `SetSeesLastPark` where all processes but one are heartbeats (`OneOperator`):
  `LastSecure` adds that, while no snap poses as the roster before a secure, the
  newest roster before a secure has the agents the last secure parked, and that
  every command's draft says what was so when it rolled. `GuardKeptAlone` proves
  `GuardKept` where only one process exists.
- `SlotsProofs`: `TypeOK` and `OneSlotPerLabel` for any number of rolls that
  overlap. The file is read, written and renamed at different times, so the
  invariant speaks of every store there is: the two files and the memory of each
  roll have no two records with one human id. `AlwaysReadable` and `StillSameSlot`
  are stated until two rolls have overlapped; until then at most one is under way
  (`Solo`), and an invariant (`AloneInv`) ties what the last roster gave to the
  store that one works on, stage by stage. That the marks for an empty, a
  half-written and an absent file are not themselves stores is a hypothesis of
  `AlwaysReadableAlone`, which TLC's model values satisfy.
- `AgentIOProofs`: `NoSeenDialogTouched`, for waits of any length and any number
  of disturbances. The key and the look are steps of their own, so the invariant
  adds `LookHolds`: between the look and the key a dialog on the screen is fresh.
  One lemma per operator of the keys shows that no key puts up a dialog; one per
  group of actions shows that it keeps the invariant. In the same module `TypeOK`,
  `PromptsCounted`, `OkMeansDone`, and `ResumedOnce` where `CmuxBy < FallbackAt`.
  What exec may do next depends on where it is in the plan, so the second part
  first computes the plans: `Kth` counts the commands of a plan from its end, and
  `CommandPlaces` says where each command can stand. `Control` is that `todo` is
  an end of the plan and `stage` one of its first command's. On it rest `KeysTold`
  (the prompt is typed once, and is on the input line or with the agent, never
  both) and `HerdrTold` (a prompt that stalled, one that is held back and one that
  was read are together at most two). `RInv` is for the resume command: it is on
  no input line of a live agent. A cmux that may act after the fallback does
  resume an agent twice, as TLC finds with `CmuxBy = 2` in the instance: the
  hypothesis is needed, and is what the fallback of `mux/cmux.py:369-374` counts
  on. The last part proves `QuietParkWorks`, for every length of the waits, and
  `QuietRestoreWorks`, where the fallback comes after cmux's own time and before
  the wait is over (`CmuxBy < FallbackAt < Polls`; the second holds of every wait
  of three iterations or more). The invariants `QPark` and `QRestore` say of a run
  in which nothing goes differently what is in the pane before each command, and
  `TInv` supplies where exec is. `QuietBefore` shows that a quiet state has only
  quiet states behind it.

- `CollectProofs`: `SeenAsItWas`, `DialogIsNotIdle`, `ResumesItself` and
  `EveryPaneOnce`, for any host, any number of panes that change and of commands
  that fail. The properties compare a finished roster with the past, so `IInv`
  says at every command what the answers so far are worth: `Answered` ties each
  fact about a pane to something in `truth`, what ran there since it was listed
  and what the multiplexer was told of it, and says which facts there must be by
  `Asked`, the commands given so far. `Control` and `Gathered` are the order of
  the commands: a session is done only when each of its panes was asked about, and
  where no listing failed every session before the one under way is. `Moved` is
  what the four ways to go on have in common. `ForegroundIs` and `ClassifyIs` are
  about the code alone: of every program the parsers keep enough rows, and
  `classify` finds it in them.
- `WindowProofs`: for any fleet, any requests and any faults. Its first part is
  about the planners alone: planner by planner and step by step, all that
  `plan_secure`, `plan_set` and `plan_relieve` write is `Planned`, whatever roster
  they are given (`PlanSecurePlanned`, `PlanSetPlanned`, `PlanRelievePlanned`):
  hosts, sessions and occupants are those of the fleet, what makes a pane names
  the occupant it is for, and what makes, starts or stops something names its
  session. As the rosters come from `Roll` and from earlier runs (`PlanInv`), the
  step at hand is always one of these: `StepsArePlanned`. The second part is about
  the world. One lemma per kind of pane and world change shows that panes are only
  added and none moves to another session (`Kept`), and that only a stop takes a
  session down (`UpHolds`); `MakeFits`, `StartFits`, `OnPaneFits` and `ResultsFit`
  put them together for each operation, whether its command succeeds, fails, or
  fails with its effect. From it follow `WindowTypeOK`, without further
  hypothesis, and `OnePaneEach`, whose invariant is `Apart`: a pane bound to an
  occupant was either claimed from a restored layout, or made after the layout of
  its session was read, so that no layout offers it. It needs `NoTmuxBoot`, that
  no tmux session is started with the pane of an occupant: that pane is in the
  layout read afterwards, and unclaimed, which is the trouble with two tmux
  windows of one name (above). `StoppedIsUp` is proved where no host has two
  sessions (`OneSession`; with two it is false, above). The first half is about
  the plan: every stop has a start of the same session behind it (`Owes`), which
  the steps of one host have, and so has what comes of putting those of several
  hosts one behind the other. The second is `RunInv`: while nothing has failed,
  every session started so far is up, or was stopped again.

- `AgentConfigProofs`: `ResumesItsConversation`, `SameAgentUnlessTold`,
  `FlagsRestored` and `RecordIsTrue`, for command lines of every length, any number
  of windows, changes and failed probes. The hypothesis is `Phrases = FALSE`, no
  argument of several words: run `words` shows what happens with one.
  Two programs read a command line, `carried_flags` to record it and the agent to run
  it, and what the first keeps is read by the second again. `Sim` relates the three
  readings word by word: what `carried_flags` kept so far is read as the flags of
  the whole line so far, except those it drops on purpose. From it `CarriedFlagsAre`
  gives what is recorded, and `ResumeOfIs` and `StartIs` what the agent reads on the
  line that `resume.py` and `agentconfig.py` make of the record: the flags, the
  conversation, and the words where the resume arguments of its kind go.
  `FlagSaysIs` finds the mode and the model in the same flags; `Flattened` and
  `SeenIs` say that `ps` followed by `shlex` gives back a command line without
  phrases. `IInv` ties the record to the agent it was rolled from (`RecordFits`),
  that agent to the one running now (`BeforeFits`) and to the settings on disk
  (`DiskFits`); one lemma per action keeps it.
- `SequenceLemmas`: the library's induction theorems take an operator, which no
  prover here can instantiate, so induction along a sequence is stated with the set
  of the lengths it holds for (`UpTo`, `ByAppending`). `Recursion` shows that the
  recursive functions along a sequence exist, `FoldAppend` how a fold goes on, and
  `FlattenHas`, `ConcatHas` and `ChosenIs` what is in the sequences the planners make.

The assumptions are the named ASSUMEs of the modules, which TLC evaluates on every
instance, and the hypotheses named above. `NoTmuxBoot` holds of the windows that keep
the sessions up (`upgrade-agents`) and of every fleet without tmux.

Only model-checked:

- both `Terminates`: the prover does not do liveness;
- `CompleteMeansBack`, `SetBringsBack` and `WindowIsWhole` of `Window`: they depend on
  the order of all steps of an occupant within a plan (where its pane is made, typed
  into and looked at) and on what the panes were at the roll, which the invariants
  proved so far do not tie together. `WindowIsWhole` and its kin also have conditions
  that come from the disagreements above (run `split`, a second agent in a tab),
  which `MCWindow` leaves out by the fleets it has;
- the action properties `NoAgentKilled`, `EntersMeant` and `ExcludedUntouched` of
  `Window`, for the same reason; the last is false of a fleet with an agent behind
  an excluded pane in its tab (above), which the runs do not have;
- `StoppedIsUp` where a host has several sessions, for there it is false.

## Not modelled

- The text formats: the parsing of listings and process tables field by field,
  the argument lists, quoting, the patterns of dialogs and prompts. What the
  parsers make of their input is in `Collect`; what goes wrong with the text itself
  is listed above.
- The server environment and `sessionenv`, the shape records, `roster.merge` and
  `pins`, exclusions by glob, redaction of secrets: records that are copied.
- Transports, hosts.toml, doctor, paths: I/O and reports.
- `--include-local` with a stop of Watchbill's own session.

## Plan

1. `Planner` theorems about who is in a plan, beside those about what a step is: that a
   plan never parks a protected occupant and stops no session of an excluded one.
2. `Window` theorems on top of those: the order of the steps of one occupant, and
   from it `SetBringsBack` and `CompleteMeansBack`; the promises of `Executor` for
   verbs that run one after another.
3. `roster.merge` beside `Slots` (pins that follow a slot), and Watchbill's own pane
   in `Window`.
