------------------------------- MODULE AgentIO -------------------------------
(***************************************************************************)
(* One agent and the keys Watchbill sends it.  The steps that park an      *)
(* agent (plan_secure.park_steps) or bring it back (plan_set.set_steps)    *)
(* are carried out one command, and one iteration of a wait, at a time:    *)
(* exec looks at the pane, and what it saw may be over when the key        *)
(* arrives.  Between any two commands the agent does as it likes, somebody *)
(* else may use the pane, and cmux may resume the agent by itself.         *)
(***************************************************************************)
EXTENDS Integers, Sequences

CONSTANTS
  Polls,      \* iterations of a wait
  NudgeAt,    \* the iteration after which a wait for the exit presses Enter
  CmuxBy,     \* cmux has resumed an agent by this iteration, or is late
  ReadyBy,    \* an agent comes up, or exits, by this iteration, or is slow
  MaxMoves    \* bound: things that go differently than a quiet run

ASSUME BoundsAssumption ==
  /\ Polls \in Nat /\ NudgeAt \in 1..(Polls - 1) /\ ReadyBy \in 1..(Polls - 1)
  /\ CmuxBy \in Nat /\ MaxMoves \in Nat

VARIABLES
  job,      \* what is to be done, and where; never changes
  pane,     \* the pane: see Pane
  todo,     \* the commands left; the first is under way
  stage,    \* how far that one is
  i,        \* the iteration of its wait
  result,   \* "running", "ok" or "failed"
  fresh,    \* history: a dialog came up since exec last looked, or began the command
  late,     \* prompts herdr took and the agent has not read
  seen,     \* history: what this run has been through, see History
  moves     \* how often something went differently

vars == <<job, pane, todo, stage, i, result, fresh, late, seen, moves>>

(* What runs in the pane ("none" is a shell at its prompt; "odd" a dialog  *)
(* no pattern matches), what is typed and not submitted, whether Remote    *)
(* Control is connected, whether the next Enter only completes a slash     *)
(* command, what the agent was told, what the shell ran.                   *)
Live == {"starting", "idle", "working", "dialog", "odd", "menu", "quitting"}
Text == {"junk", "exit", "rc", "env", "resume", "prompt"}
Pane ==
  [runs : Live \cup {"none"}, line : Seq(Text), rc : BOOLEAN, popup : BOOLEAN,
   got : Seq(Seq(Text)), ran : Seq(Seq(Text))]

Alive(p) == p.runs # "none"

Job ==
  [mux : {"herdr", "tmux", "cmux"}, kind : {"claude", "codex"}, verb : {"park", "restore"},
   remote : BOOLEAN, optIn : BOOLEAN, seat : BOOLEAN, native : BOOLEAN, prompt : BOOLEAN, wordy : BOOLEAN]

Command ==
  {"clear", "exit", "enter", "gone", "env", "start", "resume", "native", "idle", "prompt", "text", "submit"}

(* A prompt key went into a dialog that was not fresh; a prompt stalled; a *)
(* wait for the exit took a failure for it; the agent gone when that wait  *)
(* ended; an agent, or a cmux, that took too long; that cmux has resumed   *)
(* the agent.                                                              *)
History == [{"touched", "stalled", "blind", "gone", "slow", "native"} -> BOOLEAN]

-----------------------------------------------------------------------------
(* The plans *)

ParkSteps == <<"clear", "exit", "enter", "gone">>

(* Wrong: the seat environment after the agent. *)
StartSeatLate(j) ==
  IF j.native THEN <<"native">>
  ELSE (IF j.mux = "herdr" THEN <<"start">> ELSE <<"resume", "enter">>)
       \o (IF j.seat THEN <<"env", "enter">> ELSE <<>>)

StartSteps(j) ==
  IF j.native THEN <<"native">>
  ELSE (IF j.seat THEN <<"env", "enter">> ELSE <<>>)
       \o (IF j.mux = "herdr" THEN <<"start">> ELSE <<"resume", "enter">>)

PromptSteps(j) ==
  IF ~j.prompt THEN <<>>
  ELSE <<"idle", "clear">> \o (IF j.mux = "herdr" THEN <<"prompt">> ELSE <<"text", "submit">>)

Steps(j) == IF j.verb = "park" THEN ParkSteps ELSE StartSteps(j) \o PromptSteps(j)

Jobs ==
  {j \in Job : /\ j.native => j.mux = "cmux" /\ j.verb = "restore"
               /\ j.remote \/ j.optIn => j.verb = "park" /\ j.kind = "claude"
               /\ j.wordy => j.prompt /\ j.mux # "herdr"
               /\ j.verb = "park" => ~j.seat /\ ~j.prompt}

Init ==
  /\ job \in Jobs
  /\ pane \in [runs : IF job.verb = "park" THEN {"idle"} ELSE {"none"},
               line : IF job.verb = "park" THEN {<<>>, <<"junk">>} ELSE {<<>>},
               rc : {job.remote},
               popup : {job.kind = "codex"}, got : {<<>>}, ran : {<<>>}]
  /\ todo = Steps(job) /\ stage = "begin" /\ i = 1 /\ result = "running"
  /\ fresh = FALSE /\ late = 0 /\ moves = 0
  /\ seen = [h \in {"touched", "stalled", "blind", "gone", "slow", "native"} |-> FALSE]

-----------------------------------------------------------------------------
(* What keys do.  Each operator is the set of panes a key may leave. *)

Typed(p, text) ==
  LET on == [p EXCEPT !.line = Append(@, text)]
  IN CASE p.runs \in {"starting", "quitting"} -> {p, on}           \* dropped, or kept
       [] p.runs \in {"dialog", "odd", "menu"} -> {p, [p EXCEPT !.runs = "working"]}
       [] OTHER -> {on}

Cleared(p) ==
  CASE p.runs \in {"starting", "quitting"} -> {p, [p EXCEPT !.line = <<>>]}
    [] p.runs \in {"dialog", "odd", "menu"} -> {p}
    [] OTHER -> {[p EXCEPT !.line = <<>>]}

(* Enter at a shell: what the command leaves running. *)
ShellRuns(p) ==
  IF p.line = <<>> THEN {p}
  ELSE {[p EXCEPT !.ran = Append(@, p.line), !.line = <<>>,
                  !.runs = IF p.line = <<"resume">> THEN "starting" ELSE "none"]}

(* Enter in an agent at its prompt. *)
AgentReads(p) ==
  CASE p.line = <<>> -> {p}
    [] p.line \in {<<"exit">>, <<"rc">>} /\ p.popup -> {[p EXCEPT !.popup = FALSE]}
    [] p.line = <<"exit">> /\ ~p.popup -> {[p EXCEPT !.line = <<>>, !.runs = IF p.rc THEN "idle" ELSE "quitting"]}
    [] p.line = <<"rc">> /\ ~p.popup -> {[p EXCEPT !.line = <<>>, !.rc = TRUE, !.runs = IF p.rc THEN "menu" ELSE "idle"]}
    [] OTHER -> {[p EXCEPT !.line = <<>>, !.got = Append(@, p.line), !.runs = "working"]}

Entered(p) ==
  CASE p.runs = "none" -> ShellRuns(p)
    [] p.runs = "idle" -> AgentReads(p)
    [] p.runs = "working" -> {[p EXCEPT !.line = <<>>, !.got = IF p.line = <<>> THEN @ ELSE Append(@, p.line)]}
    [] p.runs \in {"starting", "quitting"} -> {p, [p EXCEPT !.line = <<>>]}
    [] OTHER -> {[p EXCEPT !.runs = "working"]}                    \* it answers the dialog

(* Up, Up, Enter: the item of the /rc dialog, or an old message again. *)
Picked(p) ==
  CASE p.runs = "menu" -> {[p EXCEPT !.runs = "idle", !.rc = FALSE]}
    [] p.runs \in {"idle", "none"} -> {[p EXCEPT !.line = <<>>], p}
    [] OTHER -> Entered(p)

-----------------------------------------------------------------------------
(* exec *)

Running(command, at) == result = "running" /\ Head(todo) = command /\ stage = at

Succeed ==
  /\ todo' = Tail(todo) /\ stage' = "begin" /\ i' = 1 /\ fresh' = FALSE
  /\ result' = IF Tail(todo) = <<>> THEN "ok" ELSE "running"

Fail == result' = "failed" /\ UNCHANGED <<todo, stage, i, fresh>>

Go(to) == stage' = to /\ fresh' = FALSE /\ UNCHANGED <<todo, i, result>>

Note(h, holds) == seen' = [seen EXCEPT ![h] = holds]

(* Wrong: the Enter that submits a prompt asks nothing. *)
AsksForText(command) == command \in {"prompt", "text"}

(* Which commands ask what before they are sent: the agent's status, or    *)
(* whether Remote Control is connected; on cmux nothing names the pane     *)
(* that would be read from.                                                *)
AsksStatus(command) == command \in {"prompt", "text", "submit"}

AsksRemote(command) == command = "exit" /\ job.kind = "claude" /\ job.mux # "cmux"

(* What the screen, or herdr, tells of the agent.  The prompt's own words  *)
(* on the input line may look like a dialog.                               *)
LooksBlocked ==
  \/ pane.runs = "dialog"
  \/ job.wordy /\ "prompt" \in {pane.line[n] : n \in DOMAIN pane.line}

MayPrompt == ~LooksBlocked /\ (job.mux = "herdr" => Alive(pane))

CheckStatus ==
  /\ \E command \in Command : AsksStatus(command) /\ Running(command, "begin")
  /\ IF MayPrompt THEN Go("act") ELSE Fail
  /\ UNCHANGED <<job, pane, late, seen, moves>>

CheckRemote ==
  /\ Running("exit", "begin") /\ AsksRemote("exit")
  /\ CASE ~pane.rc -> Go("act")
       [] pane.rc /\ job.optIn -> Go("connected")
       [] OTHER -> Fail
  /\ UNCHANGED <<job, pane, late, seen, moves>>

(* _remote_control: type /rc, pick "Disconnect this session", look again. *)
TypeRemote ==
  /\ Running("exit", "connected")
  /\ \E p \in Typed(pane, "rc") : pane' \in Entered(p)
  /\ Go("menu")
  /\ UNCHANGED <<job, late, seen, moves>>

PickDisconnect ==
  /\ Running("exit", "menu")
  /\ pane' \in Picked(pane)
  /\ Go("disconnected")
  /\ UNCHANGED <<job, late, seen, moves>>

CheckDisconnected ==
  /\ Running("exit", "disconnected")
  /\ IF pane.rc THEN Fail ELSE Go("act")
  /\ UNCHANGED <<job, pane, late, seen, moves>>

(* A command that may be sent: it asks nothing, or has been answered. *)
MaySend(command) ==
  \/ Running(command, "act")
  \/ Running(command, "begin") /\ ~AsksStatus(command) /\ ~AsksRemote(command)

(* A key that is part of a prompt goes into a dialog that was up before. *)
Touching(command) ==
  Note("touched", seen["touched"] \/ (command \in {"text", "submit"} /\ pane.runs = "dialog" /\ ~fresh))

(* _is_prompt: the commands after which exec looks for the agent. *)
IsPrompt(command) == command = "text" \/ (command = "submit" /\ job.mux = "tmux")

Sent(command) == IF IsPrompt(command) THEN Go("after") ELSE Succeed

SendText ==
  \E command \in {"exit", "env", "resume", "text"} :
    /\ MaySend(command)
    /\ pane' \in Typed(pane, IF command = "text" THEN "prompt" ELSE command)
    /\ Sent(command) /\ Touching(command)
    /\ UNCHANGED <<job, late, moves>>

SendEnter ==
  \E command \in {"enter", "submit"} :
    /\ MaySend(command)
    /\ pane' \in Entered(pane)
    /\ Sent(command) /\ Touching(command)
    /\ UNCHANGED <<job, late, moves>>

ClearInput ==
  /\ MaySend("clear")
  /\ pane' \in Cleared(pane)
  /\ Succeed
  /\ UNCHANGED <<job, late, seen, moves>>

(* herdr starts the agent itself, and answers when it sees it. *)
AgentStart ==
  /\ MaySend("start")
  /\ IF pane.runs = "none" /\ pane.line = <<>>
     THEN pane' = [pane EXCEPT !.runs = "starting", !.ran = Append(@, <<"resume">>)] /\ Succeed
     ELSE Fail /\ UNCHANGED pane
  /\ UNCHANGED <<job, late, seen, moves>>

-----------------------------------------------------------------------------
(* Waits: one iteration, or the key it presses, at a time. *)

(* An agent that is still not up, or not gone, when it should be. *)
Slow == i > ReadyBy /\ pane.runs \in {"starting", "quitting"}

(* Wrong: one iteration more than the wait has. *)
IterateOnceMore ==
  /\ IF i > Polls THEN Fail ELSE i' = i + 1 /\ stage' = "begin" /\ UNCHANGED <<todo, result, fresh>>
  /\ Note("slow", seen["slow"] \/ Slow)

Iterate ==
  /\ IF i >= Polls THEN Fail ELSE i' = i + 1 /\ stage' = "begin" /\ UNCHANGED <<todo, result, fresh>>
  /\ Note("slow", seen["slow"] \/ Slow)

(* The foreground command of the pane; codex runs behind an interpreter. *)
Foreground == IF ~Alive(pane) THEN "shell" ELSE IF job.kind = "codex" THEN "node" ELSE job.kind

(* Wrong: anything but the agent's own command counts as its exit. *)
SeenOther == Foreground # job.kind

(* herdr: `agent get` fails; tmux and cmux: a shell in the foreground. *)
SeenGone == IF job.mux = "herdr" THEN ~Alive(pane) ELSE Foreground = "shell"

(* Wrong: no second Enter. *)
NeverNudge == FALSE

NudgeDue == i = NudgeAt

WaitGone ==
  /\ Running("gone", "begin")
  /\ IF SeenGone THEN Succeed /\ Note("gone", ~Alive(pane))
     ELSE IF NudgeDue THEN Go("nudge") /\ UNCHANGED seen
     ELSE Iterate
  /\ UNCHANGED <<job, pane, late, moves>>

Nudge ==
  /\ Running("gone", "nudge")
  /\ pane' \in Entered(pane)
  /\ Iterate
  /\ UNCHANGED <<job, late, moves>>

(* herdr says idle, done or blocked, which it may also say of an agent     *)
(* that redraws or shows a dialog it does not know; tmux finds the window  *)
(* quiet; cmux trusts its lifecycle, or a quiet screen without a dialog.   *)
MaySettle == pane.runs \in {"idle", "dialog", "odd", "menu", IF job.mux = "herdr" THEN "starting" ELSE "working"}

MustSettle == pane.runs = "idle" /\ i > ReadyBy

(* Wrong: the wait for idle has no deadline. *)
WaitIdleForever ==
  /\ Running("idle", "begin")
  /\ \/ MaySettle /\ Succeed /\ UNCHANGED seen
     \/ ~MustSettle /\ UNCHANGED <<todo, stage, i, result, fresh, seen>>
  /\ UNCHANGED <<job, pane, late, moves>>

WaitIdle ==
  /\ Running("idle", "begin")
  /\ \/ MaySettle /\ Succeed /\ UNCHANGED seen
     \/ ~MustSettle /\ Iterate
  /\ UNCHANGED <<job, pane, late, moves>>

(* Wrong: the command is typed in the first iteration. *)
FallbackAtOnce == 1

(* cmux: a third into the wait the resume command is typed. *)
FallbackAt == IF Polls \div 3 > 2 THEN Polls \div 3 ELSE 2

WaitNative ==
  /\ Running("native", "begin")
  /\ IF Alive(pane) THEN Succeed /\ UNCHANGED seen
     ELSE IF i = FallbackAt THEN Go("fallback") /\ UNCHANGED seen
     ELSE Iterate
  /\ UNCHANGED <<job, pane, late, moves>>

Fallback ==
  /\ Running("native", "fallback")
  /\ \E p \in Typed(pane, "resume") : pane' \in Entered(p)
  /\ Iterate
  /\ UNCHANGED <<job, late, moves>>

-----------------------------------------------------------------------------
(* herdr agent prompt --wait --until working.  An agent that redraws drops *)
(* the text, or reads it late.                                             *)

Takes(p) == [p EXCEPT !.runs = "working", !.got = Append(@, Append(p.line, "prompt")), !.line = <<>>]

Answer ==
  CASE pane.runs \in {"idle", "working"} -> "working"
    [] pane.runs \in {"starting", "odd", "menu"} -> "agent_prompt_stalled"
    [] OTHER -> "refused"                                      \* agent_not_found, agent_blocked

Deliver ==
  /\ pane' = IF Answer = "working" THEN Takes(pane) ELSE pane
  /\ IF Answer = "agent_prompt_stalled" THEN late' \in {late, late + 1} ELSE UNCHANGED late

(* Only a stalled prompt is worth a second one. *)
Retried == Answer = "agent_prompt_stalled"

Prompt ==
  /\ MaySend("prompt") /\ Deliver
  /\ CASE Answer = "working" -> Go("after")
       [] Retried -> Go("stalled")
       [] OTHER -> Fail
  /\ Note("stalled", Retried)
  /\ UNCHANGED <<job, moves>>

(* Settle, ask the status again, prompt again. *)
Settle ==
  /\ Running("prompt", "stalled")
  /\ IF MayPrompt THEN Go("again") ELSE Fail
  /\ Note("slow", seen["slow"] \/ pane.runs = "starting")
  /\ UNCHANGED <<job, pane, late, moves>>

(* Wrong: prompt until it goes in. *)
PromptUntil ==
  /\ Running("prompt", "again") /\ Deliver
  /\ CASE Answer = "working" -> Go("after")
       [] Retried -> Go("stalled")
       [] OTHER -> Fail
  /\ UNCHANGED <<job, seen, moves>>

PromptAgain ==
  /\ Running("prompt", "again") /\ Deliver
  /\ IF Answer = "working" THEN Go("after") ELSE Fail
  /\ UNCHANGED <<job, seen, moves>>

(* _post_prompt_check: `agent get` fails when the agent is gone; a screen  *)
(* can be read whatever is on it.                                          *)
StillThere == job.mux = "herdr" => Alive(pane)

CheckAfter ==
  /\ \E command \in Command : Running(command, "after")
  /\ IF StillThere THEN Succeed ELSE Fail
  /\ UNCHANGED <<job, pane, late, seen, moves>>

Exec ==
  \/ CheckStatus \/ CheckRemote \/ TypeRemote \/ PickDisconnect \/ CheckDisconnected
  \/ SendText \/ SendEnter \/ ClearInput \/ AgentStart
  \/ WaitGone \/ Nudge \/ WaitIdle \/ WaitNative \/ Fallback
  \/ Prompt \/ Settle \/ PromptAgain \/ CheckAfter

-----------------------------------------------------------------------------
(* The agent, the operator, cmux, and commands that fail *)

(* What an agent does when nothing is wrong. *)
Progress ==
  /\ result = "running" \/ pane.runs = "quitting"
  /\ \/ pane.runs \in {"starting", "working"} /\ pane' = [pane EXCEPT !.runs = "idle"]
     \/ pane.runs = "quitting" /\ pane' = [pane EXCEPT !.runs = "none", !.line = <<>>]
  /\ UNCHANGED <<job, todo, stage, i, result, fresh, late, seen, moves>>

(* The agent has redrawn, and reads the prompt it was sent meanwhile. *)
ReadLate ==
  /\ late > 0 /\ pane.runs \in {"idle", "working"} /\ result = "running"
  /\ late' = late - 1
  /\ pane' = Takes(pane)
  /\ UNCHANGED <<job, todo, stage, i, result, fresh, seen, moves>>

Move == result = "running" /\ moves < MaxMoves /\ moves' = moves + 1

(* The agent begins to work, asks, dies; somebody types into the pane, or  *)
(* connects Remote Control, or disconnects it.                             *)
Stir ==
  /\ Move
  /\ \/ /\ pane.runs = "idle" /\ pane' = [pane EXCEPT !.runs = "working"]
        /\ UNCHANGED fresh
     \/ /\ pane.runs \in {"starting", "idle", "working"}
        /\ \E r \in {"dialog", "odd"} : pane' = [pane EXCEPT !.runs = r]
        /\ fresh' = TRUE
     \/ /\ Alive(pane) /\ pane' = [pane EXCEPT !.runs = "none", !.line = <<>>]
        /\ UNCHANGED fresh
     \/ /\ pane' = [pane EXCEPT !.line = Append(@, "junk")]
        /\ UNCHANGED fresh
     \/ /\ pane.runs = "idle" /\ job.kind = "claude" /\ pane' = [pane EXCEPT !.rc = ~@]
        /\ UNCHANGED fresh
  /\ UNCHANGED <<job, todo, stage, i, result, late, seen>>

(* cmux resumes the agent of a pane it restored: once, and by CmuxBy       *)
(* unless it is late, in which case it does not look either.               *)
NativeResume ==
  /\ job.native /\ ~seen["native"] /\ result = "running"
  /\ \/ /\ Running("native", stage) /\ i <= CmuxBy /\ pane.runs = "none" /\ pane.line = <<>>
        /\ seen' = [seen EXCEPT !["native"] = TRUE] /\ UNCHANGED moves
     \/ /\ Move /\ seen' = [seen EXCEPT !["native"] = TRUE, !["slow"] = TRUE]
  /\ \E p \in Typed(pane, "resume") : pane' \in Entered(p)
  /\ UNCHANGED <<job, todo, stage, i, result, fresh, late>>

(* A prompt is carried out and reported as failed; `agent get` fails for   *)
(* another reason than that the agent is gone; the screen with the state   *)
(* of Remote Control cannot be read, which counts as not connected.        *)
Fault ==
  /\ Move /\ job.mux = "herdr"
  /\ \/ /\ MaySend("prompt") /\ Answer = "working" /\ pane' = Takes(pane)
        /\ Fail /\ UNCHANGED seen
     \/ /\ Running("gone", "begin") /\ Succeed
        /\ Note("blind", TRUE) /\ UNCHANGED pane
     \/ /\ Running("exit", "begin") /\ AsksRemote("exit") /\ Go("act")
        /\ UNCHANGED <<pane, seen>>
  /\ UNCHANGED <<job, late>>

Next == Exec \/ Progress \/ ReadLate \/ Stir \/ NativeResume \/ Fault

(* exec goes from command to command, and every command ends by its own    *)
(* deadline.  Nothing is assumed of the agent or of cmux.                  *)
Spec == Init /\ [][Next]_vars /\ WF_vars(Exec)

-----------------------------------------------------------------------------
(* Properties *)

(* The variables keep their types; an iteration is never past the wait's   *)
(* last, and herdr never holds more than the two copies of a prompt.       *)
TypeOK ==
  /\ job \in Jobs
  /\ pane.runs \in Live \cup {"none"} /\ pane.rc \in BOOLEAN /\ pane.popup \in BOOLEAN
  /\ {pane.line[n] : n \in DOMAIN pane.line} \subseteq Text
  /\ stage \in {"begin", "connected", "menu", "disconnected", "act", "nudge", "fallback", "stalled", "again", "after"}
  /\ {todo[n] : n \in DOMAIN todo} \subseteq Command
  /\ i \in 1..Polls /\ result \in {"running", "ok", "failed"} /\ fresh \in BOOLEAN
  /\ late \in 0..2 /\ moves \in 0..MaxMoves /\ seen \in History

Quiet == moves = 0 /\ ~seen["slow"]

(* Left alone, an idle agent is parked, whatever was on its input line and *)
(* even when the first Enter only completed the command, and is told       *)
(* nothing; a Claude with Remote Control is refused, or disconnected where *)
(* the host opts in, and never connected.                                  *)
QuietParkWorks ==
  job.verb = "park" /\ Quiet /\ result # "running" =>
    /\ result = "ok" <=> (job.remote => job.optIn /\ job.mux # "cmux")
    /\ result = "ok" => ~Alive(pane)
    /\ result = "failed" => pane.runs = "idle" /\ pane.rc = job.remote
    /\ pane.got = <<>> /\ pane.ran = <<>>

(* Left alone, an agent comes back with its seat environment set first,    *)
(* started once, and is told its prompt and nothing else.  Where the       *)
(* prompt reads like a dialog it is typed and not submitted.               *)
QuietRestoreWorks ==
  job.verb = "restore" /\ Quiet /\ result # "running" =>
    /\ result = "ok" <=> ~job.wordy
    /\ pane.ran = (IF job.seat /\ ~job.native THEN <<<<"env">>>> ELSE <<>>) \o <<<<"resume">>>>
    /\ result = "ok" /\ job.prompt => <<"prompt">> \in {pane.got[n] : n \in DOMAIN pane.got}
    /\ {pane.got[n] : n \in DOMAIN pane.got} \subseteq {<<"prompt">>}

(* No key of a prompt goes into a dialog that was up when exec last looked *)
(* or began the command: the wait for idle may end over one.               *)
NoSeenDialogTouched == ~seen["touched"]

PromptsRead == {n \in DOMAIN pane.got : "prompt" \in {pane.got[n][m] : m \in DOMAIN pane.got[n]}}

(* An agent is told its prompt once, and twice only if herdr said of the   *)
(* first that it stalled.                                                  *)
PromptsCounted ==
  \A a, b \in PromptsRead : a # b => seen["stalled"] /\ PromptsRead = {a, b}

(* A park ends well only over an agent that was gone, or whose `agent get` *)
(* failed for another reason; a restore on herdr only with the prompt read.*)
OkMeansDone ==
  result = "ok" =>
    /\ job.verb = "park" => seen["gone"] \/ seen["blind"]
    /\ job.mux = "herdr" /\ job.prompt => PromptsRead # {}

(* A cmux that is not late, and Watchbill, do not both resume an agent:    *)
(* no agent is told the resume command as a prompt.                        *)
ResumedOnce ==
  ~seen["slow"] =>
    \A n \in DOMAIN pane.got : "resume" \notin {pane.got[n][m] : m \in DOMAIN pane.got[n]}

(* Whatever the agent does, exec comes to an end with it. *)
Terminates == <>(result # "running")
=============================================================================
