---------------------------- MODULE AgentIOProofs ----------------------------
(***************************************************************************)
(* However long the waits are and whatever happens in the pane meanwhile:  *)
(* why no key of a prompt goes into a dialog that was up when exec looked; *)
(* what an agent is told, its prompt once (twice if herdr said that it     *)
(* stalled), and never the command that resumes it; and what it means that *)
(* a plan was carried out.                                                 *)
(***************************************************************************)
EXTENDS AgentIO, SequenceTheorems, TLAPS

(* Between the look and the key only the agent itself can have put up a    *)
(* dialog, and then it is fresh.                                           *)
LookHolds ==
  result = "running" /\ stage = "act" /\ Head(todo) \in {"text", "submit"} /\ pane.runs = "dialog" => fresh

IInv ==
  /\ pane \in Pane /\ seen \in History
  /\ ~seen["touched"]
  /\ LookHolds

-----------------------------------------------------------------------------
(* No key puts up a dialog, and every key leaves a pane. *)

LEMMA NewLine ==
  ASSUME NEW p \in Pane, NEW l \in Seq(Text)
  PROVE  [p EXCEPT !.line = l] \in Pane /\ [p EXCEPT !.line = l].runs = p.runs
  BY DEF Pane

LEMMA NewState ==
  ASSUME NEW p \in Pane, NEW r \in Live \cup {"none"}
  PROVE  [p EXCEPT !.runs = r] \in Pane /\ [p EXCEPT !.runs = r].runs = r
  BY DEF Pane

LEMMA LineTyped ==
  ASSUME NEW p \in Pane
  PROVE  p.line \in Seq(Text) /\ <<>> \in Seq(Text) /\ \A t \in Text : Append(p.line, t) \in Seq(Text)
  BY DEF Pane

(* What an agent was told and a shell has run are lines. *)
Messages == Seq(Seq(Text))

LEMMA PaneFields ==
  Pane = [runs : Live \cup {"none"}, line : Seq(Text), rc : BOOLEAN, popup : BOOLEAN,
          got : Messages, ran : Messages]
  BY DEF Pane, Messages

LEMMA MessagesTyped ==
  ASSUME NEW p \in Pane, NEW l \in Seq(Text)
  PROVE  /\ p.got \in Messages /\ Append(p.got, l) \in Messages
         /\ p.ran \in Messages /\ Append(p.ran, l) \in Messages
<1>1. p.got \in Messages /\ p.ran \in Messages
  BY PaneFields
<1> QED BY <1>1, AppendProperties DEF Messages

LEMMA TypedQuietly ==
  ASSUME NEW p \in Pane, NEW text \in Text, NEW q \in Typed(p, text)
  PROVE  q \in Pane /\ (q.runs = "dialog" => p.runs = "dialog")
<1> DEFINE on == [p EXCEPT !.line = Append(@, text)]
<1>1. on \in Pane /\ on.runs = p.runs
  BY NewLine, LineTyped
<1>2. CASE p.runs \in {"starting", "quitting"}
  <2>1. q \in {p, on}
    BY <1>2 DEF Typed
  <2> QED BY <2>1, <1>1
<1>3. CASE p.runs \in {"dialog", "odd", "menu"}
  <2>1. q \in {p, [p EXCEPT !.runs = "working"]}
    BY <1>3 DEF Typed
  <2> QED BY <2>1, NewState DEF Live
<1>4. CASE p.runs \notin {"starting", "quitting", "dialog", "odd", "menu"}
  <2>1. q = on
    BY <1>4 DEF Typed
  <2> QED BY <2>1, <1>1
<1> QED BY <1>2, <1>3, <1>4

LEMMA ClearedQuietly ==
  ASSUME NEW p \in Pane, NEW q \in Cleared(p)
  PROVE  q \in Pane /\ (q.runs = "dialog" => p.runs = "dialog")
<1> DEFINE empty == [p EXCEPT !.line = <<>>]
<1>1. empty \in Pane /\ empty.runs = p.runs
  BY NewLine, LineTyped
<1>2. q \in {p, empty}
  <2>1. CASE p.runs \in {"starting", "quitting"}
    BY <2>1 DEF Cleared
  <2>2. CASE p.runs \in {"dialog", "odd", "menu"}
    BY <2>2 DEF Cleared
  <2>3. CASE p.runs \notin {"starting", "quitting", "dialog", "odd", "menu"}
    BY <2>3 DEF Cleared
  <2> QED BY <2>1, <2>2, <2>3
<1> QED BY <1>1, <1>2

LEMMA ShellQuietly ==
  ASSUME NEW p \in Pane, NEW q \in ShellRuns(p)
  PROVE  q \in Pane /\ (q.runs = "dialog" => p.runs = "dialog")
<1>1. CASE p.line = <<>>
  BY <1>1 DEF ShellRuns
<1>2. CASE p.line # <<>>
  <2> DEFINE runs == IF p.line = <<"resume">> THEN "starting" ELSE "none"
             ran == Append(p.ran, p.line)
  <2>1. q = [p EXCEPT !.ran = ran, !.line = <<>>, !.runs = runs]
    BY <1>2 DEF ShellRuns
  <2>2. runs \in Live \cup {"none"} /\ runs # "dialog"
    BY DEF Live
  <2>3. ran \in Messages /\ <<>> \in Seq(Text)
    BY LineTyped, MessagesTyped
  <2> HIDE DEF runs, ran
  <2> QED BY <2>1, <2>2, <2>3, PaneFields
<1> QED BY <1>1, <1>2

LEMMA AgentQuietly ==
  ASSUME NEW p \in Pane, NEW q \in AgentReads(p)
  PROVE  q \in Pane /\ (q.runs = "dialog" => p.runs = "dialog")
<1> DEFINE told == Append(p.got, p.line)
<1>1. /\ told \in Messages /\ <<>> \in Seq(Text)
      /\ p.rc \in BOOLEAN /\ p.popup \in BOOLEAN
  BY LineTyped, MessagesTyped DEF Pane
<1>2. \/ q = p
      \/ q = [p EXCEPT !.popup = FALSE]
      \/ \E r \in {"idle", "quitting"} : q = [p EXCEPT !.line = <<>>, !.runs = r]
      \/ \E r \in {"menu", "idle"} : q = [p EXCEPT !.line = <<>>, !.rc = TRUE, !.runs = r]
      \/ q = [p EXCEPT !.line = <<>>, !.got = told, !.runs = "working"]
  BY <1>1, Zenon DEF AgentReads
<1>3. {"idle", "quitting", "menu", "working"} \subseteq Live
  BY DEF Live
<1> HIDE DEF told
<1> QED BY <1>1, <1>2, <1>3, PaneFields

LEMMA EnteredQuietly ==
  ASSUME NEW p \in Pane, NEW q \in Entered(p)
  PROVE  q \in Pane /\ (q.runs = "dialog" => p.runs = "dialog")
<1>1. CASE p.runs = "none"
  BY <1>1, ShellQuietly DEF Entered
<1>2. CASE p.runs = "idle"
  BY <1>2, AgentQuietly DEF Entered
<1>3. CASE p.runs = "working"
  <2> DEFINE told == IF p.line = <<>> THEN p.got ELSE Append(p.got, p.line)
  <2>1. q = [p EXCEPT !.line = <<>>, !.got = told]
    BY <1>3 DEF Entered
  <2>2. told \in Messages /\ <<>> \in Seq(Text)
    BY LineTyped, MessagesTyped
  <2> HIDE DEF told
  <2> QED BY <2>1, <2>2, PaneFields
<1>4. CASE p.runs \in {"starting", "quitting"}
  <2>1. q \in {p, [p EXCEPT !.line = <<>>]}
    BY <1>4 DEF Entered
  <2> QED BY <2>1, NewLine, LineTyped
<1>5. CASE p.runs \notin {"none", "idle", "working", "starting", "quitting"}
  <2>1. q = [p EXCEPT !.runs = "working"]
    BY <1>5 DEF Entered
  <2> QED BY <2>1, NewState DEF Live
<1> QED BY <1>1, <1>2, <1>3, <1>4, <1>5

LEMMA PickedQuietly ==
  ASSUME NEW p \in Pane, NEW q \in Picked(p)
  PROVE  q \in Pane /\ (q.runs = "dialog" => p.runs = "dialog")
<1>1. CASE p.runs = "menu"
  <2>1. q = [p EXCEPT !.runs = "idle", !.rc = FALSE]
    BY <1>1 DEF Picked
  <2>2. "idle" \in Live
    BY DEF Live
  <2> QED BY <2>1, <2>2 DEF Pane
<1>2. CASE p.runs \in {"idle", "none"}
  <2>1. q \in {p, [p EXCEPT !.line = <<>>]}
    BY <1>2 DEF Picked
  <2> QED BY <2>1, NewLine, LineTyped
<1>3. CASE p.runs \notin {"menu", "idle", "none"}
  BY <1>3, EnteredQuietly DEF Picked
<1> QED BY <1>1, <1>2, <1>3

LEMMA TakesQuietly ==
  ASSUME NEW p \in Pane
  PROVE  Takes(p) \in Pane /\ Takes(p).runs = "working"
<1> DEFINE told == Append(p.got, Append(p.line, "prompt"))
<1>1. "prompt" \in Text /\ "working" \in Live
  BY DEF Text, Live
<1>2. Append(p.line, "prompt") \in Seq(Text) /\ <<>> \in Seq(Text)
  BY <1>1, LineTyped
<1>3. told \in Messages
  BY <1>2, MessagesTyped
<1>4. Takes(p) = [p EXCEPT !.runs = "working", !.got = told, !.line = <<>>]
  BY DEF Takes
<1> HIDE DEF told
<1> QED BY <1>1, <1>2, <1>3, <1>4, PaneFields

-----------------------------------------------------------------------------
(* What the parts of an action do to the invariant. *)

LEMMA NotesTyped ==
  ASSUME seen \in History, NEW h \in {"stalled", "blind", "gone", "slow", "native"},
         NEW holds \in BOOLEAN, seen' = [seen EXCEPT ![h] = holds]
  PROVE  seen' \in History /\ seen'["touched"] = seen["touched"]
  BY DEF History

LEMMA LookKept ==
  ASSUME LookHolds, UNCHANGED <<todo, stage, result, fresh>>, pane'.runs = "dialog" => pane.runs = "dialog"
  PROVE  LookHolds'
  BY DEF LookHolds

LEMMA LookOver ==
  ASSUME stage' # "act" \/ result' # "running"
  PROVE  LookHolds'
  BY DEF LookHolds

(* A look that ends over no dialog, or before another command. *)
LEMMA LookedWell ==
  ASSUME Go("act"), pane'.runs # "dialog" \/ Head(todo) \notin {"text", "submit"}
  PROVE  LookHolds'
  BY DEF LookHolds, Go

LEMMA SucceedOver ==
  ASSUME Succeed PROVE LookHolds'
  BY LookOver DEF Succeed

LEMMA FailOver ==
  ASSUME Fail PROVE LookHolds'
  BY LookOver DEF Fail

LEMMA SentOver ==
  ASSUME NEW command, Sent(command) PROVE LookHolds'
<1>1. CASE IsPrompt(command)
  BY <1>1, LookOver DEF Sent, Go
<1>2. CASE ~IsPrompt(command)
  BY <1>2, SucceedOver DEF Sent
<1> QED BY <1>1, <1>2

(* An iteration of a wait goes back to its beginning, or fails. *)
LEMMA Iterated ==
  ASSUME seen \in History, Iterate
  PROVE  seen' \in History /\ seen'["touched"] = seen["touched"] /\ LookHolds'
<1>1. seen' = [seen EXCEPT !["slow"] = seen["slow"] \/ Slow]
  BY DEF Iterate, Note
<1>2. (seen["slow"] \/ Slow) \in BOOLEAN
  OBVIOUS
<1>3. LookHolds'
  BY LookOver DEF Iterate, Fail
<1> QED BY <1>1, <1>2, <1>3, NotesTyped

(* A key of a prompt is sent after a look, so what it may touch is fresh.  *)
LEMMA TouchesNothingSeen ==
  ASSUME IInv, NEW command \in Command, MaySend(command), Touching(command)
  PROVE  seen' = seen
<1>1. command \in {"text", "submit"} /\ pane.runs = "dialog" => fresh
  <2> SUFFICES ASSUME command \in {"text", "submit"}, pane.runs = "dialog" PROVE fresh
    OBVIOUS
  <2>1. Running(command, "act")
    BY DEF MaySend, AsksStatus
  <2> QED BY <2>1 DEF Running, IInv, LookHolds
<1>2. ~seen["touched"] /\ seen \in History
  BY DEF IInv
<1>3. seen["touched"] = FALSE
  BY <1>2 DEF History
<1>4. (seen["touched"] \/ (command \in {"text", "submit"} /\ pane.runs = "dialog" /\ ~fresh)) = FALSE
  BY <1>1, <1>2
<1>5. seen' = [seen EXCEPT !["touched"] = FALSE]
  BY <1>4 DEF Touching, Note
<1> QED BY <1>2, <1>3, <1>5 DEF History

-----------------------------------------------------------------------------
(* The steps of exec *)

LEMMA Looks ==
  ASSUME IInv, CheckStatus \/ CheckRemote \/ CheckDisconnected
  PROVE  IInv'
<1>1. UNCHANGED <<pane, seen>>
  BY DEF CheckStatus, CheckRemote, CheckDisconnected
<1>2. LookHolds'
  <2>1. CASE CheckStatus
    <3>1. CASE MayPrompt
      <4>1. pane'.runs # "dialog" /\ Go("act")
        BY <2>1, <3>1, <1>1 DEF CheckStatus, MayPrompt, LooksBlocked
      <4> QED BY <4>1, LookedWell
    <3>2. CASE ~MayPrompt
      BY <2>1, <3>2, FailOver DEF CheckStatus
    <3> QED BY <3>1, <3>2
  <2>2. CASE CheckRemote
    <3>1. Head(todo) = "exit" /\ (Go("act") \/ Go("connected") \/ Fail)
      BY <2>2 DEF CheckRemote, Running
    <3> QED BY <3>1, LookedWell, LookOver, FailOver DEF Go
  <2>3. CASE CheckDisconnected
    <3>1. Head(todo) = "exit" /\ (Go("act") \/ Fail)
      BY <2>3 DEF CheckDisconnected, Running
    <3> QED BY <3>1, LookedWell, FailOver
  <2> QED BY <2>1, <2>2, <2>3
<1> QED BY <1>1, <1>2 DEF IInv

LEMMA Disconnects ==
  ASSUME IInv, TypeRemote \/ PickDisconnect
  PROVE  IInv'
<1>1. pane \in Pane /\ "rc" \in Text
  BY DEF IInv, Text
<1>2. pane' \in Pane
  BY <1>1, TypedQuietly, EnteredQuietly, PickedQuietly DEF TypeRemote, PickDisconnect
<1>3. LookHolds' /\ seen' = seen
  BY LookOver DEF TypeRemote, PickDisconnect, Go
<1> QED BY <1>2, <1>3 DEF IInv

LEMMA Sends ==
  ASSUME IInv, SendText \/ SendEnter \/ ClearInput \/ AgentStart
  PROVE  IInv'
<1>1. pane \in Pane
  BY DEF IInv
<1>2. CASE SendText
  <2> PICK command \in {"exit", "env", "resume", "text"} :
             /\ MaySend(command) /\ Sent(command) /\ Touching(command)
             /\ pane' \in Typed(pane, IF command = "text" THEN "prompt" ELSE command)
    BY <1>2 DEF SendText
  <2>1. (IF command = "text" THEN "prompt" ELSE command) \in Text /\ command \in Command
    BY DEF Text, Command
  <2>2. pane' \in Pane
    BY <1>1, <2>1, TypedQuietly
  <2>3. seen' = seen
    BY <2>1, TouchesNothingSeen
  <2> QED BY <2>2, <2>3, SentOver DEF IInv
<1>3. CASE SendEnter
  <2> PICK command \in {"enter", "submit"} :
             MaySend(command) /\ Sent(command) /\ Touching(command) /\ pane' \in Entered(pane)
    BY <1>3 DEF SendEnter
  <2>1. pane' \in Pane
    BY <1>1, EnteredQuietly
  <2>2. seen' = seen
    BY TouchesNothingSeen DEF Command
  <2> QED BY <2>1, <2>2, SentOver DEF IInv
<1>4. CASE ClearInput
  <2>1. pane' \in Pane /\ seen' = seen /\ Succeed
    BY <1>1, <1>4, ClearedQuietly DEF ClearInput
  <2> QED BY <2>1, SucceedOver DEF IInv
<1>5. CASE AgentStart
  <2>1. pane' \in Pane
    <3>1. CASE UNCHANGED pane
      BY <1>1, <3>1
    <3>2. CASE pane' = [pane EXCEPT !.runs = "starting", !.ran = Append(@, <<"resume">>)]
      <4> DEFINE ran == Append(pane.ran, <<"resume">>)
      <4>0. <<"resume">> \in Seq(Text)
        BY DEF Text
      <4>1. ran \in Messages /\ "starting" \in Live
        BY <1>1, <4>0, MessagesTyped DEF Live
      <4>2. pane' = [pane EXCEPT !.runs = "starting", !.ran = ran]
        BY <3>2
      <4> HIDE DEF ran
      <4> QED BY <1>1, <4>1, <4>2, PaneFields
    <3> QED BY <1>5, <3>1, <3>2 DEF AgentStart
  <2>2. LookHolds' /\ seen' = seen
    BY <1>5, SucceedOver, FailOver DEF AgentStart
  <2> QED BY <2>1, <2>2 DEF IInv
<1> QED BY <1>2, <1>3, <1>4, <1>5

LEMMA Waits ==
  ASSUME IInv, WaitGone \/ Nudge \/ WaitIdle \/ WaitNative \/ Fallback
  PROVE  IInv'
<1>1. pane \in Pane /\ seen \in History /\ "resume" \in Text
  BY DEF IInv, Text
<1>2. pane' \in Pane
  <2>1. CASE UNCHANGED pane
    BY <1>1, <2>1
  <2>2. CASE Nudge \/ Fallback
    BY <1>1, <2>2, TypedQuietly, EnteredQuietly DEF Nudge, Fallback
  <2> QED BY <2>1, <2>2 DEF WaitGone, WaitIdle, WaitNative
<1>3. \/ Iterate
      \/ Succeed /\ (seen' = seen \/ Note("gone", ~Alive(pane)))
      \/ (Go("nudge") \/ Go("fallback")) /\ seen' = seen
  BY DEF WaitGone, Nudge, WaitIdle, WaitNative, Fallback
<1>4. seen' \in History /\ seen'["touched"] = seen["touched"] /\ LookHolds'
  <2>1. CASE Iterate
    BY <1>1, <2>1, Iterated
  <2>2. CASE Succeed /\ (seen' = seen \/ Note("gone", ~Alive(pane)))
    <3>1. (~Alive(pane)) \in BOOLEAN
      OBVIOUS
    <3> QED BY <1>1, <2>2, <3>1, NotesTyped, SucceedOver DEF Note
  <2>3. CASE (Go("nudge") \/ Go("fallback")) /\ seen' = seen
    BY <1>1, <2>3, LookOver DEF Go
  <2> QED BY <1>3, <2>1, <2>2, <2>3
<1> QED BY <1>2, <1>4 DEF IInv

LEMMA Delivered ==
  ASSUME pane \in Pane, Deliver
  PROVE  pane' \in Pane
  BY TakesQuietly DEF Deliver

LEMMA Prompts ==
  ASSUME IInv, Prompt \/ Settle \/ PromptAgain \/ CheckAfter
  PROVE  IInv'
<1>1. pane \in Pane /\ seen \in History
  BY DEF IInv
<1>2. pane' \in Pane
  BY <1>1, Delivered DEF Prompt, Settle, PromptAgain, CheckAfter
<1>3. LookHolds'
  <2>1. Go("after") \/ Go("stalled") \/ Go("again") \/ Succeed \/ Fail
    BY Zenon DEF Prompt, Settle, PromptAgain, CheckAfter
  <2> QED BY <2>1, LookOver, SucceedOver, FailOver DEF Go
<1>4. seen' \in History /\ seen'["touched"] = seen["touched"]
  <2>1. CASE Prompt
    <3>1. seen' = [seen EXCEPT !["stalled"] = Retried] /\ Retried \in BOOLEAN
      BY <2>1 DEF Prompt, Note, Retried
    <3> QED BY <1>1, <3>1, NotesTyped
  <2>2. CASE Settle
    <3>1. seen' = [seen EXCEPT !["slow"] = seen["slow"] \/ pane.runs = "starting"]
      BY <2>2 DEF Settle, Note
    <3>2. (seen["slow"] \/ pane.runs = "starting") \in BOOLEAN
      OBVIOUS
    <3> QED BY <1>1, <3>1, <3>2, NotesTyped
  <2>3. CASE PromptAgain \/ CheckAfter
    BY <1>1, <2>3 DEF PromptAgain, CheckAfter
  <2> QED BY <2>1, <2>2, <2>3
<1> QED BY <1>2, <1>3, <1>4 DEF IInv

-----------------------------------------------------------------------------
(* What happens beside exec *)

LEMMA Happens ==
  ASSUME IInv, Progress \/ ReadLate \/ Stir \/ NativeResume
  PROVE  IInv'
<1>1. pane \in Pane /\ seen \in History /\ LookHolds /\ "resume" \in Text /\ "junk" \in Text
  BY DEF IInv, Text
<1>2. {"idle", "working", "dialog", "odd", "none"} \subseteq Live \cup {"none"}
  BY DEF Live
<1>3. CASE Progress
  <2>1. pane' \in Pane /\ pane'.runs # "dialog"
    <3>1. CASE pane' = [pane EXCEPT !.runs = "idle"]
      BY <1>1, <1>2, <3>1, NewState
    <3>2. CASE pane' = [pane EXCEPT !.runs = "none", !.line = <<>>]
      BY <1>1, <1>2, <3>2, LineTyped DEF Pane
    <3> QED BY <1>3, <3>1, <3>2 DEF Progress
  <2> QED BY <1>1, <1>3, <2>1, LookKept DEF Progress, IInv
<1>4. CASE ReadLate
  <2>1. pane' \in Pane /\ pane'.runs # "dialog"
    BY <1>1, <1>4, TakesQuietly DEF ReadLate
  <2> QED BY <1>1, <1>4, <2>1, LookKept DEF ReadLate, IInv
<1>5. CASE Stir
  <2>1. /\ pane' \in Pane
        /\ pane'.runs = "dialog" => (pane.runs = "dialog" /\ fresh' = fresh) \/ fresh' = TRUE
    <3>1. CASE pane' = [pane EXCEPT !.runs = "working"]
      BY <1>1, <1>2, <3>1, NewState
    <3>2. CASE fresh' = TRUE /\ \E r \in {"dialog", "odd"} : pane' = [pane EXCEPT !.runs = r]
      BY <1>1, <1>2, <3>2, NewState
    <3>3. CASE pane' = [pane EXCEPT !.runs = "none", !.line = <<>>]
      BY <1>1, <1>2, <3>3, LineTyped DEF Pane
    <3>4. CASE UNCHANGED fresh /\ pane' = [pane EXCEPT !.line = Append(@, "junk")]
      BY <1>1, <3>4, NewLine, LineTyped
    <3>5. CASE UNCHANGED fresh /\ pane' = [pane EXCEPT !.rc = ~@]
      BY <1>1, <3>5 DEF Pane
    <3> QED BY <1>5, <3>1, <3>2, <3>3, <3>4, <3>5 DEF Stir
  <2> QED BY <1>1, <1>5, <2>1 DEF Stir, IInv, LookHolds
<1>6. CASE NativeResume
  <2>1. pane' \in Pane /\ (pane'.runs = "dialog" => pane.runs = "dialog")
    BY <1>1, <1>6, TypedQuietly, EnteredQuietly DEF NativeResume
  <2>2. seen' \in History /\ seen'["touched"] = seen["touched"]
    BY <1>1, <1>6 DEF NativeResume, History
  <2> QED BY <1>1, <1>6, <2>1, <2>2, LookKept DEF NativeResume, IInv
<1> QED BY <1>3, <1>4, <1>5, <1>6

LEMMA Faults ==
  ASSUME IInv, Fault
  PROVE  IInv'
<1>1. pane \in Pane /\ seen \in History
  BY DEF IInv
<1>2. CASE pane' = Takes(pane) /\ Fail /\ UNCHANGED seen
  BY <1>1, <1>2, TakesQuietly, FailOver DEF IInv
<1>3. CASE Succeed /\ Note("blind", TRUE) /\ UNCHANGED pane
  BY <1>1, <1>3, NotesTyped, SucceedOver DEF Note, IInv
<1>4. CASE Running("exit", "begin") /\ Go("act") /\ UNCHANGED <<pane, seen>>
  BY <1>1, <1>4, LookedWell DEF Running, IInv
<1> QED BY <1>2, <1>3, <1>4 DEF Fault

LEMMA InitHolds ==
  Init => IInv
<1> SUFFICES ASSUME Init PROVE IInv
  OBVIOUS
<1>1. job.remote \in BOOLEAN
  BY DEF Init, Jobs, Job
<1>2. pane \in Pane
  <2>1. {"idle", "none"} \subseteq Live \cup {"none"} /\ <<"junk">> \in Seq(Text)
    BY DEF Live, Text
  <2>2. <<>> \in Seq(Text) /\ <<>> \in Messages
    BY DEF Messages
  <2>3. /\ pane.runs \in {"idle", "none"} /\ pane.line \in {<<>>, <<"junk">>}
        /\ pane.rc = job.remote /\ pane.popup \in BOOLEAN
        /\ pane.got = <<>> /\ pane.ran = <<>>
        /\ pane = [runs |-> pane.runs, line |-> pane.line, rc |-> pane.rc,
                   popup |-> pane.popup, got |-> pane.got, ran |-> pane.ran]
    BY DEF Init
  <2> QED BY <1>1, <2>1, <2>2, <2>3, PaneFields
<1>3. seen \in History /\ ~seen["touched"]
  BY DEF Init, History
<1>4. LookHolds
  BY DEF Init, LookHolds
<1> QED BY <1>2, <1>3, <1>4 DEF IInv

LEMMA NextKeeps ==
  IInv /\ [Next]_vars => IInv'
<1> SUFFICES ASSUME IInv, [Next]_vars PROVE IInv'
  OBVIOUS
<1>1. CASE Exec
  BY <1>1, Looks, Disconnects, Sends, Waits, Prompts DEF Exec
<1>2. CASE Progress \/ ReadLate \/ Stir \/ NativeResume \/ Fault
  BY <1>2, Happens, Faults
<1>3. CASE UNCHANGED vars
  BY <1>3 DEF vars, IInv, LookHolds
<1> QED BY <1>1, <1>2, <1>3 DEF Next

(* Whatever the agent does, however long the waits are and however often   *)
(* something goes differently, no key of a prompt goes into a dialog that  *)
(* was up when exec looked: the status is asked before the text and again  *)
(* before the Enter, and a dialog that came up since is the only one a key *)
(* can still meet.                                                         *)
THEOREM NoSeenDialogTouchedHolds ==
  Spec => []NoSeenDialogTouched
<1>1. IInv => NoSeenDialogTouched
  BY DEF IInv, NoSeenDialogTouched
<1> QED BY <1>1, InitHolds, NextKeeps, PTL DEF Spec

-----------------------------------------------------------------------------
(* The commands of a plan, counted from its end. *)

Kth(j, k) == Steps(j)[Len(Steps(j)) + 1 - k]

LEMMA ParkPlan ==
  ASSUME NEW j \in Jobs, j.verb = "park"
  PROVE  /\ Steps(j) \in Seq(Command) /\ Len(Steps(j)) = 4
         /\ Kth(j, 1) = "gone" /\ Kth(j, 2) = "enter" /\ Kth(j, 3) = "exit" /\ Kth(j, 4) = "clear"
<1>1. Steps(j) = <<"clear", "exit", "enter", "gone">>
  BY DEF Steps, ParkSteps
<1> QED BY <1>1 DEF Kth, Command

LEMMA ThreeLong ==
  ASSUME NEW s \in Seq(Command), NEW a \in Command, NEW b \in Command, NEW c \in Command,
         Len(s) = 3, s[1] = a, s[2] = b, s[3] = c
  PROVE  s = <<a, b, c>>
<1> DEFINE t == <<a, b, c>>
<1>1. t \in Seq(Command) /\ Len(t) = 3 /\ t[1] = a /\ t[2] = b /\ t[3] = c
  OBVIOUS
<1> HIDE DEF t
<1>2. \A n \in 1..Len(s) : s[n] = t[n]
  BY <1>1
<1>3. s = t
  BY <1>1, <1>2, SeqEqual
<1> QED BY <1>3 DEF t

LEMMA FourLong ==
  ASSUME NEW s \in Seq(Command), NEW a \in Command, NEW b \in Command, NEW c \in Command, NEW d \in Command,
         Len(s) = 4, s[1] = a, s[2] = b, s[3] = c, s[4] = d
  PROVE  s = <<a, b, c, d>>
<1> DEFINE t == <<a, b, c, d>>
<1>1. t \in Seq(Command) /\ Len(t) = 4 /\ t[1] = a /\ t[2] = b /\ t[3] = c /\ t[4] = d
  OBVIOUS
<1> HIDE DEF t
<1>2. \A n \in 1..Len(s) : s[n] = t[n]
  BY <1>1
<1>3. s = t
  BY <1>1, <1>2, SeqEqual
<1> QED BY <1>3 DEF t

LEMMA PromptPlan ==
  ASSUME NEW j
  PROVE  /\ ~j.prompt => PromptSteps(j) = <<>>
         /\ j.prompt /\ j.mux = "herdr" => PromptSteps(j) = <<"idle", "clear", "prompt">>
         /\ j.prompt /\ j.mux # "herdr" => PromptSteps(j) = <<"idle", "clear", "text", "submit">>
         /\ PromptSteps(j) \in Seq(Command)
<1> DEFINE begin == <<"idle", "clear">>
           herdr == <<"prompt">>
           keys == <<"text", "submit">>
<1>1. begin \in Seq(Command) /\ herdr \in Seq(Command) /\ keys \in Seq(Command)
  BY DEF Command
<1>2. begin \o herdr = <<"idle", "clear", "prompt">>
  <2>1. begin \o herdr \in Seq(Command) /\ Len(begin \o herdr) = 3
        /\ (begin \o herdr)[1] = "idle" /\ (begin \o herdr)[2] = "clear" /\ (begin \o herdr)[3] = "prompt"
    BY <1>1, ConcatProperties
  <2> HIDE DEF begin, herdr
  <2> QED BY <2>1, ThreeLong DEF Command
<1>3. begin \o keys = <<"idle", "clear", "text", "submit">>
  <2>1. begin \o keys \in Seq(Command) /\ Len(begin \o keys) = 4
        /\ (begin \o keys)[1] = "idle" /\ (begin \o keys)[2] = "clear"
        /\ (begin \o keys)[3] = "text" /\ (begin \o keys)[4] = "submit"
    BY <1>1, ConcatProperties
  <2> HIDE DEF begin, keys
  <2> QED BY <2>1, FourLong DEF Command
<1>4. /\ ~j.prompt => PromptSteps(j) = <<>>
      /\ j.prompt /\ j.mux = "herdr" => PromptSteps(j) = begin \o herdr
      /\ j.prompt /\ j.mux # "herdr" => PromptSteps(j) = begin \o keys
  BY DEF PromptSteps
<1>5. <<>> \in Seq(Command) /\ begin \o herdr \in Seq(Command) /\ begin \o keys \in Seq(Command)
  BY <1>1, ConcatProperties
<1> HIDE DEF begin, herdr, keys
<1> QED BY <1>2, <1>3, <1>4, <1>5, Zenon

LEMMA StartPlan ==
  ASSUME NEW j
  PROVE  /\ j.native => StartSteps(j) = <<"native">>
         /\ ~j.native /\ j.mux = "herdr" /\ ~j.seat => StartSteps(j) = <<"start">>
         /\ ~j.native /\ j.mux = "herdr" /\ j.seat => StartSteps(j) = <<"env", "enter", "start">>
         /\ ~j.native /\ j.mux # "herdr" /\ ~j.seat => StartSteps(j) = <<"resume", "enter">>
         /\ ~j.native /\ j.mux # "herdr" /\ j.seat => StartSteps(j) = <<"env", "enter", "resume", "enter">>
         /\ StartSteps(j) \in Seq(Command)
<1> DEFINE env == <<"env", "enter">>
           start == <<"start">>
           resume == <<"resume", "enter">>
           native == <<"native">>
<1>1. env \in Seq(Command) /\ start \in Seq(Command) /\ resume \in Seq(Command) /\ native \in Seq(Command)
  BY DEF Command
<1>2. env \o start = <<"env", "enter", "start">>
  <2>1. env \o start \in Seq(Command) /\ Len(env \o start) = 3
        /\ (env \o start)[1] = "env" /\ (env \o start)[2] = "enter" /\ (env \o start)[3] = "start"
    BY <1>1, ConcatProperties
  <2> HIDE DEF env, start
  <2> QED BY <2>1, ThreeLong DEF Command
<1>3. env \o resume = <<"env", "enter", "resume", "enter">>
  <2>1. env \o resume \in Seq(Command) /\ Len(env \o resume) = 4
        /\ (env \o resume)[1] = "env" /\ (env \o resume)[2] = "enter"
        /\ (env \o resume)[3] = "resume" /\ (env \o resume)[4] = "enter"
    BY <1>1, ConcatProperties
  <2> HIDE DEF env, resume
  <2> QED BY <2>1, FourLong DEF Command
<1>4. <<>> \o start = start /\ <<>> \o resume = resume
  <2> HIDE DEF start, resume
  <2> QED BY <1>1, ConcatEmptySeq
<1>5. /\ j.native => StartSteps(j) = native
      /\ ~j.native /\ j.mux = "herdr" /\ ~j.seat => StartSteps(j) = <<>> \o start
      /\ ~j.native /\ j.mux = "herdr" /\ j.seat => StartSteps(j) = env \o start
      /\ ~j.native /\ j.mux # "herdr" /\ ~j.seat => StartSteps(j) = <<>> \o resume
      /\ ~j.native /\ j.mux # "herdr" /\ j.seat => StartSteps(j) = env \o resume
  BY DEF StartSteps
<1>6. env \o start \in Seq(Command) /\ env \o resume \in Seq(Command)
  BY <1>1, ConcatProperties
<1>7. StartSteps(j) \in Seq(Command)
  <2> HIDE DEF env, start, resume, native
  <2> QED BY <1>1, <1>4, <1>5, <1>6, Zenon
<1> QED BY <1>2, <1>3, <1>4, <1>5, <1>7

(* How many commands are left when the prompt's begin. *)
Rest(j) == IF ~j.prompt THEN 0 ELSE IF j.mux = "herdr" THEN 3 ELSE 4

LEMMA StartLength ==
  ASSUME NEW j \in Jobs
  PROVE  Len(StartSteps(j)) =
           IF j.native THEN 1 ELSE (IF j.seat THEN 2 ELSE 0) + IF j.mux = "herdr" THEN 1 ELSE 2
<1>1. CASE j.native
  BY <1>1, StartPlan
<1>2. CASE ~j.native /\ j.mux = "herdr" /\ ~j.seat
  BY <1>2, StartPlan
<1>3. CASE ~j.native /\ j.mux = "herdr" /\ j.seat
  BY <1>3, StartPlan
<1>4. CASE ~j.native /\ j.mux # "herdr" /\ ~j.seat
  BY <1>4, StartPlan
<1>5. CASE ~j.native /\ j.mux # "herdr" /\ j.seat
  BY <1>5, StartPlan
<1> QED BY <1>1, <1>2, <1>3, <1>4, <1>5

LEMMA RestorePlan ==
  ASSUME NEW j \in Jobs, j.verb = "restore"
  PROVE  /\ Steps(j) \in Seq(Command)
         /\ Len(Steps(j)) = Rest(j) + (IF j.native THEN 1 ELSE (IF j.seat THEN 2 ELSE 0) + IF j.mux = "herdr" THEN 1 ELSE 2)
         /\ j.prompt /\ j.mux = "herdr" => Kth(j, 1) = "prompt" /\ Kth(j, 2) = "clear" /\ Kth(j, 3) = "idle"
         /\ j.prompt /\ j.mux # "herdr" =>
              Kth(j, 1) = "submit" /\ Kth(j, 2) = "text" /\ Kth(j, 3) = "clear" /\ Kth(j, 4) = "idle"
         /\ j.native => Kth(j, Rest(j) + 1) = "native"
         /\ ~j.native /\ j.mux = "herdr" =>
              /\ Kth(j, Rest(j) + 1) = "start"
              /\ j.seat => Kth(j, Rest(j) + 2) = "enter" /\ Kth(j, Rest(j) + 3) = "env"
         /\ ~j.native /\ j.mux # "herdr" =>
              /\ Kth(j, Rest(j) + 1) = "enter" /\ Kth(j, Rest(j) + 2) = "resume"
              /\ j.seat => Kth(j, Rest(j) + 3) = "enter" /\ Kth(j, Rest(j) + 4) = "env"
<1> DEFINE s == StartSteps(j)
           p == PromptSteps(j)
<1>1. s \in Seq(Command) /\ p \in Seq(Command)
  BY StartPlan, PromptPlan
<1>2. Steps(j) = s \o p
  BY DEF Steps
<1>3. /\ Len(p) = Rest(j)
      /\ Len(s) = IF j.native THEN 1 ELSE (IF j.seat THEN 2 ELSE 0) + IF j.mux = "herdr" THEN 1 ELSE 2
  <2>1. Len(p) = Rest(j)
    <3>1. CASE ~j.prompt
      <4>1. p = <<>>
        BY <3>1, PromptPlan
      <4> QED BY <3>1, <4>1 DEF Rest
    <3>2. CASE j.prompt /\ j.mux = "herdr"
      <4>1. p = <<"idle", "clear", "prompt">>
        BY <3>2, PromptPlan
      <4> QED BY <3>2, <4>1 DEF Rest
    <3>3. CASE j.prompt /\ j.mux # "herdr"
      <4>1. p = <<"idle", "clear", "text", "submit">>
        BY <3>3, PromptPlan
      <4> QED BY <3>3, <4>1 DEF Rest
    <3> QED BY <3>1, <3>2, <3>3
  <2> QED BY <2>1, StartLength
<1>4. Steps(j) \in Seq(Command) /\ Len(Steps(j)) = Len(s) + Len(p)
  BY <1>1, <1>2, ConcatProperties
<1>5. \A k \in 1..Len(p) : Kth(j, k) = p[Len(p) + 1 - k]
  <2> SUFFICES ASSUME NEW k \in 1..Len(p) PROVE Kth(j, k) = p[Len(p) + 1 - k]
    OBVIOUS
  <2> DEFINE n == Len(s) + Len(p) + 1 - k
  <2>1. Len(s) \in Nat /\ Len(p) \in Nat
    BY <1>1, LenProperties
  <2>2. n \in 1..(Len(s) + Len(p)) /\ n > Len(s) /\ n - Len(s) = Len(p) + 1 - k
    BY <2>1
  <2>3. (s \o p)[n] = p[n - Len(s)]
    BY <1>1, <2>1, <2>2, ConcatProperties
  <2> QED BY <1>2, <1>4, <2>2, <2>3 DEF Kth
<1>6. \A k \in 1..Len(s) : Kth(j, Len(p) + k) = s[Len(s) + 1 - k]
  <2> SUFFICES ASSUME NEW k \in 1..Len(s) PROVE Kth(j, Len(p) + k) = s[Len(s) + 1 - k]
    OBVIOUS
  <2> DEFINE n == Len(s) + 1 - k
  <2>1. Len(s) \in Nat /\ Len(p) \in Nat
    BY <1>1, LenProperties
  <2>2. n \in 1..(Len(s) + Len(p)) /\ n <= Len(s)
    BY <2>1
  <2>3. (s \o p)[n] = s[n]
    BY <1>1, <2>1, <2>2, ConcatProperties
  <2>4. Len(Steps(j)) + 1 - (Len(p) + k) = n
    BY <1>4, <2>1
  <2> QED BY <1>2, <2>3, <2>4 DEF Kth
<1>7. j.prompt /\ j.mux = "herdr" => Kth(j, 1) = "prompt" /\ Kth(j, 2) = "clear" /\ Kth(j, 3) = "idle"
  <2> SUFFICES ASSUME j.prompt, j.mux = "herdr" PROVE Kth(j, 1) = "prompt" /\ Kth(j, 2) = "clear" /\ Kth(j, 3) = "idle"
    OBVIOUS
  <2>1. p = <<"idle", "clear", "prompt">>
    BY PromptPlan
  <2> QED BY <1>5, <2>1
<1>8. j.prompt /\ j.mux # "herdr" =>
        Kth(j, 1) = "submit" /\ Kth(j, 2) = "text" /\ Kth(j, 3) = "clear" /\ Kth(j, 4) = "idle"
  <2> SUFFICES ASSUME j.prompt, j.mux # "herdr"
               PROVE  Kth(j, 1) = "submit" /\ Kth(j, 2) = "text" /\ Kth(j, 3) = "clear" /\ Kth(j, 4) = "idle"
    OBVIOUS
  <2>1. p = <<"idle", "clear", "text", "submit">>
    BY PromptPlan
  <2> QED BY <1>5, <2>1
<1>9. j.native => Kth(j, Rest(j) + 1) = "native"
  <2> SUFFICES ASSUME j.native PROVE Kth(j, Rest(j) + 1) = "native"
    OBVIOUS
  <2>1. s = <<"native">>
    BY StartPlan
  <2> QED BY <1>3, <1>6, <2>1
<1>10. ~j.native /\ j.mux = "herdr" =>
              /\ Kth(j, Rest(j) + 1) = "start"
              /\ j.seat => Kth(j, Rest(j) + 2) = "enter" /\ Kth(j, Rest(j) + 3) = "env"
  <2> SUFFICES ASSUME ~j.native, j.mux = "herdr"
               PROVE  /\ Kth(j, Rest(j) + 1) = "start"
                      /\ j.seat => Kth(j, Rest(j) + 2) = "enter" /\ Kth(j, Rest(j) + 3) = "env"
    OBVIOUS
  <2>1. CASE j.seat
    <3>1. s = <<"env", "enter", "start">>
      BY <2>1, StartPlan
    <3> QED BY <1>3, <1>6, <3>1
  <2>2. CASE ~j.seat
    <3>1. s = <<"start">>
      BY <2>2, StartPlan
    <3> QED BY <1>3, <1>6, <2>2, <3>1
  <2> QED BY <2>1, <2>2
<1>11. ~j.native /\ j.mux # "herdr" =>
              /\ Kth(j, Rest(j) + 1) = "enter" /\ Kth(j, Rest(j) + 2) = "resume"
              /\ j.seat => Kth(j, Rest(j) + 3) = "enter" /\ Kth(j, Rest(j) + 4) = "env"
  <2> SUFFICES ASSUME ~j.native, j.mux # "herdr"
               PROVE  /\ Kth(j, Rest(j) + 1) = "enter" /\ Kth(j, Rest(j) + 2) = "resume"
                      /\ j.seat => Kth(j, Rest(j) + 3) = "enter" /\ Kth(j, Rest(j) + 4) = "env"
    OBVIOUS
  <2>1. CASE j.seat
    <3>1. s = <<"env", "enter", "resume", "enter">>
      BY <2>1, StartPlan
    <3> QED BY <1>3, <1>6, <3>1
  <2>2. CASE ~j.seat
    <3>1. s = <<"resume", "enter">>
      BY <2>2, StartPlan
    <3> QED BY <1>3, <1>6, <2>2, <3>1
  <2> QED BY <2>1, <2>2
<1> QED BY <1>3, <1>4, <1>7, <1>8, <1>9, <1>10, <1>11

(* Where in a plan each command stands. *)
LEMMA CommandPlaces ==
  ASSUME NEW j \in Jobs, NEW k \in 1..Len(Steps(j))
  PROVE  /\ Kth(j, k) \in Command
         /\ Kth(j, k) = "gone" => k = 1 /\ j.verb = "park"
         /\ Kth(j, k) = "exit" => k = 3 /\ j.verb = "park"
         /\ Kth(j, k) = "prompt" => k = 1 /\ j.mux = "herdr" /\ j.prompt
         /\ Kth(j, k) = "text" => k = 2 /\ j.mux # "herdr" /\ j.prompt
         /\ Kth(j, k) = "submit" => k = 1 /\ j.mux # "herdr" /\ j.prompt
         /\ Kth(j, k) = "idle" => k = Rest(j) /\ j.prompt
         /\ Kth(j, k) = "start" => k = Rest(j) + 1 /\ j.verb = "restore" /\ j.mux = "herdr" /\ ~j.native
         /\ Kth(j, k) = "native" => k = Rest(j) + 1 /\ j.native /\ j.verb = "restore"
         /\ Kth(j, k) = "resume" => k = Rest(j) + 2 /\ j.mux # "herdr" /\ ~j.native /\ j.verb = "restore"
         /\ Kth(j, k) = "env" => k > Rest(j) + 2 /\ ~j.native /\ j.verb = "restore"
<1>1. j.verb \in {"park", "restore"} /\ (j.verb = "park" => ~j.prompt)
      /\ j.native \in BOOLEAN /\ j.seat \in BOOLEAN /\ j.prompt \in BOOLEAN /\ j.mux \in {"herdr", "tmux", "cmux"}
      /\ (j.native => j.mux = "cmux")
  BY DEF Jobs, Job
<1>2. CASE j.verb = "park"
  <2>1. k \in 1..4
    BY <1>2, ParkPlan
  <2>2. k = 1 \/ k = 2 \/ k = 3 \/ k = 4
    BY <2>1
  <2> QED BY <1>2, <2>2, ParkPlan DEF Command
<1>3. CASE j.verb = "restore"
  <2>1. Kth(j, k) \in Command
    BY <1>3, RestorePlan DEF Kth
  <2>2. CASE j.native
    <3>1. CASE j.prompt
      <4>1. Rest(j) = 4 /\ k \in {1, 2, 3, 4, 5}
        BY <1>1, <1>3, <2>2, <3>1, RestorePlan DEF Rest
      <4> QED BY <1>1, <1>3, <2>1, <2>2, <3>1, <4>1, RestorePlan
    <3>2. CASE ~j.prompt
      <4>1. Rest(j) = 0 /\ k = 1
        BY <1>1, <1>3, <2>2, <3>2, RestorePlan DEF Rest
      <4> QED BY <1>1, <1>3, <2>1, <2>2, <3>2, <4>1, RestorePlan
    <3> QED BY <3>1, <3>2
  <2>3. CASE ~j.native /\ j.mux = "herdr"
    <3>1. CASE j.prompt
      <4>1. Rest(j) = 3 /\ k \in {1, 2, 3, 4} \cup (IF j.seat THEN {5, 6} ELSE {})
        BY <1>1, <1>3, <2>3, <3>1, RestorePlan DEF Rest
      <4> QED BY <1>1, <1>3, <2>1, <2>3, <3>1, <4>1, RestorePlan
    <3>2. CASE ~j.prompt
      <4>1. Rest(j) = 0 /\ k \in {1} \cup (IF j.seat THEN {2, 3} ELSE {})
        BY <1>1, <1>3, <2>3, <3>2, RestorePlan DEF Rest
      <4> QED BY <1>1, <1>3, <2>1, <2>3, <3>2, <4>1, RestorePlan
    <3> QED BY <3>1, <3>2
  <2>4. CASE ~j.native /\ j.mux # "herdr"
    <3>1. CASE j.prompt
      <4>1. Rest(j) = 4 /\ k \in {1, 2, 3, 4, 5, 6} \cup (IF j.seat THEN {7, 8} ELSE {})
        BY <1>1, <1>3, <2>4, <3>1, RestorePlan DEF Rest
      <4> QED BY <1>1, <1>3, <2>1, <2>4, <3>1, <4>1, RestorePlan
    <3>2. CASE ~j.prompt
      <4>1. Rest(j) = 0 /\ k \in {1, 2} \cup (IF j.seat THEN {3, 4} ELSE {})
        BY <1>1, <1>3, <2>4, <3>2, RestorePlan DEF Rest
      <4> QED BY <1>1, <1>3, <2>1, <2>4, <3>2, <4>1, RestorePlan
    <3> QED BY <3>1, <3>2
  <2> QED BY <2>2, <2>3, <2>4
<1> QED BY <1>1, <1>2, <1>3

-----------------------------------------------------------------------------
(* Where exec is: what is left of the plan is its end, and the command     *)
(* under way is in one of its own stages.                                  *)

Stages ==
  {"begin", "connected", "menu", "disconnected", "act", "nudge", "fallback", "stalled", "again", "after"}

OnPlan ==
  /\ todo \in Seq(Command) /\ Len(todo) <= Len(Steps(job))
  /\ \A n \in 1..Len(todo) : todo[n] = Kth(job, Len(todo) + 1 - n)
  /\ result = "running" => todo # <<>>

Fits(command, at, n) ==
  /\ at \in {"connected", "menu", "disconnected"} => command = "exit"
  /\ at = "act" => command \in {"exit", "prompt", "text", "submit"}
  /\ at = "nudge" => command = "gone"
  /\ at = "fallback" => command = "native" /\ n = FallbackAt
  /\ at \in {"stalled", "again"} => command = "prompt"
  /\ at = "after" => command \in {"prompt", "text", "submit"}

Control ==
  /\ job \in Jobs /\ OnPlan
  /\ stage \in Stages /\ i \in 1..Polls /\ result \in {"running", "ok", "failed"} /\ fresh \in BOOLEAN
  /\ result = "running" => Fits(Head(todo), stage, i)
  /\ result = "ok" => Len(todo) = 0

LEMMA HeadIs ==
  ASSUME Control, result = "running"
  PROVE  /\ Len(todo) \in 1..Len(Steps(job)) /\ Len(todo) \in Nat
         /\ Head(todo) = Kth(job, Len(todo))
<1>1. todo \in Seq(Command) /\ todo # <<>>
  BY DEF Control, OnPlan
<1>2. Len(todo) \in Nat /\ Len(todo) # 0 /\ Head(todo) = todo[1]
  BY <1>1, EmptySeq, LenProperties
<1>3. Steps(job) \in Seq(Command)
  BY ParkPlan, RestorePlan DEF Control, Jobs, Job
<1>4. Len(Steps(job)) \in Nat
  BY <1>3, LenProperties
<1> QED BY <1>2, <1>4 DEF Control, OnPlan

LEMMA SucceedControls ==
  ASSUME Control, result = "running", Succeed, UNCHANGED job
  PROVE  Control' /\ Len(todo') = Len(todo) - 1
<1>1. todo \in Seq(Command) /\ todo # <<>>
  BY DEF Control, OnPlan
<1>2. /\ todo' \in Seq(Command) /\ Len(todo') = Len(todo) - 1
      /\ \A n \in 1..Len(todo') : todo'[n] = todo[n + 1]
  BY <1>1, HeadTailProperties DEF Succeed
<1>3. Len(todo) \in Nat /\ Len(todo') \in Nat
  BY <1>1, <1>2, LenProperties
<1>4. Len(Steps(job)) \in Nat
  <2>1. Steps(job) \in Seq(Command)
    BY ParkPlan, RestorePlan DEF Control, Jobs, Job
  <2> QED BY <2>1, LenProperties
<1>5. \A n \in 1..Len(todo') : todo'[n] = Kth(job', Len(todo') + 1 - n)
  <2> SUFFICES ASSUME NEW n \in 1..Len(todo') PROVE todo'[n] = Kth(job', Len(todo') + 1 - n)
    OBVIOUS
  <2>0. Len(todo') = Len(todo) - 1
    BY <1>2
  <2>1. n + 1 \in 1..Len(todo) /\ Len(todo) + 1 - (n + 1) = Len(todo') + 1 - n
    BY <2>0, <1>3
  <2>2. todo[n + 1] = Kth(job, Len(todo) + 1 - (n + 1))
    BY <2>1 DEF Control, OnPlan
  <2>3. Kth(job, Len(todo) + 1 - (n + 1)) = Kth(job', Len(todo') + 1 - n)
    BY <2>1
  <2> QED BY <1>2, <2>2, <2>3
<1>6. result' = IF todo' = <<>> THEN "ok" ELSE "running"
  BY DEF Succeed
<1>7. todo' = <<>> => Len(todo') = 0
  BY <1>2, EmptySeq
<1>8. OnPlan'
  BY <1>2, <1>3, <1>4, <1>5, <1>6 DEF OnPlan, Control
<1>9. stage' = "begin" /\ i' = 1 /\ fresh' = FALSE /\ Polls \in Nat /\ 1 \in 1..Polls
  BY BoundsAssumption DEF Succeed
<1>10. Fits(Head(todo)', stage', i')
  BY <1>9 DEF Fits
<1> QED BY <1>2, <1>6, <1>7, <1>8, <1>9, <1>10 DEF Control, Stages

LEMMA FailControls ==
  ASSUME Control, Fail, UNCHANGED job
  PROVE  Control' /\ todo' = todo
  BY DEF Control, OnPlan, Fail

LEMMA GoControls ==
  ASSUME Control, result = "running", NEW to \in Stages, Fits(Head(todo), to, i), Go(to), UNCHANGED job
  PROVE  Control' /\ todo' = todo
  BY DEF Control, OnPlan, Go

LEMMA IterateControls ==
  ASSUME Control, result = "running", Iterate, UNCHANGED job
  PROVE  Control' /\ todo' = todo
<1>1. CASE i >= Polls
  BY <1>1, FailControls DEF Iterate
<1>2. CASE ~(i >= Polls)
  <2>1. i' = i + 1 /\ stage' = "begin" /\ UNCHANGED <<todo, result, fresh>>
    BY <1>2 DEF Iterate
  <2>2. i' \in 1..Polls
    BY <1>2, <2>1, BoundsAssumption DEF Control
  <2>3. Fits(Head(todo'), stage', i')
    BY <2>1 DEF Fits
  <2> QED BY <2>1, <2>2, <2>3 DEF Control, OnPlan, Stages
<1> QED BY <1>1, <1>2

LEMMA SentControls ==
  ASSUME Control, result = "running", NEW command, command = Head(todo), Sent(command), UNCHANGED job
  PROVE  /\ Control'
         /\ \/ IsPrompt(command) /\ Go("after") /\ todo' = todo
            \/ ~IsPrompt(command) /\ Succeed /\ Len(todo') = Len(todo) - 1
<1>1. CASE IsPrompt(command)
  <2>1. Fits(Head(todo), "after", i)
    BY <1>1 DEF Fits, IsPrompt
  <2>2. Go("after") /\ "after" \in Stages
    BY <1>1 DEF Sent, Stages
  <2> QED BY <1>1, <2>1, <2>2, GoControls
<1>2. CASE ~IsPrompt(command)
  BY <1>2, SucceedControls DEF Sent
<1> QED BY <1>1, <1>2

-----------------------------------------------------------------------------
(* What a key does to the words x on the input line and in the messages    *)
(* the agent has read.                                                     *)

Says(line, x) == x \in {line[m] : m \in DOMAIN line}

Mentioning(got, x) == {n \in DOMAIN got : Says(got[n], x)}

(* The messages with x stay the same and the line gets no x; or the agent  *)
(* reads a line with x.                                                    *)
Passes(p, q, x) ==
  \/ Mentioning(q.got, x) = Mentioning(p.got, x) /\ (Says(q.line, x) => Says(p.line, x))
  \/ /\ Alive(p) /\ Says(p.line, x) /\ ~Says(q.line, x)
     /\ \E n : Mentioning(q.got, x) = Mentioning(p.got, x) \cup {n}

LEMMA SaysNothing ==
  ASSUME NEW x PROVE ~Says(<<>>, x)
  BY DEF Says

LEMMA SaysMore ==
  ASSUME NEW l \in Seq(Text), NEW t \in Text, NEW x, Says(Append(l, t), x)
  PROVE  Says(l, x) \/ x = t
<1> DEFINE a == Append(l, t)
<1>1. /\ a \in Seq(Text) /\ Len(a) = Len(l) + 1 /\ Len(l) \in Nat
      /\ \A m \in 1..Len(l) : a[m] = l[m]
      /\ a[Len(l) + 1] = t
  BY AppendProperties, LenProperties
<1>2. DOMAIN a = 1..(Len(l) + 1) /\ DOMAIN l = 1..Len(l)
  BY <1>1, LenProperties
<1> HIDE DEF a
<1>3. PICK m \in DOMAIN a : a[m] = x
  BY DEF Says, a
<1>4. CASE m \in 1..Len(l)
  BY <1>1, <1>2, <1>3, <1>4 DEF Says
<1>5. CASE m = Len(l) + 1
  BY <1>1, <1>3, <1>5
<1> QED BY <1>1, <1>2, <1>3, <1>4, <1>5

LEMMA MentioningMore ==
  ASSUME NEW got \in Messages, NEW l \in Seq(Text), NEW x
  PROVE  Mentioning(Append(got, l), x) = Mentioning(got, x) \cup (IF Says(l, x) THEN {Len(got) + 1} ELSE {})
<1> DEFINE a == Append(got, l)
<1>1. /\ a \in Messages /\ Len(a) = Len(got) + 1 /\ Len(got) \in Nat
      /\ \A m \in 1..Len(got) : a[m] = got[m]
      /\ a[Len(got) + 1] = l
  BY AppendProperties, LenProperties DEF Messages
<1>2. DOMAIN a = 1..(Len(got) + 1) /\ DOMAIN got = 1..Len(got)
  BY <1>1, LenProperties DEF Messages
<1> HIDE DEF a
<1>3. \A n : n \in Mentioning(a, x) <=> (n \in 1..Len(got) /\ Says(got[n], x)) \/ (n = Len(got) + 1 /\ Says(l, x))
  BY <1>1, <1>2 DEF Mentioning
<1>4. \A n : n \in Mentioning(got, x) <=> n \in 1..Len(got) /\ Says(got[n], x)
  BY <1>2 DEF Mentioning
<1> QED BY <1>3, <1>4 DEF a

LEMMA PassesStill ==
  ASSUME NEW p, NEW q, NEW x, q.got = p.got, q.line \in {p.line, <<>>}
  PROVE  Passes(p, q, x)
  BY SaysNothing DEF Passes

LEMMA PassesRead ==
  ASSUME NEW p \in Pane, NEW q, NEW x, Alive(p), q.got = Append(p.got, p.line), q.line = <<>>
  PROVE  Passes(p, q, x)
<1>1. p.got \in Messages /\ p.line \in Seq(Text)
  BY PaneFields
<1>2. Mentioning(q.got, x) = Mentioning(p.got, x) \cup (IF Says(p.line, x) THEN {Len(p.got) + 1} ELSE {})
  BY <1>1, MentioningMore
<1>3. CASE Says(p.line, x)
  BY <1>2, <1>3, SaysNothing DEF Passes
<1>4. CASE ~Says(p.line, x)
  BY <1>2, <1>4, SaysNothing DEF Passes
<1> QED BY <1>3, <1>4

(* A line that is typed is on the input line, or dropped.                  *)
LEMMA TypedLine ==
  ASSUME NEW p \in Pane, NEW text \in Text, NEW q \in Typed(p, text)
  PROVE  /\ q.got = p.got /\ q.ran = p.ran /\ q.line \in {p.line, Append(p.line, text)}
         /\ Alive(q) <=> Alive(p)
<1> DEFINE on == [p EXCEPT !.line = Append(@, text)]
<1>1. on.got = p.got /\ on.ran = p.ran /\ on.line = Append(p.line, text) /\ on.runs = p.runs
  BY DEF Pane
<1>2. CASE p.runs \in {"starting", "quitting"}
  <2>1. q \in {p, on}
    BY <1>2 DEF Typed
  <2> QED BY <2>1, <1>1 DEF Alive
<1>3. CASE p.runs \in {"dialog", "odd", "menu"}
  <2>1. q \in {p, [p EXCEPT !.runs = "working"]}
    BY <1>3 DEF Typed
  <2> QED BY <1>3, <2>1 DEF Alive, Pane
<1>4. CASE p.runs \notin {"starting", "quitting", "dialog", "odd", "menu"}
  <2>1. q = on
    BY <1>4 DEF Typed
  <2> QED BY <2>1, <1>1 DEF Alive
<1> QED BY <1>2, <1>3, <1>4

LEMMA TypedPasses ==
  ASSUME NEW p \in Pane, NEW text \in Text, NEW q \in Typed(p, text), NEW x
  PROVE  /\ Mentioning(q.got, x) = Mentioning(p.got, x)
         /\ Says(q.line, x) => Says(p.line, x) \/ x = text
<1>1. q.got = p.got /\ q.line \in {p.line, Append(p.line, text)} /\ p.line \in Seq(Text)
  BY TypedLine, PaneFields
<1> QED BY <1>1, SaysMore

LEMMA ClearedPasses ==
  ASSUME NEW p \in Pane, NEW q \in Cleared(p), NEW x
  PROVE  Passes(p, q, x) /\ (Alive(q) <=> Alive(p))
<1> DEFINE empty == [p EXCEPT !.line = <<>>]
<1>1. empty.line = <<>> /\ empty.got = p.got /\ empty.runs = p.runs
  BY DEF Pane
<1>2. q \in {p, empty}
  <2>1. CASE p.runs \in {"starting", "quitting"}
    BY <2>1 DEF Cleared
  <2>2. CASE p.runs \in {"dialog", "odd", "menu"}
    BY <2>2 DEF Cleared
  <2>3. CASE p.runs \notin {"starting", "quitting", "dialog", "odd", "menu"}
    BY <2>3 DEF Cleared
  <2> QED BY <2>1, <2>2, <2>3
<1> QED BY <1>1, <1>2, PassesStill DEF Alive

(* Only a shell that runs the resume command brings an agent up.           *)
Wakes(p, q) == Alive(q) => Alive(p) \/ (p.line = <<"resume">> /\ q.line = <<>>)

LEMMA EnteredPasses ==
  ASSUME NEW p \in Pane, NEW q \in Entered(p), NEW x
  PROVE  Passes(p, q, x) /\ Wakes(p, q)
<1>1. CASE p.runs = "none"
  <2>1. q \in ShellRuns(p)
    BY <1>1 DEF Entered
  <2>2. CASE p.line = <<>>
    <3>1. q = p
      BY <2>1, <2>2 DEF ShellRuns
    <3> QED BY <3>1, PassesStill DEF Wakes
  <2>3. CASE p.line # <<>>
    <3>1. q = [p EXCEPT !.ran = Append(@, p.line), !.line = <<>>,
                        !.runs = IF p.line = <<"resume">> THEN "starting" ELSE "none"]
      BY <2>1, <2>3 DEF ShellRuns
    <3>2. q.got = p.got /\ q.line = <<>> /\ (q.runs = "none" \/ p.line = <<"resume">>)
      BY <3>1 DEF Pane
    <3> QED BY <3>2, PassesStill DEF Wakes, Alive
  <2> QED BY <2>2, <2>3
<1>2. CASE p.runs = "idle"
  <2>1. q \in AgentReads(p) /\ Alive(p)
    BY <1>2 DEF Entered, Alive
  <2>2. \/ q = p
        \/ q = [p EXCEPT !.popup = FALSE]
        \/ \E r \in {"idle", "quitting"} : q = [p EXCEPT !.line = <<>>, !.runs = r]
        \/ \E r \in {"menu", "idle"} : q = [p EXCEPT !.line = <<>>, !.rc = TRUE, !.runs = r]
        \/ q = [p EXCEPT !.line = <<>>, !.got = Append(@, p.line), !.runs = "working"]
    BY <2>1, Zenon DEF AgentReads
  <2>3. \/ q.got = p.got /\ q.line \in {p.line, <<>>}
        \/ q.got = Append(p.got, p.line) /\ q.line = <<>>
    BY <2>2 DEF Pane
  <2> QED BY <2>1, <2>3, PassesStill, PassesRead DEF Wakes
<1>3. CASE p.runs = "working"
  <2>1. q = [p EXCEPT !.line = <<>>, !.got = IF p.line = <<>> THEN @ ELSE Append(@, p.line)]
    BY <1>3 DEF Entered
  <2>2. q.line = <<>> /\ (q.got = p.got \/ q.got = Append(p.got, p.line)) /\ Alive(p)
    BY <1>3, <2>1 DEF Pane, Alive
  <2> QED BY <2>2, PassesStill, PassesRead DEF Wakes
<1>4. CASE p.runs \notin {"none", "idle", "working"}
  <2>1. q \in {p, [p EXCEPT !.line = <<>>], [p EXCEPT !.runs = "working"]}
    BY <1>4 DEF Entered
  <2>2. q.got = p.got /\ q.line \in {p.line, <<>>} /\ Alive(p)
    BY <1>4, <2>1 DEF Pane, Alive
  <2> QED BY <2>2, PassesStill DEF Wakes
<1> QED BY <1>1, <1>2, <1>3, <1>4

LEMMA PickedPasses ==
  ASSUME NEW p \in Pane, NEW q \in Picked(p), NEW x
  PROVE  Passes(p, q, x) /\ Wakes(p, q)
<1>1. CASE p.runs = "menu"
  <2>1. q = [p EXCEPT !.runs = "idle", !.rc = FALSE]
    BY <1>1 DEF Picked
  <2>2. q.got = p.got /\ q.line = p.line /\ Alive(p)
    BY <1>1, <2>1 DEF Pane, Alive
  <2> QED BY <2>2, PassesStill DEF Wakes
<1>2. CASE p.runs \in {"idle", "none"}
  <2>1. q \in {p, [p EXCEPT !.line = <<>>]}
    BY <1>2 DEF Picked
  <2>2. q.got = p.got /\ q.line \in {p.line, <<>>} /\ q.runs = p.runs
    BY <2>1 DEF Pane
  <2> QED BY <2>2, PassesStill DEF Wakes, Alive
<1>3. CASE p.runs \notin {"menu", "idle", "none"}
  BY <1>3, EnteredPasses DEF Picked
<1> QED BY <1>1, <1>2, <1>3

-----------------------------------------------------------------------------
(* How often the prompt was read.  Where it is typed, it is on the line or *)
(* it has been read, and never before the text was sent; a herdr prompt is *)
(* read at once, or later once the agent has redrawn, and a second one is  *)
(* sent only over a first that stalled.                                    *)

AtMostOne(S) == \A a, b \in S : a = b

TextSent == job.prompt /\ job.mux # "herdr" /\ (Len(todo) < 2 \/ stage = "after")

KeysTold ==
  job.mux # "herdr" =>
    /\ late = 0 /\ AtMostOne(PromptsRead)
    /\ Says(pane.line, "prompt") => PromptsRead = {}
    /\ ~TextSent => PromptsRead = {} /\ ~Says(pane.line, "prompt")

Prompting == result = "running" /\ stage \in {"stalled", "again", "after"}

HerdrTold ==
  job.mux = "herdr" =>
    /\ ~Says(pane.line, "prompt")
    /\ result = "running" /\ ~Prompting => PromptsRead = {} /\ late = 0
    /\ Prompting /\ stage # "after" =>
         seen["stalled"] /\ ((PromptsRead = {} /\ late <= 1) \/ (AtMostOne(PromptsRead) /\ late = 0))
    /\ Prompting /\ stage = "after" =>
         PromptsRead # {} /\ (late = 0 \/ (late = 1 /\ seen["stalled"] /\ AtMostOne(PromptsRead)))

TInv ==
  /\ IInv /\ Control /\ moves \in 0..MaxMoves
  /\ late \in 0..2 /\ (result = "running" => late <= 1)
  /\ KeysTold /\ HerdrTold /\ PromptsCounted /\ OkMeansDone

LEMMA ReadIsMentioned == PromptsRead = Mentioning(pane.got, "prompt")
  BY DEF PromptsRead, Mentioning, Says

LEMMA ReadIsMentionedThen == PromptsRead' = Mentioning(pane'.got, "prompt")
  BY DEF PromptsRead, Mentioning, Says

LEMMA CountedKept ==
  ASSUME PromptsCounted, PromptsRead' = PromptsRead, seen["stalled"] => seen'["stalled"]
  PROVE  PromptsCounted'
  BY DEF PromptsCounted

LEMMA OneCounted ==
  ASSUME AtMostOne(PromptsRead)'
  PROVE  PromptsCounted'
  BY DEF PromptsCounted, AtMostOne

LEMMA TwoCounted ==
  ASSUME AtMostOne(PromptsRead), NEW n, PromptsRead' = PromptsRead \cup {n}, seen'["stalled"]
  PROVE  PromptsCounted'
  BY DEF PromptsCounted, AtMostOne

(* A step that types no prompt, in a run whose prompt is not under way.    *)
LEMMA OtherStep ==
  ASSUME TInv, result = "running", stage \notin {"stalled", "again", "after"}, UNCHANGED <<job, late>>,
         Passes(pane, pane', "prompt"), Len(todo') \in Nat, Len(todo') <= Len(todo), Prompting' => job.mux # "herdr"
  PROVE  KeysTold' /\ HerdrTold' /\ PromptsCounted'
<1>1. PromptsRead = Mentioning(pane.got, "prompt") /\ PromptsRead' = Mentioning(pane'.got, "prompt")
  BY ReadIsMentioned, ReadIsMentionedThen
<1>2. CASE job.mux = "herdr"
  <2>1. ~Says(pane.line, "prompt") /\ PromptsRead = {} /\ late = 0
    BY <1>2 DEF TInv, HerdrTold, Prompting
  <2>2. PromptsRead' = {} /\ ~Says(pane'.line, "prompt") /\ late' = 0
    BY <1>1, <2>1 DEF Passes
  <2>3. HerdrTold' /\ KeysTold'
    BY <1>2, <2>2 DEF HerdrTold, KeysTold
  <2> QED BY <2>2, <2>3, OneCounted DEF AtMostOne
<1>3. CASE job.mux # "herdr"
  <2>1. late' = 0 /\ AtMostOne(PromptsRead) /\ (Says(pane.line, "prompt") => PromptsRead = {})
        /\ (~TextSent => PromptsRead = {} /\ ~Says(pane.line, "prompt"))
    BY <1>3 DEF TInv, KeysTold
  <2>2. ~TextSent' => ~TextSent
    <3>1. Len(todo) \in Nat
      BY HeadIs DEF TInv
    <3>2. Len(todo) < 2 => Len(todo') < 2
      BY <3>1
    <3> QED BY <3>2 DEF TextSent
  <2>3. /\ AtMostOne(PromptsRead)' /\ (Says(pane'.line, "prompt") => PromptsRead' = {})
        /\ ~TextSent' => PromptsRead' = {} /\ ~Says(pane'.line, "prompt")
    <3>1. CASE Mentioning(pane'.got, "prompt") = Mentioning(pane.got, "prompt")
               /\ (Says(pane'.line, "prompt") => Says(pane.line, "prompt"))
      BY <1>1, <2>1, <2>2, <3>1 DEF AtMostOne
    <3>2. CASE /\ Says(pane.line, "prompt") /\ ~Says(pane'.line, "prompt")
               /\ \E n : Mentioning(pane'.got, "prompt") = Mentioning(pane.got, "prompt") \cup {n}
      <4>1. PromptsRead = {} /\ TextSent
        BY <2>1, <3>2
      <4>2. PICK n : PromptsRead' = {n}
        BY <1>1, <3>2, <4>1
      <4> QED BY <2>2, <3>2, <4>1, <4>2 DEF AtMostOne
    <3> QED BY <3>1, <3>2 DEF Passes
  <2> QED BY <1>3, <2>1, <2>3, OneCounted DEF KeysTold, HerdrTold
<1> QED BY <1>2, <1>3

LEMMA NotDone ==
  ASSUME result' # "ok" PROVE OkMeansDone'
  BY DEF OkMeansDone

(* A plan ends with the wait for the exit, or with the prompt's check.     *)
LEMMA NotLast ==
  ASSUME Control, result = "running", Head(todo) \notin {"gone", "prompt"}, Succeed, UNCHANGED job
  PROVE  OkMeansDone'
<1> SUFFICES ASSUME result' = "ok" PROVE OkMeansDone'
  BY NotDone
<1>1. Len(todo') = 0 /\ Len(todo') = Len(todo) - 1
  BY SucceedControls DEF Control
<1>2. Len(todo) \in Nat /\ Head(todo) = Kth(job, Len(todo)) /\ job \in Jobs
  BY HeadIs DEF Control
<1>3. Len(todo) = 1
  BY <1>1, <1>2
<1>4. job.verb # "park"
  BY <1>2, <1>3, ParkPlan
<1>5. ~(job.mux = "herdr" /\ job.prompt)
  BY <1>2, <1>3, <1>4, RestorePlan DEF Jobs, Job
<1> QED BY <1>4, <1>5 DEF OkMeansDone

(* How a command may go on, but for the last one.                          *)
Outcome ==
  \/ Fail \/ Iterate
  \/ \E to \in {"act", "connected", "menu", "disconnected", "nudge", "fallback"} : Go(to) /\ Fits(Head(todo), to, i)
  \/ Succeed /\ Head(todo) \notin {"gone", "prompt"}
  \/ Go("after") /\ Head(todo) \in {"text", "submit"}

LEMMA OutcomeControls ==
  ASSUME Control, result = "running", Outcome, UNCHANGED job
  PROVE  /\ Control' /\ OkMeansDone'
         /\ Len(todo') \in Nat /\ Len(todo') <= Len(todo)
         /\ Prompting' => stage \in {"stalled", "again", "after"} \/ job.mux # "herdr"
<1>1. Len(todo) \in Nat /\ Len(todo) # 0
  BY HeadIs
<1>2. CASE Fail
  BY <1>1, <1>2, FailControls, NotDone DEF Fail, Prompting
<1>3. CASE Iterate
  <2>1. result' # "ok" /\ ~Prompting'
    BY <1>3 DEF Iterate, Fail, Prompting
  <2> QED BY <1>1, <1>3, <2>1, IterateControls, NotDone
<1>4. CASE \E to \in {"act", "connected", "menu", "disconnected", "nudge", "fallback"} : Go(to) /\ Fits(Head(todo), to, i)
  <2> PICK to \in {"act", "connected", "menu", "disconnected", "nudge", "fallback"} : Go(to) /\ Fits(Head(todo), to, i)
    BY <1>4
  <2>1. result' # "ok" /\ ~Prompting' /\ to \in Stages
    BY DEF Go, Prompting, Stages
  <2> QED BY <1>1, <2>1, GoControls, NotDone
<1>5. CASE Succeed /\ Head(todo) \notin {"gone", "prompt"}
  <2>1. Control' /\ Len(todo') = Len(todo) - 1 /\ OkMeansDone'
    BY <1>5, SucceedControls, NotLast
  <2>2. ~Prompting'
    BY <1>5 DEF Succeed, Prompting
  <2> QED BY <1>1, <2>1, <2>2
<1>6. CASE Go("after") /\ Head(todo) \in {"text", "submit"}
  <2>1. Fits(Head(todo), "after", i) /\ "after" \in Stages /\ result' # "ok"
    BY <1>6 DEF Fits, Stages, Go
  <2>2. job.mux # "herdr"
    BY <1>6, HeadIs, CommandPlaces DEF Control
  <2> QED BY <1>1, <1>6, <2>1, <2>2, GoControls, NotDone
<1> QED BY <1>2, <1>3, <1>4, <1>5, <1>6 DEF Outcome

LEMMA OutcomeHolds ==
  ASSUME TInv, IInv', result = "running", stage \notin {"stalled", "again", "after"}, UNCHANGED <<job, late>>,
         moves' \in 0..MaxMoves, Passes(pane, pane', "prompt"), Outcome
  PROVE  TInv'
<1>1. Control /\ late \in 0..2 /\ late <= 1 /\ moves \in 0..MaxMoves
  BY DEF TInv
<1>2. /\ Control' /\ OkMeansDone'
      /\ Len(todo') \in Nat /\ Len(todo') <= Len(todo)
      /\ Prompting' => job.mux # "herdr"
  BY <1>1, OutcomeControls
<1>3. KeysTold' /\ HerdrTold' /\ PromptsCounted'
  BY <1>2, OtherStep
<1> QED BY <1>1, <1>2, <1>3 DEF TInv

-----------------------------------------------------------------------------
(* The steps of exec *)

(* A command under way is in no stage of a prompt but its own.             *)
LEMMA SendingWhat ==
  ASSUME TInv, NEW command, MaySend(command)
  PROVE  result = "running" /\ Head(todo) = command /\ stage \in {"begin", "act"}
  BY DEF MaySend, Running

LEMMA LooksTell ==
  ASSUME TInv, CheckStatus \/ CheckRemote \/ CheckDisconnected
  PROVE  TInv'
<1>1. IInv' /\ UNCHANGED <<job, pane, late, moves>> /\ moves' \in 0..MaxMoves /\ Passes(pane, pane', "prompt")
  BY Looks, PassesStill DEF TInv, CheckStatus, CheckRemote, CheckDisconnected
<1>2. CASE CheckStatus
  <2>1. result = "running" /\ stage = "begin" /\ AsksStatus(Head(todo)) /\ (Go("act") \/ Fail)
    BY <1>2 DEF CheckStatus, Running
  <2>2. Fits(Head(todo), "act", i)
    BY <2>1 DEF Fits, AsksStatus
  <2>3. Outcome
    BY <2>1, <2>2 DEF Outcome
  <2> QED BY <1>1, <2>1, <2>3, OutcomeHolds
<1>3. CASE CheckRemote
  <2>1. result = "running" /\ stage = "begin" /\ Head(todo) = "exit" /\ (Go("act") \/ Go("connected") \/ Fail)
    BY <1>3 DEF CheckRemote, Running
  <2>2. Fits(Head(todo), "act", i) /\ Fits(Head(todo), "connected", i)
    BY <2>1 DEF Fits
  <2>3. Outcome
    BY <2>1, <2>2 DEF Outcome
  <2> QED BY <1>1, <2>1, <2>3, OutcomeHolds
<1>4. CASE CheckDisconnected
  <2>1. result = "running" /\ stage = "disconnected" /\ Head(todo) = "exit" /\ (Go("act") \/ Fail)
    BY <1>4 DEF CheckDisconnected, Running
  <2>2. Fits(Head(todo), "act", i)
    BY <2>1 DEF Fits
  <2>3. Outcome
    BY <2>1, <2>2 DEF Outcome
  <2> QED BY <1>1, <2>1, <2>3, OutcomeHolds
<1> QED BY <1>2, <1>3, <1>4

(* A command typed and submitted at once.                                  *)
LEMMA TypedAndEntered ==
  ASSUME pane \in Pane, NEW text \in Text, NEW x, x # text,
         \E p \in Typed(pane, text) : pane' \in Entered(p)
  PROVE  Passes(pane, pane', x)
<1>1. PICK p \in Typed(pane, text) : pane' \in Entered(p)
  OBVIOUS
<1>2. p \in Pane /\ Mentioning(p.got, x) = Mentioning(pane.got, x) /\ (Says(p.line, x) => Says(pane.line, x))
      /\ (Alive(p) <=> Alive(pane))
  BY TypedPasses, TypedLine, TypedQuietly
<1>3. Passes(p, pane', x)
  BY <1>1, <1>2, EnteredPasses
<1> QED BY <1>2, <1>3 DEF Passes

LEMMA DisconnectsTell ==
  ASSUME TInv, TypeRemote \/ PickDisconnect
  PROVE  TInv'
<1>1. IInv' /\ UNCHANGED <<job, late, moves>> /\ moves' \in 0..MaxMoves /\ pane \in Pane /\ "rc" \in Text
  BY Disconnects DEF TInv, IInv, TypeRemote, PickDisconnect, Text
<1>2. Passes(pane, pane', "prompt")
  <2>1. CASE TypeRemote
    BY <1>1, <2>1, TypedAndEntered DEF TypeRemote
  <2>2. CASE PickDisconnect
    BY <1>1, <2>2, PickedPasses DEF PickDisconnect
  <2> QED BY <2>1, <2>2
<1>3. /\ result = "running" /\ Head(todo) = "exit" /\ stage \in {"connected", "menu"}
      /\ Go("menu") \/ Go("disconnected")
  BY DEF TypeRemote, PickDisconnect, Running
<1>4. Fits(Head(todo), "menu", i) /\ Fits(Head(todo), "disconnected", i)
  BY <1>3 DEF Fits
<1>5. Outcome
  BY <1>3, <1>4 DEF Outcome
<1> QED BY <1>1, <1>2, <1>3, <1>5, OutcomeHolds

(* The text of a prompt is sent once, over a line that does not have it.   *)
LEMMA TextTold ==
  ASSUME TInv, MaySend("text"), Sent("text"), pane' \in Typed(pane, "prompt"), UNCHANGED <<job, late>>
  PROVE  KeysTold' /\ HerdrTold' /\ PromptsCounted'
<1>1. result = "running" /\ Head(todo) = "text" /\ stage # "after" /\ Go("after")
  BY SendingWhat DEF Sent, IsPrompt
<1>2. Len(todo) = 2 /\ job.mux # "herdr"
  BY <1>1, HeadIs, CommandPlaces DEF TInv, Control
<1>3. ~TextSent
  BY <1>1, <1>2 DEF TextSent
<1>4. PromptsRead = {} /\ late = 0
  BY <1>2, <1>3 DEF TInv, KeysTold
<1>5. PromptsRead' = {}
  <2>1. "prompt" \in Text /\ pane \in Pane
    BY DEF Text, TInv, IInv
  <2>2. Mentioning(pane'.got, "prompt") = Mentioning(pane.got, "prompt")
    BY <2>1, TypedPasses
  <2> QED BY <1>4, <2>2, ReadIsMentioned, ReadIsMentionedThen
<1>6. TextSent'
  <2>1. job.prompt
    BY <1>1, HeadIs, CommandPlaces DEF TInv, Control
  <2> QED BY <1>1, <1>2, <2>1 DEF Go, TextSent
<1> QED BY <1>2, <1>4, <1>5, <1>6, OneCounted DEF KeysTold, HerdrTold, AtMostOne

LEMMA SendsTell ==
  ASSUME TInv, SendText \/ SendEnter \/ ClearInput \/ AgentStart
  PROVE  TInv'
<1>1. IInv' /\ pane \in Pane /\ UNCHANGED <<job, late, moves>> /\ moves' \in 0..MaxMoves
  BY Sends DEF TInv, IInv, SendText, SendEnter, ClearInput, AgentStart
<1>2. CASE SendText
  <2> PICK command \in {"exit", "env", "resume", "text"} :
             /\ MaySend(command) /\ Sent(command)
             /\ pane' \in Typed(pane, IF command = "text" THEN "prompt" ELSE command)
    BY <1>2 DEF SendText
  <2>1. result = "running" /\ Head(todo) = command /\ stage \in {"begin", "act"}
    BY SendingWhat
  <2>2. Outcome
    BY <2>1 DEF Sent, IsPrompt, Outcome
  <2>3. CASE command # "text"
    <3>1. command \in Text /\ pane' \in Typed(pane, command) /\ command # "prompt"
      BY <2>3 DEF Text
    <3>2. Passes(pane, pane', "prompt")
      BY <1>1, <3>1, TypedPasses DEF Passes
    <3> QED BY <1>1, <2>1, <2>2, <3>2, OutcomeHolds
  <2>4. CASE command = "text"
    <3>1. KeysTold' /\ HerdrTold' /\ PromptsCounted'
      BY <1>1, <2>4, TextTold
    <3>2. Control' /\ OkMeansDone'
      BY <1>1, <2>1, <2>2, OutcomeControls DEF TInv
    <3> QED BY <1>1, <2>1, <3>1, <3>2 DEF TInv
  <2> QED BY <2>3, <2>4
<1>3. CASE SendEnter
  <2> PICK command \in {"enter", "submit"} :
             MaySend(command) /\ Sent(command) /\ pane' \in Entered(pane)
    BY <1>3 DEF SendEnter
  <2>1. result = "running" /\ Head(todo) = command /\ stage \in {"begin", "act"}
    BY SendingWhat
  <2>2. Outcome
    BY <2>1 DEF Sent, IsPrompt, Outcome
  <2>3. Passes(pane, pane', "prompt")
    BY <1>1, EnteredPasses
  <2> QED BY <1>1, <2>1, <2>2, <2>3, OutcomeHolds
<1>4. CASE ClearInput
  <2>1. result = "running" /\ Head(todo) = "clear" /\ stage \in {"begin", "act"} /\ Succeed
    BY <1>4, SendingWhat DEF ClearInput
  <2>2. Passes(pane, pane', "prompt")
    BY <1>1, <1>4, ClearedPasses DEF ClearInput
  <2> QED BY <1>1, <2>1, <2>2, OutcomeHolds DEF Outcome
<1>5. CASE AgentStart
  <2>1. result = "running" /\ Head(todo) = "start" /\ stage \in {"begin", "act"} /\ (Succeed \/ Fail)
    BY <1>5, SendingWhat DEF AgentStart
  <2>2. pane'.got = pane.got /\ pane'.line = pane.line
    BY <1>1, <1>5 DEF AgentStart, Pane
  <2>3. Passes(pane, pane', "prompt")
    BY <2>2, PassesStill
  <2> QED BY <1>1, <2>1, <2>3, OutcomeHolds DEF Outcome
<1> QED BY <1>2, <1>3, <1>4, <1>5

(* The wait for the exit ends a park: over an agent that is gone.          *)
LEMMA GoneTells ==
  ASSUME TInv, WaitGone
  PROVE  TInv'
<1>1. IInv' /\ UNCHANGED <<job, pane, late, moves>> /\ moves' \in 0..MaxMoves /\ Passes(pane, pane', "prompt")
  BY Waits, PassesStill DEF TInv, WaitGone
<1>2. result = "running" /\ Head(todo) = "gone" /\ stage = "begin"
  BY DEF WaitGone, Running
<1>3. CASE SeenGone
  <2>1. ~Alive(pane)
    <3>1. job.kind \in {"claude", "codex"}
      BY DEF TInv, Control, Jobs, Job
    <3> QED BY <1>3, <3>1 DEF SeenGone, Foreground
  <2>2. seen' = [seen EXCEPT !["gone"] = TRUE] /\ Succeed
    BY <1>3, <2>1 DEF WaitGone, Note
  <2>3. seen'["gone"]
    BY <2>2 DEF TInv, IInv, History
  <2>4. job.verb = "park" /\ ~job.prompt
    BY <1>2, HeadIs, CommandPlaces DEF TInv, Control, Jobs
  <2>5. OkMeansDone'
    BY <1>1, <2>3, <2>4 DEF OkMeansDone
  <2>6. Control' /\ Len(todo') = Len(todo) - 1 /\ Len(todo) \in Nat /\ Len(todo) # 0
    BY <1>1, <1>2, <2>2, SucceedControls, HeadIs DEF TInv
  <2>7. ~Prompting'
    BY <2>2 DEF Succeed, Prompting
  <2>8. KeysTold' /\ HerdrTold' /\ PromptsCounted'
    BY <1>1, <1>2, <2>6, <2>7, OtherStep
  <2> QED BY <1>1, <1>2, <2>5, <2>6, <2>8 DEF TInv
<1>4. CASE ~SeenGone
  <2>1. Go("nudge") \/ Iterate
    BY <1>4 DEF WaitGone
  <2>2. Fits(Head(todo), "nudge", i)
    BY <1>2 DEF Fits
  <2>3. Outcome
    BY <2>1, <2>2 DEF Outcome
  <2> QED BY <1>1, <1>2, <2>3, OutcomeHolds
<1> QED BY <1>3, <1>4

LEMMA WaitsTell ==
  ASSUME TInv, Nudge \/ WaitIdle \/ WaitNative \/ Fallback
  PROVE  TInv'
<1>1. IInv' /\ UNCHANGED <<job, late, moves>> /\ moves' \in 0..MaxMoves /\ pane \in Pane /\ "resume" \in Text
  BY Waits DEF TInv, IInv, Nudge, WaitIdle, WaitNative, Fallback, Text
<1>2. CASE Nudge
  <2>1. result = "running" /\ stage = "nudge" /\ Outcome
    BY <1>2 DEF Nudge, Running, Outcome
  <2>2. Passes(pane, pane', "prompt")
    BY <1>1, <1>2, EnteredPasses DEF Nudge
  <2> QED BY <1>1, <2>1, <2>2, OutcomeHolds
<1>3. CASE Fallback
  <2>1. result = "running" /\ stage = "fallback" /\ Outcome
    BY <1>3 DEF Fallback, Running, Outcome
  <2>2. Passes(pane, pane', "prompt")
    BY <1>1, <1>3, TypedAndEntered DEF Fallback
  <2> QED BY <1>1, <2>1, <2>2, OutcomeHolds
<1>4. CASE WaitIdle
  <2>1. result = "running" /\ stage = "begin" /\ Head(todo) = "idle" /\ (Succeed \/ Iterate)
    BY <1>4 DEF WaitIdle, Running
  <2>2. Passes(pane, pane', "prompt")
    BY <1>4, PassesStill DEF WaitIdle
  <2> QED BY <1>1, <2>1, <2>2, OutcomeHolds DEF Outcome
<1>5. CASE WaitNative
  <2>1. /\ result = "running" /\ stage = "begin" /\ Head(todo) = "native"
        /\ Succeed \/ Iterate \/ (i = FallbackAt /\ Go("fallback"))
    BY <1>5 DEF WaitNative, Running
  <2>2. i = FallbackAt => Fits(Head(todo), "fallback", i)
    BY <2>1 DEF Fits
  <2>3. Outcome
    BY <2>1, <2>2 DEF Outcome
  <2>4. Passes(pane, pane', "prompt")
    BY <1>5, PassesStill DEF WaitNative
  <2> QED BY <1>1, <2>1, <2>3, <2>4, OutcomeHolds
<1> QED BY <1>2, <1>3, <1>4, <1>5

LEMMA TakesTells ==
  ASSUME NEW p \in Pane
  PROVE  /\ Takes(p).line = <<>> /\ Takes(p).runs = "working"
         /\ Takes(p).got = Append(p.got, Append(p.line, "prompt")) /\ Takes(p).ran = p.ran
         /\ Mentioning(Takes(p).got, "prompt") = Mentioning(p.got, "prompt") \cup {Len(p.got) + 1}
<1> DEFINE told == Append(p.line, "prompt")
<1>1. p.line \in Seq(Text) /\ p.got \in Messages /\ "prompt" \in Text
  BY PaneFields DEF Text
<1>2. told \in Seq(Text) /\ told[Len(p.line) + 1] = "prompt" /\ Len(told) = Len(p.line) + 1 /\ Len(p.line) \in Nat
  BY <1>1, AppendProperties, LenProperties
<1>3. Len(p.line) + 1 \in DOMAIN told
  BY <1>2, LenProperties
<1>4. Says(told, "prompt")
  BY <1>2, <1>3 DEF Says
<1>5. Mentioning(Append(p.got, told), "prompt") = Mentioning(p.got, "prompt") \cup {Len(p.got) + 1}
  BY <1>1, <1>2, <1>4, MentioningMore
<1>6. Takes(p) = [p EXCEPT !.runs = "working", !.got = Append(p.got, told), !.line = <<>>]
  BY DEF Takes
<1> HIDE DEF told
<1>7. Takes(p).line = <<>> /\ Takes(p).runs = "working" /\ Takes(p).got = Append(p.got, told) /\ Takes(p).ran = p.ran
  BY <1>6 DEF Pane
<1> QED BY <1>5, <1>7 DEF told

LEMMA PromptRead ==
  ASSUME pane \in Pane, pane' = Takes(pane)
  PROVE  /\ ~Says(pane'.line, "prompt") /\ \E n : PromptsRead' = PromptsRead \cup {n}
         /\ PromptsRead' # {}
<1>1. Mentioning(Takes(pane).got, "prompt") = Mentioning(pane.got, "prompt") \cup {Len(pane.got) + 1}
      /\ Takes(pane).line = <<>>
  BY TakesTells
<1>2. PromptsRead' = PromptsRead \cup {Len(pane.got) + 1}
  BY <1>1, ReadIsMentioned, ReadIsMentionedThen
<1> QED BY <1>1, <1>2, SaysNothing

(* The first prompt is sent to an agent that was told none.                *)
LEMMA PromptTells ==
  ASSUME TInv, Prompt
  PROVE  TInv'
<1>1. IInv' /\ UNCHANGED <<job, moves>> /\ pane \in Pane /\ Control
  BY Prompts DEF TInv, IInv, Prompt
<1>2. result = "running" /\ Head(todo) = "prompt" /\ stage \in {"begin", "act"}
  BY SendingWhat DEF Prompt
<1>3. job.mux = "herdr"
  BY <1>1, <1>2, HeadIs, CommandPlaces DEF Control
<1>4. PromptsRead = {} /\ late = 0 /\ ~Says(pane.line, "prompt")
  BY <1>2, <1>3 DEF TInv, HerdrTold, Prompting
<1>5. Fits(Head(todo), "after", i) /\ Fits(Head(todo), "stalled", i) /\ {"after", "stalled"} \subseteq Stages
  BY <1>2 DEF Fits, Stages
<1>6. CASE Answer = "working"
  <2>1. pane' = Takes(pane) /\ late' = 0 /\ Go("after")
    <3>1. ~Retried
      BY <1>6 DEF Retried
    <3> QED BY <1>4, <1>6, <3>1 DEF Prompt, Deliver
  <2>2. Control' /\ result' = "running" /\ stage' = "after"
    BY <1>1, <1>2, <1>5, <2>1, GoControls DEF Go
  <2>3. AtMostOne(PromptsRead)' /\ PromptsRead' # {} /\ ~Says(pane'.line, "prompt")
    BY <1>1, <1>4, <2>1, PromptRead DEF AtMostOne
  <2>4. KeysTold' /\ HerdrTold'
    BY <1>1, <1>3, <2>1, <2>2, <2>3 DEF KeysTold, HerdrTold, Prompting
  <2> QED BY <1>1, <2>1, <2>2, <2>3, <2>4, OneCounted, NotDone DEF TInv
<1>7. CASE Answer # "working"
  <2>1. pane' = pane /\ PromptsRead' = {} /\ ~Says(pane'.line, "prompt")
    BY <1>4, <1>7 DEF Prompt, Deliver, PromptsRead
  <2>2. CASE Retried
    <3>1. late' \in {0, 1} /\ Go("stalled")
      BY <1>4, <1>7, <2>2 DEF Prompt, Deliver, Retried
    <3>2. seen'["stalled"]
      <4>1. seen' = [seen EXCEPT !["stalled"] = TRUE]
        BY <2>2 DEF Prompt, Note
      <4> QED BY <4>1 DEF TInv, IInv, History
    <3>3. Control' /\ result' = "running" /\ stage' = "stalled"
      BY <1>1, <1>2, <1>5, <3>1, GoControls DEF Go
    <3>4. KeysTold' /\ HerdrTold'
      BY <1>1, <1>3, <2>1, <3>1, <3>2, <3>3 DEF KeysTold, HerdrTold, Prompting
    <3> QED BY <1>1, <2>1, <3>1, <3>3, <3>4, OneCounted, NotDone DEF TInv, AtMostOne
  <2>3. CASE ~Retried
    <3>1. late' = 0 /\ Fail
      BY <1>4, <1>7, <2>3 DEF Prompt, Deliver, Retried
    <3>2. Control' /\ result' = "failed"
      BY <1>1, <3>1, FailControls DEF Fail
    <3>3. KeysTold' /\ HerdrTold'
      BY <1>1, <1>3, <2>1, <3>1, <3>2 DEF KeysTold, HerdrTold, Prompting
    <3> QED BY <1>1, <2>1, <3>1, <3>2, <3>3, OneCounted, NotDone DEF TInv, AtMostOne
  <2> QED BY <2>2, <2>3
<1> QED BY <1>6, <1>7

LEMMA SettleTells ==
  ASSUME TInv, Settle
  PROVE  TInv'
<1>1. IInv' /\ UNCHANGED <<job, pane, late, moves>> /\ moves' \in 0..MaxMoves /\ Control /\ seen \in History
  BY Prompts DEF TInv, IInv, Settle
<1>2. result = "running" /\ Head(todo) = "prompt" /\ stage = "stalled" /\ (Go("again") \/ Fail)
  BY DEF Settle, Running
<1>3. job.mux = "herdr"
  BY <1>1, <1>2, HeadIs, CommandPlaces DEF Control
<1>4. Fits(Head(todo), "again", i) /\ "again" \in Stages
  BY <1>2 DEF Fits, Stages
<1>5. Control' /\ result' # "ok"
  BY <1>1, <1>2, <1>4, GoControls, FailControls DEF Go, Fail
<1>6. PromptsRead' = PromptsRead /\ seen'["stalled"] = seen["stalled"]
  BY <1>1 DEF PromptsRead, Settle, Note, History
<1>7. KeysTold' /\ HerdrTold'
  <2>1. seen["stalled"] /\ ((PromptsRead = {} /\ late <= 1) \/ (AtMostOne(PromptsRead) /\ late = 0))
        /\ ~Says(pane.line, "prompt")
    BY <1>2, <1>3 DEF TInv, HerdrTold, Prompting
  <2>2. ~(Prompting' /\ stage' = "after") /\ ~(result' = "running" /\ ~Prompting')
    BY <1>2 DEF Prompting, Go, Fail
  <2>3. AtMostOne(PromptsRead)' = AtMostOne(PromptsRead)
    BY <1>6 DEF AtMostOne
  <2> QED BY <1>1, <1>3, <1>6, <2>1, <2>2, <2>3 DEF KeysTold, HerdrTold
<1> QED BY <1>1, <1>2, <1>5, <1>6, <1>7, CountedKept, NotDone DEF TInv

(* The second prompt is the last one: it stalls, and the step fails.       *)
LEMMA AgainTells ==
  ASSUME TInv, PromptAgain
  PROVE  TInv'
<1>1. IInv' /\ UNCHANGED <<job, seen, moves>> /\ Control /\ pane \in Pane
  BY Prompts DEF TInv, IInv, PromptAgain
<1>2. result = "running" /\ Head(todo) = "prompt" /\ stage = "again"
  BY DEF PromptAgain, Running
<1>3. job.mux = "herdr"
  BY <1>1, <1>2, HeadIs, CommandPlaces DEF Control
<1>4. seen["stalled"] /\ ((PromptsRead = {} /\ late <= 1) \/ (AtMostOne(PromptsRead) /\ late = 0))
      /\ ~Says(pane.line, "prompt") /\ late \in 0..2
  BY <1>2, <1>3 DEF TInv, HerdrTold, Prompting
<1>5. CASE Answer = "working"
  <2>1. pane' = Takes(pane) /\ late' = late /\ Go("after")
    BY <1>5 DEF PromptAgain, Deliver
  <2>2. Fits(Head(todo), "after", i) /\ "after" \in Stages
    BY <1>2 DEF Fits, Stages
  <2>3. Control' /\ result' = "running" /\ stage' = "after"
    BY <1>1, <1>2, <2>1, <2>2, GoControls DEF Go
  <2>4. PICK n : PromptsRead' = PromptsRead \cup {n}
    BY <1>1, <2>1, PromptRead
  <2>5. ~Says(pane'.line, "prompt") /\ PromptsRead' # {}
    BY <1>1, <2>1, PromptRead
  <2>6. late = 0 \/ (late = 1 /\ PromptsRead = {})
    BY <1>4
  <2>7. late' = 0 \/ (late' = 1 /\ seen'["stalled"] /\ AtMostOne(PromptsRead)')
    BY <1>1, <1>4, <2>1, <2>4, <2>6 DEF AtMostOne
  <2>8. PromptsCounted'
    <3>1. AtMostOne(PromptsRead)
      BY <1>4 DEF AtMostOne
    <3> QED BY <1>1, <1>4, <2>4, <3>1, TwoCounted
  <2>9. KeysTold' /\ HerdrTold'
    BY <1>1, <1>3, <2>3, <2>5, <2>7 DEF KeysTold, HerdrTold, Prompting
  <2> QED BY <1>1, <1>4, <2>1, <2>3, <2>6, <2>8, <2>9, NotDone DEF TInv
<1>6. CASE Answer # "working"
  <2>1. pane' = pane /\ Fail /\ late' \in {late, late + 1}
    BY <1>6 DEF PromptAgain, Deliver
  <2>2. Control' /\ result' = "failed"
    BY <1>1, <2>1, FailControls DEF Fail
  <2>3. PromptsRead' = PromptsRead
    BY <2>1 DEF PromptsRead
  <2>4. KeysTold' /\ HerdrTold'
    BY <1>1, <1>3, <1>4, <2>1, <2>2 DEF KeysTold, HerdrTold, Prompting
  <2>5. late' \in 0..2
    BY <1>4, <2>1
  <2> QED BY <1>1, <2>2, <2>3, <2>4, <2>5, CountedKept, NotDone DEF TInv
<1> QED BY <1>5, <1>6

LEMMA CheckedTells ==
  ASSUME TInv, CheckAfter
  PROVE  TInv'
<1>1. IInv' /\ UNCHANGED <<job, pane, late, seen, moves>> /\ Control
  BY Prompts DEF TInv, IInv, CheckAfter
<1>2. result = "running" /\ stage = "after" /\ (Succeed \/ Fail)
  BY DEF CheckAfter, Running
<1>3. PromptsRead' = PromptsRead
  BY <1>1 DEF PromptsRead
<1>4. Control' /\ (result' = "ok" => Succeed)
  BY <1>1, <1>2, SucceedControls, FailControls DEF Fail
<1>5. CASE job.mux = "herdr"
  <2>1. PromptsRead # {} /\ late \in {0, 1} /\ ~Says(pane.line, "prompt") /\ Len(todo) \in Nat
    BY <1>2, <1>5, HeadIs DEF TInv, HerdrTold, Prompting
  <2>2. Head(todo) = "prompt" /\ Len(todo) = 1
    <3>1. Head(todo) \in {"prompt", "text", "submit"}
      BY <1>1, <1>2 DEF Control, Fits
    <3> QED BY <1>1, <1>2, <1>5, <3>1, HeadIs, CommandPlaces DEF Control
  <2>3. result' # "running"
    <3>1. CASE Fail
      BY <3>1 DEF Fail
    <3>2. CASE Succeed
      <4>1. todo \in Seq(Command) /\ todo # <<>>
        BY <1>1, <1>2 DEF Control, OnPlan
      <4>2. Tail(todo) \in Seq(Command) /\ Len(Tail(todo)) = 0
        BY <2>2, <4>1, HeadTailProperties
      <4>3. Tail(todo) = <<>>
        BY <4>2, EmptySeq
      <4> QED BY <3>2, <4>3 DEF Succeed
    <3> QED BY <1>2, <3>1, <3>2
  <2>4. job.verb # "park"
    BY <1>1, <1>2, <2>2, HeadIs, CommandPlaces DEF Control, Jobs
  <2>5. KeysTold' /\ HerdrTold'
    BY <1>1, <1>5, <2>1, <2>3 DEF KeysTold, HerdrTold, Prompting
  <2>6. OkMeansDone'
    BY <1>1, <1>3, <2>1, <2>4 DEF OkMeansDone
  <2> QED BY <1>1, <1>3, <1>4, <2>1, <2>3, <2>5, <2>6, CountedKept DEF TInv
<1>6. CASE job.mux # "herdr"
  <2>1. late = 0 /\ AtMostOne(PromptsRead) /\ (Says(pane.line, "prompt") => PromptsRead = {})
        /\ (~TextSent => PromptsRead = {} /\ ~Says(pane.line, "prompt"))
    BY <1>6 DEF TInv, KeysTold
  <2>2. Head(todo) \in {"text", "submit"} /\ Len(todo) \in Nat /\ Len(todo) <= 2 /\ job.prompt
    <3>1. Head(todo) \in {"prompt", "text", "submit"}
      BY <1>1, <1>2 DEF Control, Fits
    <3> QED BY <1>1, <1>2, <1>6, <3>1, HeadIs, CommandPlaces DEF Control
  <2>3. TextSent'
    <3>1. CASE Succeed
      <4>1. Len(todo') = Len(todo) - 1
        BY <1>1, <1>2, <3>1, SucceedControls
      <4>2. Len(todo') < 2
        BY <2>2, <4>1
      <4> QED BY <1>1, <1>6, <2>2, <4>2 DEF TextSent
    <3>2. CASE Fail
      BY <1>1, <1>2, <1>6, <2>2, <3>2 DEF TextSent, Fail
    <3> QED BY <1>2, <3>1, <3>2
  <2>4. OkMeansDone'
    BY <1>1, <1>2, <1>4, <2>2, NotLast, NotDone
  <2>5. KeysTold' /\ HerdrTold'
    BY <1>1, <1>3, <1>6, <2>1, <2>3 DEF KeysTold, HerdrTold, AtMostOne
  <2> QED BY <1>1, <1>3, <1>4, <2>1, <2>4, <2>5, CountedKept DEF TInv
<1> QED BY <1>5, <1>6

-----------------------------------------------------------------------------
(* What happens beside exec *)

LEMMA Moved ==
  ASSUME moves \in 0..MaxMoves, Move
  PROVE  moves' \in 0..MaxMoves
  BY BoundsAssumption DEF Move

(* A step of the pane alone, by which the agent may read its input line.   *)
LEMMA AsideTells ==
  ASSUME TInv, IInv', UNCHANGED <<job, todo, stage, i, result, late>>, fresh' \in BOOLEAN, moves' \in 0..MaxMoves,
         Passes(pane, pane', "prompt"), \A h \in {"stalled", "gone", "blind"} : seen'[h] = seen[h]
  PROVE  TInv'
<1>1. Control' /\ late' \in 0..2 /\ (result' = "running" => late' <= 1)
  BY DEF TInv, Control, OnPlan
<1>2. PromptsRead = Mentioning(pane.got, "prompt") /\ PromptsRead' = Mentioning(pane'.got, "prompt")
  BY ReadIsMentioned, ReadIsMentionedThen
<1>3. CASE job.mux = "herdr"
  <2>1. ~Says(pane.line, "prompt")
    BY <1>3 DEF TInv, HerdrTold
  <2>2. PromptsRead' = PromptsRead /\ ~Says(pane'.line, "prompt")
    BY <1>2, <2>1 DEF Passes
  <2>3. AtMostOne(PromptsRead)' = AtMostOne(PromptsRead)
    BY <2>2 DEF AtMostOne
  <2>4. HerdrTold' /\ KeysTold'
    BY <1>3, <2>2, <2>3 DEF TInv, HerdrTold, KeysTold, Prompting
  <2>5. OkMeansDone'
    BY <2>2 DEF TInv, OkMeansDone
  <2> QED BY <1>1, <2>2, <2>4, <2>5, CountedKept DEF TInv
<1>4. CASE job.mux # "herdr"
  <2>1. late = 0 /\ AtMostOne(PromptsRead) /\ (Says(pane.line, "prompt") => PromptsRead = {})
        /\ (~TextSent => PromptsRead = {} /\ ~Says(pane.line, "prompt"))
    BY <1>4 DEF TInv, KeysTold
  <2>2. TextSent' = TextSent
    BY DEF TextSent
  <2>3. /\ AtMostOne(PromptsRead)' /\ (Says(pane'.line, "prompt") => PromptsRead' = {})
        /\ ~TextSent' => PromptsRead' = {} /\ ~Says(pane'.line, "prompt")
    <3>1. CASE Mentioning(pane'.got, "prompt") = Mentioning(pane.got, "prompt")
               /\ (Says(pane'.line, "prompt") => Says(pane.line, "prompt"))
      BY <1>2, <2>1, <2>2, <3>1 DEF AtMostOne
    <3>2. CASE /\ Says(pane.line, "prompt") /\ ~Says(pane'.line, "prompt")
               /\ \E n : Mentioning(pane'.got, "prompt") = Mentioning(pane.got, "prompt") \cup {n}
      <4>1. PromptsRead = {} /\ TextSent
        BY <2>1, <3>2
      <4>2. PICK n : PromptsRead' = {n}
        BY <1>2, <3>2, <4>1
      <4> QED BY <2>2, <3>2, <4>1, <4>2 DEF AtMostOne
    <3> QED BY <3>1, <3>2 DEF Passes
  <2>4. HerdrTold' /\ KeysTold'
    BY <1>4, <2>1, <2>3 DEF HerdrTold, KeysTold
  <2>5. OkMeansDone'
    BY <1>4 DEF TInv, OkMeansDone
  <2> QED BY <1>1, <2>3, <2>4, <2>5, OneCounted DEF TInv
<1> QED BY <1>3, <1>4

LEMMA LateTells ==
  ASSUME TInv, ReadLate
  PROVE  TInv'
<1>1. IInv' /\ UNCHANGED <<job, todo, stage, i, result, fresh, seen, moves>> /\ pane \in Pane
  BY Happens DEF TInv, IInv, ReadLate
<1>2. result = "running" /\ pane' = Takes(pane) /\ late > 0 /\ late' = late - 1 /\ late \in 0..2 /\ late <= 1
  BY DEF ReadLate, TInv
<1>3. late = 1 /\ late' = 0
  BY <1>2
<1>4. job.mux = "herdr"
  BY <1>3 DEF TInv, KeysTold
<1>5. PICK n : PromptsRead' = PromptsRead \cup {n}
  BY <1>1, <1>2, PromptRead
<1>6. PromptsRead' # {} /\ ~Says(pane'.line, "prompt")
  BY <1>1, <1>2, PromptRead
<1>7. Prompting /\ Prompting' /\ seen["stalled"] /\ AtMostOne(PromptsRead)
      /\ (stage # "after" => PromptsRead = {})
  BY <1>1, <1>2, <1>3, <1>4 DEF TInv, HerdrTold, Prompting, AtMostOne
<1>8. PromptsCounted'
  BY <1>1, <1>5, <1>7, TwoCounted
<1>9. stage # "after" => AtMostOne(PromptsRead)'
  BY <1>5, <1>7 DEF AtMostOne
<1>10. KeysTold' /\ HerdrTold'
  BY <1>1, <1>3, <1>4, <1>6, <1>7, <1>9 DEF KeysTold, HerdrTold
<1>11. Control' /\ OkMeansDone'
  BY <1>1, <1>2, NotDone DEF TInv, Control, OnPlan
<1> QED BY <1>1, <1>3, <1>8, <1>10, <1>11 DEF TInv

LEMMA AsidesTell ==
  ASSUME TInv, Progress \/ Stir \/ NativeResume
  PROVE  TInv'
<1>1. IInv' /\ UNCHANGED <<job, todo, stage, i, result, late>> /\ pane \in Pane /\ fresh \in BOOLEAN
  BY Happens DEF TInv, IInv, Control, Progress, Stir, NativeResume
<1>2. moves' \in 0..MaxMoves
  BY Moved DEF TInv, Progress, Stir, NativeResume
<1>3. \A h \in {"stalled", "gone", "blind"} : seen'[h] = seen[h]
  BY DEF TInv, IInv, History, Progress, Stir, NativeResume
<1>4. fresh' \in BOOLEAN
  BY <1>1 DEF Progress, Stir, NativeResume
<1>5. CASE Progress
  <2>1. pane'.got = pane.got /\ pane'.line \in {pane.line, <<>>}
    BY <1>1, <1>5 DEF Progress, Pane
  <2> QED BY <1>1, <1>2, <1>3, <1>4, <2>1, PassesStill, AsideTells
<1>6. CASE Stir
  <2>1. pane'.got = pane.got /\ pane'.line \in {pane.line, <<>>, Append(pane.line, "junk")}
    BY <1>1, <1>6 DEF Stir, Pane
  <2>2. pane.line \in Seq(Text) /\ "junk" \in Text
    BY <1>1, PaneFields DEF Text
  <2>3. Says(pane'.line, "prompt") => Says(pane.line, "prompt")
    BY <2>1, <2>2, SaysMore, SaysNothing
  <2> QED BY <1>1, <1>2, <1>3, <1>4, <2>1, <2>3, AsideTells DEF Passes
<1>7. CASE NativeResume
  <2>1. Passes(pane, pane', "prompt")
    BY <1>1, <1>7, TypedAndEntered DEF NativeResume, Text
  <2> QED BY <1>1, <1>2, <1>3, <1>4, <2>1, AsideTells
<1> QED BY <1>5, <1>6, <1>7

LEMMA FaultsTell ==
  ASSUME TInv, Fault
  PROVE  TInv'
<1>1. IInv' /\ UNCHANGED <<job, late>> /\ pane \in Pane /\ Control /\ moves' \in 0..MaxMoves /\ job.mux = "herdr"
  BY Faults, Moved DEF TInv, IInv, Fault
<1>2. CASE MaySend("prompt") /\ pane' = Takes(pane) /\ Fail /\ UNCHANGED seen
  <2>1. result = "running" /\ ~Prompting
    BY <1>2, SendingWhat DEF Prompting
  <2>2. PromptsRead = {} /\ late = 0
    BY <1>1, <2>1 DEF TInv, HerdrTold
  <2>3. AtMostOne(PromptsRead)' /\ ~Says(pane'.line, "prompt")
    BY <1>1, <1>2, <2>2, PromptRead DEF AtMostOne
  <2>4. Control' /\ result' = "failed"
    BY <1>1, <1>2, FailControls DEF Fail
  <2>5. KeysTold' /\ HerdrTold'
    BY <1>1, <2>3, <2>4 DEF KeysTold, HerdrTold, Prompting
  <2> QED BY <1>1, <2>2, <2>3, <2>4, <2>5, OneCounted, NotDone DEF TInv
<1>3. CASE Running("gone", "begin") /\ Succeed /\ Note("blind", TRUE) /\ UNCHANGED pane
  <2>1. result = "running" /\ Head(todo) = "gone" /\ stage = "begin"
    BY <1>3 DEF Running
  <2>2. seen'["blind"]
    <3>1. seen' = [seen EXCEPT !["blind"] = TRUE]
      BY <1>3 DEF Note
    <3> QED BY <3>1 DEF TInv, IInv, History
  <2>3. job.verb = "park" /\ ~job.prompt
    BY <1>1, <2>1, HeadIs, CommandPlaces DEF Control, Jobs
  <2>4. OkMeansDone'
    BY <1>1, <2>2, <2>3 DEF OkMeansDone
  <2>5. Control' /\ Len(todo') = Len(todo) - 1 /\ Len(todo) \in Nat /\ Len(todo) # 0
    BY <1>1, <1>3, <2>1, SucceedControls, HeadIs
  <2>6. ~Prompting' /\ Passes(pane, pane', "prompt")
    BY <1>3, PassesStill DEF Succeed, Prompting
  <2>7. KeysTold' /\ HerdrTold' /\ PromptsCounted'
    BY <1>1, <2>1, <2>5, <2>6, OtherStep
  <2> QED BY <1>1, <2>1, <2>4, <2>5, <2>7 DEF TInv
<1>4. CASE Running("exit", "begin") /\ Go("act") /\ UNCHANGED <<pane, seen>>
  <2>1. result = "running" /\ Head(todo) = "exit" /\ stage = "begin" /\ Fits(Head(todo), "act", i)
    BY <1>4 DEF Running, Fits
  <2>2. Outcome /\ Passes(pane, pane', "prompt")
    BY <1>4, <2>1, PassesStill DEF Outcome
  <2> QED BY <1>1, <2>1, <2>2, OutcomeHolds
<1> QED BY <1>2, <1>3, <1>4 DEF Fault

LEMMA InitTells ==
  Init => TInv
<1> SUFFICES ASSUME Init PROVE TInv
  OBVIOUS
<1>1. IInv /\ job \in Jobs
  BY InitHolds DEF Init
<1>2. PromptsRead = {} /\ pane.got = <<>> /\ pane.line \in {<<>>, <<"junk">>}
  BY DEF Init, PromptsRead
<1>3. ~Says(pane.line, "prompt")
  BY <1>2 DEF Says
<1>4. Steps(job) \in Seq(Command) /\ Len(Steps(job)) # 0
  <2>1. CASE job.verb = "park"
    <3>1. Steps(job) \in Seq(Command) /\ Len(Steps(job)) = 4
      BY <1>1, <2>1, ParkPlan
    <3> QED BY <3>1
  <2>2. CASE job.verb = "restore"
    BY <1>1, <2>2, RestorePlan DEF Rest
  <2> QED BY <1>1, <2>1, <2>2 DEF Jobs, Job
<1>5. Len(Steps(job)) \in Nat /\ Steps(job) # <<>>
  BY <1>4, LenProperties
<1>6. OnPlan
  <2>1. todo = Steps(job)
    BY DEF Init
  <2>2. \A n \in 1..Len(todo) : Len(Steps(job)) + 1 - (Len(todo) + 1 - n) = n
    BY <1>5, <2>1
  <2> QED BY <1>4, <1>5, <2>1, <2>2 DEF OnPlan, Kth
<1>7. /\ stage = "begin" /\ i = 1 /\ result = "running" /\ fresh = FALSE /\ late = 0 /\ moves = 0
      /\ 1 \in 1..Polls /\ 0 \in 0..MaxMoves
  BY BoundsAssumption DEF Init
<1>8. Control
  BY <1>1, <1>6, <1>7 DEF Control, Stages, Fits
<1>9. KeysTold /\ HerdrTold /\ PromptsCounted /\ OkMeansDone
  BY <1>2, <1>3, <1>7 DEF KeysTold, HerdrTold, PromptsCounted, OkMeansDone, AtMostOne, Prompting
<1> QED BY <1>1, <1>7, <1>8, <1>9 DEF TInv

LEMMA NextTells ==
  TInv /\ [Next]_vars => TInv'
<1> SUFFICES ASSUME TInv, [Next]_vars PROVE TInv'
  OBVIOUS
<1>1. CASE Exec
  BY <1>1, LooksTell, DisconnectsTell, SendsTell, GoneTells, WaitsTell, PromptTells, SettleTells, AgainTells,
     CheckedTells DEF Exec
<1>2. CASE Progress \/ ReadLate \/ Stir \/ NativeResume \/ Fault
  BY <1>2, AsidesTell, LateTells, FaultsTell
<1>3. CASE UNCHANGED vars
  <2>1. IInv'
    BY <1>3, NextKeeps DEF TInv
  <2>2. seen' = seen /\ Passes(pane, pane', "prompt") /\ fresh \in BOOLEAN /\ moves \in 0..MaxMoves
    BY <1>3, PassesStill DEF vars, TInv, Control
  <2> QED BY <1>3, <2>1, <2>2, AsideTells DEF vars
<1> QED BY <1>1, <1>2, <1>3 DEF Next

-----------------------------------------------------------------------------
(* The theorems *)

LEMMA Told ==
  Spec => []TInv
  BY InitTells, NextTells, PTL DEF Spec

(* The variables keep their types; an iteration is never past its wait's   *)
(* last, and herdr never holds more than two copies of a prompt.           *)
THEOREM TypeCorrect ==
  Spec => []TypeOK
<1>1. TInv => TypeOK
  <2> SUFFICES ASSUME TInv PROVE TypeOK
    OBVIOUS
  <2>1. todo \in Seq(Command) /\ pane \in Pane /\ seen \in History
    BY DEF TInv, IInv, Control, OnPlan
  <2>2. {todo[n] : n \in DOMAIN todo} \subseteq Command
    BY <2>1, LenProperties
  <2>3. {pane.line[n] : n \in DOMAIN pane.line} \subseteq Text
    <3>1. pane.line \in Seq(Text)
      BY <2>1, PaneFields
    <3> QED BY <3>1, LenProperties
  <2>4. pane.runs \in Live \cup {"none"} /\ pane.rc \in BOOLEAN /\ pane.popup \in BOOLEAN
    BY <2>1, PaneFields
  <2> QED BY <2>1, <2>2, <2>3, <2>4 DEF TypeOK, TInv, Control, Stages
<1> QED BY <1>1, Told, PTL

(* An agent is told its prompt once, and twice only if herdr said of the   *)
(* first that it stalled: the text is typed once and read once, and herdr, *)
(* which may hold a stalled prompt back and hand it over later, is asked a *)
(* second time only then and never a third.                                *)
THEOREM PromptsCountedHolds ==
  Spec => []PromptsCounted
<1>1. TInv => PromptsCounted
  BY DEF TInv
<1> QED BY <1>1, Told, PTL

(* A park that ends well ended over an agent that was gone (or over an     *)
(* `agent get` that failed for another reason), and a restore on herdr     *)
(* with the prompt read: no other way leads through the plan to its end.   *)
THEOREM OkMeansDoneHolds ==
  Spec => []OkMeansDone
<1>1. TInv => OkMeansDone
  BY DEF TInv
<1> QED BY <1>1, Told, PTL

-----------------------------------------------------------------------------
(* The command that resumes an agent.  It is on the input line of a live   *)
(* agent at no time: until it is typed the pane is a shell with no such    *)
(* line, and the Enter that runs it takes it from the line.                *)

(* The resume command is still to be typed. *)
Unresumed == job.mux # "herdr" /\ ~job.native /\ job.verb = "restore" /\ Len(todo) >= Rest(job) + 2

RInv ==
  ~seen["slow"] =>
    /\ Mentioning(pane.got, "resume") = {}
    /\ Alive(pane) => ~Says(pane.line, "resume")
    /\ result = "running" /\ Unresumed => ~Alive(pane) /\ ~Says(pane.line, "resume")
    /\ result = "running" /\ stage = "fallback" => ~Alive(pane)

LEMMA SaysAlone == \A x : Says(<<x>>, x)
<1> SUFFICES ASSUME NEW x PROVE Says(<<x>>, x)
  OBVIOUS
<1> DEFINE l == <<x>>
<1>1. 1 \in DOMAIN l /\ l[1] = x
  OBVIOUS
<1> HIDE DEF l
<1>2. Says(l, x)
  BY <1>1 DEF Says
<1> QED BY <1>2 DEF l

(* A step by which the agent reads its input line, and which types no      *)
(* resume command.                                                         *)
LEMMA ReadsResume ==
  ASSUME RInv, Passes(pane, pane', "resume"), Wakes(pane, pane'), seen["slow"] => seen'["slow"],
         (result' = "running" /\ Unresumed') => (result = "running" /\ Unresumed),
         (result' = "running" /\ stage' = "fallback") => ~Alive(pane')
  PROVE  RInv'
<1> SUFFICES ASSUME ~seen'["slow"] PROVE RInv'
  BY DEF RInv
<1>1. /\ Mentioning(pane.got, "resume") = {} /\ (Alive(pane) => ~Says(pane.line, "resume"))
      /\ result = "running" /\ Unresumed => ~Alive(pane) /\ ~Says(pane.line, "resume")
  BY DEF RInv
<1>2. Mentioning(pane'.got, "resume") = {}
  BY <1>1 DEF Passes
<1>3. Alive(pane') => ~Says(pane'.line, "resume")
  BY <1>1, SaysNothing DEF Passes, Wakes
<1>4. result' = "running" /\ Unresumed' => ~Alive(pane') /\ ~Says(pane'.line, "resume")
  <2> SUFFICES ASSUME result' = "running", Unresumed' PROVE ~Alive(pane') /\ ~Says(pane'.line, "resume")
    OBVIOUS
  <2>1. ~Alive(pane) /\ ~Says(pane.line, "resume")
    BY <1>1
  <2>2. pane.line # <<"resume">>
    BY <2>1, SaysAlone
  <2> QED BY <2>1, <2>2 DEF Passes, Wakes
<1>5. (Alive(pane))' <=> Alive(pane')
  BY DEF Alive
<1> QED BY <1>2, <1>3, <1>4, <1>5 DEF RInv

LEMMA StillUnresumed ==
  ASSUME TInv, TInv', result = "running", UNCHANGED job, Len(todo') <= Len(todo)
  PROVE  Unresumed' => Unresumed
<1>1. todo \in Seq(Command) /\ todo' \in Seq(Command) /\ Rest(job) \in Nat
  BY DEF TInv, Control, OnPlan, Rest
<1>2. Len(todo) \in Nat /\ Len(todo') \in Nat
  BY <1>1, LenProperties
<1>3. Rest(job') = Rest(job)
  BY DEF Rest
<1> QED BY <1>1, <1>2, <1>3 DEF Unresumed

LEMMA TypedOther ==
  ASSUME pane \in Pane, NEW text \in Text, NEW q \in Typed(pane, text), NEW x, x # text
  PROVE  Passes(pane, q, x) /\ Wakes(pane, q)
  BY TypedPasses, TypedLine DEF Passes, Wakes

(* The command typed into a shell and submitted at once: it starts the     *)
(* agent, or is lost in what was on the line.                              *)
LEMMA ResumedAtShell ==
  ASSUME pane \in Pane, ~Alive(pane), Mentioning(pane.got, "resume") = {},
         \E p \in Typed(pane, "resume") : pane' \in Entered(p)
  PROVE  Mentioning(pane'.got, "resume") = {} /\ (Alive(pane') => ~Says(pane'.line, "resume"))
<1>1. PICK p \in Typed(pane, "resume") : pane' \in Entered(p)
  OBVIOUS
<1>2. "resume" \in Text
  BY DEF Text
<1>3. p \in Pane /\ Mentioning(p.got, "resume") = {} /\ ~Alive(p)
  BY <1>2, TypedPasses, TypedLine, TypedQuietly
<1>4. Passes(p, pane', "resume") /\ Wakes(p, pane')
  BY <1>1, <1>3, EnteredPasses
<1> QED BY <1>3, <1>4, SaysNothing DEF Passes, Wakes

LEMMA NotTheResume ==
  ASSUME NEW l \in Seq(Text), NEW t \in Text, t # "resume"
  PROVE  Append(l, t) # <<"resume">>
<1>1. Len(l) \in Nat /\ Len(Append(l, t)) = Len(l) + 1 /\ Append(l, t)[Len(l) + 1] = t
  BY AppendProperties, LenProperties
<1> SUFFICES ASSUME Append(l, t) = <<"resume">> PROVE FALSE
  OBVIOUS
<1>2. Len(l) = 0 /\ Append(l, t)[1] = "resume"
  BY <1>1
<1> QED BY <1>1, <1>2

LEMMA EnteredAfterOther ==
  ASSUME pane \in Pane, NEW text \in Text, text # "resume", \E p \in Typed(pane, text) : pane' \in Entered(p)
  PROVE  Passes(pane, pane', "resume") /\ Wakes(pane, pane')
<1>1. PICK p \in Typed(pane, text) : pane' \in Entered(p)
  OBVIOUS
<1>2. p \in Pane /\ p.line \in {pane.line, Append(pane.line, text)} /\ (Alive(p) <=> Alive(pane))
  BY TypedLine, TypedQuietly
<1>3. Wakes(p, pane')
  BY <1>1, <1>2, EnteredPasses
<1>4. pane.line \in Seq(Text)
  BY PaneFields
<1>5. p.line = <<"resume">> => pane.line = <<"resume">>
  BY <1>2, <1>4, NotTheResume
<1> QED BY <1>2, <1>3, <1>5, TypedAndEntered DEF Wakes

LEMMA TakesWithoutResume ==
  ASSUME NEW p \in Pane, Alive(p), ~Says(p.line, "resume")
  PROVE  Passes(p, Takes(p), "resume") /\ Wakes(p, Takes(p))
<1> DEFINE told == Append(p.line, "prompt")
<1>1. p.line \in Seq(Text) /\ p.got \in Messages /\ "prompt" \in Text
  BY PaneFields DEF Text
<1>2. told \in Seq(Text) /\ ~Says(told, "resume")
  BY <1>1, AppendProperties, SaysMore
<1>3. Takes(p).got = Append(p.got, told) /\ Takes(p).line = <<>>
  BY TakesTells
<1> HIDE DEF told
<1>4. Mentioning(Append(p.got, told), "resume") = Mentioning(p.got, "resume")
  BY <1>1, <1>2, MentioningMore
<1> QED BY <1>3, <1>4, SaysNothing DEF Passes, Wakes

(* What a step of exec that types no resume command does.                  *)
LEMMA ExecReadsResume ==
  ASSUME TInv, TInv', RInv, result = "running", UNCHANGED job, Len(todo') <= Len(todo),
         Passes(pane, pane', "resume"), Wakes(pane, pane'), seen["slow"] => seen'["slow"],
         (result' = "running" /\ stage' = "fallback") => ~Alive(pane')
  PROVE  RInv'
<1>1. Unresumed' => Unresumed
  BY StillUnresumed
<1> QED BY <1>1, ReadsResume

LEMMA Shorter ==
  ASSUME TInv, result = "running", UNCHANGED job,
         Succeed \/ Fail \/ Iterate \/ \E to : Go(to)
  PROVE  Len(todo') <= Len(todo)
<1>1. Len(todo) \in Nat
  BY HeadIs DEF TInv
<1>2. CASE Succeed
  <2>1. Len(todo') = Len(todo) - 1
    BY <1>2, SucceedControls DEF TInv
  <2> QED BY <1>1, <2>1
<1>3. CASE Fail \/ Iterate \/ \E to : Go(to)
  <2>1. todo' = todo
    BY <1>3 DEF Iterate, Fail, Go
  <2> QED BY <1>1, <2>1
<1> QED BY <1>2, <1>3

LEMMA SlowStays ==
  ASSUME TInv, [Next]_vars
  PROVE  seen["slow"] => seen'["slow"]
<1>1. seen \in History
  BY DEF TInv, IInv
<1>2. \/ seen' = seen
      \/ \E h \in {"touched", "stalled", "gone", "blind"} : \E holds : Note(h, holds)
      \/ \E holds : Note("slow", seen["slow"] \/ holds)
      \/ seen' = [seen EXCEPT !["native"] = TRUE]
      \/ seen' = [seen EXCEPT !["native"] = TRUE, !["slow"] = TRUE]
  <2>1. CASE Exec
    <3>1. CASE CheckStatus \/ CheckRemote \/ TypeRemote \/ PickDisconnect \/ CheckDisconnected
               \/ ClearInput \/ AgentStart \/ PromptAgain \/ CheckAfter
      BY <3>1 DEF CheckStatus, CheckRemote, TypeRemote, PickDisconnect, CheckDisconnected,
                  ClearInput, AgentStart, PromptAgain, CheckAfter
    <3>2. CASE SendText \/ SendEnter
      BY <3>2 DEF SendText, SendEnter, Touching
    <3>3. CASE WaitGone \/ Nudge \/ WaitIdle \/ WaitNative \/ Fallback
      BY <3>3 DEF WaitGone, Nudge, WaitIdle, WaitNative, Fallback, Iterate
    <3>4. CASE Prompt \/ Settle
      BY <3>4 DEF Prompt, Settle
    <3> QED BY <2>1, <3>1, <3>2, <3>3, <3>4 DEF Exec
  <2>2. CASE Progress \/ ReadLate \/ Stir \/ NativeResume \/ Fault
    BY <2>2 DEF Progress, ReadLate, Stir, NativeResume, Fault
  <2>3. CASE UNCHANGED vars
    BY <2>3 DEF vars
  <2> QED BY <2>1, <2>2, <2>3 DEF Next
<1>3. CASE \E h \in {"touched", "stalled", "gone", "blind"} : \E holds : Note(h, holds)
  BY <1>1, <1>3 DEF Note, History
<1>4. CASE \E holds : Note("slow", seen["slow"] \/ holds)
  BY <1>1, <1>4 DEF Note, History
<1>5. CASE \/ seen' = [seen EXCEPT !["native"] = TRUE]
           \/ seen' = [seen EXCEPT !["native"] = TRUE, !["slow"] = TRUE]
  BY <1>1, <1>5 DEF History
<1> QED BY <1>2, <1>3, <1>4, <1>5

LEMMA LooksResume ==
  ASSUME TInv, TInv', RInv, seen["slow"] => seen'["slow"],
         CheckStatus \/ CheckRemote \/ TypeRemote \/ PickDisconnect \/ CheckDisconnected
  PROVE  RInv'
<1>1. result = "running" /\ UNCHANGED job /\ pane \in Pane /\ "rc" \in Text
  BY DEF CheckStatus, CheckRemote, TypeRemote, PickDisconnect, CheckDisconnected, Running, TInv, IInv, Text
<1>2. Fail \/ \E to \in {"act", "connected", "menu", "disconnected"} : Go(to)
  BY DEF CheckStatus, CheckRemote, TypeRemote, PickDisconnect, CheckDisconnected
<1>3. ~(result' = "running" /\ stage' = "fallback")
  BY <1>2 DEF Fail, Go
<1>4. Len(todo') <= Len(todo)
  BY <1>1, <1>2, Shorter
<1>5. Passes(pane, pane', "resume") /\ Wakes(pane, pane')
  <2>1. CASE pane' = pane
    BY <2>1, PassesStill DEF Wakes
  <2>2. CASE TypeRemote
    BY <1>1, <2>2, EnteredAfterOther DEF TypeRemote
  <2>3. CASE PickDisconnect
    BY <1>1, <2>3, PickedPasses DEF PickDisconnect
  <2> QED BY <2>1, <2>2, <2>3 DEF CheckStatus, CheckRemote, CheckDisconnected
<1> QED BY <1>1, <1>3, <1>4, <1>5, ExecReadsResume

LEMMA SendsResume ==
  ASSUME TInv, TInv', RInv, seen["slow"] => seen'["slow"], SendText \/ SendEnter \/ ClearInput \/ AgentStart
  PROVE  RInv'
<1>1. UNCHANGED job /\ pane \in Pane /\ Control
  BY DEF SendText, SendEnter, ClearInput, AgentStart, TInv, IInv
<1>2. CASE SendText
  <2> PICK command \in {"exit", "env", "resume", "text"} :
             /\ MaySend(command) /\ Sent(command)
             /\ pane' \in Typed(pane, IF command = "text" THEN "prompt" ELSE command)
    BY <1>2 DEF SendText
  <2>1. result = "running" /\ Head(todo) = command
    BY SendingWhat
  <2>2. (Succeed \/ Go("after")) /\ ~(result' = "running" /\ stage' = "fallback")
    BY DEF Sent, Succeed, Go
  <2>3. Len(todo') <= Len(todo)
    BY <1>1, <2>1, <2>2, Shorter
  <2>4. CASE command # "resume"
    <3> DEFINE text == IF command = "text" THEN "prompt" ELSE command
    <3>1. text \in Text /\ text # "resume" /\ pane' \in Typed(pane, text)
      BY <2>4 DEF Text
    <3>2. Passes(pane, pane', "resume") /\ Wakes(pane, pane')
      BY <1>1, <3>1, TypedOther
    <3> QED BY <1>1, <2>1, <2>2, <2>3, <3>2, ExecReadsResume
  <2>5. CASE command = "resume"
    <3> SUFFICES ASSUME ~seen'["slow"] PROVE RInv'
      BY DEF RInv
    <3>1. job.mux # "herdr" /\ ~job.native /\ job.verb = "restore" /\ Len(todo) = Rest(job) + 2
          /\ Len(todo) \in Nat /\ Rest(job) \in Nat
      BY <1>1, <2>1, <2>5, HeadIs, CommandPlaces DEF Control, Rest
    <3>2. ~Alive(pane) /\ Mentioning(pane.got, "resume") = {}
      BY <2>1, <3>1 DEF RInv, Unresumed
    <3>3. ~Alive(pane') /\ Mentioning(pane'.got, "resume") = {}
      BY <1>1, <2>5, <3>2, TypedPasses, TypedLine DEF Text
    <3>4. Len(todo') = Len(todo) - 1
      <4>1. ~IsPrompt(command) /\ Succeed
        BY <2>5 DEF IsPrompt, Sent
      <4> QED BY <1>1, <2>1, <4>1, SucceedControls
    <3>5. ~Unresumed'
      <4>1. Rest(job') = Rest(job) /\ ~(Len(todo') >= Rest(job) + 2)
        BY <1>1, <3>1, <3>4
      <4> QED BY <4>1 DEF Unresumed
    <3>6. ~Alive(pane)'
      BY <3>3 DEF Alive
    <3> QED BY <3>3, <3>5, <3>6 DEF RInv
  <2> QED BY <2>4, <2>5
<1>3. CASE SendEnter
  <2> PICK command \in {"enter", "submit"} : MaySend(command) /\ Sent(command) /\ pane' \in Entered(pane)
    BY <1>3 DEF SendEnter
  <2>1. result = "running"
    BY SendingWhat
  <2>2. (Succeed \/ Go("after")) /\ ~(result' = "running" /\ stage' = "fallback")
    BY DEF Sent, Succeed, Go
  <2>3. Len(todo') <= Len(todo)
    BY <1>1, <2>1, <2>2, Shorter
  <2>4. Passes(pane, pane', "resume") /\ Wakes(pane, pane')
    BY <1>1, EnteredPasses
  <2> QED BY <1>1, <2>1, <2>2, <2>3, <2>4, ExecReadsResume
<1>4. CASE ClearInput
  <2>1. result = "running" /\ Succeed /\ ~(result' = "running" /\ stage' = "fallback")
    BY <1>4, SendingWhat DEF ClearInput, Succeed
  <2>2. Len(todo') <= Len(todo)
    BY <1>1, <2>1, Shorter
  <2>3. Passes(pane, pane', "resume") /\ Wakes(pane, pane')
    BY <1>1, <1>4, ClearedPasses DEF ClearInput, Wakes
  <2> QED BY <1>1, <2>1, <2>2, <2>3, ExecReadsResume
<1>5. CASE AgentStart
  <2> SUFFICES ASSUME ~seen'["slow"] PROVE RInv'
    BY DEF RInv
  <2>1. result = "running" /\ Head(todo) = "start" /\ (Succeed \/ Fail) /\ stage # "fallback"
    BY <1>5, SendingWhat DEF AgentStart
  <2>2. job.mux = "herdr"
    BY <1>1, <2>1, HeadIs, CommandPlaces DEF Control
  <2>3. ~Unresumed' /\ ~(result' = "running" /\ stage' = "fallback")
    BY <1>1, <2>1, <2>2 DEF Unresumed, Succeed, Fail
  <2>4. pane'.got = pane.got /\ (pane'.line = <<>> \/ pane' = pane)
    BY <1>1, <1>5 DEF AgentStart, Pane
  <2>5. Mentioning(pane'.got, "resume") = {} /\ (Alive(pane') => ~Says(pane'.line, "resume"))
    BY <2>4, SaysNothing DEF RInv
  <2>6. Alive(pane)' <=> Alive(pane')
    BY DEF Alive
  <2> QED BY <2>3, <2>5, <2>6 DEF RInv
<1> QED BY <1>2, <1>3, <1>4, <1>5

LEMMA WaitsResume ==
  ASSUME TInv, TInv', RInv, seen["slow"] => seen'["slow"],
         WaitGone \/ Nudge \/ WaitIdle \/ WaitNative \/ Fallback
  PROVE  RInv'
<1>1. result = "running" /\ UNCHANGED job /\ pane \in Pane /\ Control
  BY DEF WaitGone, Nudge, WaitIdle, WaitNative, Fallback, Running, TInv, IInv
<1>2. Succeed \/ Iterate \/ Go("nudge") \/ Go("fallback")
  BY DEF WaitGone, Nudge, WaitIdle, WaitNative, Fallback
<1>3. Len(todo') <= Len(todo)
  BY <1>1, <1>2, Shorter
<1>4. CASE ~Fallback
  <2>1. Passes(pane, pane', "resume") /\ Wakes(pane, pane')
    <3>1. CASE pane' = pane
      BY <3>1, PassesStill DEF Wakes
    <3>2. CASE Nudge
      BY <1>1, <3>2, EnteredPasses DEF Nudge
    <3> QED BY <1>4, <3>1, <3>2 DEF WaitGone, WaitIdle, WaitNative
  <2>2. (result' = "running" /\ stage' = "fallback") => ~Alive(pane')
    <3>1. CASE Succeed \/ Iterate \/ Go("nudge")
      BY <3>1 DEF Succeed, Iterate, Fail, Go
    <3>2. CASE WaitNative /\ Go("fallback")
      BY <3>2 DEF WaitNative, Go, Succeed
    <3> QED BY <1>2, <1>4, <3>1, <3>2 DEF WaitGone, Nudge, WaitIdle, WaitNative
  <2> QED BY <1>1, <1>3, <2>1, <2>2, ExecReadsResume
<1>5. CASE Fallback
  <2> SUFFICES ASSUME ~seen'["slow"] PROVE RInv'
    BY DEF RInv
  <2>1. Head(todo) = "native" /\ stage = "fallback" /\ Iterate /\ \E p \in Typed(pane, "resume") : pane' \in Entered(p)
    BY <1>5 DEF Fallback, Running
  <2>2. ~Alive(pane) /\ Mentioning(pane.got, "resume") = {}
    BY <1>1, <2>1 DEF RInv
  <2>3. Mentioning(pane'.got, "resume") = {} /\ (Alive(pane') => ~Says(pane'.line, "resume"))
    BY <1>1, <2>1, <2>2, ResumedAtShell
  <2>4. ~Unresumed'
    BY <1>1, <2>1, HeadIs, CommandPlaces DEF Control, Unresumed
  <2>5. ~(result' = "running" /\ stage' = "fallback")
    BY <2>1 DEF Iterate, Fail
  <2>6. Alive(pane)' <=> Alive(pane')
    BY DEF Alive
  <2> QED BY <2>3, <2>4, <2>5, <2>6 DEF RInv
<1> QED BY <1>4, <1>5

(* An agent that answers "working" is one that lives.                      *)
LEMMA TakesResume ==
  ASSUME RInv, pane \in Pane, pane' = Takes(pane), Alive(pane), ~seen["slow"]
  PROVE  Passes(pane, pane', "resume") /\ Wakes(pane, pane')
  BY TakesWithoutResume DEF RInv

LEMMA DeliversResume ==
  ASSUME RInv, pane \in Pane, Deliver, ~seen["slow"]
  PROVE  Passes(pane, pane', "resume") /\ Wakes(pane, pane')
<1>1. CASE pane' = pane
  BY <1>1, PassesStill DEF Wakes
<1>2. CASE Answer = "working" /\ pane' = Takes(pane)
  <2>1. Alive(pane)
    BY <1>2 DEF Answer, Alive
  <2> QED BY <1>2, <2>1, TakesResume
<1> QED BY <1>1, <1>2 DEF Deliver

LEMMA PromptsResume ==
  ASSUME TInv, TInv', RInv, seen["slow"] => seen'["slow"], Prompt \/ Settle \/ PromptAgain \/ CheckAfter
  PROVE  RInv'
<1> SUFFICES ASSUME ~seen["slow"] PROVE RInv'
  BY DEF RInv
<1>1. result = "running" /\ UNCHANGED job /\ pane \in Pane
  BY SendingWhat DEF Prompt, Settle, PromptAgain, CheckAfter, Running, TInv, IInv
<1>2. Succeed \/ Fail \/ \E to \in {"after", "stalled", "again"} : Go(to)
  BY Zenon DEF Prompt, Settle, PromptAgain, CheckAfter
<1>3. Len(todo') <= Len(todo)
  BY <1>1, <1>2, Shorter
<1>4. ~(result' = "running" /\ stage' = "fallback")
  BY <1>2 DEF Succeed, Fail, Go
<1>5. Passes(pane, pane', "resume") /\ Wakes(pane, pane')
  <2>1. CASE Deliver
    BY <1>1, <2>1, DeliversResume
  <2>2. CASE pane' = pane
    BY <2>2, PassesStill DEF Wakes
  <2> QED BY <2>1, <2>2 DEF Prompt, Settle, PromptAgain, CheckAfter
<1> QED BY <1>1, <1>3, <1>4, <1>5, ExecReadsResume

LEMMA AsidesResume ==
  ASSUME TInv, TInv', RInv, seen["slow"] => seen'["slow"], Progress \/ ReadLate \/ Stir
  PROVE  RInv'
<1> SUFFICES ASSUME ~seen["slow"] PROVE RInv'
  BY DEF RInv
<1>1. pane \in Pane /\ UNCHANGED <<job, todo, stage, result>>
  BY DEF TInv, IInv, Progress, ReadLate, Stir
<1>2. Passes(pane, pane', "resume") /\ Wakes(pane, pane')
  <2>1. CASE Progress
    <3>1. pane'.got = pane.got /\ pane'.line \in {pane.line, <<>>} /\ Alive(pane)
      BY <1>1, <2>1 DEF Progress, Pane, Alive
    <3> QED BY <3>1, PassesStill DEF Wakes
  <2>2. CASE ReadLate
    BY <1>1, <2>2, TakesResume DEF ReadLate, Alive
  <2>3. CASE Stir
    <3>1. /\ pane'.got = pane.got /\ pane'.line \in {pane.line, <<>>, Append(pane.line, "junk")}
          /\ Alive(pane') => Alive(pane)
      BY <1>1, <2>3 DEF Stir, Pane, Alive
    <3>2. pane.line \in Seq(Text) /\ "junk" \in Text
      BY <1>1, PaneFields DEF Text
    <3>3. Says(pane'.line, "resume") => Says(pane.line, "resume")
      BY <3>1, <3>2, SaysMore, SaysNothing
    <3> QED BY <3>1, <3>3 DEF Wakes, Passes
  <2> QED BY <2>1, <2>2, <2>3
<1>3. Unresumed' = Unresumed
  BY <1>1 DEF Unresumed, Rest
<1>4. (result' = "running" /\ stage' = "fallback") => ~Alive(pane')
  <2> SUFFICES ASSUME result = "running", stage = "fallback" PROVE ~Alive(pane')
    BY <1>1
  <2>1. ~Alive(pane)
    BY DEF RInv
  <2> QED BY <1>1, <2>1 DEF Progress, ReadLate, Stir, Alive, Pane
<1> QED BY <1>1, <1>2, <1>3, <1>4, ReadsResume

LEMMA FaultsResume ==
  ASSUME TInv, TInv', RInv, seen["slow"] => seen'["slow"], Fault
  PROVE  RInv'
<1> SUFFICES ASSUME ~seen["slow"] PROVE RInv'
  BY DEF RInv
<1>1. result = "running" /\ UNCHANGED job /\ pane \in Pane
  BY DEF Fault, Move, TInv, IInv
<1>2. Fail \/ Succeed \/ Go("act")
  BY DEF Fault
<1>3. Len(todo') <= Len(todo)
  BY <1>1, <1>2, Shorter
<1>4. ~(result' = "running" /\ stage' = "fallback")
  BY <1>2 DEF Fail, Succeed, Go
<1>5. Passes(pane, pane', "resume") /\ Wakes(pane, pane')
  <2>1. CASE Answer = "working" /\ pane' = Takes(pane)
    <3>1. Alive(pane)
      BY <2>1 DEF Answer, Alive
    <3> QED BY <1>1, <2>1, <3>1, TakesResume
  <2>2. CASE pane' = pane
    BY <2>2, PassesStill DEF Wakes
  <2> QED BY <2>1, <2>2 DEF Fault
<1> QED BY <1>1, <1>3, <1>4, <1>5, ExecReadsResume

(* A cmux that is in time resumes before Watchbill types the command.      *)
LEMMA NativeResumes ==
  ASSUME CmuxBy < FallbackAt, TInv, TInv', RInv, NativeResume
  PROVE  RInv'
<1> SUFFICES ASSUME ~seen'["slow"] PROVE RInv'
  BY DEF RInv
<1>1. pane \in Pane /\ seen \in History /\ job.native /\ UNCHANGED <<job, stage, result>>
      /\ \E p \in Typed(pane, "resume") : pane' \in Entered(p)
  BY DEF TInv, IInv, NativeResume
<1>2. Running("native", stage) /\ i <= CmuxBy /\ pane.runs = "none" /\ seen' = [seen EXCEPT !["native"] = TRUE]
  BY <1>1 DEF NativeResume, History
<1>3. ~seen["slow"] /\ ~Alive(pane)
  BY <1>1, <1>2 DEF History, Alive
<1>4. Mentioning(pane.got, "resume") = {}
  BY <1>3 DEF RInv
<1>5. Mentioning(pane'.got, "resume") = {} /\ (Alive(pane') => ~Says(pane'.line, "resume"))
  BY <1>1, <1>3, <1>4, ResumedAtShell
<1>6. ~Unresumed'
  BY <1>1 DEF Unresumed
<1>7. stage' # "fallback"
  <2>1. i \in 1..Polls /\ Fits(Head(todo), stage, i)
    BY <1>2 DEF TInv, Control, Running
  <2>2. i # FallbackAt
    <3>1. FallbackAt \in Int
      BY BoundsAssumption DEF FallbackAt
    <3> QED BY <1>2, <2>1, <3>1, BoundsAssumption
  <2> QED BY <1>1, <2>1, <2>2 DEF Fits
<1>8. Alive(pane)' <=> Alive(pane')
  BY DEF Alive
<1> QED BY <1>5, <1>6, <1>7, <1>8 DEF RInv

LEMMA InitResume ==
  Init => RInv
<1> SUFFICES ASSUME Init PROVE RInv
  OBVIOUS
<1>1. pane.got = <<>> /\ pane.line \in {<<>>, <<"junk">>} /\ stage = "begin"
  BY DEF Init
<1>2. Mentioning(pane.got, "resume") = {} /\ ~Says(pane.line, "resume")
  BY <1>1 DEF Mentioning, Says
<1>3. job.verb = "restore" => ~Alive(pane)
  BY DEF Init, Alive
<1> QED BY <1>1, <1>2, <1>3 DEF RInv, Unresumed

LEMMA NextResume ==
  ASSUME CmuxBy < FallbackAt
  PROVE  TInv /\ RInv /\ [Next]_vars => RInv'
<1> SUFFICES ASSUME TInv, RInv, [Next]_vars PROVE RInv'
  OBVIOUS
<1>1. TInv' /\ (seen["slow"] => seen'["slow"])
  BY NextTells, SlowStays
<1>2. CASE Exec
  BY <1>1, <1>2, LooksResume, SendsResume, WaitsResume, PromptsResume DEF Exec
<1>3. CASE Progress \/ ReadLate \/ Stir \/ NativeResume \/ Fault
  BY <1>1, <1>3, AsidesResume, NativeResumes, FaultsResume
<1>4. CASE UNCHANGED vars
  <2>1. (Alive(pane))' <=> Alive(pane)
    BY <1>4 DEF vars, Alive
  <2>2. Unresumed' <=> Unresumed
    BY <1>4 DEF vars, Unresumed, Rest
  <2> QED BY <1>4, <2>1, <2>2 DEF vars, RInv
<1> QED BY <1>2, <1>3, <1>4 DEF Next

(* Where Watchbill waits for cmux longer than cmux takes when it is not    *)
(* late, they do not both resume an agent: no agent is told the resume     *)
(* command as a prompt, whatever else happens in the pane.  Without the    *)
(* hypothesis the command is typed into an agent that has just come up.    *)
THEOREM ResumedOnceHolds ==
  ASSUME CmuxBy < FallbackAt
  PROVE  Spec => []ResumedOnce
<1>1. RInv => ResumedOnce
  BY DEF RInv, ResumedOnce, Mentioning, Says
<1>2. TInv /\ RInv /\ [Next]_vars => RInv'
  BY NextResume
<1> QED BY <1>1, <1>2, InitResume, Told, PTL DEF Spec

-----------------------------------------------------------------------------
(* What a park and a restore do to an agent that is left alone: from each  *)
(* command to the next it is known what runs in the pane, what is on its   *)
(* input line, what the shell has run and what the agent was told, for     *)
(* every length of the waits.                                              *)

(* What one key does to a pane whose state is known. *)

LEMMA OneWord ==
  ASSUME NEW t \in Text
  PROVE  /\ Append(<<>>, t) = <<t>> /\ <<t>> \in Seq(Text) /\ <<t>> # <<>>
         /\ \A s \in Text : <<s>> = <<t>> => s = t
<1>1. <<t>> \in Seq(Text) /\ <<>> \in Seq(Text) /\ <<t>> # <<>>
  OBVIOUS
<1>2. Append(<<>>, t) = <<t>>
  OBVIOUS
<1>3. \A s \in Text : <<s>> = <<t>> => s = t
  OBVIOUS
<1> QED BY <1>1, <1>2, <1>3

(* A line typed where it is neither dropped nor answers a dialog. *)
LEMMA TypedHere ==
  ASSUME NEW p \in Pane, NEW text \in Text, NEW q \in Typed(p, text), p.runs \in {"idle", "none"}, p.line = <<>>
  PROVE  /\ q \in Pane /\ q.line = <<text>> /\ q.runs = p.runs /\ q.rc = p.rc /\ q.popup = p.popup
         /\ q.got = p.got /\ q.ran = p.ran
<1>1. q = [p EXCEPT !.line = Append(@, text)]
  BY DEF Typed
<1>2. q.line = Append(<<>>, text) /\ q.runs = p.runs /\ q.rc = p.rc /\ q.popup = p.popup
      /\ q.got = p.got /\ q.ran = p.ran
  BY <1>1 DEF Pane
<1> QED BY <1>2, OneWord, TypedQuietly

LEMMA ClearedHere ==
  ASSUME NEW p \in Pane, NEW q \in Cleared(p), p.runs = "idle"
  PROVE  /\ q.line = <<>> /\ q.runs = "idle" /\ q.rc = p.rc /\ q.popup = p.popup
         /\ q.got = p.got /\ q.ran = p.ran
<1>1. q = [p EXCEPT !.line = <<>>]
  BY DEF Cleared
<1> QED BY <1>1 DEF Pane

LEMMA EnteredAtShell ==
  ASSUME NEW p \in Pane, NEW q \in Entered(p), p.runs = "none", p.line # <<>>
  PROVE  /\ q.line = <<>> /\ q.ran = Append(p.ran, p.line) /\ q.got = p.got
         /\ q.runs = IF p.line = <<"resume">> THEN "starting" ELSE "none"
<1>1. q = [p EXCEPT !.ran = Append(@, p.line), !.line = <<>>,
                    !.runs = IF p.line = <<"resume">> THEN "starting" ELSE "none"]
  BY DEF Entered, ShellRuns
<1> QED BY <1>1 DEF Pane

(* The Enter after /exit, in an agent at its prompt.                       *)
LEMMA ExitEntered ==
  ASSUME NEW p \in Pane, NEW q \in Entered(p), p.runs = "idle", p.line = <<"exit">>
  PROVE  /\ q.got = p.got /\ q.ran = p.ran /\ q.rc = p.rc
         /\ p.popup => q.runs = "idle" /\ q.line = <<"exit">> /\ ~q.popup
         /\ ~p.popup => q.line = <<>> /\ q.popup = p.popup /\ q.runs = IF p.rc THEN "idle" ELSE "quitting"
<1>1. p.line # <<>> /\ p.line # <<"rc">>
  BY OneWord DEF Text
<1>2. q \in AgentReads(p)
  BY DEF Entered
<1>3. CASE p.popup
  <2>1. q = [p EXCEPT !.popup = FALSE]
    BY <1>1, <1>2, <1>3 DEF AgentReads
  <2> QED BY <1>3, <2>1 DEF Pane
<1>4. CASE ~p.popup
  <2>1. q = [p EXCEPT !.line = <<>>, !.runs = IF p.rc THEN "idle" ELSE "quitting"]
    BY <1>1, <1>2, <1>4 DEF AgentReads
  <2> QED BY <1>4, <2>1 DEF Pane
<1> QED BY <1>3, <1>4

(* The Enter after /rc, in an agent that is connected.                     *)
LEMMA RemoteEntered ==
  ASSUME NEW p \in Pane, NEW q \in Entered(p), p.runs = "idle", p.line = <<"rc">>, ~p.popup, p.rc
  PROVE  q.line = <<>> /\ q.runs = "menu" /\ q.got = p.got /\ q.ran = p.ran /\ q.popup = p.popup
<1>1. p.line # <<>> /\ p.line # <<"exit">>
  BY OneWord DEF Text
<1>2. q = [p EXCEPT !.line = <<>>, !.rc = TRUE, !.runs = "menu"]
  BY <1>1 DEF Entered, AgentReads
<1> QED BY <1>2 DEF Pane

LEMMA EnteredNothing ==
  ASSUME NEW p \in Pane, NEW q \in Entered(p), p.runs \in {"idle", "none", "quitting"}, p.line = <<>>
  PROVE  q = p
<1>1. CASE p.runs = "idle"
  BY <1>1 DEF Entered, AgentReads
<1>2. CASE p.runs = "none"
  BY <1>2 DEF Entered, ShellRuns
<1>3. CASE p.runs = "quitting"
  <2>1. q \in {p, [p EXCEPT !.line = <<>>]}
    BY <1>3 DEF Entered
  <2>2. [p EXCEPT !.line = <<>>] = p
    BY DEF Pane
  <2> QED BY <2>1, <2>2
<1> QED BY <1>1, <1>2, <1>3

LEMMA PromptEntered ==
  ASSUME NEW p \in Pane, NEW q \in Entered(p), p.runs = "idle", p.line = <<"prompt">>
  PROVE  q.line = <<>> /\ q.runs = "working" /\ q.got = Append(p.got, <<"prompt">>) /\ q.ran = p.ran
<1>1. p.line # <<>> /\ p.line # <<"exit">> /\ p.line # <<"rc">>
  BY OneWord DEF Text
<1>2. q = [p EXCEPT !.line = <<>>, !.got = Append(@, p.line), !.runs = "working"]
  BY <1>1 DEF Entered, AgentReads
<1> QED BY <1>2 DEF Pane

-----------------------------------------------------------------------------
(* Quiet runs *)

LEMMA QuietBefore ==
  ASSUME TInv, [Next]_vars, Quiet'
  PROVE  Quiet /\ moves' = moves /\ ~Stir /\ ~Fault
<1>1. seen["slow"] => seen'["slow"]
  BY SlowStays
<1>2. moves \in 0..MaxMoves
  BY DEF TInv
<1>3. moves' = moves \/ (Move /\ moves' = moves + 1)
  <2>1. CASE Exec
    BY <2>1 DEF Exec, CheckStatus, CheckRemote, TypeRemote, PickDisconnect, CheckDisconnected, SendText, SendEnter,
         ClearInput, AgentStart, WaitGone, Nudge, WaitIdle, WaitNative, Fallback, Prompt, Settle, PromptAgain, CheckAfter
  <2>2. CASE Progress \/ ReadLate \/ Stir \/ NativeResume \/ Fault
    BY <2>2 DEF Progress, ReadLate, Stir, NativeResume, Fault, Move
  <2>3. CASE UNCHANGED vars
    BY <2>3 DEF vars
  <2> QED BY <2>1, <2>2, <2>3 DEF Next
<1>4. moves' = 0 /\ moves \in Nat
  BY <1>2 DEF Quiet
<1>5. moves' = moves
  BY <1>3, <1>4
<1>6. ~Move
  BY <1>4, <1>5 DEF Move
<1> QED BY <1>1, <1>4, <1>5, <1>6 DEF Quiet, Stir, Fault

LEMMA SameJob ==
  ASSUME [Next]_vars
  PROVE  job' = job
<1>1. CASE Exec
  BY <1>1 DEF Exec, CheckStatus, CheckRemote, TypeRemote, PickDisconnect, CheckDisconnected, SendText, SendEnter,
       ClearInput, AgentStart, WaitGone, Nudge, WaitIdle, WaitNative, Fallback, Prompt, Settle, PromptAgain, CheckAfter
<1>2. CASE Progress \/ ReadLate \/ Stir \/ NativeResume \/ Fault
  BY <1>2 DEF Progress, ReadLate, Stir, NativeResume, Fault
<1> QED BY <1>1, <1>2 DEF Next, vars

(* What comes after a command. *)
LEMMA AfterSucceed ==
  ASSUME Control, result = "running", Succeed, UNCHANGED job
  PROVE  /\ Control' /\ stage' = "begin" /\ i' = 1 /\ Len(todo) \in Nat
         /\ Len(todo) = 1 => result' = "ok"
         /\ Len(todo) # 1 => result' = "running" /\ Head(todo') = Kth(job, Len(todo) - 1) /\ Len(todo') = Len(todo) - 1
<1>1. Control' /\ Len(todo') = Len(todo) - 1 /\ Len(todo) \in Nat
  BY SucceedControls, HeadIs
<1>2. stage' = "begin" /\ i' = 1 /\ result' = (IF todo' = <<>> THEN "ok" ELSE "running") /\ todo' \in Seq(Command)
  BY <1>1 DEF Succeed, Control, OnPlan
<1>3. todo' = <<>> <=> Len(todo') = 0
  BY <1>2, EmptySeq
<1>4. Len(todo) # 1 => result' = "running" /\ Head(todo') = Kth(job, Len(todo) - 1)
  <2> SUFFICES ASSUME Len(todo) # 1 PROVE result' = "running" /\ Head(todo') = Kth(job, Len(todo) - 1)
    OBVIOUS
  <2>1. Len(todo') # 0
    BY <1>1
  <2>2. result' = "running"
    BY <1>2, <1>3, <2>1
  <2>3. Len(todo') \in Nat /\ 1 \in 1..Len(todo') /\ Len(todo') + 1 - 1 = Len(todo) - 1
    BY <1>1, <2>1
  <2>4. todo'[1] = Kth(job', Len(todo') + 1 - 1)
    BY <1>1, <2>3 DEF Control, OnPlan
  <2>5. Head(todo') = todo'[1]
    BY <1>2, <1>3, <2>1
  <2> QED BY <2>2, <2>3, <2>4, <2>5
<1>5. Len(todo) = 1 => result' = "ok"
  BY <1>1, <1>2, <1>3
<1> QED BY <1>1, <1>2, <1>4, <1>5

-----------------------------------------------------------------------------
(* A park *)

OnCmux == job.mux = "cmux"

Codex == job.kind = "codex"

Sits(line) == pane.runs = "idle" /\ pane.line = line

(* What is known of the agent before each command of a park, and within    *)
(* the one that types /exit.                                               *)
Parking ==
  /\ Head(todo) = "clear" => pane.runs = "idle" /\ pane.rc = job.remote /\ pane.popup = Codex
  /\ Head(todo) = "exit" =>
       /\ pane.line = <<>> /\ pane.popup = Codex
       /\ stage = "begin" => pane.runs = "idle" /\ pane.rc = job.remote
       /\ stage # "begin" => (job.remote => job.optIn) /\ ~OnCmux /\ ~Codex
       /\ stage = "act" => pane.runs = "idle" /\ ~pane.rc
       /\ stage \in {"connected", "menu", "disconnected"} => job.remote
       /\ stage = "connected" => pane.runs = "idle" /\ pane.rc
       /\ stage = "menu" => pane.runs = "menu"
       /\ stage = "disconnected" => pane.runs = "idle" /\ ~pane.rc
  /\ Head(todo) \in {"enter", "gone"} /\ job.remote => job.optIn \/ OnCmux
  /\ Head(todo) = "enter" => Sits(<<"exit">>) /\ pane.popup = Codex /\ pane.rc = (job.remote /\ OnCmux)
  /\ Head(todo) = "gone" =>
       /\ stage = "nudge" => i = NudgeAt
       /\ \/ Sits(<<"exit">>) /\ ~pane.popup /\ ~pane.rc /\ Codex /\ i <= NudgeAt
          \/ pane.runs \in {"quitting", "none"} /\ pane.line = <<>> /\ ~(job.remote /\ OnCmux)
          \/ Sits(<<>>) /\ pane.rc /\ job.remote /\ OnCmux

Parkable == job.remote => job.optIn /\ ~OnCmux

QPark ==
  job.verb = "park" /\ Quiet =>
    /\ pane.got = <<>> /\ pane.ran = <<>>
    /\ result = "running" => Parking
    /\ result = "ok" => pane.runs = "none" /\ Parkable
    /\ result = "failed" => pane.runs = "idle" /\ pane.rc = job.remote /\ ~Parkable

LEMMA ParkJobs ==
  ASSUME job \in Jobs, job.verb = "park"
  PROVE  /\ ~job.native /\ ~job.prompt /\ job.remote \in BOOLEAN /\ job.optIn \in BOOLEAN
         /\ job.kind \in {"claude", "codex"} /\ (job.remote => ~Codex)
  BY DEF Jobs, Job, Codex

LEMMA ParkHeads ==
  ASSUME Control, result = "running", job.verb = "park"
  PROVE  /\ Head(todo) \in {"clear", "exit", "enter", "gone"}
         /\ Head(todo) = "clear" => Len(todo) = 4
         /\ Head(todo) = "exit" => Len(todo) = 3
         /\ Head(todo) = "enter" => Len(todo) = 2
         /\ Head(todo) = "gone" => Len(todo) = 1
<1>1. job \in Jobs /\ Head(todo) = Kth(job, Len(todo)) /\ Len(todo) \in 1..Len(Steps(job))
  BY HeadIs DEF Control
<1>2. Len(Steps(job)) = 4 /\ Kth(job, 1) = "gone" /\ Kth(job, 2) = "enter" /\ Kth(job, 3) = "exit" /\ Kth(job, 4) = "clear"
  BY <1>1, ParkPlan
<1>3. Len(todo) \in 1..4
  BY <1>1, <1>2
<1>4. Len(todo) = 1 \/ Len(todo) = 2 \/ Len(todo) = 3 \/ Len(todo) = 4
  BY <1>3
<1> QED BY <1>1, <1>2, <1>4

LEMMA ParkNext ==
  ASSUME Control, result = "running", job.verb = "park", Succeed, UNCHANGED job
  PROVE  /\ stage' = "begin" /\ i' = 1
         /\ Head(todo) = "clear" => result' = "running" /\ Head(todo') = "exit"
         /\ Head(todo) = "exit" => result' = "running" /\ Head(todo') = "enter"
         /\ Head(todo) = "enter" => result' = "running" /\ Head(todo') = "gone"
         /\ Head(todo) = "gone" => result' = "ok"
<1>1. job \in Jobs
  BY DEF Control
<1>2. Kth(job, 1) = "gone" /\ Kth(job, 2) = "enter" /\ Kth(job, 3) = "exit"
  BY <1>1, ParkPlan
<1>3. Len(todo) # 1 => result' = "running" /\ Head(todo') = Kth(job, Len(todo) - 1)
  BY AfterSucceed
<1>4. stage' = "begin" /\ i' = 1
  BY DEF Succeed
<1>5. CASE Len(todo) = 4
  BY <1>2, <1>3, <1>4, <1>5, ParkHeads
<1>6. CASE Len(todo) = 3
  BY <1>2, <1>3, <1>4, <1>6, ParkHeads
<1>7. CASE Len(todo) = 2
  BY <1>2, <1>3, <1>4, <1>7, ParkHeads
<1>8. CASE Len(todo) = 1
  BY <1>3, <1>4, <1>8, AfterSucceed, ParkHeads
<1> QED BY <1>5, <1>6, <1>7, <1>8, ParkHeads

(* A step that leaves the agent as it is, or ends the park. *)
LEMMA ParkStep ==
  ASSUME job.verb = "park", UNCHANGED job, pane'.got = <<>>, pane'.ran = <<>>,
         result' = "running" => Parking',
         result' = "ok" => pane'.runs = "none" /\ Parkable,
         result' = "failed" => pane'.runs = "idle" /\ pane'.rc = job.remote /\ ~Parkable
  PROVE  QPark'
  BY DEF QPark, Parkable, OnCmux

LEMMA ParkLooks ==
  ASSUME TInv, QPark, job.verb = "park", Quiet, CheckStatus \/ CheckRemote \/ CheckDisconnected
  PROVE  QPark'
<1>1. /\ result = "running" /\ Control /\ UNCHANGED <<job, pane>> /\ Parking
      /\ pane.got = <<>> /\ pane.ran = <<>> /\ job \in Jobs
  BY DEF CheckStatus, CheckRemote, CheckDisconnected, Running, QPark, TInv, Control
<1>2. ~CheckStatus
  BY <1>1, ParkHeads DEF CheckStatus, Running, AsksStatus
<1>3. Codex' = Codex /\ OnCmux' = OnCmux
  BY <1>1 DEF Codex, OnCmux
<1>4. CASE CheckRemote
  <2>1. /\ Head(todo) = "exit" /\ stage = "begin" /\ ~Codex /\ ~OnCmux
        /\ pane.runs = "idle" /\ pane.rc = job.remote /\ pane.line = <<>> /\ pane.popup = Codex
    BY <1>1, <1>4, ParkJobs DEF CheckRemote, Running, AsksRemote, OnCmux, Codex, Parking
  <2>2. CASE ~pane.rc
    <3>1. Go("act")
      BY <1>4, <2>2 DEF CheckRemote
    <3>2. Parking'
      BY <1>1, <1>3, <2>1, <2>2, <3>1 DEF Go, Parking
    <3> QED BY <1>1, <3>1, <3>2, ParkStep DEF Go
  <2>3. CASE pane.rc /\ job.optIn
    <3>1. Go("connected")
      BY <1>4, <2>3 DEF CheckRemote
    <3>2. Parking'
      BY <1>1, <1>3, <2>1, <2>3, <3>1 DEF Go, Parking
    <3> QED BY <1>1, <3>1, <3>2, ParkStep DEF Go
  <2>4. CASE pane.rc /\ ~job.optIn
    <3>1. Fail
      BY <1>4, <2>4 DEF CheckRemote
    <3> QED BY <1>1, <2>1, <2>4, <3>1, ParkStep DEF Fail, Parkable
  <2> QED BY <2>2, <2>3, <2>4
<1>5. CASE CheckDisconnected
  <2>1. Head(todo) = "exit" /\ stage = "disconnected"
    BY <1>5 DEF CheckDisconnected, Running
  <2>2. /\ ~Codex /\ ~OnCmux /\ (job.remote => job.optIn)
        /\ pane.runs = "idle" /\ ~pane.rc /\ pane.line = <<>> /\ pane.popup = Codex
    BY <1>1, <2>1 DEF Parking
  <2>3. Go("act")
    BY <1>5, <2>2 DEF CheckDisconnected
  <2>4. Parking'
    BY <1>1, <1>3, <2>1, <2>2, <2>3 DEF Go, Parking
  <2> QED BY <1>1, <2>3, <2>4, ParkStep DEF Go
<1> QED BY <1>2, <1>4, <1>5

LEMMA ParkDisconnects ==
  ASSUME TInv, TInv', QPark, job.verb = "park", Quiet, TypeRemote \/ PickDisconnect
  PROVE  QPark'
<1>1. /\ result = "running" /\ UNCHANGED job /\ Parking /\ Head(todo) = "exit" /\ pane \in Pane /\ pane' \in Pane
      /\ pane.got = <<>> /\ pane.ran = <<>> /\ "rc" \in Text
  BY DEF TypeRemote, PickDisconnect, Running, QPark, TInv, IInv, Text
<1>2. Codex' = Codex /\ OnCmux' = OnCmux
  BY <1>1 DEF Codex, OnCmux
<1>3. CASE TypeRemote
  <2>1. stage = "connected" /\ Go("menu")
    BY <1>3 DEF TypeRemote, Running
  <2>2. /\ ~Codex /\ ~OnCmux /\ job.remote /\ job.optIn
        /\ pane.runs = "idle" /\ pane.rc /\ pane.line = <<>> /\ pane.popup = Codex
    BY <1>1, <2>1 DEF Parking
  <2>3. PICK p \in Typed(pane, "rc") : pane' \in Entered(p)
    BY <1>3 DEF TypeRemote
  <2>4. p \in Pane /\ p.line = <<"rc">> /\ p.runs = "idle" /\ p.rc /\ ~p.popup
        /\ p.popup = Codex /\ p.got = <<>> /\ p.ran = <<>>
    BY <1>1, <2>2, <2>3, TypedHere
  <2>5. pane'.line = <<>> /\ pane'.runs = "menu" /\ pane'.got = <<>> /\ pane'.ran = <<>> /\ pane'.popup = Codex
    BY <2>3, <2>4, RemoteEntered
  <2>6. Parking'
    BY <1>1, <1>2, <2>1, <2>2, <2>5 DEF Go, Parking
  <2> QED BY <1>1, <2>1, <2>5, <2>6, ParkStep DEF Go
<1>4. CASE PickDisconnect
  <2>1. stage = "menu" /\ Go("disconnected") /\ pane' \in Picked(pane)
    BY <1>4 DEF PickDisconnect, Running
  <2>2. ~Codex /\ ~OnCmux /\ job.remote /\ job.optIn /\ pane.runs = "menu" /\ pane.line = <<>> /\ pane.popup = Codex
    BY <1>1, <2>1 DEF Parking
  <2>3. pane' = [pane EXCEPT !.runs = "idle", !.rc = FALSE]
    BY <2>1, <2>2 DEF Picked
  <2>4. /\ pane'.line = <<>> /\ pane'.runs = "idle" /\ pane'.got = <<>> /\ pane'.ran = <<>>
        /\ pane'.popup = Codex /\ ~pane'.rc
    BY <1>1, <2>2, <2>3 DEF Pane
  <2>5. Parking'
    BY <1>1, <1>2, <2>1, <2>2, <2>4 DEF Go, Parking
  <2> QED BY <1>1, <2>1, <2>4, <2>5, ParkStep DEF Go
<1> QED BY <1>3, <1>4

LEMMA ParkSends ==
  ASSUME TInv, TInv', QPark, job.verb = "park", Quiet, SendText \/ SendEnter \/ ClearInput \/ AgentStart
  PROVE  QPark'
<1>1. /\ result = "running" /\ UNCHANGED job /\ Parking /\ pane \in Pane /\ pane' \in Pane /\ Control
      /\ pane.got = <<>> /\ pane.ran = <<>> /\ job \in Jobs
  BY SendingWhat DEF SendText, SendEnter, ClearInput, AgentStart, QPark, TInv, IInv, Control
<1>2. Codex' = Codex /\ OnCmux' = OnCmux
  BY <1>1 DEF Codex, OnCmux
<1>3. CASE SendText
  <2> PICK command \in {"exit", "env", "resume", "text"} :
             /\ MaySend(command) /\ Sent(command)
             /\ pane' \in Typed(pane, IF command = "text" THEN "prompt" ELSE command)
    BY <1>3 DEF SendText
  <2>1. Head(todo) = command /\ command = "exit" /\ stage \in {"begin", "act"}
    BY <1>1, SendingWhat, ParkHeads
  <2>2. Succeed /\ pane' \in Typed(pane, "exit") /\ "exit" \in Text
    BY <2>1 DEF Sent, IsPrompt, Text
  <2>3. /\ pane.runs = "idle" /\ pane.line = <<>> /\ pane.popup = Codex /\ pane.rc = (job.remote /\ OnCmux)
        /\ job.remote => job.optIn \/ OnCmux
    <3>1. CASE stage = "act"
      BY <1>1, <2>1, <3>1, ParkJobs DEF Parking, Pane
    <3>2. CASE stage = "begin"
      <4>1. ~AsksRemote("exit")
        BY <2>1, <3>2 DEF MaySend, Running
      <4>2. Codex \/ OnCmux
        BY <1>1, <4>1, ParkJobs DEF AsksRemote, Codex, OnCmux
      <4>3. pane.runs = "idle" /\ pane.line = <<>> /\ pane.popup = Codex /\ pane.rc = job.remote
        BY <1>1, <2>1, <3>2 DEF Parking
      <4> QED BY <1>1, <4>2, <4>3, ParkJobs
    <3> QED BY <2>1, <3>1, <3>2
  <2>4. /\ pane'.line = <<"exit">> /\ pane'.runs = "idle" /\ pane'.rc = pane.rc /\ pane'.popup = pane.popup
        /\ pane'.got = <<>> /\ pane'.ran = <<>>
    BY <1>1, <2>2, <2>3, TypedHere
  <2>5. result' = "running" /\ Head(todo') = "enter" /\ stage' = "begin"
    BY <1>1, <2>1, <2>2, ParkNext
  <2>6. Parking'
    BY <1>1, <1>2, <2>3, <2>4, <2>5 DEF Parking, Sits
  <2> QED BY <1>1, <2>4, <2>5, <2>6, ParkStep
<1>4. CASE SendEnter
  <2> PICK command \in {"enter", "submit"} : MaySend(command) /\ Sent(command) /\ pane' \in Entered(pane)
    BY <1>4 DEF SendEnter
  <2>1. Head(todo) = "enter" /\ command = "enter"
    BY <1>1, SendingWhat, ParkHeads
  <2>2. Succeed
    BY <2>1 DEF Sent, IsPrompt
  <2>3. /\ pane.runs = "idle" /\ pane.line = <<"exit">> /\ pane.popup = Codex /\ pane.rc = (job.remote /\ OnCmux)
        /\ job.remote => job.optIn \/ OnCmux
    BY <1>1, <2>1 DEF Parking, Sits
  <2>4. /\ pane'.got = <<>> /\ pane'.ran = <<>> /\ pane'.rc = pane.rc
        /\ pane.popup => pane'.runs = "idle" /\ pane'.line = <<"exit">> /\ ~pane'.popup
        /\ ~pane.popup => pane'.line = <<>> /\ pane'.runs = IF pane.rc THEN "idle" ELSE "quitting"
    BY <1>1, <2>3, ExitEntered
  <2>5. result' = "running" /\ Head(todo') = "gone" /\ stage' = "begin" /\ i' = 1
    BY <1>1, <2>1, <2>2, ParkNext
  <2>6. i' <= NudgeAt
    BY <2>5, BoundsAssumption
  <2>7. Codex => ~job.remote
    BY <1>1, ParkJobs
  <2>8. Parking'
    <3>1. CASE Codex
      BY <1>1, <1>2, <2>3, <2>4, <2>5, <2>6, <2>7, <3>1 DEF Parking, Sits
    <3>2. CASE ~Codex
      BY <1>1, <1>2, <2>3, <2>4, <2>5, <3>2 DEF Parking, Sits
    <3> QED BY <3>1, <3>2
  <2> QED BY <1>1, <2>4, <2>5, <2>8, ParkStep
<1>5. CASE ClearInput
  <2>1. Head(todo) = "clear" /\ Succeed /\ pane' \in Cleared(pane)
    BY <1>5, SendingWhat DEF ClearInput
  <2>2. pane.runs = "idle" /\ pane.rc = job.remote /\ pane.popup = Codex
    BY <1>1, <2>1 DEF Parking
  <2>3. /\ pane'.line = <<>> /\ pane'.runs = "idle" /\ pane'.rc = pane.rc /\ pane'.popup = pane.popup
        /\ pane'.got = <<>> /\ pane'.ran = <<>>
    BY <1>1, <2>1, <2>2, ClearedHere
  <2>4. result' = "running" /\ Head(todo') = "exit" /\ stage' = "begin"
    BY <1>1, <2>1, ParkNext
  <2>5. Parking'
    BY <1>1, <1>2, <2>2, <2>3, <2>4 DEF Parking
  <2> QED BY <1>1, <2>3, <2>4, <2>5, ParkStep
<1>6. ~AgentStart
  BY <1>1, SendingWhat, ParkHeads DEF AgentStart
<1> QED BY <1>3, <1>4, <1>5, <1>6

(* The three states an agent may be in once Enter was pressed: a codex     *)
(* whose popup took that Enter, until the nudge; an agent that quits; one  *)
(* with Remote Control, which exec cannot ask for on cmux, and which stays.*)
LEMMA ParkWaits ==
  ASSUME TInv, TInv', QPark, job.verb = "park", Quiet, Quiet', WaitGone \/ Nudge
  PROVE  QPark'
<1>1. /\ result = "running" /\ UNCHANGED job /\ Parking /\ Head(todo) = "gone" /\ pane \in Pane /\ pane' \in Pane
      /\ Control /\ pane.got = <<>> /\ pane.ran = <<>> /\ job \in Jobs /\ i \in 1..Polls /\ seen \in History
  BY DEF WaitGone, Nudge, Running, QPark, TInv, IInv, Control
<1>2. Codex' = Codex /\ OnCmux' = OnCmux /\ Polls \in Nat /\ NudgeAt \in 1..(Polls - 1) /\ ReadyBy \in 1..(Polls - 1)
  BY <1>1, BoundsAssumption DEF Codex, OnCmux
<1>3. /\ job.remote => job.optIn \/ OnCmux
      /\ stage = "nudge" => i = NudgeAt
      /\ \/ Sits(<<"exit">>) /\ ~pane.popup /\ ~pane.rc /\ Codex /\ i <= NudgeAt
         \/ pane.runs \in {"quitting", "none"} /\ pane.line = <<>> /\ ~(job.remote /\ OnCmux)
         \/ Sits(<<>>) /\ pane.rc /\ job.remote /\ OnCmux
  BY <1>1 DEF Parking
<1>4. Alive(pane) <=> pane.runs # "none"
  BY DEF Alive
<1>5. Iterate => \/ i < Polls /\ i' = i + 1 /\ stage' = "begin" /\ result' = "running" /\ todo' = todo
                 \/ Fail /\ i > ReadyBy /\ ~(pane.runs = "quitting")
  <2> SUFFICES ASSUME Iterate
               PROVE  \/ i < Polls /\ i' = i + 1 /\ stage' = "begin" /\ result' = "running" /\ todo' = todo
                      \/ Fail /\ i > ReadyBy /\ ~(pane.runs = "quitting")
    OBVIOUS
  <2>1. ~Slow
    <3>1. seen' = [seen EXCEPT !["slow"] = seen["slow"] \/ Slow] /\ ~seen'["slow"]
      BY DEF Iterate, Note, Quiet
    <3> QED BY <1>1, <3>1 DEF History
  <2>2. CASE i >= Polls
    <3>1. Fail /\ i > ReadyBy
      BY <1>1, <1>2, <2>2 DEF Iterate
    <3> QED BY <2>1, <3>1 DEF Slow
  <2>3. CASE ~(i >= Polls)
    BY <1>1, <1>2, <2>3 DEF Iterate
  <2> QED BY <2>2, <2>3
<1>6. CASE WaitGone
  <2>1. pane' = pane /\ stage = "begin"
    BY <1>6 DEF WaitGone, Running
  <2>2. CASE SeenGone
    <3>1. pane.runs = "none"
      <4>1. ~Alive(pane)
        BY <1>1, <2>2, ParkJobs DEF SeenGone, Foreground
      <4> QED BY <1>4, <4>1
    <3>2. Parkable
      BY <1>3, <3>1 DEF Sits, Parkable
    <3>3. result' = "ok"
      BY <1>1, <1>6, <2>2, ParkNext DEF WaitGone
    <3> QED BY <1>1, <2>1, <3>1, <3>2, <3>3, ParkStep
  <2>3. CASE ~SeenGone /\ NudgeDue
    <3>1. Go("nudge") /\ i = NudgeAt
      BY <1>6, <2>3 DEF WaitGone, NudgeDue
    <3>2. Parking'
      BY <1>1, <1>2, <1>3, <2>1, <3>1 DEF Go, Parking, Sits
    <3> QED BY <1>1, <2>1, <3>1, <3>2, ParkStep DEF Go
  <2>4. CASE ~SeenGone /\ ~NudgeDue
    <3>1. Iterate /\ i # NudgeAt
      BY <1>6, <2>4 DEF WaitGone, NudgeDue
    <3>2. pane.runs # "none"
      <4>1. Alive(pane)
        BY <1>1, <2>4, ParkJobs DEF SeenGone, Foreground
      <4> QED BY <1>4, <4>1
    <3>3. CASE i < Polls /\ i' = i + 1 /\ stage' = "begin" /\ result' = "running" /\ todo' = todo
      <4>1. i <= NudgeAt => i' <= NudgeAt
        BY <1>1, <1>2, <3>1, <3>3
      <4>2. Parking'
        BY <1>1, <1>2, <1>3, <2>1, <3>3, <4>1 DEF Parking, Sits
      <4> QED BY <1>1, <2>1, <3>3, <4>2, ParkStep
    <3>4. CASE Fail /\ i > ReadyBy /\ ~(pane.runs = "quitting") /\ ~(i < Polls)
      <4>1. ~(i <= NudgeAt)
        BY <1>1, <1>2, <3>4
      <4>2. Sits(<<>>) /\ pane.rc /\ job.remote /\ OnCmux
        BY <1>3, <3>2, <3>4, <4>1
      <4>3. pane.runs = "idle" /\ pane.rc = job.remote /\ ~Parkable
        BY <1>1, <4>2, ParkJobs DEF Sits, Parkable, Pane
      <4> QED BY <1>1, <2>1, <3>4, <4>3, ParkStep DEF Fail
    <3>5. Iterate /\ i < Polls => ~Fail
      BY <1>1, <1>2 DEF Iterate, Fail
    <3> QED BY <1>5, <3>1, <3>3, <3>4, <3>5
  <2> QED BY <2>2, <2>3, <2>4
<1>7. CASE Nudge
  <2>1. i = NudgeAt /\ pane' \in Entered(pane) /\ Iterate
    BY <1>3, <1>7 DEF Nudge, Running
  <2>2. i' = i + 1 /\ stage' = "begin" /\ result' = "running" /\ todo' = todo
    BY <1>1, <1>2, <2>1 DEF Iterate
  <2>3. CASE Sits(<<"exit">>) /\ ~pane.popup /\ ~pane.rc /\ Codex
    <3>1. pane'.got = <<>> /\ pane'.ran = <<>> /\ pane'.line = <<>> /\ pane'.runs = "quitting"
      BY <1>1, <2>1, <2>3, ExitEntered DEF Sits
    <3>2. ~(job.remote /\ OnCmux)
      BY <1>1, <2>3, ParkJobs
    <3>3. Parking'
      BY <1>1, <1>2, <1>3, <2>2, <3>1, <3>2 DEF Parking
    <3> QED BY <2>2, <3>1, <3>3, <1>1, ParkStep
  <2>4. CASE ~(Sits(<<"exit">>) /\ ~pane.popup /\ ~pane.rc /\ Codex /\ i <= NudgeAt)
    <3>1. pane.runs \in {"quitting", "none", "idle"} /\ pane.line = <<>>
      BY <1>3, <2>4 DEF Sits
    <3>2. pane' = pane
      BY <1>1, <2>1, <3>1, EnteredNothing
    <3>3. Parking'
      BY <1>1, <1>2, <1>3, <2>2, <2>4, <3>2 DEF Parking, Sits
    <3> QED BY <1>1, <2>2, <3>2, <3>3, ParkStep
  <2> QED BY <2>3, <2>4
<1> QED BY <1>6, <1>7

LEMMA ParkAlone ==
  ASSUME TInv, QPark, job.verb = "park", Quiet, Progress
  PROVE  QPark'
<1>1. /\ UNCHANGED <<job, todo, stage, i, result>> /\ pane \in Pane /\ Control
      /\ pane.got = <<>> /\ pane.ran = <<>>
  BY DEF Progress, QPark, TInv, IInv
<1>2. Codex' = Codex /\ OnCmux' = OnCmux
  BY <1>1 DEF Codex, OnCmux
<1>3. result = "running" /\ Parking
  BY <1>1 DEF Progress, QPark, Control
<1>4. Head(todo) = "gone" /\ pane.runs = "quitting"
  BY <1>1, <1>3, ParkHeads DEF Progress, Parking, Sits, Control, Fits, Stages
<1>5. pane' = [pane EXCEPT !.runs = "none", !.line = <<>>]
  BY <1>4 DEF Progress
<1>6. pane'.runs = "none" /\ pane'.line = <<>> /\ pane'.got = <<>> /\ pane'.ran = <<>>
  BY <1>1, <1>5 DEF Pane
<1>7. Parking'
  BY <1>1, <1>2, <1>3, <1>4, <1>6 DEF Parking, Sits
<1> QED BY <1>1, <1>3, <1>6, <1>7, ParkStep

LEMMA ParkOnly ==
  ASSUME TInv, job.verb = "park", Exec
  PROVE  \/ CheckStatus \/ CheckRemote \/ CheckDisconnected \/ TypeRemote \/ PickDisconnect
         \/ SendText \/ SendEnter \/ ClearInput \/ AgentStart \/ WaitGone \/ Nudge
<1>1. Control
  BY DEF TInv
<1>2. result = "running" => Head(todo) \in {"clear", "exit", "enter", "gone"}
  BY <1>1, ParkHeads
<1>3. ~WaitIdle /\ ~WaitNative /\ ~Fallback /\ ~Settle /\ ~PromptAgain
  BY <1>2 DEF WaitIdle, WaitNative, Fallback, Settle, PromptAgain, Running
<1>4. ~Prompt
  BY <1>2, SendingWhat DEF Prompt
<1>5. ~CheckAfter
  BY <1>1, <1>2 DEF CheckAfter, Running, Control, Fits
<1> QED BY <1>3, <1>4, <1>5 DEF Exec

LEMMA NextParks ==
  TInv /\ QPark /\ [Next]_vars => QPark'
<1> SUFFICES ASSUME TInv, QPark, [Next]_vars PROVE QPark'
  OBVIOUS
<1>1. TInv' /\ job' = job
  BY NextTells, SameJob
<1> SUFFICES ASSUME job.verb = "park", Quiet' PROVE QPark'
  BY <1>1 DEF QPark
<1>2. Quiet /\ ~Stir /\ ~Fault
  BY QuietBefore
<1>3. CASE Exec
  BY <1>1, <1>2, <1>3, ParkOnly, ParkLooks, ParkDisconnects, ParkSends, ParkWaits
<1>4. CASE Progress
  BY <1>2, <1>4, ParkAlone
<1>5. ~NativeResume /\ ~ReadLate
  <2>1. job \in Jobs /\ ~job.native /\ ~job.prompt
    BY ParkJobs DEF TInv, Control
  <2>2. CASE result = "running"
    <3>1. ~Prompting
      BY <2>2, ParkHeads DEF TInv, Control, Prompting, Fits
    <3>2. late = 0
      <4>1. job.mux # "herdr" => late = 0
        BY DEF TInv, KeysTold
      <4>2. job.mux = "herdr" => late = 0
        BY <2>2, <3>1 DEF TInv, HerdrTold
      <4> QED BY <4>1, <4>2
    <3> QED BY <2>1, <3>2 DEF NativeResume, ReadLate
  <2> QED BY <2>1, <2>2 DEF NativeResume, ReadLate
<1>6. CASE UNCHANGED vars
  BY <1>6 DEF vars, QPark, Parking, Parkable, Codex, OnCmux, Sits, Quiet
<1> QED BY <1>2, <1>3, <1>4, <1>5, <1>6 DEF Next

LEMMA InitParks ==
  Init => QPark
<1> SUFFICES ASSUME Init, job.verb = "park" PROVE QPark
  BY DEF QPark
<1>1. job \in Jobs /\ result = "running" /\ todo = ParkSteps
  BY DEF Init, Steps
<1>2. Head(todo) = "clear"
  BY <1>1 DEF ParkSteps
<1>3. pane.runs = "idle" /\ pane.rc = job.remote /\ pane.popup = Codex /\ pane.got = <<>> /\ pane.ran = <<>>
  BY DEF Init, Codex
<1> QED BY <1>1, <1>2, <1>3 DEF QPark, Parking

(* Left alone, an idle agent is parked, whatever was on its input line and *)
(* even when the first Enter only completed the command, and is told       *)
(* nothing; a Claude with Remote Control is refused, or disconnected where *)
(* the host opts in, and never connected.                                  *)
THEOREM QuietParkWorksHolds ==
  Spec => []QuietParkWorks
<1>1. TInv /\ QPark => QuietParkWorks
  <2> SUFFICES ASSUME TInv, QPark PROVE QuietParkWorks
    OBVIOUS
  <2>1. result \in {"running", "ok", "failed"}
    BY DEF TInv, Control
  <2> QED BY <2>1 DEF QPark, QuietParkWorks, Parkable, OnCmux, Alive
<1>2. TInv /\ QPark /\ [Next]_vars => QPark'
  BY NextParks
<1> QED BY <1>1, <1>2, InitParks, Told, PTL DEF Spec

-----------------------------------------------------------------------------
(* A restore *)

(* What the shell has run before the agent is started, and then. *)
Env == IF job.seat /\ ~job.native THEN <<<<"env">>>> ELSE <<>>

All == Env \o <<<<"resume">>>>

Shell(line, ran) == pane.runs = "none" /\ pane.line = line /\ pane.ran = ran /\ pane.got = <<>>

Up(states) == pane.runs \in states /\ pane.line = <<>> /\ pane.ran = All /\ pane.got = <<>>

OnlyPrompts == \A n \in DOMAIN pane.got : pane.got[n] = <<"prompt">>

(* The Enter after the resume command, not the one after the environment. *)
Starts == Len(todo) = Rest(job) + 1

(* What is known of the pane before each command of a restore, and within  *)
(* the waits and the prompt.                                               *)
Restoring ==
  /\ Head(todo) = "env" => Shell(<<>>, <<>>)
  /\ Head(todo) = "enter" /\ ~Starts => Shell(<<"env">>, <<>>)
  /\ Head(todo) = "enter" /\ Starts => Shell(<<"resume">>, Env)
  /\ Head(todo) \in {"start", "resume"} => Shell(<<>>, Env)
  /\ Head(todo) = "native" => \/ Shell(<<>>, <<>>) /\ i <= FallbackAt
                              \/ stage = "begin" /\ Up({"starting", "idle"})
  /\ Head(todo) = "idle" => Up({"starting", "idle"})
  /\ Head(todo) = "clear" => Up(IF job.mux = "herdr" THEN {"starting", "idle"} ELSE {"idle"})
  /\ Head(todo) = "text" =>
       Sits(IF stage = "after" THEN <<"prompt">> ELSE <<>>) /\ pane.ran = All /\ pane.got = <<>>
  /\ Head(todo) = "submit" =>
       /\ pane.ran = All
       /\ stage # "after" => Sits(<<"prompt">>) /\ pane.got = <<>>
       /\ stage # "begin" => ~job.wordy
       /\ stage = "after" => pane.got = <<<<"prompt">>>>
  /\ Head(todo) = "prompt" =>
       /\ pane.ran = All /\ pane.line = <<>> /\ OnlyPrompts
       /\ stage \in {"begin", "act"} => pane.runs \in {"starting", "idle"}
       /\ stage = "stalled" => pane.runs \in {"starting", "idle", "working"}
       /\ stage \in {"again", "after"} => pane.runs \in {"idle", "working"}

QRestore ==
  job.verb = "restore" /\ Quiet =>
    /\ result = "running" => Restoring
    /\ result = "ok" => ~job.wordy /\ (job.prompt => pane.got # <<>>)
    /\ result = "failed" => job.wordy
    /\ result # "running" => pane.ran = All /\ OnlyPrompts

LEMMA RestoreJobs ==
  ASSUME job \in Jobs, job.verb = "restore"
  PROVE  /\ job.native \in BOOLEAN /\ job.seat \in BOOLEAN /\ job.prompt \in BOOLEAN /\ job.wordy \in BOOLEAN
         /\ job.wordy => job.prompt /\ job.mux # "herdr"
         /\ job.native => job.mux = "cmux"
         /\ Rest(job) = IF ~job.prompt THEN 0 ELSE IF job.mux = "herdr" THEN 3 ELSE 4
  BY DEF Jobs, Job, Rest

LEMMA AllThen ==
  /\ Env \in Messages /\ All \in Messages /\ Append(Env, <<"resume">>) = All
  /\ Append(<<>>, <<"env">>) = <<<<"env">>>>
<1>1. <<"env">> \in Seq(Text) /\ <<"resume">> \in Seq(Text)
  BY OneWord DEF Text
<1>2. <<<<"env">>>> \in Messages /\ <<>> \in Messages /\ <<<<"resume">>>> \in Messages
  BY <1>1 DEF Messages
<1>3. Env \in Messages
  BY <1>2 DEF Env
<1>4. Append(Env, <<"resume">>) = All
  BY <1>1, <1>3, AppendIsConcat DEF All, Messages
<1>5. All \in Messages
  BY <1>1, <1>3, <1>4, AppendProperties DEF Messages
<1> QED BY <1>3, <1>4, <1>5

LEMMA RestoreHeads ==
  ASSUME Control, result = "running", job.verb = "restore"
  PROVE  /\ Head(todo) \notin {"exit", "gone"} /\ Len(todo) \in Nat
         /\ Head(todo) = "env" => job.seat /\ ~job.native /\ Len(todo) = Rest(job) + IF job.mux = "herdr" THEN 3 ELSE 4
         /\ Head(todo) = "enter" =>
              /\ ~job.native
              /\ Starts => job.mux # "herdr"
              /\ ~Starts => job.seat /\ Len(todo) = Rest(job) + IF job.mux = "herdr" THEN 2 ELSE 3
         /\ Head(todo) = "resume" => ~job.native /\ job.mux # "herdr" /\ Len(todo) = Rest(job) + 2
         /\ Head(todo) = "start" => ~job.native /\ job.mux = "herdr" /\ Starts
         /\ Head(todo) = "native" => job.native /\ Starts
         /\ Head(todo) = "idle" => job.prompt /\ Len(todo) = Rest(job)
         /\ Head(todo) = "clear" => job.prompt /\ Len(todo) = Rest(job) - 1
         /\ Head(todo) = "text" => job.prompt /\ job.mux # "herdr" /\ Len(todo) = 2
         /\ Head(todo) = "submit" => job.prompt /\ job.mux # "herdr" /\ Len(todo) = 1
         /\ Head(todo) = "prompt" => job.prompt /\ job.mux = "herdr" /\ Len(todo) = 1
<1> DEFINE k == Len(todo)
<1>1. job \in Jobs /\ Head(todo) = Kth(job, k) /\ k \in 1..Len(Steps(job)) /\ k \in Nat
  BY HeadIs DEF Control
<1> HIDE DEF k
<1>2. /\ Kth(job, k) = "env" => job.seat /\ ~job.native /\ k = Rest(job) + IF job.mux = "herdr" THEN 3 ELSE 4
      /\ Kth(job, k) = "enter" =>
           /\ ~job.native
           /\ k = Rest(job) + 1 => job.mux # "herdr"
           /\ k # Rest(job) + 1 => job.seat /\ k = Rest(job) + IF job.mux = "herdr" THEN 2 ELSE 3
      /\ Kth(job, k) = "clear" => job.prompt /\ k = Rest(job) - 1
  <2>1. CASE job.native
    <3>1. CASE job.prompt
      <4>1. Rest(job) = 4 /\ k \in 1..5
        BY <1>1, <2>1, <3>1, RestoreJobs, RestorePlan
      <4>2. k = 1 \/ k = 2 \/ k = 3 \/ k = 4 \/ k = 5
        BY <4>1
      <4> QED BY <1>1, <2>1, <3>1, <4>1, <4>2, RestoreJobs, RestorePlan
    <3>2. CASE ~job.prompt
      <4>1. Rest(job) = 0 /\ k \in 1..1
        BY <1>1, <2>1, <3>2, RestoreJobs, RestorePlan
      <4>2. k = 1
        BY <4>1
      <4> QED BY <1>1, <2>1, <3>2, <4>1, <4>2, RestoreJobs, RestorePlan
    <3> QED BY <3>1, <3>2
  <2>2. CASE ~job.native /\ job.mux = "herdr"
    <3>1. CASE job.prompt
      <4>1. Rest(job) = 3 /\ k \in 1..(IF job.seat THEN 6 ELSE 4)
        BY <1>1, <2>2, <3>1, RestoreJobs, RestorePlan
      <4>2. k = 1 \/ k = 2 \/ k = 3 \/ k = 4 \/ ((k = 5 \/ k = 6) /\ job.seat)
        BY <4>1
      <4> QED BY <1>1, <2>2, <3>1, <4>1, <4>2, RestoreJobs, RestorePlan
    <3>2. CASE ~job.prompt
      <4>1. Rest(job) = 0 /\ k \in 1..(IF job.seat THEN 3 ELSE 1)
        BY <1>1, <2>2, <3>2, RestoreJobs, RestorePlan
      <4>2. k = 1 \/ ((k = 2 \/ k = 3) /\ job.seat)
        BY <4>1
      <4> QED BY <1>1, <2>2, <3>2, <4>1, <4>2, RestoreJobs, RestorePlan
    <3> QED BY <3>1, <3>2
  <2>3. CASE ~job.native /\ job.mux # "herdr"
    <3>1. CASE job.prompt
      <4>1. Rest(job) = 4 /\ k \in 1..(IF job.seat THEN 8 ELSE 6)
        BY <1>1, <2>3, <3>1, RestoreJobs, RestorePlan
      <4>2. k = 1 \/ k = 2 \/ k = 3 \/ k = 4 \/ k = 5 \/ k = 6 \/ ((k = 7 \/ k = 8) /\ job.seat)
        BY <4>1
      <4> QED BY <1>1, <2>3, <3>1, <4>1, <4>2, RestoreJobs, RestorePlan
    <3>2. CASE ~job.prompt
      <4>1. Rest(job) = 0 /\ k \in 1..(IF job.seat THEN 4 ELSE 2)
        BY <1>1, <2>3, <3>2, RestoreJobs, RestorePlan
      <4>2. k = 1 \/ k = 2 \/ ((k = 3 \/ k = 4) /\ job.seat)
        BY <4>1
      <4> QED BY <1>1, <2>3, <3>2, <4>1, <4>2, RestoreJobs, RestorePlan
    <3> QED BY <3>1, <3>2
  <2> QED BY <2>1, <2>2, <2>3
<1> QED BY <1>1, <1>2, CommandPlaces DEF k, Starts

LEMMA RestoreNext ==
  ASSUME Control, result = "running", job.verb = "restore", Succeed, UNCHANGED job
  PROVE  /\ stage' = "begin" /\ i' = 1
         /\ Head(todo) = "env" => result' = "running" /\ Head(todo') = "enter" /\ ~Starts'
         /\ Head(todo) = "enter" /\ ~Starts => result' = "running" /\ Head(todo') \in {"start", "resume"}
         /\ Head(todo) = "resume" => result' = "running" /\ Head(todo') = "enter" /\ Starts'
         /\ Starts => IF job.prompt THEN result' = "running" /\ Head(todo') = "idle" ELSE result' = "ok"
         /\ Head(todo) = "idle" => result' = "running" /\ Head(todo') = "clear"
         /\ Head(todo) = "clear" => result' = "running" /\ Head(todo') = IF job.mux = "herdr" THEN "prompt" ELSE "text"
         /\ Head(todo) = "text" => result' = "running" /\ Head(todo') = "submit"
         /\ Head(todo) \in {"submit", "prompt"} => result' = "ok"
<1>1. /\ stage' = "begin" /\ i' = 1 /\ Len(todo) \in Nat /\ job \in Jobs /\ Rest(job') = Rest(job)
      /\ Rest(job) \in Nat
  BY AfterSucceed DEF Succeed, Control, Rest
<1>2. /\ Len(todo) = 1 => result' = "ok"
      /\ Len(todo) # 1 => result' = "running" /\ Head(todo') = Kth(job, Len(todo) - 1) /\ Len(todo') = Len(todo) - 1
  BY AfterSucceed
<1>3. Rest(job) = IF ~job.prompt THEN 0 ELSE IF job.mux = "herdr" THEN 3 ELSE 4
  BY <1>1, RestoreJobs
<1>4. Starts' <=> Len(todo') = Rest(job) + 1
  BY <1>1 DEF Starts
<1>5. Head(todo) = "env" => result' = "running" /\ Head(todo') = "enter" /\ ~Starts'
  <2> SUFFICES ASSUME Head(todo) = "env" PROVE result' = "running" /\ Head(todo') = "enter" /\ ~Starts'
    OBVIOUS
  <2>1. job.seat /\ ~job.native /\ Len(todo) = Rest(job) + IF job.mux = "herdr" THEN 3 ELSE 4
    BY RestoreHeads
  <2>2. Len(todo) # 1 /\ Len(todo) - 1 = Rest(job) + IF job.mux = "herdr" THEN 2 ELSE 3
    BY <1>1, <2>1
  <2>3. Kth(job, Len(todo) - 1) = "enter"
    BY <1>1, <2>1, <2>2, RestorePlan
  <2> QED BY <1>1, <1>2, <1>4, <2>2, <2>3
<1>6. Head(todo) = "enter" /\ ~Starts => result' = "running" /\ Head(todo') \in {"start", "resume"}
  <2> SUFFICES ASSUME Head(todo) = "enter", ~Starts PROVE result' = "running" /\ Head(todo') \in {"start", "resume"}
    OBVIOUS
  <2>1. job.seat /\ ~job.native /\ Len(todo) = Rest(job) + IF job.mux = "herdr" THEN 2 ELSE 3
    BY RestoreHeads
  <2>2. Len(todo) # 1 /\ Len(todo) - 1 = Rest(job) + IF job.mux = "herdr" THEN 1 ELSE 2
    BY <1>1, <2>1
  <2>3. Kth(job, Len(todo) - 1) \in {"start", "resume"}
    BY <1>1, <2>1, <2>2, RestorePlan
  <2> QED BY <1>2, <2>2, <2>3
<1>7. Head(todo) = "resume" => result' = "running" /\ Head(todo') = "enter" /\ Starts'
  <2> SUFFICES ASSUME Head(todo) = "resume" PROVE result' = "running" /\ Head(todo') = "enter" /\ Starts'
    OBVIOUS
  <2>1. ~job.native /\ job.mux # "herdr" /\ Len(todo) = Rest(job) + 2
    BY RestoreHeads
  <2>2. Len(todo) # 1 /\ Len(todo) - 1 = Rest(job) + 1
    BY <1>1, <2>1
  <2>3. Kth(job, Len(todo) - 1) = "enter"
    BY <1>1, <2>1, <2>2, RestorePlan
  <2> QED BY <1>2, <1>4, <2>2, <2>3
<1>8. Starts => IF job.prompt THEN result' = "running" /\ Head(todo') = "idle" ELSE result' = "ok"
  <2> SUFFICES ASSUME Len(todo) = Rest(job) + 1
               PROVE  IF job.prompt THEN result' = "running" /\ Head(todo') = "idle" ELSE result' = "ok"
    BY DEF Starts
  <2>1. CASE ~job.prompt
    BY <1>2, <1>3, <2>1
  <2>2. CASE job.prompt
    <3>1. Len(todo) # 1 /\ Len(todo) - 1 = Rest(job)
      BY <1>3, <2>2
    <3>2. Kth(job, Rest(job)) = "idle"
      BY <1>1, <1>3, <2>2, RestorePlan
    <3> QED BY <1>2, <2>2, <3>1, <3>2
  <2> QED BY <2>1, <2>2
<1>9. /\ Head(todo) = "idle" => result' = "running" /\ Head(todo') = "clear"
      /\ Head(todo) = "clear" => result' = "running" /\ Head(todo') = IF job.mux = "herdr" THEN "prompt" ELSE "text"
  <2>1. CASE job.prompt /\ job.mux = "herdr"
    <3>1. Kth(job, 1) = "prompt" /\ Kth(job, 2) = "clear" /\ Rest(job) = 3
      BY <1>1, <1>3, <2>1, RestorePlan
    <3>2. /\ Head(todo) = "idle" => Len(todo) = 3
          /\ Head(todo) = "clear" => Len(todo) = 2
      BY <3>1, RestoreHeads
    <3>3. /\ Len(todo) = 3 => result' = "running" /\ Head(todo') = Kth(job, 2)
          /\ Len(todo) = 2 => result' = "running" /\ Head(todo') = Kth(job, 1)
      <4>1. (Len(todo) = 3 => Len(todo) # 1 /\ Len(todo) - 1 = 2) /\ (Len(todo) = 2 => Len(todo) # 1 /\ Len(todo) - 1 = 1)
        OBVIOUS
      <4> QED BY <1>2, <4>1, Zenon
    <3> QED BY <2>1, <3>1, <3>2, <3>3, Zenon
  <2>2. CASE job.prompt /\ job.mux # "herdr"
    <3>1. Kth(job, 2) = "text" /\ Kth(job, 3) = "clear" /\ Rest(job) = 4
      BY <1>1, <1>3, <2>2, RestorePlan
    <3>2. /\ Head(todo) = "idle" => Len(todo) = 4
          /\ Head(todo) = "clear" => Len(todo) = 3
      BY <3>1, RestoreHeads
    <3>3. /\ Len(todo) = 4 => result' = "running" /\ Head(todo') = Kth(job, 3)
          /\ Len(todo) = 3 => result' = "running" /\ Head(todo') = Kth(job, 2)
      <4>1. (Len(todo) = 4 => Len(todo) # 1 /\ Len(todo) - 1 = 3) /\ (Len(todo) = 3 => Len(todo) # 1 /\ Len(todo) - 1 = 2)
        OBVIOUS
      <4> QED BY <1>2, <4>1, Zenon
    <3> QED BY <2>2, <3>1, <3>2, <3>3, Zenon
  <2> QED BY <2>1, <2>2, RestoreHeads
<1>10. Head(todo) = "text" => result' = "running" /\ Head(todo') = "submit"
  <2> SUFFICES ASSUME Head(todo) = "text" PROVE result' = "running" /\ Head(todo') = "submit"
    OBVIOUS
  <2>1. job.prompt /\ job.mux # "herdr" /\ Len(todo) = 2
    BY RestoreHeads
  <2>2. Kth(job, 1) = "submit"
    BY <1>1, <2>1, RestorePlan
  <2> QED BY <1>2, <2>1, <2>2
<1>11. Head(todo) \in {"submit", "prompt"} => result' = "ok"
  BY <1>2, RestoreHeads
<1> QED BY <1>1, <1>5, <1>6, <1>7, <1>8, <1>9, <1>10, <1>11

LEMMA SameWork ==
  ASSUME UNCHANGED job
  PROVE  Env' = Env /\ All' = All
  BY DEF Env, All

(* A step of a restore: what it leaves when it goes on, and when it ends.  *)
LEMMA RestoreStep ==
  ASSUME job.verb = "restore", UNCHANGED job,
         result' = "running" => Restoring',
         result' = "ok" => ~job.wordy /\ (job.prompt => pane'.got # <<>>),
         result' = "failed" => job.wordy,
         result' # "running" => pane'.ran = All /\ OnlyPrompts'
  PROVE  QRestore'
  BY SameWork DEF QRestore

(* The agent has been started, or is seen to run, and its prompt begins.   *)
LEMMA RestoreStarted ==
  ASSUME Control, result = "running", job.verb = "restore", UNCHANGED job, Starts, Succeed,
         pane'.runs \in {"starting", "idle"}, pane'.line = <<>>, pane'.ran = All, pane'.got = <<>>
  PROVE  QRestore'
<1>1. IF job.prompt THEN result' = "running" /\ Head(todo') = "idle" ELSE result' = "ok"
  BY RestoreNext
<1>2. All' = All /\ job \in Jobs
  BY SameWork DEF Control
<1>3. CASE job.prompt
  <2>1. Restoring'
    BY <1>1, <1>2, <1>3 DEF Restoring, Up
  <2> QED BY <1>1, <1>3, <2>1, RestoreStep
<1>4. CASE ~job.prompt
  <2>1. ~job.wordy
    BY <1>2, <1>4, RestoreJobs
  <2>2. OnlyPrompts'
    BY DEF OnlyPrompts
  <2> QED BY <1>1, <1>4, <2>1, <2>2, RestoreStep
<1> QED BY <1>3, <1>4

LEMMA RestoreLooks ==
  ASSUME TInv, QRestore, job.verb = "restore", Quiet, CheckStatus
  PROVE  QRestore'
<1>1. /\ result = "running" /\ Control /\ UNCHANGED <<job, pane>> /\ Restoring /\ job \in Jobs /\ stage = "begin"
      /\ Head(todo) \in {"prompt", "text", "submit"}
  BY DEF CheckStatus, Running, AsksStatus, QRestore, TInv, Control
<1>2. All' = All
  BY <1>1, SameWork
<1>3. MayPrompt <=> /\ ~(pane.runs = "dialog" \/ (job.wordy /\ Says(pane.line, "prompt")))
                    /\ job.mux = "herdr" => pane.runs # "none"
  BY DEF MayPrompt, LooksBlocked, Says, Alive
<1>4. (MayPrompt => Go("act")) /\ (~MayPrompt => Fail)
  BY DEF CheckStatus
<1>5. CASE Head(todo) = "text"
  <2>1. Sits(<<>>) /\ pane.ran = All /\ pane.got = <<>> /\ job.mux # "herdr"
    BY <1>1, <1>5, RestoreHeads DEF Restoring
  <2>2. Go("act")
    BY <1>3, <1>4, <2>1, SaysNothing DEF Sits
  <2>3. Restoring'
    BY <1>1, <1>2, <1>5, <2>1, <2>2 DEF Go, Restoring, Sits
  <2> QED BY <1>1, <2>2, <2>3, RestoreStep DEF Go
<1>6. CASE Head(todo) = "submit"
  <2>1. Sits(<<"prompt">>) /\ pane.ran = All /\ pane.got = <<>> /\ job.mux # "herdr"
    BY <1>1, <1>6, RestoreHeads DEF Restoring
  <2>2. MayPrompt <=> ~job.wordy
    BY <1>3, <2>1, SaysAlone DEF Sits
  <2>3. CASE ~job.wordy
    <3>1. Go("act")
      BY <1>4, <2>2, <2>3
    <3>2. Restoring'
      BY <1>1, <1>2, <1>6, <2>1, <2>3, <3>1 DEF Go, Restoring, Sits
    <3> QED BY <1>1, <3>1, <3>2, RestoreStep DEF Go
  <2>4. CASE job.wordy
    <3>1. result' = "failed"
      BY <1>4, <2>2, <2>4 DEF Fail
    <3>2. OnlyPrompts'
      BY <1>1, <2>1 DEF OnlyPrompts
    <3> QED BY <1>1, <2>1, <2>4, <3>1, <3>2, RestoreStep
  <2> QED BY <2>3, <2>4
<1>7. CASE Head(todo) = "prompt"
  <2>1. /\ pane.ran = All /\ pane.line = <<>> /\ OnlyPrompts /\ pane.runs \in {"starting", "idle"}
        /\ job.mux = "herdr" /\ ~job.wordy
    BY <1>1, <1>7, RestoreHeads, RestoreJobs DEF Restoring
  <2>2. Go("act")
    BY <1>3, <1>4, <2>1
  <2>3. OnlyPrompts'
    BY <1>1, <2>1 DEF OnlyPrompts
  <2>4. Restoring'
    BY <1>1, <1>2, <1>7, <2>1, <2>2, <2>3 DEF Go, Restoring
  <2> QED BY <1>1, <2>2, <2>4, RestoreStep DEF Go
<1> QED BY <1>1, <1>5, <1>6, <1>7

LEMMA RestoreTypes ==
  ASSUME TInv, QRestore, job.verb = "restore", Quiet, SendText
  PROVE  QRestore'
<1> PICK command \in {"exit", "env", "resume", "text"} :
           /\ MaySend(command) /\ Sent(command)
           /\ pane' \in Typed(pane, IF command = "text" THEN "prompt" ELSE command)
  BY DEF SendText
<1>1. /\ result = "running" /\ Control /\ UNCHANGED job /\ Restoring /\ job \in Jobs /\ pane \in Pane
      /\ Head(todo) = command /\ stage \in {"begin", "act"}
  BY SendingWhat DEF SendText, QRestore, TInv, IInv, Control
<1>2. All' = All /\ Env' = Env
  BY <1>1, SameWork
<1>3. command # "exit"
  BY <1>1, RestoreHeads
<1>4. CASE command = "env"
  <2>1. Shell(<<>>, <<>>) /\ Succeed /\ pane' \in Typed(pane, "env") /\ "env" \in Text
    BY <1>1, <1>4 DEF Restoring, Sent, IsPrompt, Text
  <2>2. pane'.line = <<"env">> /\ pane'.runs = "none" /\ pane'.ran = <<>> /\ pane'.got = <<>>
    BY <1>1, <2>1, TypedHere DEF Shell
  <2>3. result' = "running" /\ Head(todo') = "enter" /\ ~Starts'
    BY <1>1, <1>4, <2>1, RestoreNext
  <2>4. Restoring'
    BY <2>2, <2>3 DEF Restoring, Shell
  <2> QED BY <1>1, <2>3, <2>4, RestoreStep
<1>5. CASE command = "resume"
  <2>1. Shell(<<>>, Env) /\ Succeed /\ pane' \in Typed(pane, "resume") /\ "resume" \in Text
    BY <1>1, <1>5 DEF Restoring, Sent, IsPrompt, Text
  <2>2. pane'.line = <<"resume">> /\ pane'.runs = "none" /\ pane'.ran = Env /\ pane'.got = <<>>
    BY <1>1, <2>1, TypedHere DEF Shell
  <2>3. result' = "running" /\ Head(todo') = "enter" /\ Starts'
    BY <1>1, <1>5, <2>1, RestoreNext
  <2>4. Restoring'
    BY <1>2, <2>2, <2>3 DEF Restoring, Shell
  <2> QED BY <1>1, <2>3, <2>4, RestoreStep
<1>6. CASE command = "text"
  <2>1. Sits(<<>>) /\ pane.ran = All /\ pane.got = <<>> /\ Go("after")
        /\ pane' \in Typed(pane, "prompt") /\ "prompt" \in Text
    BY <1>1, <1>6 DEF Restoring, Sent, IsPrompt, Text
  <2>2. pane'.line = <<"prompt">> /\ pane'.runs = "idle" /\ pane'.ran = All /\ pane'.got = <<>>
    BY <1>1, <2>1, TypedHere DEF Sits
  <2>3. Restoring'
    BY <1>1, <1>2, <1>6, <2>1, <2>2 DEF Restoring, Sits, Go
  <2> QED BY <1>1, <2>1, <2>3, RestoreStep DEF Go
<1> QED BY <1>3, <1>4, <1>5, <1>6

LEMMA RestoreEnters ==
  ASSUME TInv, QRestore, job.verb = "restore", Quiet, SendEnter
  PROVE  QRestore'
<1> PICK command \in {"enter", "submit"} : MaySend(command) /\ Sent(command) /\ pane' \in Entered(pane)
  BY DEF SendEnter
<1>1. /\ result = "running" /\ Control /\ UNCHANGED job /\ Restoring /\ job \in Jobs /\ pane \in Pane
      /\ Head(todo) = command /\ stage \in {"begin", "act"}
  BY SendingWhat DEF SendEnter, QRestore, TInv, IInv, Control
<1>2. All' = All /\ Env' = Env
  BY <1>1, SameWork
<1>3. CASE command = "enter" /\ ~Starts
  <2>1. Shell(<<"env">>, <<>>) /\ Succeed /\ job.seat /\ ~job.native
    BY <1>1, <1>3, RestoreHeads DEF Restoring, Sent, IsPrompt
  <2>2. <<"env">> # <<>> /\ <<"env">> # <<"resume">>
    BY OneWord DEF Text
  <2>3. pane'.line = <<>> /\ pane'.runs = "none" /\ pane'.ran = Append(<<>>, <<"env">>) /\ pane'.got = <<>>
    BY <1>1, <2>1, <2>2, EnteredAtShell DEF Shell
  <2>4. pane'.ran = Env
    BY <2>1, <2>3, AllThen DEF Env
  <2>5. result' = "running" /\ Head(todo') \in {"start", "resume"}
    BY <1>1, <1>3, <2>1, RestoreNext
  <2>6. Restoring'
    BY <1>2, <2>3, <2>4, <2>5 DEF Restoring, Shell
  <2> QED BY <1>1, <2>5, <2>6, RestoreStep
<1>4. CASE command = "enter" /\ Starts
  <2>1. Shell(<<"resume">>, Env) /\ Succeed
    BY <1>1, <1>4 DEF Restoring, Sent, IsPrompt
  <2>2. <<"resume">> # <<>>
    OBVIOUS
  <2>3. pane'.line = <<>> /\ pane'.runs = "starting" /\ pane'.ran = Append(Env, <<"resume">>) /\ pane'.got = <<>>
    BY <1>1, <2>1, <2>2, EnteredAtShell DEF Shell
  <2> QED BY <1>1, <1>4, <2>1, <2>3, AllThen, RestoreStarted
<1>5. CASE command = "submit"
  <2>1. stage = "act"
    BY <1>1, <1>5 DEF MaySend, Running, AsksStatus
  <2>2. Sits(<<"prompt">>) /\ pane.ran = All /\ pane.got = <<>> /\ ~job.wordy
    BY <1>1, <1>5, <2>1 DEF Restoring
  <2>3. /\ pane'.line = <<>> /\ pane'.runs = "working" /\ pane'.ran = All
        /\ pane'.got = Append(<<>>, <<"prompt">>)
    BY <1>1, <2>2, PromptEntered DEF Sits
  <2>4. pane'.got = <<<<"prompt">>>>
    BY <2>3
  <2>5. pane'.got # <<>> /\ OnlyPrompts'
    BY <2>4 DEF OnlyPrompts
  <2>6. CASE job.mux = "tmux"
    <3>1. Go("after")
      BY <1>5, <2>6 DEF Sent, IsPrompt
    <3>2. Restoring'
      BY <1>1, <1>2, <1>5, <2>2, <2>3, <2>4, <3>1 DEF Restoring, Go
    <3> QED BY <1>1, <3>1, <3>2, RestoreStep DEF Go
  <2>7. CASE job.mux # "tmux"
    <3>1. Succeed
      BY <1>5, <2>7 DEF Sent, IsPrompt
    <3>2. result' = "ok"
      BY <1>1, <1>5, <3>1, RestoreNext
    <3> QED BY <1>1, <2>2, <2>3, <2>5, <3>2, RestoreStep
  <2> QED BY <2>6, <2>7
<1> QED BY <1>3, <1>4, <1>5

(* Nothing is typed before the prompt's own commands. *)
LEMMA ClearedEmpty ==
  ASSUME NEW p \in Pane, NEW q \in Cleared(p), p.runs \in {"starting", "idle"}, p.line = <<>>
  PROVE  q = p
<1>1. q \in {p, [p EXCEPT !.line = <<>>]}
  BY DEF Cleared
<1>2. [p EXCEPT !.line = <<>>] = p
  BY DEF Pane
<1> QED BY <1>1, <1>2

LEMMA RestoreClears ==
  ASSUME TInv, QRestore, job.verb = "restore", Quiet, ClearInput
  PROVE  QRestore'
<1>1. /\ result = "running" /\ Control /\ UNCHANGED job /\ Restoring /\ job \in Jobs /\ pane \in Pane
      /\ Head(todo) = "clear" /\ Succeed /\ pane' \in Cleared(pane)
  BY SendingWhat DEF ClearInput, QRestore, TInv, IInv, Control
<1>2. All' = All
  BY <1>1, SameWork
<1>3. Up(IF job.mux = "herdr" THEN {"starting", "idle"} ELSE {"idle"})
  BY <1>1 DEF Restoring
<1>4. pane' = pane
  BY <1>1, <1>3, ClearedEmpty DEF Up
<1>5. result' = "running" /\ stage' = "begin" /\ Head(todo') = IF job.mux = "herdr" THEN "prompt" ELSE "text"
  BY <1>1, RestoreNext
<1>6. OnlyPrompts'
  BY <1>3, <1>4 DEF OnlyPrompts, Up
<1>7. CASE job.mux = "herdr"
  <2>1. Restoring'
    BY <1>2, <1>3, <1>4, <1>5, <1>6, <1>7 DEF Restoring, Up
  <2> QED BY <1>1, <1>5, <2>1, RestoreStep
<1>8. CASE job.mux # "herdr"
  <2>1. Restoring'
    BY <1>2, <1>3, <1>4, <1>5, <1>8 DEF Restoring, Up, Sits
  <2> QED BY <1>1, <1>5, <2>1, RestoreStep
<1> QED BY <1>7, <1>8

LEMMA RestoreStarts ==
  ASSUME TInv, QRestore, job.verb = "restore", Quiet, AgentStart
  PROVE  QRestore'
<1>1. /\ result = "running" /\ Control /\ UNCHANGED job /\ Restoring /\ pane \in Pane /\ Head(todo) = "start"
  BY SendingWhat DEF AgentStart, QRestore, TInv, IInv
<1>2. Shell(<<>>, Env) /\ Starts
  BY <1>1, RestoreHeads DEF Restoring
<1>3. Succeed /\ pane' = [pane EXCEPT !.runs = "starting", !.ran = Append(@, <<"resume">>)]
  BY <1>2 DEF AgentStart, Shell
<1>4. pane'.runs = "starting" /\ pane'.line = <<>> /\ pane'.ran = Append(Env, <<"resume">>) /\ pane'.got = <<>>
  BY <1>1, <1>2, <1>3 DEF Pane, Shell
<1> QED BY <1>1, <1>2, <1>3, <1>4, AllThen, RestoreStarted

(* A wait that goes on, or ends only when the agent was in time.           *)
LEMMA NotSlow ==
  ASSUME seen \in History, NEW holds \in BOOLEAN, Note("slow", seen["slow"] \/ holds), Quiet'
  PROVE  ~holds
<1>1. seen'["slow"] = (seen["slow"] \/ holds) /\ ~seen'["slow"]
  BY DEF Note, History, Quiet
<1> QED BY <1>1

LEMMA RestoreIdles ==
  ASSUME TInv, QRestore, job.verb = "restore", Quiet, Quiet', WaitIdle
  PROVE  QRestore'
<1>1. /\ result = "running" /\ Control /\ UNCHANGED <<job, pane>> /\ Restoring /\ job \in Jobs
      /\ Head(todo) = "idle" /\ i \in 1..Polls /\ seen \in History
  BY DEF WaitIdle, Running, QRestore, TInv, IInv, Control
<1>2. All' = All
  BY <1>1, SameWork
<1>3. Up({"starting", "idle"})
  BY <1>1 DEF Restoring
<1>4. CASE MaySettle /\ Succeed
  <2>1. result' = "running" /\ Head(todo') = "clear"
    BY <1>1, <1>4, RestoreNext
  <2>2. job.mux # "herdr" => pane.runs = "idle"
    BY <1>3, <1>4 DEF MaySettle, Up
  <2>3. Restoring'
    BY <1>1, <1>2, <1>3, <2>1, <2>2 DEF Restoring, Up
  <2> QED BY <1>1, <2>1, <2>3, RestoreStep
<1>5. CASE ~MustSettle /\ Iterate
  <2>1. ~Slow
    BY <1>1, <1>5, NotSlow DEF Iterate, Slow
  <2>2. i < Polls
    <3>1. ~(i > ReadyBy)
      BY <1>3, <1>5, <2>1 DEF Slow, MustSettle, Up
    <3> QED BY <1>1, <3>1, BoundsAssumption
  <2>3. result' = "running" /\ todo' = todo
    BY <1>1, <1>5, <2>2, BoundsAssumption DEF Iterate
  <2>4. Restoring'
    BY <1>1, <1>2, <1>3, <2>3 DEF Restoring, Up
  <2> QED BY <1>1, <2>3, <2>4, RestoreStep
<1> QED BY <1>4, <1>5 DEF WaitIdle

LEMMA NativeWork ==
  ASSUME job.native
  PROVE  Env = <<>>
  BY DEF Env

(* The resume command, typed into a shell with nothing on its line.        *)
LEMMA ResumedHere ==
  ASSUME pane \in Pane, job.native, Shell(<<>>, <<>>), \E p \in Typed(pane, "resume") : pane' \in Entered(p)
  PROVE  pane'.runs = "starting" /\ pane'.line = <<>> /\ pane'.ran = All /\ pane'.got = <<>>
<1>1. PICK p \in Typed(pane, "resume") : pane' \in Entered(p)
  OBVIOUS
<1>2. p \in Pane /\ p.line = <<"resume">> /\ p.runs = "none" /\ p.ran = <<>> /\ p.got = <<>>
  BY <1>1, TypedHere DEF Shell, Text
<1>3. p.line # <<>>
  BY <1>2
<1>4. pane'.line = <<>> /\ pane'.runs = "starting" /\ pane'.ran = Append(<<>>, <<"resume">>) /\ pane'.got = <<>>
  BY <1>1, <1>2, <1>3, EnteredAtShell
<1> QED BY <1>4, AllThen, NativeWork

LEMMA FallbackIn ==
  FallbackAt \in Nat
<1>1. Polls \div 3 \in Nat
  BY BoundsAssumption
<1> QED BY <1>1 DEF FallbackAt

LEMMA RestoreNatively ==
  ASSUME TInv, QRestore, job.verb = "restore", Quiet, Quiet', FallbackAt < Polls, WaitNative \/ Fallback
  PROVE  QRestore'
<1>1. /\ result = "running" /\ Control /\ UNCHANGED job /\ Restoring /\ job \in Jobs /\ pane \in Pane
      /\ Head(todo) = "native" /\ i \in 1..Polls /\ i \in Nat /\ seen \in History /\ job.native /\ Starts
  BY RestoreHeads, BoundsAssumption DEF WaitNative, Fallback, Running, QRestore, TInv, IInv, Control
<1>2. All' = All
  BY <1>1, SameWork
<1>3. (Shell(<<>>, <<>>) /\ i <= FallbackAt) \/ (stage = "begin" /\ Up({"starting", "idle"}))
  BY <1>1 DEF Restoring
<1>4. FallbackAt \in Nat /\ Polls \in Nat
  BY FallbackIn, BoundsAssumption
<1>5. CASE WaitNative
  <2>1. stage = "begin" /\ pane' = pane
    BY <1>5 DEF WaitNative, Running
  <2>2. CASE Alive(pane)
    <3>1. Up({"starting", "idle"}) /\ Succeed
      BY <1>3, <1>5, <2>2 DEF WaitNative, Alive, Shell
    <3> QED BY <1>1, <2>1, <3>1, RestoreStarted DEF Up
  <2>3. CASE ~Alive(pane) /\ i = FallbackAt
    <3>1. Shell(<<>>, <<>>) /\ Go("fallback")
      BY <1>3, <1>5, <2>3 DEF WaitNative, Alive, Up
    <3>2. i' <= FallbackAt
      BY <1>4, <2>3, <3>1 DEF Go
    <3>3. Restoring'
      BY <1>1, <2>1, <3>1, <3>2 DEF Go, Restoring, Shell
    <3> QED BY <1>1, <3>1, <3>3, RestoreStep DEF Go
  <2>4. CASE ~Alive(pane) /\ i # FallbackAt
    <3>1. Shell(<<>>, <<>>) /\ i <= FallbackAt /\ Iterate
      BY <1>3, <1>5, <2>4 DEF WaitNative, Alive, Up
    <3>2. i < FallbackAt /\ ~(i >= Polls)
      BY <1>1, <1>4, <2>4, <3>1
    <3>3. i' = i + 1 /\ result' = "running" /\ todo' = todo
      BY <1>1, <3>1, <3>2 DEF Iterate
    <3>4. i' <= FallbackAt
      BY <1>1, <1>4, <3>2, <3>3
    <3>5. Restoring'
      BY <1>1, <2>1, <3>1, <3>3, <3>4 DEF Restoring, Shell
    <3> QED BY <1>1, <3>3, <3>5, RestoreStep
  <2> QED BY <2>2, <2>3, <2>4
<1>6. CASE Fallback
  <2>1. stage = "fallback" /\ i = FallbackAt /\ Iterate /\ \E p \in Typed(pane, "resume") : pane' \in Entered(p)
    BY <1>1, <1>6 DEF Fallback, Running, Control, Fits
  <2>2. Shell(<<>>, <<>>)
    BY <1>3, <2>1
  <2>3. pane'.runs = "starting" /\ pane'.line = <<>> /\ pane'.ran = All /\ pane'.got = <<>>
    BY <1>1, <2>1, <2>2, ResumedHere
  <2>4. stage' = "begin" /\ result' = "running" /\ todo' = todo
    <3>1. ~(i >= Polls)
      BY <1>1, <1>4, <2>1
    <3> QED BY <1>1, <2>1, <3>1 DEF Iterate
  <2>5. Restoring'
    BY <1>1, <1>2, <2>3, <2>4 DEF Restoring, Up
  <2> QED BY <1>1, <2>4, <2>5, RestoreStep
<1> QED BY <1>5, <1>6

(* cmux in time comes before the command is typed. *)
LEMMA RestoreByCmux ==
  ASSUME TInv, QRestore, job.verb = "restore", Quiet, moves' = moves, CmuxBy < FallbackAt, NativeResume
  PROVE  QRestore'
<1>1. /\ result = "running" /\ Control /\ UNCHANGED <<job, todo, stage, i, result>> /\ Restoring
      /\ pane \in Pane /\ job.native /\ i \in 1..Polls /\ i \in Nat /\ moves \in Nat
      /\ \E p \in Typed(pane, "resume") : pane' \in Entered(p)
  BY BoundsAssumption DEF NativeResume, QRestore, TInv, IInv, Control
<1>2. ~Move
  BY <1>1 DEF Move
<1>3. Head(todo) = "native" /\ i <= CmuxBy /\ pane.runs = "none" /\ pane.line = <<>>
  BY <1>2 DEF NativeResume, Running
<1>4. i # FallbackAt
  BY <1>1, <1>3, FallbackIn, BoundsAssumption
<1>5. stage = "begin"
  BY <1>1, <1>3, <1>4 DEF Control, Fits, Stages
<1>6. Shell(<<>>, <<>>)
  BY <1>1, <1>3 DEF Restoring, Up
<1>7. pane'.runs = "starting" /\ pane'.line = <<>> /\ pane'.ran = All /\ pane'.got = <<>>
  BY <1>1, <1>6, ResumedHere
<1>8. All' = All
  BY <1>1, SameWork
<1>9. Restoring'
  BY <1>1, <1>3, <1>5, <1>7, <1>8 DEF Restoring, Up
<1> QED BY <1>1, <1>9, RestoreStep

-----------------------------------------------------------------------------
(* A prompt through herdr, and the rest of what a quiet run may do. *)

LEMMA TakesOnly ==
  ASSUME pane \in Pane, pane.line = <<>>, OnlyPrompts, pane' = Takes(pane)
  PROVE  pane'.runs = "working" /\ pane'.line = <<>> /\ pane'.ran = pane.ran /\ OnlyPrompts'
<1>1. Append(<<>>, "prompt") = <<"prompt">> /\ <<"prompt">> \in Seq(Text)
  BY OneWord DEF Text
<1>2. pane'.runs = "working" /\ pane'.line = <<>> /\ pane'.ran = pane.ran /\ pane'.got = Append(pane.got, <<"prompt">>)
  BY <1>1, TakesTells
<1>3. pane.got \in Seq(Seq(Text)) /\ Len(pane.got) \in Nat
  BY PaneFields, LenProperties DEF Messages
<1>4. /\ DOMAIN pane'.got = 1..(Len(pane.got) + 1) /\ DOMAIN pane.got = 1..Len(pane.got)
      /\ pane'.got[Len(pane.got) + 1] = <<"prompt">>
      /\ \A n \in 1..Len(pane.got) : pane'.got[n] = pane.got[n]
  BY <1>1, <1>2, <1>3, AppendProperties, LenProperties
<1>5. \A n \in DOMAIN pane'.got : n = Len(pane.got) + 1 \/ n \in 1..Len(pane.got)
  BY <1>3, <1>4
<1> QED BY <1>2, <1>4, <1>5 DEF OnlyPrompts

LEMMA RestorePrompts ==
  ASSUME TInv, QRestore, job.verb = "restore", Quiet, Quiet', Prompt \/ Settle \/ PromptAgain
  PROVE  QRestore'
<1>1. /\ result = "running" /\ Control /\ UNCHANGED job /\ Restoring /\ job \in Jobs /\ pane \in Pane
      /\ Head(todo) = "prompt" /\ seen \in History
  BY SendingWhat DEF Prompt, Settle, PromptAgain, Running, QRestore, TInv, IInv, Control
<1>2. All' = All /\ job.mux = "herdr" /\ ~job.wordy
  BY <1>1, SameWork, RestoreHeads, RestoreJobs
<1>3. pane.ran = All /\ pane.line = <<>> /\ OnlyPrompts
  BY <1>1 DEF Restoring
<1>4. CASE Prompt
  <2>1. stage \in {"begin", "act"} /\ Deliver
    BY <1>4 DEF Prompt, MaySend, Running
  <2>2. pane.runs \in {"starting", "idle"}
    BY <1>1, <2>1 DEF Restoring
  <2>3. CASE pane.runs = "idle"
    <3>1. Answer = "working" /\ ~Retried
      BY <2>3 DEF Answer, Retried
    <3>2. Go("after") /\ pane' = Takes(pane)
      BY <1>4, <2>1, <3>1 DEF Prompt, Deliver
    <3>3. Restoring'
      BY <1>1, <1>2, <1>3, <3>2, TakesOnly DEF Restoring, Go
    <3> QED BY <1>1, <3>2, <3>3, RestoreStep DEF Go
  <2>4. CASE pane.runs = "starting"
    <3>1. Answer = "agent_prompt_stalled" /\ Retried
      BY <2>4 DEF Answer, Retried
    <3>2. Go("stalled") /\ pane' = pane
      BY <1>4, <2>1, <3>1 DEF Prompt, Deliver
    <3>3. OnlyPrompts'
      BY <1>3, <3>2 DEF OnlyPrompts
    <3>4. Restoring'
      BY <1>1, <1>2, <1>3, <2>4, <3>2, <3>3 DEF Restoring, Go
    <3> QED BY <1>1, <3>2, <3>4, RestoreStep DEF Go
  <2> QED BY <2>2, <2>3, <2>4
<1>5. CASE Settle
  <2>1. stage = "stalled" /\ pane' = pane
    BY <1>5 DEF Settle, Running
  <2>2. pane.runs \in {"idle", "working"}
    <3>1. pane.runs # "starting"
      BY <1>1, <1>5, NotSlow DEF Settle
    <3> QED BY <1>1, <2>1, <3>1 DEF Restoring
  <2>3. Go("again")
    <3>1. MayPrompt
      BY <1>2, <2>2 DEF MayPrompt, LooksBlocked, Alive
    <3> QED BY <1>5, <3>1 DEF Settle
  <2>4. OnlyPrompts'
    BY <1>3, <2>1 DEF OnlyPrompts
  <2>5. Restoring'
    BY <1>1, <1>2, <1>3, <2>1, <2>2, <2>3, <2>4 DEF Restoring, Go
  <2> QED BY <1>1, <2>3, <2>5, RestoreStep DEF Go
<1>6. CASE PromptAgain
  <2>1. stage = "again" /\ Deliver
    BY <1>6 DEF PromptAgain, Running
  <2>2. pane.runs \in {"idle", "working"}
    BY <1>1, <2>1 DEF Restoring
  <2>3. Answer = "working"
    BY <2>2 DEF Answer
  <2>4. Go("after") /\ pane' = Takes(pane)
    BY <1>6, <2>1, <2>3 DEF PromptAgain, Deliver
  <2>5. Restoring'
    BY <1>1, <1>2, <1>3, <2>4, TakesOnly DEF Restoring, Go
  <2> QED BY <1>1, <2>4, <2>5, RestoreStep DEF Go
<1> QED BY <1>4, <1>5, <1>6

LEMMA RestoreChecked ==
  ASSUME TInv, QRestore, job.verb = "restore", Quiet, CheckAfter
  PROVE  QRestore'
<1>1. /\ result = "running" /\ Control /\ UNCHANGED <<job, pane>> /\ Restoring /\ job \in Jobs
      /\ stage = "after"
  BY DEF CheckAfter, Running, QRestore, TInv, Control
<1>2. Head(todo) \in {"prompt", "text", "submit"}
  BY <1>1 DEF Control, Fits
<1>3. All' = All
  BY <1>1, SameWork
<1>4. CASE Head(todo) = "text"
  <2>1. Sits(<<"prompt">>) /\ pane.ran = All /\ pane.got = <<>> /\ job.mux # "herdr"
    BY <1>1, <1>4, RestoreHeads DEF Restoring
  <2>2. Succeed
    BY <2>1 DEF CheckAfter, StillThere
  <2>3. result' = "running" /\ Head(todo') = "submit" /\ stage' = "begin"
    BY <1>1, <1>4, <2>2, RestoreNext
  <2>4. Restoring'
    BY <1>1, <1>3, <2>1, <2>3 DEF Restoring, Sits
  <2> QED BY <1>1, <2>3, <2>4, RestoreStep
<1>5. CASE Head(todo) = "submit"
  <2>1. pane.ran = All /\ ~job.wordy /\ pane.got = <<<<"prompt">>>> /\ job.mux # "herdr"
    BY <1>1, <1>5, RestoreHeads DEF Restoring
  <2>2. Succeed
    BY <2>1 DEF CheckAfter, StillThere
  <2>3. result' = "ok"
    BY <1>1, <1>5, <2>2, RestoreNext
  <2>4. pane'.got # <<>> /\ OnlyPrompts'
    BY <1>1, <2>1 DEF OnlyPrompts
  <2> QED BY <1>1, <2>1, <2>3, <2>4, RestoreStep
<1>6. CASE Head(todo) = "prompt"
  <2>1. /\ pane.ran = All /\ OnlyPrompts /\ pane.runs \in {"idle", "working"}
        /\ job.mux = "herdr" /\ ~job.wordy
    BY <1>1, <1>6, RestoreHeads, RestoreJobs DEF Restoring
  <2>2. Succeed
    BY <2>1 DEF CheckAfter, StillThere, Alive
  <2>3. result' = "ok"
    BY <1>1, <1>6, <2>2, RestoreNext
  <2>4. PromptsRead # {}
    BY <1>1, <2>1 DEF TInv, HerdrTold, Prompting
  <2>5. pane.got # <<>>
    BY <2>4 DEF PromptsRead
  <2>6. OnlyPrompts'
    BY <1>1, <2>1 DEF OnlyPrompts
  <2> QED BY <1>1, <2>1, <2>3, <2>5, <2>6, RestoreStep
<1> QED BY <1>2, <1>4, <1>5, <1>6

LEMMA RestoreAlone ==
  ASSUME TInv, QRestore, job.verb = "restore", Quiet, Progress
  PROVE  QRestore'
<1>1. /\ UNCHANGED <<job, todo, stage, i, result>> /\ pane \in Pane /\ Control
  BY DEF Progress, TInv, IInv
<1>2. All' = All /\ Env' = Env
  BY <1>1, SameWork
<1>3. /\ pane'.got = pane.got /\ pane'.ran = pane.ran
      /\ pane.runs \in {"starting", "working"} => pane'.runs = "idle" /\ pane'.line = pane.line
      /\ pane.runs \in {"starting", "working", "quitting"}
  <2>1. CASE pane.runs \in {"starting", "working"}
    <3>1. pane' = [pane EXCEPT !.runs = "idle"]
      BY <2>1 DEF Progress
    <3> QED BY <1>1, <2>1, <3>1 DEF Pane
  <2>2. CASE ~(pane.runs \in {"starting", "working"})
    <3>1. pane' = [pane EXCEPT !.runs = "none", !.line = <<>>] /\ pane.runs = "quitting"
      BY <2>2 DEF Progress
    <3> QED BY <1>1, <2>2, <3>1 DEF Pane
  <2> QED BY <2>1, <2>2
<1>4. OnlyPrompts' <=> OnlyPrompts
  BY <1>3 DEF OnlyPrompts
<1>5. CASE result # "running"
  <2>1. pane.ran = All /\ OnlyPrompts
        /\ (result = "ok" => ~job.wordy /\ (job.prompt => pane.got # <<>>)) /\ (result = "failed" => job.wordy)
    BY <1>5 DEF QRestore
  <2> QED BY <1>1, <1>3, <1>4, <1>5, <2>1, RestoreStep
<1>6. CASE result = "running"
  <2>1. Restoring
    BY <1>6 DEF QRestore
  <2>2. ~(Head(todo) \in {"env", "enter", "start", "resume", "text"})
    BY <1>3, <2>1 DEF Restoring, Shell, Sits
  <2>3. CASE Head(todo) \in {"native", "idle", "clear"}
    <3>1. pane.runs \in {"starting", "working"}
      BY <1>3, <2>1, <2>3 DEF Restoring, Shell, Up
    <3>2. Restoring'
      BY <1>1, <1>2, <1>3, <2>1, <2>3, <3>1 DEF Restoring, Shell, Up
    <3> QED BY <1>1, <1>6, <3>2, RestoreStep
  <2>4. CASE Head(todo) = "submit"
    <3>1. stage = "after"
      BY <1>3, <2>1, <2>4 DEF Restoring, Sits
    <3>2. Restoring'
      BY <1>1, <1>2, <1>3, <2>1, <2>4, <3>1 DEF Restoring
    <3> QED BY <1>1, <1>6, <3>2, RestoreStep
  <2>5. CASE Head(todo) = "prompt"
    <3>1. stage \in {"begin", "act", "stalled", "again", "after"}
      BY <1>1, <1>6, <2>5 DEF Control, Fits, Stages
    <3>2. pane.runs \in {"starting", "working"}
      BY <1>3, <2>1, <2>5, <3>1 DEF Restoring
    <3>3. Restoring'
      BY <1>1, <1>2, <1>3, <1>4, <2>1, <2>5, <3>1, <3>2 DEF Restoring
    <3> QED BY <1>1, <1>6, <3>3, RestoreStep
  <2>6. Head(todo) \in Command /\ Head(todo) \notin {"exit", "gone"}
    <3>1. Head(todo) \in Command
      BY <1>1, <1>6, HeadIs, CommandPlaces DEF Control
    <3> QED BY <1>1, <1>6, <3>1, RestoreHeads
  <2> QED BY <2>2, <2>3, <2>4, <2>5, <2>6 DEF Command
<1> QED BY <1>5, <1>6

LEMMA RestoreReads ==
  ASSUME TInv, QRestore, job.verb = "restore", Quiet, ReadLate
  PROVE  QRestore'
<1>1. /\ UNCHANGED <<job, todo, stage, i, result>> /\ result = "running" /\ pane \in Pane /\ Control /\ Restoring
      /\ pane' = Takes(pane) /\ late > 0
  BY DEF ReadLate, QRestore, TInv, IInv
<1>2. All' = All
  BY <1>1, SameWork
<1>3. late # 0
  BY <1>1
<1>4. job.mux = "herdr" /\ Prompting
  BY <1>1, <1>3 DEF TInv, KeysTold, HerdrTold
<1>5. Head(todo) = "prompt" /\ stage \in {"stalled", "again", "after"}
  BY <1>1, <1>4, RestoreHeads DEF Prompting, Control, Fits
<1>6. pane.ran = All /\ pane.line = <<>> /\ OnlyPrompts
  BY <1>1, <1>5 DEF Restoring
<1>7. Restoring'
  BY <1>1, <1>2, <1>5, <1>6, TakesOnly DEF Restoring
<1> QED BY <1>1, <1>7, RestoreStep

LEMMA RestoreOnly ==
  ASSUME TInv, job.verb = "restore", Exec
  PROVE  \/ CheckStatus \/ SendText \/ SendEnter \/ ClearInput \/ AgentStart
         \/ WaitIdle \/ WaitNative \/ Fallback \/ Prompt \/ Settle \/ PromptAgain \/ CheckAfter
<1>1. Control
  BY DEF TInv
<1>2. result = "running" => Head(todo) \notin {"exit", "gone"}
  BY <1>1, RestoreHeads
<1>3. ~CheckRemote /\ ~TypeRemote /\ ~PickDisconnect /\ ~CheckDisconnected /\ ~WaitGone /\ ~Nudge
  BY <1>2 DEF CheckRemote, TypeRemote, PickDisconnect, CheckDisconnected, WaitGone, Nudge, Running
<1> QED BY <1>3 DEF Exec

LEMMA NextRestores ==
  ASSUME CmuxBy < FallbackAt, FallbackAt < Polls, TInv, QRestore, [Next]_vars
  PROVE  QRestore'
<1>1. TInv' /\ job' = job
  BY NextTells, SameJob
<1> SUFFICES ASSUME job.verb = "restore", Quiet' PROVE QRestore'
  BY <1>1 DEF QRestore
<1>2. Quiet /\ moves' = moves /\ ~Stir /\ ~Fault
  BY QuietBefore
<1>3. CASE Exec
  BY <1>2, <1>3, RestoreOnly, RestoreLooks, RestoreTypes, RestoreEnters, RestoreClears, RestoreStarts,
     RestoreIdles, RestoreNatively, RestorePrompts, RestoreChecked
<1>4. CASE Progress
  BY <1>2, <1>4, RestoreAlone
<1>5. CASE ReadLate
  BY <1>2, <1>5, RestoreReads
<1>6. CASE NativeResume
  BY <1>2, <1>6, RestoreByCmux
<1>7. CASE UNCHANGED vars
  <2>1. UNCHANGED <<job, pane, todo, stage, i, result>> /\ All' = All /\ Env' = Env
    BY <1>7, SameWork DEF vars
  <2>2. OnlyPrompts' <=> OnlyPrompts
    BY <2>1 DEF OnlyPrompts
  <2>3. (Starts' <=> Starts) /\ (\A states : Up(states)' <=> Up(states))
    BY <2>1 DEF Starts, Rest, Up
  <2>4. Restoring' <=> Restoring
    BY <2>1, <2>2, <2>3 DEF Restoring, Shell, Up, Sits
  <2> QED BY <1>2, <2>1, <2>2, <2>4 DEF QRestore
<1> QED BY <1>2, <1>3, <1>4, <1>5, <1>6, <1>7 DEF Next

(* A restore begins with the seat environment, with the command that       *)
(* starts the agent, or with the wait for cmux.                            *)
LEMMA RestoreBegins ==
  ASSUME Control, result = "running", job.verb = "restore", todo = Steps(job)
  PROVE  /\ Head(todo) \in {"env", "start", "resume", "native"}
         /\ Head(todo) \in {"start", "resume"} => Env = <<>>
<1>1. job \in Jobs /\ Head(todo) \in Command /\ Rest(job) \in Nat
  BY HeadIs, CommandPlaces DEF Control, Rest
<1>2. Len(todo) = Rest(job) + (IF job.native THEN 1 ELSE (IF job.seat THEN 2 ELSE 0) + IF job.mux = "herdr" THEN 1 ELSE 2)
  BY <1>1, RestorePlan
<1>3. Len(todo) > Rest(job) /\ Len(todo) # Rest(job) - 1
  BY <1>1, <1>2
<1>4. job.prompt => Len(todo) > 3 /\ (job.mux # "herdr" => Len(todo) > 4)
  BY <1>3, <1>1, RestoreJobs
<1>5. Head(todo) \notin {"exit", "gone", "idle", "clear", "text", "submit", "prompt"}
  <2>1. Len(todo) # Rest(job) /\ Len(todo) # Rest(job) - 1 /\ (job.prompt => Len(todo) # 1 /\ Len(todo) # 2)
    BY <1>1, <1>2, <1>4
  <2> QED BY <2>1, RestoreHeads
<1>6. Head(todo) # "enter"
  <2> SUFFICES ASSUME Head(todo) = "enter" PROVE FALSE
    OBVIOUS
  <2>1. CASE Starts
    <3>1. Len(todo) = Rest(job) + 1 /\ job.mux # "herdr" /\ ~job.native
      BY <2>1, RestoreHeads DEF Starts
    <3> QED BY <1>1, <1>2, <3>1
  <2>2. CASE ~Starts
    <3>1. job.seat /\ ~job.native /\ Len(todo) = Rest(job) + IF job.mux = "herdr" THEN 2 ELSE 3
      BY <2>2, RestoreHeads
    <3> QED BY <1>1, <1>2, <3>1
  <2> QED BY <2>1, <2>2
<1>7. Head(todo) \in {"start", "resume"} => Env = <<>>
  <2>1. CASE Head(todo) = "start"
    <3>1. Len(todo) = Rest(job) + 1 /\ job.mux = "herdr" /\ ~job.native
      BY <2>1, RestoreHeads DEF Starts
    <3>2. ~job.seat
      BY <1>1, <1>2, <3>1
    <3> QED BY <3>2 DEF Env
  <2>2. CASE Head(todo) = "resume"
    <3>1. Len(todo) = Rest(job) + 2 /\ job.mux # "herdr" /\ ~job.native
      BY <2>2, RestoreHeads
    <3>2. ~job.seat
      BY <1>1, <1>2, <3>1
    <3> QED BY <3>2 DEF Env
  <2> QED BY <2>1, <2>2
<1> QED BY <1>1, <1>5, <1>6, <1>7 DEF Command

LEMMA InitRestores ==
  Init => QRestore
<1> SUFFICES ASSUME Init, job.verb = "restore" PROVE QRestore
  BY DEF QRestore
<1>1. Control /\ result = "running" /\ todo = Steps(job) /\ i = 1
  BY InitTells DEF Init, TInv
<1>2. Shell(<<>>, <<>>)
  BY DEF Init, Shell
<1>3. i <= FallbackAt
  <2>1. Polls \div 3 \in Nat
    BY BoundsAssumption
  <2> QED BY <1>1, <2>1 DEF FallbackAt
<1>4. Restoring
  BY <1>1, <1>2, <1>3, RestoreBegins DEF Restoring
<1> QED BY <1>1, <1>4 DEF QRestore

(* Left alone, an agent comes back with its seat environment set first,    *)
(* started once, and is told its prompt and nothing else; where the prompt *)
(* reads like a dialog it is typed and not submitted.  It takes a cmux     *)
(* that resumes its agents, when it does so in time, before Watchbill      *)
(* would type the command, and a wait that lasts longer than that.         *)
THEOREM QuietRestoreWorksHolds ==
  ASSUME CmuxBy < FallbackAt, FallbackAt < Polls
  PROVE  Spec => []QuietRestoreWorks
<1>1. TInv /\ QRestore => QuietRestoreWorks
  <2> SUFFICES ASSUME TInv, QRestore, job.verb = "restore", Quiet, result # "running" PROVE QuietRestoreWorks
    BY DEF QuietRestoreWorks
  <2>1. result \in {"ok", "failed"} /\ job \in Jobs
    BY DEF TInv, Control
  <2>2. /\ result = "ok" => ~job.wordy /\ (job.prompt => pane.got # <<>>)
        /\ result = "failed" => job.wordy
        /\ pane.ran = All /\ OnlyPrompts
    BY DEF QRestore
  <2>3. {pane.got[n] : n \in DOMAIN pane.got} \subseteq {<<"prompt">>}
    BY <2>2 DEF OnlyPrompts
  <2>4. pane.got # <<>> => <<"prompt">> \in {pane.got[n] : n \in DOMAIN pane.got}
    <3>1. pane.got \in Seq(Seq(Text))
      BY PaneFields DEF TInv, IInv, Messages
    <3>2. pane.got # <<>> => 1 \in DOMAIN pane.got
      BY <3>1, EmptySeq, LenProperties
    <3> QED BY <2>2, <3>2 DEF OnlyPrompts
  <2>5. result = "ok" <=> ~job.wordy
    BY <2>1, <2>2
  <2> QED BY <2>2, <2>3, <2>4, <2>5 DEF QuietRestoreWorks, All, Env
<1>2. TInv /\ QRestore /\ [Next]_vars => QRestore'
  BY NextRestores
<1> QED BY <1>1, <1>2, InitRestores, Told, PTL DEF Spec

=============================================================================
