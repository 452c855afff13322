------------------------------ MODULE Executor ------------------------------
(***************************************************************************)
(* One run of exec.Executor over one plan.  The steps run in plan order.   *)
(* A step is first attempted (_run_step: its effect on the host, and the   *)
(* marks a JOURNAL step appends) and then recorded in the journal, so the  *)
(* process may be killed between the two.  Whether a command succeeds is   *)
(* the environment's choice.                                               *)
(***************************************************************************)
EXTENDS Plan

CONSTANTS
  Plans,     \* the plans this run may be given
  NoHost     \* the host of a journal line that is about none (None)

ASSUME PlansAssumption == Plans \subseteq PlanRecord
(* A planner writes the mark of a host after the host's occupants: what    *)
(* follows it on that host (a viewport split for another host) is about    *)
(* none of them.                                                           *)
ASSUME MarkAssumption ==
  \A p \in Plans : \A k, m \in DOMAIN p.steps :
    k < m /\ p.steps[k].op = "set-complete" /\ p.steps[m].host = p.steps[k].host
      => p.steps[m].slot = NoSlot
ASSUME NoHostAssumption == NoHost \notin Host

VARIABLES
  plan,          \* the plan under execution
  run,           \* its run_id: a new ULID for every run, so a new number
  pos,           \* index of the step under consideration; 0 before the checks
  attempt,       \* "none", or the outcome of the step attempted and not yet recorded
  failedHosts,   \* exec.run's failed_hosts
  failedSlots,   \* exec._failed_slots, per host
  result,        \* ExecResult's counts
  code,          \* "running", the exit code, or "crashed"
  journal        \* journal.jsonl: one entry per line, across runs

vars == <<plan, run, pos, attempt, failedHosts, failedSlots, result, code, journal>>

Status == {"dry-run", "ok", "fail", "skipped", "refused", "set-complete", "set-partial", "host-start"}

Entry == [run : Nat, verb : Verb, host : Host \cup {NoHost}, step : Nat, status : Status]

Code == {"running", "OK", "PARTIAL", "REFUSED", "TRANSPORT", "crashed"}

Line(host, step, status) ==
  [run |-> run, verb |-> plan.verb, host |-> host, step |-> step, status |-> status]

This == plan.steps[pos]

Length == Len(plan.steps)

NoFailedSlots == [h \in Host |-> {}]

Count == {"ran", "dry", "skipped", "failed"}

ZeroResult == [c \in Count |-> 0]

Init ==
  /\ plan \in Plans
  /\ run = 1
  /\ pos = 0
  /\ attempt = "none"
  /\ failedHosts = {}
  /\ failedSlots = NoFailedSlots
  /\ result = ZeroResult
  /\ code = "running"
  /\ journal = << >>

-----------------------------------------------------------------------------
(* A plan with a forbidden verb, or with a refusal, runs nothing.  One     *)
(* journal line stands for the lines written, one per reason.              *)
Refuse ==
  /\ code = "running" /\ pos = 0
  /\ Violations(plan) # {} \/ plan.refused
  /\ journal' = Append(journal, Line(NoHost, 0, "refused"))
  /\ code' = "REFUSED"
  /\ UNCHANGED <<plan, run, pos, attempt, failedHosts, failedSlots, result>>

Admit ==
  /\ code = "running" /\ pos = 0
  /\ Violations(plan) = {} /\ ~plan.refused
  /\ pos' = 1
  /\ UNCHANGED <<plan, run, attempt, failedHosts, failedSlots, result, code, journal>>

AtStep == code = "running" /\ pos \in 1..Length /\ attempt = "none"

(* Wrong: a failed occupant is forgotten. *)
SlotForgotten == FALSE

HostOut == This.host \in failedHosts
SlotOut == This.slot # NoSlot /\ This.slot \in failedSlots[This.host]

(* A step of a failed host, or of an occupant that already failed. *)
Skip ==
  /\ AtStep
  /\ HostOut \/ SlotOut
  /\ result' = [result EXCEPT !["skipped"] = @ + 1]
  /\ journal' = Append(journal, Line(This.host, pos, "skipped"))
  /\ pos' = pos + 1
  /\ UNCHANGED <<plan, run, attempt, failedHosts, failedSlots, code>>

DryRun ==
  /\ AtStep
  /\ ~HostOut /\ ~SlotOut
  /\ ~Scheduled(plan, This)
  /\ result' = [result EXCEPT !["dry"] = @ + 1]
  /\ journal' = Append(journal, Line(This.host, pos, "dry-run"))
  /\ pos' = pos + 1
  /\ UNCHANGED <<plan, run, attempt, failedHosts, failedSlots, code>>

(* Wrong: the mark does not look at the failed occupants. *)
MarksBlindly(s) ==
  CASE s.op = "set-complete" -> {"set-complete"}
    [] s.op = "host-start" -> {"host-start"}
    [] s.kind = "check" -> {"none", "ok"}
    [] OTHER -> {"none"}

(* Wrong: the failed occupants are not kept per host. *)
MarksFleetwide(s) ==
  CASE s.op = "set-complete" ->
         {IF \A h \in Host : failedSlots[h] = {} THEN "set-complete" ELSE "set-partial"}
    [] s.op = "host-start" -> {"host-start"}
    [] s.kind = "check" -> {"none", "ok"}
    [] OTHER -> {"none"}

(* What _run_step itself writes: the mark of a JOURNAL step, which is      *)
(* set-partial when an occupant of the host was not restored, and for a    *)
(* configuration check perhaps an extra "ok" line that reports drift.      *)
Marks(s) ==
  CASE s.op = "set-complete" -> {IF failedSlots[s.host] = {} THEN "set-complete" ELSE "set-partial"}
    [] s.op = "host-start" -> {"host-start"}
    [] s.kind = "check" -> {"none", "ok"}
    [] OTHER -> {"none"}

Attempt ==
  /\ AtStep
  /\ ~HostOut /\ ~SlotOut
  /\ Scheduled(plan, This)
  /\ attempt' \in IF CanFail(This) THEN {"ok", "fail"} ELSE {"ok"}
  /\ \E m \in Marks(This) :
       journal' = IF m = "none" THEN journal ELSE Append(journal, Line(This.host, pos, m))
  /\ UNCHANGED <<plan, run, pos, failedHosts, failedSlots, result, code>>

(* Wrong: the outcome of a step is left over for the next. *)
RecordOkKept ==
  /\ code = "running" /\ attempt = "ok"
  /\ result' = [result EXCEPT !["ran"] = @ + 1]
  /\ journal' = Append(journal, Line(This.host, pos, "ok"))
  /\ pos' = pos + 1
  /\ UNCHANGED <<plan, run, attempt, failedHosts, failedSlots, code>>

RecordOk ==
  /\ code = "running" /\ attempt = "ok"
  /\ result' = [result EXCEPT !["ran"] = @ + 1]
  /\ journal' = Append(journal, Line(This.host, pos, "ok"))
  /\ pos' = pos + 1
  /\ attempt' = "none"
  /\ UNCHANGED <<plan, run, failedHosts, failedSlots, code>>

(* Wrong: a failed step that costs nothing is never passed over. *)
RecordFatalOnly ==
  /\ code = "running" /\ attempt = "fail"
  /\ SlotFatal(This) \/ HostFatal(This)
  /\ result' = [result EXCEPT !["failed"] = @ + 1]
  /\ journal' = Append(journal, Line(This.host, pos, "fail"))
  /\ failedSlots' = IF SlotFatal(This)
                      THEN [failedSlots EXCEPT ![This.host] = @ \cup {This.slot}]
                      ELSE failedSlots
  /\ failedHosts' = IF HostFatal(This) THEN failedHosts \cup {This.host} ELSE failedHosts
  /\ pos' = pos + 1
  /\ attempt' = "none"
  /\ UNCHANGED <<plan, run, code>>

(* A failed restore step costs its occupant; any other failed mutation,    *)
(* wait or check costs the host.                                           *)
RecordFail ==
  /\ code = "running" /\ attempt = "fail"
  /\ result' = [result EXCEPT !["failed"] = @ + 1]
  /\ journal' = Append(journal, Line(This.host, pos, "fail"))
  /\ failedSlots' = IF SlotFatal(This)
                      THEN [failedSlots EXCEPT ![This.host] = @ \cup {This.slot}]
                      ELSE failedSlots
  /\ failedHosts' = IF HostFatal(This) THEN failedHosts \cup {This.host} ELSE failedHosts
  /\ pos' = pos + 1
  /\ attempt' = "none"
  /\ UNCHANGED <<plan, run, code>>

(* Wrong: one lost host makes the whole run a transport failure. *)
FinishGivesUp ==
  /\ code = "running" /\ pos = Length + 1
  /\ code' = IF result["failed"] = 0 THEN "OK"
             ELSE IF failedHosts = {} THEN "PARTIAL" ELSE "TRANSPORT"
  /\ UNCHANGED <<plan, run, pos, attempt, failedHosts, failedSlots, result, journal>>

(* Wrong: only lost hosts count as failures. *)
FinishForgetsSlots ==
  /\ code = "running" /\ pos = Length + 1
  /\ code' = IF failedHosts = {} THEN "OK"
             ELSE IF Worked(plan) \ failedHosts # {} THEN "PARTIAL" ELSE "TRANSPORT"
  /\ UNCHANGED <<plan, run, pos, attempt, failedHosts, failedSlots, result, journal>>

(* The exit code: 0, or when something failed 1 while some host that had   *)
(* work is not lost, and 4 when all are.                                   *)
Finish ==
  /\ code = "running" /\ pos = Length + 1
  /\ code' = IF result["failed"] = 0 THEN "OK"
             ELSE IF Worked(plan) \ failedHosts # {} THEN "PARTIAL" ELSE "TRANSPORT"
  /\ UNCHANGED <<plan, run, pos, attempt, failedHosts, failedSlots, result, journal>>

(* The process is killed, or the journal cannot be written. *)
Crash ==
  /\ code = "running"
  /\ code' = "crashed"
  /\ UNCHANGED <<plan, run, pos, attempt, failedHosts, failedSlots, result, journal>>

Progress == Refuse \/ Admit \/ Skip \/ DryRun \/ Attempt \/ RecordOk \/ RecordFail \/ Finish

(* The run is over: nothing more happens in this module. *)
Done == code # "running" /\ UNCHANGED vars

Next == Progress \/ Crash \/ Done

(* Every command exec runs has a timeout derived from the step             *)
(* (step_timeout), so an attempt always comes to an outcome.               *)
Spec == Init /\ [][Next]_vars /\ WF_vars(Progress)

-----------------------------------------------------------------------------
TypeOK ==
  /\ plan \in PlanRecord
  /\ run \in Nat
  /\ pos \in 0..(Length + 1)
  /\ attempt \in {"none", "ok", "fail"}
  /\ attempt # "none" => pos \in 1..Length
  /\ failedHosts \subseteq Host
  /\ failedSlots \in [Host -> SUBSET Slot]
  /\ result \in [Count -> Nat]
  /\ code \in Code
  /\ journal \in Seq(Entry)

(* Step k of this run has a journal line with this status. *)
Logged(k, status) ==
  \E i \in DOMAIN journal :
    journal[i].run = run /\ journal[i].step = k /\ journal[i].status = status

SameHost(k, m) == plan.steps[k].host = plan.steps[m].host
SameSlot(k, m) == plan.steps[k].slot = plan.steps[m].slot

(* Once a step that the host depends on has failed, every later step of    *)
(* that host is skipped; once a restore step of an occupant has failed,    *)
(* every later step of that occupant on that host is: a failed stop is     *)
(* never followed by a restart, a failed start never by a prompt.          *)
FailStop ==
  \A k, m \in 1..Length :
    k < m /\ SameHost(k, m) /\ Logged(k, "fail")
      => /\ HostFatal(plan.steps[k]) => \A st \in Status : Logged(m, st) => st = "skipped"
         /\ SlotFatal(plan.steps[k]) /\ SameSlot(k, m)
              => \A st \in Status : Logged(m, st) => st = "skipped"

(* A host is marked set-complete only after every step the plan has for it *)
(* before the mark was run and succeeded, tolerated probes apart.          *)
(* relieve --resume leaves a host alone on the strength of this mark.      *)
CompleteIsHonest ==
  \A k \in 1..Length :
    Logged(k, "set-complete") =>
      \A m \in 1..(k - 1) :
        SameHost(m, k) =>
          IF Tolerated(plan.steps[m]) THEN Logged(m, "ok") \/ Logged(m, "fail")
                                      ELSE Logged(m, "ok") /\ ~Logged(m, "fail")

(* set-partial is written only over an occupant that really failed, and a  *)
(* host whose occupant failed never gets set-complete after that.          *)
PartialIsHonest ==
  \A k \in 1..Length :
    Logged(k, "set-partial") =>
      \E m \in 1..(k - 1) : SameHost(m, k) /\ SlotFatal(plan.steps[m]) /\ Logged(m, "fail")

(* The exit code says what the journal says.  0: every scheduled step was  *)
(* run and succeeded.  1 and 4: something failed; 4 only when every host   *)
(* with work of its own was given up, 1 only when one was not, as          *)
(* architecture.md has it (exec.py's own docstring speaks of 4 after any   *)
(* failed step).  3: no step was looked at.                                *)
GivenUp(h) ==
  \E k \in 1..Length : plan.steps[k].host = h /\ HostFatal(plan.steps[k]) /\ Logged(k, "fail")

ExitTellsTruth ==
  /\ code = "OK" =>
       \A k \in 1..Length :
         ~Logged(k, "fail") /\ (Scheduled(plan, plan.steps[k]) => Logged(k, "ok"))
  /\ code \in {"PARTIAL", "TRANSPORT"} => \E k \in 1..Length : Logged(k, "fail")
  /\ code = "TRANSPORT" => \A h \in Worked(plan) : GivenUp(h)
  /\ code = "PARTIAL" => \E h \in Worked(plan) : ~GivenUp(h)
  /\ code = "REFUSED" => \A k \in 1..Length, st \in Status : ~Logged(k, st)

(* What a window promises about its hosts, read off the journal and exec's *)
(* own state: the first mark of a host is its verdict, and a host given up *)
(* before it got one has failed.                                           *)
Marked(h, status) == \E k \in 1..Length : plan.steps[k].host = h /\ Logged(k, status)

Verdict(h) == IF Marked(h, "set-complete") THEN "complete"
              ELSE IF Marked(h, "set-partial") THEN "partial"
              ELSE IF h \in failedHosts THEN "failed" ELSE "open"

Window == INSTANCE RollingWindow
            WITH verdict <- [h \in Host |-> Verdict(h)], lost <- failedSlots, exit <- code

(* The executor implements that promise: every step of a run is a step of  *)
(* RollingWindow or leaves its state alone.                                *)
KeepsPromise == Window!Spec

-----------------------------------------------------------------------------
(* What makes the properties above inductive: the sets exec keeps in       *)
(* memory say exactly what the journal says, and every step passed over    *)
(* has left a line that explains it.                                       *)
LinesAreOurs ==
  \A k \in 0..(Length + 1), st \in Status :
    Logged(k, st) =>
      /\ k <= pos
      /\ k = pos /\ k # 0 => attempt # "none" /\ st \in {"ok", "set-complete", "set-partial", "host-start"}
      /\ k = 0 => st = "refused"

MemoryIsJournal ==
  /\ \A h \in Host : h \in failedHosts <=> GivenUp(h)
  /\ \A h \in Host, s \in Slot :
       s \in failedSlots[h] <=>
         \E k \in 1..Length : /\ plan.steps[k].host = h /\ plan.steps[k].slot = s
                              /\ SlotFatal(plan.steps[k]) /\ Logged(k, "fail")
  /\ result["failed"] = 0 <=> \A k \in 1..Length : ~Logged(k, "fail")

OutOf(k) ==
  \/ plan.steps[k].host \in failedHosts
  \/ plan.steps[k].slot # NoSlot /\ plan.steps[k].slot \in failedSlots[plan.steps[k].host]

StepsExplained ==
  \A k \in 1..Length :
    /\ k < pos => \E st \in {"ok", "fail", "skipped", "dry-run"} : Logged(k, st)
    /\ Logged(k, "skipped") => OutOf(k)
    /\ Logged(k, "dry-run") => ~Scheduled(plan, plan.steps[k])
    /\ Logged(k, "set-complete") \/ Logged(k, "set-partial") => plan.steps[k].op = "set-complete"

AttemptAllowed ==
  /\ attempt # "none" => ~OutOf(pos) /\ Scheduled(plan, This)
  /\ attempt = "fail" => CanFail(This)

CodeIsEarned ==
  /\ code \in {"OK", "PARTIAL", "TRANSPORT"} => pos = Length + 1 /\ attempt = "none"
  /\ code = "REFUSED" => pos = 0

IInv ==
  /\ TypeOK /\ LinesAreOurs /\ MemoryIsJournal /\ StepsExplained /\ AttemptAllowed
  /\ CodeIsEarned /\ FailStop /\ CompleteIsHonest /\ PartialIsHonest /\ ExitTellsTruth

(* Every run ends: with an exit code, unless the process is killed. *)
Terminates == <>(code # "running")

=============================================================================
