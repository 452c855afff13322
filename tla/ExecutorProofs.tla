---------------------------- MODULE ExecutorProofs ----------------------------
(***************************************************************************)
(* Proofs about Executor, for every set of plans, hosts and occupants.     *)
(***************************************************************************)
EXTENDS Executor, TLAPS

(* A step of a plan has the fields exec reads. *)
LEMMA StepFields ==
  ASSUME plan \in PlanRecord, NEW k \in 1..Length
  PROVE  /\ plan.steps[k] \in Step
         /\ plan.steps[k].op \in Op
         /\ plan.steps[k].kind \in Kind
         /\ plan.steps[k].host \in Host
         /\ plan.steps[k].slot \in Slot \cup {NoSlot}
         /\ plan.steps[k].mutating \in BOOLEAN
         /\ plan.steps[k].restore \in BOOLEAN
         /\ plan.steps[k].kind = "journal" <=> plan.steps[k].op \in {"host-start", "set-complete", "ids"}
         /\ plan.steps[k].kind = "journal" => plan.steps[k].mutating /\ plan.steps[k].slot = NoSlot
<1>1. plan.steps[k] \in Step
  BY DEF PlanRecord, Length
<1> QED
  BY <1>1, StepAssumption

(* Lengths are numbers, so indices can be compared. *)
LEMMA LengthNat ==
  ASSUME plan \in PlanRecord
  PROVE  Length \in Nat
BY DEF PlanRecord, Length

(* Appending one line of this run logs exactly that line. *)
LEMMA NewLine ==
  ASSUME journal \in Seq(Entry), run \in Nat, plan.verb \in Verb,
         NEW host \in Host \cup {NoHost}, NEW step \in Nat, NEW status \in Status,
         journal' = Append(journal, Line(host, step, status)), run' = run
  PROVE  /\ journal' \in Seq(Entry)
         /\ \A k, st : Logged(k, st)' <=> (Logged(k, st) \/ (k = step /\ st = status))
<1> DEFINE e == Line(host, step, status)
<1>1. e \in Entry
  BY DEF Line, Entry
<1>2. /\ e.run = run
      /\ e.step = step
      /\ e.status = status
  BY DEF Line
<1> HIDE DEF e
<1>3. /\ journal' \in Seq(Entry)
      /\ DOMAIN journal' = DOMAIN journal \cup {Len(journal) + 1}
      /\ journal'[Len(journal) + 1] = e
      /\ \A i \in DOMAIN journal : journal'[i] = journal[i]
  BY <1>1 DEF e
<1>4. ASSUME NEW k, NEW st
      PROVE  Logged(k, st)' <=> (Logged(k, st) \/ (k = step /\ st = status))
  BY <1>2, <1>3 DEF Logged
<1> QED
  BY <1>3, <1>4

(* What does not touch the journal logs nothing. *)
LEMMA NoLine ==
  ASSUME journal' = journal, run' = run
  PROVE  \A k, st : Logged(k, st)' <=> Logged(k, st)
BY DEF Logged

-----------------------------------------------------------------------------
LEMMA InitInv == Init => IInv
<1> SUFFICES ASSUME Init PROVE IInv
  OBVIOUS
<1>1. plan \in PlanRecord /\ Length \in Nat
  BY PlansAssumption, LengthNat DEF Init
<1>2. \A k, st : ~Logged(k, st)
  BY DEF Init, Logged
<1>3. TypeOK
  BY <1>1 DEF Init, TypeOK, NoFailedSlots, ZeroResult, Count, Code
<1>4. LinesAreOurs /\ StepsExplained /\ FailStop /\ CompleteIsHonest /\ PartialIsHonest
  BY <1>1, <1>2 DEF Init, LinesAreOurs, StepsExplained, FailStop, CompleteIsHonest, PartialIsHonest
<1>5. MemoryIsJournal
  BY <1>2 DEF Init, MemoryIsJournal, GivenUp, NoFailedSlots, ZeroResult, Count
<1>6. AttemptAllowed /\ CodeIsEarned /\ ExitTellsTruth
  BY DEF Init, AttemptAllowed, CodeIsEarned, ExitTellsTruth
<1> QED
  BY <1>3, <1>4, <1>5, <1>6 DEF IInv

(* A step passed over with one line: the line says why it was not run. *)
LEMMA PassOver ==
  ASSUME IInv, AtStep, NEW st \in {"skipped", "dry-run"},
         st = "skipped" => OutOf(pos),
         st = "dry-run" => ~OutOf(pos) /\ ~Scheduled(plan, This),
         journal' = Append(journal, Line(This.host, pos, st)),
         pos' = pos + 1,
         result' \in [Count -> Nat],
         result'["failed"] = result["failed"],
         UNCHANGED <<plan, run, attempt, failedHosts, failedSlots, code>>
  PROVE  IInv'
<1>0. /\ TypeOK /\ LinesAreOurs /\ MemoryIsJournal /\ StepsExplained /\ AttemptAllowed
      /\ CodeIsEarned /\ FailStop /\ CompleteIsHonest /\ PartialIsHonest /\ ExitTellsTruth
  BY DEF IInv
<1>1. /\ plan \in PlanRecord /\ run \in Nat /\ pos \in 1..Length /\ Length \in Nat
      /\ code = "running" /\ attempt = "none" /\ journal \in Seq(Entry) /\ plan.verb \in Verb
      /\ This = plan.steps[pos] /\ st \in Status /\ pos \in Nat
  BY <1>0, LengthNat DEF AtStep, TypeOK, This, PlanRecord, Status
<1>2. This.host \in Host /\ This.slot \in Slot \cup {NoSlot} /\ This \in Step
  BY <1>1, StepFields
<1>3. /\ journal' \in Seq(Entry)
      /\ \A k, s : Logged(k, s)' <=> (Logged(k, s) \/ (k = pos /\ s = st))
  BY <1>1, <1>2, NewLine
<1>4. Length' = Length /\ plan' = plan
  BY DEF Length
<1>5. TypeOK'
  BY <1>0, <1>1, <1>3, <1>4 DEF TypeOK
<1>6. \A s \in Status : ~Logged(pos, s)
  BY <1>0, <1>1 DEF LinesAreOurs
<1>7. LinesAreOurs'
  BY <1>0, <1>1, <1>3, <1>4 DEF LinesAreOurs
<1>8. \A k : Logged(k, "fail")' <=> Logged(k, "fail")
  BY <1>3
<1>9. (\A h : GivenUp(h)' <=> GivenUp(h)) /\ MemoryIsJournal'
  BY <1>0, <1>4, <1>8 DEF MemoryIsJournal, GivenUp
<1>10. \A k : OutOf(k)' <=> OutOf(k)
  BY <1>4 DEF OutOf
<1>11. StepsExplained'
  <2> SUFFICES ASSUME NEW k \in 1..Length
               PROVE  /\ k < pos' => \E s \in {"ok", "fail", "skipped", "dry-run"} : Logged(k, s)'
                      /\ Logged(k, "skipped")' => OutOf(k)
                      /\ Logged(k, "dry-run")' => ~Scheduled(plan, plan.steps[k])
                      /\ Logged(k, "set-complete")' \/ Logged(k, "set-partial")'
                           => plan.steps[k].op = "set-complete"
    BY <1>4, <1>10 DEF StepsExplained
  <2>1. CASE k = pos
    BY <1>0, <1>1, <1>3, <1>6, <2>1 DEF StepsExplained
  <2>2. CASE k # pos
    <3>1. k < pos' => k < pos
      BY <1>1, <2>2
    <3> QED
      BY <1>0, <1>3, <2>2, <3>1 DEF StepsExplained
  <2> QED
    BY <2>1, <2>2
<1>12. AttemptAllowed' /\ CodeIsEarned'
  BY <1>1, <1>4 DEF AttemptAllowed, CodeIsEarned
<1>13. FailStop'
  <2>1. SUFFICES ASSUME NEW k \in 1..Length, NEW m \in 1..Length, k < m, SameHost(k, m), Logged(k, "fail"),
                        NEW s \in Status, Logged(m, s)',
                        HostFatal(plan.steps[k]) \/ (SlotFatal(plan.steps[k]) /\ SameSlot(k, m))
                 PROVE  s = "skipped"
    BY <1>4, <1>8 DEF FailStop, SameHost, SameSlot
  <2>2. CASE Logged(m, s)
    BY <1>0, <2>1, <2>2 DEF FailStop
  <2>3. CASE m = pos /\ s = st
    <3>1. OutOf(pos)
      BY <1>0, <1>1, <1>2, <2>1, <2>3, StepFields
         DEF MemoryIsJournal, GivenUp, OutOf, SameHost, SameSlot, SlotFatal
    <3> QED
      BY <2>3, <3>1
  <2> QED
    BY <1>3, <2>1, <2>2, <2>3
<1>14. CompleteIsHonest' /\ PartialIsHonest'
  BY <1>0, <1>3, <1>4 DEF CompleteIsHonest, PartialIsHonest, SameHost
<1>15. ExitTellsTruth'
  BY <1>1 DEF ExitTellsTruth
<1> QED
  BY <1>5, <1>7, <1>9, <1>11, <1>12, <1>13, <1>14, <1>15 DEF IInv

LEMMA SkipInv == IInv /\ Skip => IInv'
<1> SUFFICES ASSUME IInv, Skip PROVE IInv'
  OBVIOUS
<1>1. AtStep /\ OutOf(pos)
  BY DEF Skip, HostOut, SlotOut, OutOf, This
<1>2. /\ result' \in [Count -> Nat]
      /\ result'["failed"] = result["failed"]
  BY DEF Skip, IInv, TypeOK, Count
<1> QED
  BY <1>1, <1>2, PassOver DEF Skip

LEMMA DryRunInv == IInv /\ DryRun => IInv'
<1> SUFFICES ASSUME IInv, DryRun PROVE IInv'
  OBVIOUS
<1>1. AtStep /\ ~OutOf(pos) /\ ~Scheduled(plan, This)
  BY DEF DryRun, HostOut, SlotOut, OutOf, This
<1>2. /\ result' \in [Count -> Nat]
      /\ result'["failed"] = result["failed"]
  BY DEF DryRun, IInv, TypeOK, Count
<1> QED
  BY <1>1, <1>2, PassOver DEF DryRun

(* Actions that log no step keep everything that is about lines of steps. *)
LEMMA Kept ==
  ASSUME IInv, plan' = plan, failedHosts' = failedHosts, failedSlots' = failedSlots,
         result' = result, \A k \in 1..Length : \A st : Logged(k, st)' <=> Logged(k, st)
  PROVE  /\ Length' = Length
         /\ \A h : GivenUp(h)' <=> GivenUp(h)
         /\ \A k : OutOf(k)' <=> OutOf(k)
         /\ MemoryIsJournal' /\ FailStop' /\ CompleteIsHonest' /\ PartialIsHonest'
<1>0. MemoryIsJournal /\ FailStop /\ CompleteIsHonest /\ PartialIsHonest /\ Length \in Nat
  BY LengthNat DEF IInv, TypeOK
<1>1. Length' = Length
  BY DEF Length
<1>2. \A h : GivenUp(h)' <=> GivenUp(h)
  BY <1>1 DEF GivenUp
<1>3. \A k : OutOf(k)' <=> OutOf(k)
  BY DEF OutOf
<1>4. MemoryIsJournal'
  BY <1>0, <1>1, <1>2 DEF MemoryIsJournal
<1>5. FailStop'
  BY <1>0, <1>1 DEF FailStop, SameHost, SameSlot
<1>6. CompleteIsHonest' /\ PartialIsHonest'
  <2>1. \A k \in 1..Length : \A m \in 1..(k - 1) : m \in 1..Length
    BY <1>0
  <2> QED
    BY <1>0, <1>1, <2>1 DEF CompleteIsHonest, PartialIsHonest, SameHost
<1> QED
  BY <1>1, <1>2, <1>3, <1>4, <1>5, <1>6

LEMMA RefuseInv == IInv /\ Refuse => IInv'
<1> SUFFICES ASSUME IInv, Refuse PROVE IInv'
  OBVIOUS
<1>0. /\ TypeOK /\ LinesAreOurs /\ StepsExplained /\ AttemptAllowed /\ Length \in Nat
      /\ pos = 0 /\ plan' = plan /\ run' = run /\ attempt = "none"
      /\ plan.verb \in Verb
  BY LengthNat DEF IInv, TypeOK, Refuse, PlanRecord
<1>1. /\ journal' \in Seq(Entry)
      /\ \A k, s : Logged(k, s)' <=> (Logged(k, s) \/ (k = 0 /\ s = "refused"))
  BY <1>0, NewLine DEF Refuse, TypeOK, Status
<1>2. \A k \in 1..Length : \A st : Logged(k, st)' <=> Logged(k, st)
  BY <1>0, <1>1
<1>3. /\ Length' = Length /\ \A k : OutOf(k)' <=> OutOf(k)
      /\ MemoryIsJournal' /\ FailStop' /\ CompleteIsHonest' /\ PartialIsHonest'
  BY <1>2, Kept DEF Refuse
<1>4. TypeOK'
  BY <1>0, <1>1, <1>3 DEF TypeOK, Refuse, Code
<1>5. LinesAreOurs'
  BY <1>0, <1>1, <1>3 DEF LinesAreOurs, Refuse
<1>6. StepsExplained'
  BY <1>0, <1>2, <1>3 DEF StepsExplained, Refuse
<1>7. AttemptAllowed' /\ CodeIsEarned'
  BY <1>0 DEF AttemptAllowed, CodeIsEarned, Refuse
<1>8. \A k \in 1..Length, st \in Status : ~Logged(k, st)
  BY <1>0 DEF LinesAreOurs
<1>9. ExitTellsTruth'
  BY <1>2, <1>3, <1>8 DEF ExitTellsTruth, Refuse
<1> QED
  BY <1>3, <1>4, <1>5, <1>6, <1>7, <1>9 DEF IInv

LEMMA AdmitInv == IInv /\ Admit => IInv'
<1> SUFFICES ASSUME IInv, Admit PROVE IInv'
  OBVIOUS
<1>0. /\ TypeOK /\ LinesAreOurs /\ StepsExplained /\ AttemptAllowed /\ Length \in Nat
      /\ pos = 0 /\ pos' = 1 /\ plan' = plan /\ run' = run /\ attempt = "none" /\ attempt' = "none"
      /\ code = "running" /\ code' = "running"
  BY LengthNat DEF IInv, TypeOK, Admit
<1>1. \A k, s : Logged(k, s)' <=> Logged(k, s)
  BY NoLine DEF Admit
<1>2. /\ Length' = Length /\ \A k : OutOf(k)' <=> OutOf(k)
      /\ MemoryIsJournal' /\ FailStop' /\ CompleteIsHonest' /\ PartialIsHonest'
  BY <1>1, Kept DEF Admit
<1>3. TypeOK'
  BY <1>0, <1>2 DEF TypeOK, Admit
<1>4. LinesAreOurs'
  BY <1>0, <1>1, <1>2 DEF LinesAreOurs
<1>5. StepsExplained'
  BY <1>0, <1>1, <1>2 DEF StepsExplained
<1>6. AttemptAllowed' /\ CodeIsEarned' /\ ExitTellsTruth'
  BY <1>0 DEF AttemptAllowed, CodeIsEarned, ExitTellsTruth
<1> QED
  BY <1>2, <1>3, <1>4, <1>5, <1>6 DEF IInv

LEMMA CrashInv == IInv /\ Crash => IInv'
<1> SUFFICES ASSUME IInv, Crash PROVE IInv'
  OBVIOUS
<1>0. /\ TypeOK /\ LinesAreOurs /\ StepsExplained /\ AttemptAllowed
      /\ plan' = plan /\ run' = run /\ pos' = pos /\ attempt' = attempt /\ code' = "crashed"
  BY DEF IInv, Crash
<1>1. \A k, s : Logged(k, s)' <=> Logged(k, s)
  BY NoLine DEF Crash
<1>2. /\ Length' = Length /\ \A k : OutOf(k)' <=> OutOf(k)
      /\ MemoryIsJournal' /\ FailStop' /\ CompleteIsHonest' /\ PartialIsHonest'
  BY <1>1, Kept DEF Crash
<1>3. TypeOK'
  BY <1>0, <1>2 DEF TypeOK, Crash, Code
<1>4. LinesAreOurs' /\ StepsExplained'
  BY <1>0, <1>1, <1>2 DEF LinesAreOurs, StepsExplained
<1>5. AttemptAllowed' /\ CodeIsEarned' /\ ExitTellsTruth'
  BY <1>0, <1>2 DEF AttemptAllowed, CodeIsEarned, ExitTellsTruth, This
<1> QED
  BY <1>2, <1>3, <1>4, <1>5 DEF IInv

(* A step that is about to run is out of nothing. *)
LEMMA NothingFailedBefore ==
  ASSUME IInv, pos \in 1..Length, ~OutOf(pos), NEW k \in 1..Length, SameHost(k, pos), Logged(k, "fail")
  PROVE  ~HostFatal(plan.steps[k]) /\ ~(SlotFatal(plan.steps[k]) /\ SameSlot(k, pos))
<1>0. MemoryIsJournal /\ plan \in PlanRecord
  BY DEF IInv, TypeOK
<1>1. /\ plan.steps[k].host \in Host /\ plan.steps[k].slot \in Slot \cup {NoSlot}
      /\ plan.steps[pos].host \in Host
  BY <1>0, StepFields
<1>2. ~HostFatal(plan.steps[k])
  BY <1>0, <1>1 DEF MemoryIsJournal, GivenUp, OutOf, SameHost
<1>3. ~(SlotFatal(plan.steps[k]) /\ SameSlot(k, pos))
  BY <1>0, <1>1 DEF MemoryIsJournal, OutOf, SameHost, SameSlot, SlotFatal
<1> QED
  BY <1>2, <1>3

(* A mark written now is about steps that all ran: this is where           *)
(* CompleteIsHonest is earned.                                             *)
LEMMA MarkIsEarned ==
  ASSUME IInv, pos \in 1..Length, ~OutOf(pos), plan.approved, failedSlots[This.host] = {},
         NEW m \in 1..(pos - 1), SameHost(m, pos)
  PROVE  IF Tolerated(plan.steps[m]) THEN Logged(m, "ok") \/ Logged(m, "fail")
                                     ELSE Logged(m, "ok") /\ ~Logged(m, "fail")
<1>0. MemoryIsJournal /\ StepsExplained /\ plan \in PlanRecord /\ Length \in Nat
  BY LengthNat DEF IInv, TypeOK
<1>1. m \in 1..Length /\ m < pos
  BY <1>0
<1>2. plan.steps[m].host = This.host /\ This.host \in Host /\ plan.steps[m].slot \in Slot \cup {NoSlot}
  BY <1>0, <1>1, StepFields DEF SameHost, This
<1>3. ~Logged(m, "dry-run")
  BY <1>0, <1>1 DEF StepsExplained, Scheduled
<1>4. ~OutOf(m)
  BY <1>2 DEF OutOf, This
<1>5. ~Logged(m, "skipped")
  BY <1>0, <1>1, <1>4 DEF StepsExplained
<1>6. Logged(m, "ok") \/ Logged(m, "fail")
  BY <1>0, <1>1, <1>3, <1>5 DEF StepsExplained
<1>7. Logged(m, "fail") => Tolerated(plan.steps[m])
  <2>1. Logged(m, "fail") => ~HostFatal(plan.steps[m])
    BY <1>0, <1>1, <1>2, <1>4 DEF MemoryIsJournal, GivenUp, OutOf
  <2>2. Logged(m, "fail") => ~SlotFatal(plan.steps[m])
    BY <1>0, <1>1, <1>2 DEF MemoryIsJournal, SlotFatal
  <2> QED
    BY <2>1, <2>2 DEF Tolerated
<1> QED
  BY <1>6, <1>7

LEMMA AttemptInv == IInv /\ Attempt => IInv'
<1> SUFFICES ASSUME IInv, Attempt PROVE IInv'
  OBVIOUS
<1>0. /\ TypeOK /\ LinesAreOurs /\ MemoryIsJournal /\ StepsExplained /\ AttemptAllowed
      /\ CodeIsEarned /\ FailStop /\ CompleteIsHonest /\ PartialIsHonest /\ ExitTellsTruth
  BY DEF IInv
<1>1. /\ plan \in PlanRecord /\ run \in Nat /\ pos \in 1..Length /\ Length \in Nat /\ pos \in Nat
      /\ code = "running" /\ attempt = "none" /\ journal \in Seq(Entry) /\ plan.verb \in Verb
      /\ This = plan.steps[pos]
  BY <1>0, LengthNat DEF Attempt, AtStep, TypeOK, This, PlanRecord
<1>2. /\ This.host \in Host /\ This.slot \in Slot \cup {NoSlot} /\ This \in Step
      /\ This.kind = "journal" <=> This.op \in {"host-start", "set-complete", "ids"}
      /\ This.kind = "journal" => This.mutating
  BY <1>1, StepFields
<1>3. ~OutOf(pos) /\ Scheduled(plan, This)
  BY DEF Attempt, HostOut, SlotOut, OutOf, This
<1>4. /\ attempt' \in {"ok", "fail"} /\ (attempt' = "fail" => CanFail(This))
      /\ plan' = plan /\ run' = run /\ pos' = pos /\ code' = code /\ result' = result
      /\ failedHosts' = failedHosts /\ failedSlots' = failedSlots
  BY DEF Attempt
<1>5. PICK m \in Marks(This) :
        journal' = IF m = "none" THEN journal ELSE Append(journal, Line(This.host, pos, m))
  BY DEF Attempt
<1>6. /\ m \in {"none", "ok", "host-start", "set-complete", "set-partial"}
      /\ m = "set-complete" => This.op = "set-complete" /\ failedSlots[This.host] = {}
      /\ m = "set-partial" => This.op = "set-complete" /\ failedSlots[This.host] # {}
  BY <1>5 DEF Marks
<1>7. /\ journal' \in Seq(Entry)
      /\ \A k, s : Logged(k, s)' <=> (Logged(k, s) \/ (m # "none" /\ k = pos /\ s = m))
  <2>1. CASE m = "none"
    BY <1>1, <1>4, <1>5, <2>1, NoLine
  <2>2. CASE m # "none"
    <3>1. m \in Status
      BY <1>6, <2>2 DEF Status
    <3>2. journal' = Append(journal, Line(This.host, pos, m))
      BY <1>5, <2>2
    <3> QED
      BY <1>1, <1>2, <1>4, <2>2, <3>1, <3>2, NewLine
  <2> QED
    BY <2>1, <2>2
<1>8. Length' = Length /\ This' = This /\ \A k : OutOf(k)' <=> OutOf(k)
  BY <1>4 DEF Length, This, OutOf
<1>9. \A k : Logged(k, "fail")' <=> Logged(k, "fail")
  BY <1>6, <1>7
<1>10. TypeOK'
  BY <1>0, <1>1, <1>4, <1>7, <1>8 DEF TypeOK
<1>11. LinesAreOurs'
  BY <1>0, <1>1, <1>4, <1>6, <1>7, <1>8 DEF LinesAreOurs
<1>12. MemoryIsJournal'
  BY <1>0, <1>4, <1>8, <1>9 DEF MemoryIsJournal, GivenUp
<1>13. StepsExplained'
  BY <1>0, <1>1, <1>4, <1>6, <1>7, <1>8 DEF StepsExplained
<1>14. AttemptAllowed' /\ CodeIsEarned' /\ ExitTellsTruth'
  BY <1>1, <1>3, <1>4, <1>8 DEF AttemptAllowed, CodeIsEarned, ExitTellsTruth
<1>15. FailStop'
  <2>1. SUFFICES ASSUME NEW k \in 1..Length, NEW n \in 1..Length, k < n, SameHost(k, n), Logged(k, "fail"),
                        NEW s \in Status, Logged(n, s)',
                        HostFatal(plan.steps[k]) \/ (SlotFatal(plan.steps[k]) /\ SameSlot(k, n))
                 PROVE  s = "skipped"
    BY <1>4, <1>8, <1>9 DEF FailStop, SameHost, SameSlot
  <2>2. n # pos
    BY <1>1, <1>3, <2>1, NothingFailedBefore
  <2> QED
    BY <1>0, <1>7, <2>1, <2>2 DEF FailStop
<1>16. CompleteIsHonest'
  <2>1. SUFFICES ASSUME NEW k \in 1..Length, Logged(k, "set-complete")', NEW n \in 1..(k - 1), SameHost(n, k)
                 PROVE  IF Tolerated(plan.steps[n]) THEN Logged(n, "ok")' \/ Logged(n, "fail")'
                                                    ELSE Logged(n, "ok")' /\ ~Logged(n, "fail")'
    BY <1>4, <1>8 DEF CompleteIsHonest, SameHost
  <2>2. CASE Logged(k, "set-complete")
    BY <1>0, <1>7, <1>9, <2>1, <2>2 DEF CompleteIsHonest
  <2>3. CASE k = pos /\ m = "set-complete"
    <3>1. plan.approved /\ failedSlots[This.host] = {}
      BY <1>2, <1>3, <1>6, <2>3 DEF Scheduled
    <3> QED
      BY <1>1, <1>3, <1>7, <1>9, <2>1, <2>3, <3>1, MarkIsEarned
  <2> QED
    BY <1>7, <2>1, <2>2, <2>3
<1>17. PartialIsHonest'
  <2>1. SUFFICES ASSUME NEW k \in 1..Length, Logged(k, "set-partial")'
                 PROVE  \E n \in 1..(k - 1) : SameHost(n, k) /\ SlotFatal(plan.steps[n]) /\ Logged(n, "fail")
    BY <1>4, <1>8, <1>9 DEF PartialIsHonest, SameHost
  <2>2. CASE Logged(k, "set-partial")
    BY <1>0, <2>1, <2>2 DEF PartialIsHonest
  <2>3. CASE k = pos /\ m = "set-partial"
    <3>1. PICK s \in failedSlots[This.host] : s \in Slot
      BY <1>0, <1>2, <1>6, <2>3 DEF TypeOK
    <3>2. PICK n \in 1..Length : /\ plan.steps[n].host = This.host /\ SlotFatal(plan.steps[n])
                                 /\ Logged(n, "fail")
      BY <1>0, <1>2, <3>1 DEF MemoryIsJournal
    <3>3. n < pos
      BY <1>0, <1>1, <3>2 DEF LinesAreOurs, Status
    <3> QED
      BY <1>1, <2>3, <3>2, <3>3 DEF SameHost
  <2> QED
    BY <1>7, <2>1, <2>2, <2>3
<1> QED
  BY <1>10, <1>11, <1>12, <1>13, <1>14, <1>15, <1>16, <1>17 DEF IInv

(* The step was recorded with one line, and what it cost is in the sets:   *)
(* what RecordOk and RecordFail share.                                     *)
LEMMA Recorded ==
  ASSUME IInv, attempt # "none", code = "running",
         NEW st \in {"ok", "fail"},
         journal' = Append(journal, Line(This.host, pos, st)),
         pos' = pos + 1, attempt' = "none", plan' = plan, run' = run, code' = code,
         result' \in [Count -> Nat],
         failedHosts' \subseteq Host, failedSlots' \in [Host -> SUBSET Slot],
         failedHosts \subseteq failedHosts',
         \A h \in Host : failedSlots[h] \subseteq failedSlots'[h],
         MemoryIsJournal',
         st = "fail" => CanFail(This)
  PROVE  IInv'
<1>0. /\ TypeOK /\ LinesAreOurs /\ MemoryIsJournal /\ StepsExplained /\ AttemptAllowed
      /\ CodeIsEarned /\ FailStop /\ CompleteIsHonest /\ PartialIsHonest /\ ExitTellsTruth
  BY DEF IInv
<1>1. /\ plan \in PlanRecord /\ run \in Nat /\ pos \in 1..Length /\ Length \in Nat /\ pos \in Nat
      /\ journal \in Seq(Entry) /\ plan.verb \in Verb /\ st \in Status /\ This = plan.steps[pos]
  BY <1>0, LengthNat DEF TypeOK, This, PlanRecord, Status
<1>2. This.host \in Host /\ This.slot \in Slot \cup {NoSlot} /\ This \in Step
  BY <1>1, StepFields
<1>3. ~OutOf(pos) /\ Scheduled(plan, This)
  BY <1>0 DEF AttemptAllowed
<1>4. /\ journal' \in Seq(Entry)
      /\ \A k, s : Logged(k, s)' <=> (Logged(k, s) \/ (k = pos /\ s = st))
  BY <1>1, <1>2, NewLine
<1>5. Length' = Length
  BY DEF Length
<1>6. \A k \in 1..Length : OutOf(k) => OutOf(k)'
  <2> SUFFICES ASSUME NEW k \in 1..Length, OutOf(k) PROVE OutOf(k)'
    OBVIOUS
  <2>1. plan.steps[k].host \in Host
    BY <1>1, StepFields
  <2> QED
    BY <2>1 DEF OutOf
<1>7. TypeOK'
  BY <1>0, <1>1, <1>4, <1>5 DEF TypeOK
<1>8. LinesAreOurs'
  BY <1>0, <1>1, <1>4, <1>5 DEF LinesAreOurs
<1>9. StepsExplained'
  <2> SUFFICES ASSUME NEW k \in 1..Length
               PROVE  /\ k < pos' => \E s \in {"ok", "fail", "skipped", "dry-run"} : Logged(k, s)'
                      /\ Logged(k, "skipped")' => OutOf(k)'
                      /\ Logged(k, "dry-run")' => ~Scheduled(plan, plan.steps[k])
                      /\ Logged(k, "set-complete")' \/ Logged(k, "set-partial")'
                           => plan.steps[k].op = "set-complete"
    BY <1>5 DEF StepsExplained
  <2>1. k < pos' => k < pos \/ k = pos
    BY <1>1
  <2> QED
    BY <1>0, <1>4, <1>6, <2>1 DEF StepsExplained
<1>10. AttemptAllowed' /\ CodeIsEarned' /\ ExitTellsTruth'
  BY DEF AttemptAllowed, CodeIsEarned, ExitTellsTruth
<1>11. FailStop'
  <2>1. SUFFICES ASSUME NEW k \in 1..Length, NEW n \in 1..Length, k < n, SameHost(k, n), Logged(k, "fail")',
                        NEW s \in Status, Logged(n, s)',
                        HostFatal(plan.steps[k]) \/ (SlotFatal(plan.steps[k]) /\ SameSlot(k, n))
                 PROVE  s = "skipped"
    BY <1>5 DEF FailStop, SameHost, SameSlot
  <2>2. n <= pos
    BY <1>0, <1>1, <1>4, <2>1 DEF LinesAreOurs
  <2>3. Logged(k, "fail")
    BY <1>1, <1>4, <2>1, <2>2
  <2>4. n # pos
    BY <1>1, <1>3, <2>1, <2>3, NothingFailedBefore
  <2> QED
    BY <1>0, <1>4, <2>1, <2>3, <2>4 DEF FailStop
<1>12. ASSUME NEW k \in 1..Length, Logged(k, "set-complete")' PROVE k <= pos
  <2>1. Logged(k, "set-complete") /\ k \in 0..(Length + 1)
    BY <1>1, <1>4, <1>12
  <2> QED
    BY <1>0, <2>1 DEF LinesAreOurs, Status
<1>13. CompleteIsHonest'
  <2>1. SUFFICES ASSUME NEW k \in 1..Length, Logged(k, "set-complete")', NEW n \in 1..(k - 1), SameHost(n, k)
                 PROVE  IF Tolerated(plan.steps[n]) THEN Logged(n, "ok")' \/ Logged(n, "fail")'
                                                    ELSE Logged(n, "ok")' /\ ~Logged(n, "fail")'
    BY <1>5 DEF CompleteIsHonest, SameHost
  <2>2. n # pos
    BY <1>1, <1>12, <2>1
  <2> QED
    BY <1>0, <1>4, <2>1, <2>2 DEF CompleteIsHonest
<1>14. PartialIsHonest'
  BY <1>0, <1>4, <1>5 DEF PartialIsHonest, SameHost
<1> QED
  BY <1>7, <1>8, <1>9, <1>10, <1>11, <1>13, <1>14 DEF IInv

LEMMA RecordOkInv == IInv /\ RecordOk => IInv'
<1> SUFFICES ASSUME IInv, RecordOk PROVE IInv'
  OBVIOUS
<1>0. /\ TypeOK /\ MemoryIsJournal /\ plan \in PlanRecord /\ pos \in 1..Length
      /\ plan.verb \in Verb /\ pos \in Nat
  BY LengthNat DEF IInv, TypeOK, RecordOk, PlanRecord
<1>1. This.host \in Host
  BY <1>0, StepFields DEF This
<1>2. \A k, s : Logged(k, s)' <=> (Logged(k, s) \/ (k = pos /\ s = "ok"))
  BY <1>0, <1>1, NewLine DEF RecordOk, TypeOK, Status
<1>3. /\ result' \in [Count -> Nat]
      /\ result'["failed"] = result["failed"]
  BY <1>0 DEF RecordOk, TypeOK, Count
<1>4. MemoryIsJournal'
  BY <1>0, <1>2, <1>3 DEF MemoryIsJournal, GivenUp, RecordOk, Length
<1> QED
  BY <1>0, <1>3, <1>4, Recorded DEF RecordOk, TypeOK

LEMMA RecordFailInv == IInv /\ RecordFail => IInv'
<1> SUFFICES ASSUME IInv, RecordFail PROVE IInv'
  OBVIOUS
<1>0. /\ TypeOK /\ MemoryIsJournal /\ plan \in PlanRecord /\ pos \in 1..Length
      /\ plan.verb \in Verb /\ pos \in Nat /\ CanFail(This)
  BY LengthNat DEF IInv, TypeOK, RecordFail, PlanRecord, AttemptAllowed
<1>1. This.host \in Host /\ This.slot \in Slot \cup {NoSlot} /\ This = plan.steps[pos]
  BY <1>0, StepFields DEF This
<1>2. \A k, s : Logged(k, s)' <=> (Logged(k, s) \/ (k = pos /\ s = "fail"))
  BY <1>0, <1>1, NewLine DEF RecordFail, TypeOK, Status
<1>3. /\ result' \in [Count -> Nat]
      /\ result'["failed"] > 0
  BY <1>0 DEF RecordFail, TypeOK, Count
<1>4. /\ failedHosts' \subseteq Host /\ failedHosts \subseteq failedHosts'
      /\ failedSlots' \in [Host -> SUBSET Slot]
      /\ \A h \in Host : failedSlots[h] \subseteq failedSlots'[h]
  BY <1>0, <1>1 DEF RecordFail, TypeOK, SlotFatal
<1>5. MemoryIsJournal'
  <2>1. \A h \in Host : h \in failedHosts' <=> (h \in failedHosts \/ (h = This.host /\ HostFatal(This)))
    BY DEF RecordFail
  <2>2. \A h : GivenUp(h)' <=> (GivenUp(h) \/ (h = This.host /\ HostFatal(This)))
    BY <1>0, <1>1, <1>2 DEF GivenUp, Length, RecordFail
  <2>3. \A h \in Host, s \in Slot :
          s \in failedSlots'[h] <=>
            (s \in failedSlots[h] \/ (h = This.host /\ s = This.slot /\ SlotFatal(This)))
    BY <1>0, <1>1 DEF RecordFail, TypeOK, SlotFatal
  <2>4. \A h \in Host : h \in failedHosts' <=> GivenUp(h)'
    BY <1>0, <2>1, <2>2 DEF MemoryIsJournal
  <2>5. \A h \in Host, s \in Slot :
          s \in failedSlots'[h] <=>
            \E k \in 1..Length : /\ plan.steps[k].host = h /\ plan.steps[k].slot = s
                                 /\ SlotFatal(plan.steps[k]) /\ Logged(k, "fail")'
    BY <1>0, <1>1, <1>2, <2>3 DEF MemoryIsJournal
  <2>6. result'["failed"] # 0 /\ \E k \in 1..Length : Logged(k, "fail")'
    BY <1>0, <1>2, <1>3
  <2>7. plan' = plan /\ Length' = Length
    BY DEF RecordFail, Length
  <2> QED
    BY <1>0, <2>4, <2>5, <2>6, <2>7 DEF MemoryIsJournal
<1> QED
  BY <1>0, <1>3, <1>4, <1>5, Recorded DEF RecordFail

LEMMA FinishInv == IInv /\ Finish => IInv'
<1> SUFFICES ASSUME IInv, Finish PROVE IInv'
  OBVIOUS
<1>0. /\ TypeOK /\ LinesAreOurs /\ MemoryIsJournal /\ StepsExplained /\ AttemptAllowed
      /\ plan \in PlanRecord /\ Length \in Nat /\ pos = Length + 1 /\ attempt = "none"
      /\ plan' = plan /\ run' = run /\ pos' = pos /\ attempt' = attempt
      /\ failedHosts' = failedHosts /\ failedSlots' = failedSlots /\ result' = result
  BY LengthNat DEF IInv, TypeOK, Finish
<1>1. \A k, s : Logged(k, s)' <=> Logged(k, s)
  BY NoLine DEF Finish
<1>2. /\ Length' = Length /\ (\A h : GivenUp(h)' <=> GivenUp(h)) /\ (\A k : OutOf(k)' <=> OutOf(k))
      /\ MemoryIsJournal' /\ FailStop' /\ CompleteIsHonest' /\ PartialIsHonest'
  BY <1>0, <1>1, Kept
<1>3. TypeOK'
  BY <1>0, <1>2 DEF TypeOK, Finish, Code
<1>4. LinesAreOurs' /\ StepsExplained' /\ AttemptAllowed' /\ CodeIsEarned'
  BY <1>0, <1>1, <1>2 DEF LinesAreOurs, StepsExplained, AttemptAllowed, CodeIsEarned, This, Finish
<1>5. ASSUME code' = "OK", NEW k \in 1..Length
      PROVE  ~Logged(k, "fail") /\ (Scheduled(plan, plan.steps[k]) => Logged(k, "ok"))
  <2>1. \A j \in 1..Length : ~Logged(j, "fail")
    BY <1>0, <1>5 DEF MemoryIsJournal, Finish
  <2>2. plan.steps[k].host \in Host /\ plan.steps[k].slot \in Slot \cup {NoSlot}
    BY <1>0, StepFields
  <2>3. ~OutOf(k)
    BY <1>0, <2>1, <2>2 DEF OutOf, MemoryIsJournal, GivenUp
  <2>4. k < pos
    BY <1>0
  <2> QED
    BY <1>0, <2>1, <2>3, <2>4 DEF StepsExplained
<1>6. code' \in {"PARTIAL", "TRANSPORT"} => \E k \in 1..Length : Logged(k, "fail")
  BY <1>0 DEF MemoryIsJournal, Finish
<1>7. Worked(plan) \subseteq Host
  BY <1>0, StepFields DEF Worked, Length, PlanRecord
<1>8. /\ code' = "TRANSPORT" => \A h \in Worked(plan) : GivenUp(h)
      /\ code' = "PARTIAL" => \E h \in Worked(plan) : ~GivenUp(h)
  BY <1>0, <1>7 DEF MemoryIsJournal, Finish
<1>9. code' # "REFUSED"
  BY DEF Finish
<1>10. ExitTellsTruth'
  BY <1>0, <1>1, <1>2, <1>5, <1>6, <1>8, <1>9 DEF ExitTellsTruth
<1> QED
  BY <1>2, <1>3, <1>4, <1>10 DEF IInv

-----------------------------------------------------------------------------
LEMMA StepInv == IInv /\ [Next]_vars => IInv'
<1> SUFFICES ASSUME IInv, [Next]_vars PROVE IInv'
  OBVIOUS
<1>1. CASE UNCHANGED vars
  <2>0. /\ UNCHANGED <<plan, run, pos, attempt, failedHosts, failedSlots, result, code, journal>>
        /\ UNCHANGED <<Length, This>>
    BY <1>1 DEF vars, Length, This
  <2>1. \A k, st : Logged(k, st)' <=> Logged(k, st)
    BY <2>0 DEF Logged
  <2>2. \A h : GivenUp(h)' <=> GivenUp(h)
    BY <2>0, <2>1 DEF GivenUp
  <2>3. \A k : OutOf(k)' <=> OutOf(k)
    BY <2>0 DEF OutOf
  <2>4. TypeOK' /\ CodeIsEarned'
    BY <2>0 DEF IInv, TypeOK, CodeIsEarned
  <2>5. LinesAreOurs'
    BY <2>0, <2>1 DEF IInv, LinesAreOurs
  <2>6. MemoryIsJournal'
    BY <2>0, <2>1, <2>2 DEF IInv, MemoryIsJournal
  <2>7. StepsExplained' /\ AttemptAllowed'
    BY <2>0, <2>1, <2>3 DEF IInv, StepsExplained, AttemptAllowed
  <2>8. FailStop'
    BY <2>0, <2>1 DEF IInv, FailStop, SameHost, SameSlot
  <2>9. CompleteIsHonest' /\ PartialIsHonest'
    BY <2>0, <2>1 DEF IInv, CompleteIsHonest, PartialIsHonest, SameHost
  <2>10. ExitTellsTruth'
    BY <2>0, <2>1, <2>2 DEF IInv, ExitTellsTruth
  <2> QED
    BY <2>4, <2>5, <2>6, <2>7, <2>8, <2>9, <2>10 DEF IInv
<1>2. CASE Refuse
  BY <1>2, RefuseInv
<1>3. CASE Admit
  BY <1>3, AdmitInv
<1>4. CASE Skip
  BY <1>4, SkipInv
<1>5. CASE DryRun
  BY <1>5, DryRunInv
<1>6. CASE Attempt
  BY <1>6, AttemptInv
<1>7. CASE RecordOk
  BY <1>7, RecordOkInv
<1>8. CASE RecordFail
  BY <1>8, RecordFailInv
<1>9. CASE Finish
  BY <1>9, FinishInv
<1>10. CASE Crash
  BY <1>10, CrashInv
<1> QED
  BY <1>1, <1>2, <1>3, <1>4, <1>5, <1>6, <1>7, <1>8, <1>9, <1>10 DEF Next, Progress, Done

(* The inductive invariant holds in every state of every run. *)
LEMMA Invariant == Spec => []IInv
<1> QED
  BY InitInv, StepInv, PTL DEF Spec

(* Every state of every run is well typed: exec.run never looks past the   *)
(* end of its plan.                                                        *)
THEOREM TypeCorrect == Spec => []TypeOK
<1>1. IInv => TypeOK
  BY DEF IInv
<1> QED
  BY <1>1, Invariant, PTL

(* exec.run's skipping (the host and slot checks at the head of its loop): *)
(* no step of a host runs after a step it depends on has failed, none of   *)
(* an occupant after a restore step of it has failed.                      *)
THEOREM FailStopHolds == Spec => []FailStop
<1>1. IInv => FailStop
  BY DEF IInv
<1> QED
  BY <1>1, Invariant, PTL

(* The set-complete mark _run_step writes is about a host all of whose     *)
(* steps were run and succeeded, for every plan with the marks at the end  *)
(* of the windows.                                                         *)
THEOREM CompleteIsHonestHolds == Spec => []CompleteIsHonest
<1>1. IInv => CompleteIsHonest
  BY DEF IInv
<1> QED
  BY <1>1, Invariant, PTL

(* The set-partial mark is written only over a real failure to restore. *)
THEOREM PartialIsHonestHolds == Spec => []PartialIsHonest
<1>1. IInv => PartialIsHonest
  BY DEF IInv
<1> QED
  BY <1>1, Invariant, PTL

(* The exit code exec.run returns agrees with the journal it wrote. *)
THEOREM ExitTellsTruthHolds == Spec => []ExitTellsTruth
<1>1. IInv => ExitTellsTruth
  BY DEF IInv
<1> QED
  BY <1>1, Invariant, PTL

-----------------------------------------------------------------------------
(* The refinement.  A host's verdict depends on its marks and on           *)
(* failedHosts only, so most steps leave the window as it is.              *)
SameMarks == \A k \in 1..Length, st \in {"set-complete", "set-partial"} : Logged(k, st)' <=> Logged(k, st)

LEMMA VerdictKept ==
  ASSUME plan' = plan, SameMarks, NEW h \in Host, (h \in failedHosts') <=> (h \in failedHosts)
  PROVE  Verdict(h)' = Verdict(h)
<1>1. Length' = Length
  BY DEF Length
<1>2. \A st \in {"set-complete", "set-partial"} : Marked(h, st)' <=> Marked(h, st)
  BY <1>1 DEF Marked, SameMarks
<1> QED
  BY <1>2 DEF Verdict

LEMMA WindowKept ==
  ASSUME plan' = plan, SameMarks, failedHosts' = failedHosts, failedSlots' = failedSlots, code' = code
  PROVE  UNCHANGED Window!avars
<1>1. \A h \in Host : Verdict(h)' = Verdict(h)
  BY VerdictKept
<1> QED
  BY <1>1 DEF Window!avars

(* A host no step of which has failed or been marked is open. *)
LEMMA UntouchedIsOpen ==
  ASSUME IInv, pos = 0, NEW h \in Host
  PROVE  Verdict(h) = "open" /\ failedSlots[h] = {}
<1>0. TypeOK /\ LinesAreOurs /\ MemoryIsJournal /\ Length \in Nat
  BY LengthNat DEF IInv, TypeOK
<1>1. \A k \in 1..Length, st \in Status : ~Logged(k, st)
  BY <1>0 DEF LinesAreOurs
<1> QED
  BY <1>0, <1>1 DEF Verdict, Marked, MemoryIsJournal, GivenUp, TypeOK, Status

(* The run ends, whatever the code, and the window stays as it is. *)
LEMMA EndStep ==
  ASSUME plan' = plan, SameMarks, failedHosts' = failedHosts, failedSlots' = failedSlots,
         code = "running", code' \in {"OK", "PARTIAL", "REFUSED", "TRANSPORT", "crashed"},
         code' = "OK" => \A h \in Host : failedSlots[h] = {} /\ Verdict(h) # "failed",
         code' = "REFUSED" => \A h \in Host : failedSlots[h] = {} /\ Verdict(h) = "open"
  PROVE  Window!Next
<1>1. \A h \in Host : Verdict(h)' = Verdict(h)
  BY VerdictKept
<1>2. [h \in Host |-> Verdict(h)]' = [h \in Host |-> Verdict(h)]
  BY <1>1
<1>3. Window!End(code')
  BY <1>2 DEF Window!End
<1> QED
  BY <1>3 DEF Window!Next

LEMMA AttemptRefines == IInv /\ IInv' /\ Attempt => [Window!Next]_Window!avars
<1> SUFFICES ASSUME IInv, IInv', Attempt PROVE [Window!Next]_Window!avars
  OBVIOUS
<1>0. /\ TypeOK /\ MemoryIsJournal /\ PartialIsHonest /\ plan \in PlanRecord /\ pos \in 1..Length
      /\ plan.verb \in Verb /\ pos \in Nat /\ Length \in Nat /\ This = plan.steps[pos]
      /\ code = "running" /\ plan' = plan /\ run' = run /\ code' = code
      /\ failedHosts' = failedHosts /\ failedSlots' = failedSlots /\ Length' = Length
  BY LengthNat DEF IInv, TypeOK, Attempt, AtStep, This, PlanRecord, Length
<1>1. This.host \in Host
  BY <1>0, StepFields
<1>2. ~OutOf(pos)
  BY DEF Attempt, HostOut, SlotOut, OutOf, This
<1>3. PICK m \in Marks(This) :
        journal' = IF m = "none" THEN journal ELSE Append(journal, Line(This.host, pos, m))
  BY DEF Attempt
<1>4. CASE m \notin {"set-complete", "set-partial"}
  <2>1. m \in Status \cup {"none"}
    BY <1>3 DEF Marks, Status
  <2>2. SameMarks
    <3>1. CASE m = "none"
      BY <1>0, <1>3, <3>1, NoLine DEF SameMarks
    <3>2. CASE m # "none"
      <4>1. m \in Status /\ journal' = Append(journal, Line(This.host, pos, m))
        BY <1>3, <2>1, <3>2
      <4>2. \A k, s : Logged(k, s)' <=> (Logged(k, s) \/ (k = pos /\ s = m))
        BY <1>0, <1>1, <4>1, NewLine DEF TypeOK
      <4> QED
        BY <1>4, <4>2 DEF SameMarks
    <3> QED
      BY <3>1, <3>2
  <2> QED
    BY <1>0, <2>2, WindowKept
<1>5. CASE m \in {"set-complete", "set-partial"}
  <2>1. /\ m = "set-complete" => failedSlots[This.host] = {}
        /\ m = "set-partial" => failedSlots[This.host] # {}
    BY <1>3 DEF Marks
  <2>2. \A k, s : Logged(k, s)' <=> (Logged(k, s) \/ (k = pos /\ s = m))
    <3>1. m \in Status /\ journal' = Append(journal, Line(This.host, pos, m))
      BY <1>3, <1>5 DEF Status
    <3> QED
      BY <1>0, <1>1, <3>1, NewLine DEF TypeOK
  <2>3. \A h \in Host, st \in {"set-complete", "set-partial"} :
          Marked(h, st)' <=> (Marked(h, st) \/ (h = This.host /\ st = m))
    BY <1>0, <2>2 DEF Marked
  <2>4. This.host \notin failedHosts
    BY <1>0, <1>2 DEF OutOf
  <2>5. Marked(This.host, "set-partial") => failedSlots[This.host] # {}
    <3> SUFFICES ASSUME Marked(This.host, "set-partial") PROVE failedSlots[This.host] # {}
      OBVIOUS
    <3>1. PICK k \in 1..Length : plan.steps[k].host = This.host /\ Logged(k, "set-partial")
      BY DEF Marked
    <3>2. PICK n \in 1..(k - 1) : SameHost(n, k) /\ SlotFatal(plan.steps[n]) /\ Logged(n, "fail")
      BY <1>0, <3>1 DEF PartialIsHonest
    <3>3. n \in 1..Length
      BY <1>0
    <3>4. plan.steps[n].slot \in Slot
      BY <1>0, <3>2, <3>3, StepFields DEF SlotFatal
    <3> QED
      BY <1>0, <1>1, <3>1, <3>2, <3>3, <3>4 DEF MemoryIsJournal, SameHost
  <2>6. \A h \in Host : h # This.host => Verdict(h)' = Verdict(h)
    BY <1>0, <2>3 DEF Verdict
  <2>7. CASE Verdict(This.host) = "open"
    <3>1. Verdict(This.host)' = (IF m = "set-complete" THEN "complete" ELSE "partial")
      <4>1. ~Marked(This.host, "set-complete") /\ ~Marked(This.host, "set-partial")
        BY <2>7 DEF Verdict
      <4>2. \A h : h = This.host => Verdict(h)' = (IF m = "set-complete" THEN "complete" ELSE "partial")
        BY <1>1, <1>5, <2>3, <4>1 DEF Verdict
      <4>3. This' = This
        BY <1>0 DEF This, Attempt
      <4> QED
        BY <4>2, <4>3
    <3>2. Window!Judge(This.host, IF m = "set-complete" THEN "complete" ELSE "partial")
      <4> DEFINE v == IF m = "set-complete" THEN "complete" ELSE "partial"
      <4>1. \A h \in Host : Verdict(h)' = IF h = This.host THEN v ELSE Verdict(h)
        <5>1. This' = This
          BY <1>0 DEF This, Attempt
        <5> QED
          BY <2>6, <3>1, <5>1
      <4>2. [h \in Host |-> Verdict(h)]' = [[h \in Host |-> Verdict(h)] EXCEPT ![This.host] = v]
        BY <1>1, <4>1
      <4> QED
        BY <1>0, <1>1, <1>5, <2>1, <2>7, <4>2 DEF Window!Judge, Window!Open
    <3> QED
      BY <1>1, <3>2 DEF Window!Next
  <2>8. CASE Verdict(This.host) # "open"
    <3>1. \A h \in Host : Verdict(h)' = Verdict(h)
      <4>1. \A h : h = This.host => Verdict(h)' = Verdict(h)
        BY <1>0, <1>1, <1>5, <2>1, <2>3, <2>4, <2>5, <2>8 DEF Verdict
      <4> QED
        BY <2>6, <4>1
    <3> QED
      BY <1>0, <3>1 DEF Window!avars
  <2> QED
    BY <2>7, <2>8
<1> QED
  BY <1>4, <1>5

LEMMA RecordFailRefines ==
  IInv /\ plan \in Plans /\ RecordFail => [Window!Next]_Window!avars
<1> SUFFICES ASSUME IInv, plan \in Plans, RecordFail PROVE [Window!Next]_Window!avars
  OBVIOUS
<1>0. /\ TypeOK /\ LinesAreOurs /\ StepsExplained /\ MemoryIsJournal /\ plan \in PlanRecord
      /\ pos \in 1..Length /\ plan.verb \in Verb /\ pos \in Nat /\ Length \in Nat
      /\ This = plan.steps[pos] /\ ~OutOf(pos) /\ DOMAIN plan.steps = 1..Length
      /\ code = "running" /\ plan' = plan /\ run' = run /\ code' = code
  BY LengthNat DEF IInv, TypeOK, RecordFail, AttemptAllowed, This, PlanRecord, Length
<1>1. This.host \in Host
  BY <1>0, StepFields
<1>2. SameMarks
  <2>1. \A k, s : Logged(k, s)' <=> (Logged(k, s) \/ (k = pos /\ s = "fail"))
    BY <1>0, <1>1, NewLine DEF RecordFail, TypeOK, Status
  <2> QED
    BY <2>1 DEF SameMarks
<1>3. CASE SlotFatal(This)
  <2>1. This.slot \in Slot /\ ~HostFatal(This)
    BY <1>0, <1>3, StepFields DEF SlotFatal, HostFatal
  <2>2. /\ failedHosts' = failedHosts
        /\ failedSlots' = [failedSlots EXCEPT ![This.host] = @ \cup {This.slot}]
    BY <1>3, <2>1 DEF RecordFail
  <2>3. ASSUME NEW k \in 1..Length, NEW st \in {"set-complete", "set-partial"}, Logged(k, st)
        PROVE  plan.steps[k].host # This.host
    <3>1. k < pos /\ plan.steps[k].op = "set-complete"
      <4>1. k <= pos /\ plan.steps[k].op = "set-complete"
        BY <1>0, <2>3 DEF LinesAreOurs, StepsExplained, Status
      <4>2. k # pos
        <5>1. CanFail(This)
          BY DEF IInv, AttemptAllowed, RecordFail
        <5> QED
          BY <1>0, <4>1, <5>1, StepFields DEF CanFail
      <4> QED
        BY <1>0, <4>1, <4>2
    <3> QED
      BY <1>0, <2>1, <3>1, MarkAssumption, NoSlotAssumption
  <2>4. Verdict(This.host) = "open"
    BY <1>0, <1>1, <2>3 DEF Verdict, Marked, OutOf
  <2>5. [h \in Host |-> Verdict(h)]' = [h \in Host |-> Verdict(h)]
    BY <1>0, <1>2, <2>2, VerdictKept
  <2>6. Window!Lose(This.host, This.slot)
    BY <1>0, <1>1, <2>2, <2>4, <2>5 DEF Window!Lose, Window!Open
  <2> QED
    BY <1>1, <2>1, <2>6 DEF Window!Next
<1>4. CASE ~SlotFatal(This) /\ HostFatal(This)
  <2>1. /\ failedSlots' = failedSlots
        /\ failedHosts' = failedHosts \cup {This.host}
    BY <1>4 DEF RecordFail
  <2>2. \A h \in Host : h # This.host => Verdict(h)' = Verdict(h)
    BY <1>0, <1>2, <2>1, VerdictKept
  <2>3. \A h \in Host : h = This.host =>
          Verdict(h)' = IF Verdict(h) = "open" THEN "failed" ELSE Verdict(h)
    <3>1. \A h \in Host, st \in {"set-complete", "set-partial"} : Marked(h, st)' <=> Marked(h, st)
      BY <1>0, <1>2 DEF Marked, SameMarks, Length
    <3> QED
      BY <1>0, <2>1, <3>1 DEF Verdict, OutOf
  <2>4. CASE Verdict(This.host) = "open"
    <3>1. \A h \in Host : Verdict(h)' = IF h = This.host THEN "failed" ELSE Verdict(h)
      BY <2>2, <2>3, <2>4
    <3>2. [h \in Host |-> Verdict(h)]' = [[h \in Host |-> Verdict(h)] EXCEPT ![This.host] = "failed"]
      BY <1>1, <3>1
    <3>3. Window!Judge(This.host, "failed")
      BY <1>0, <1>1, <2>1, <2>4, <3>2 DEF Window!Judge, Window!Open
    <3> QED
      BY <1>1, <3>3 DEF Window!Next
  <2>5. CASE Verdict(This.host) # "open"
    <3>1. \A h \in Host : Verdict(h)' = Verdict(h)
      BY <2>2, <2>3, <2>5
    <3> QED
      BY <1>0, <2>1, <3>1 DEF Window!avars
  <2> QED
    BY <2>4, <2>5
<1>5. CASE ~SlotFatal(This) /\ ~HostFatal(This)
  BY <1>0, <1>2, <1>5, WindowKept DEF RecordFail
<1> QED
  BY <1>3, <1>4, <1>5

(* Skip, DryRun and RecordOk log a line that is no mark. *)
LEMMA QuietLine ==
  ASSUME IInv, pos \in 1..Length, NEW st \in {"ok", "skipped", "dry-run"},
         journal' = Append(journal, Line(This.host, pos, st)),
         UNCHANGED <<plan, run, failedHosts, failedSlots, code>>
  PROVE  UNCHANGED Window!avars
<1>0. TypeOK /\ plan \in PlanRecord /\ plan.verb \in Verb /\ pos \in Nat /\ This = plan.steps[pos]
  BY LengthNat DEF IInv, TypeOK, PlanRecord, This
<1>1. This.host \in Host
  BY <1>0, StepFields
<1>2. \A k, s : Logged(k, s)' <=> (Logged(k, s) \/ (k = pos /\ s = st))
  BY <1>0, <1>1, NewLine DEF TypeOK, Status
<1>3. SameMarks
  BY <1>2 DEF SameMarks
<1> QED
  BY <1>3, WindowKept

LEMMA EndsRefine == IInv /\ (Refuse \/ Finish \/ Crash) => [Window!Next]_Window!avars
<1> SUFFICES ASSUME IInv, Refuse \/ Finish \/ Crash PROVE [Window!Next]_Window!avars
  OBVIOUS
<1>0. /\ TypeOK /\ MemoryIsJournal /\ plan \in PlanRecord /\ plan.verb \in Verb /\ Length \in Nat
      /\ plan' = plan /\ run' = run /\ failedHosts' = failedHosts /\ failedSlots' = failedSlots
      /\ code = "running"
  BY LengthNat DEF IInv, TypeOK, PlanRecord, Refuse, Finish, Crash
<1>1. CASE Refuse
  <2>1. pos = 0 /\ code' = "REFUSED"
    BY <1>1 DEF Refuse
  <2>2. \A k, s : Logged(k, s)' <=> (Logged(k, s) \/ (k = 0 /\ s = "refused"))
    BY <1>0, <1>1, NewLine DEF Refuse, TypeOK, Status
  <2>3. SameMarks
    BY <2>2 DEF SameMarks
  <2> QED
    BY <1>0, <2>1, <2>3, UntouchedIsOpen, EndStep
<1>2. CASE Finish
  <2>1. SameMarks
    BY <1>0, <1>2, NoLine DEF SameMarks, Finish
  <2>2. code' \in {"OK", "PARTIAL", "TRANSPORT"}
    BY <1>2 DEF Finish
  <2>3. ASSUME code' = "OK", NEW h \in Host
        PROVE  failedSlots[h] = {} /\ Verdict(h) # "failed"
    <3>1. \A k \in 1..Length : ~Logged(k, "fail")
      BY <1>0, <1>2, <2>3 DEF MemoryIsJournal, Finish
    <3> QED
      BY <1>0, <3>1 DEF MemoryIsJournal, GivenUp, TypeOK, Verdict
  <2> QED
    BY <1>0, <2>1, <2>2, <2>3, EndStep
<1>3. CASE Crash
  <2>1. SameMarks
    BY <1>0, <1>3, NoLine DEF SameMarks, Crash
  <2> QED
    BY <1>0, <1>3, <2>1, EndStep DEF Crash
<1> QED
  BY <1>1, <1>2, <1>3

LEMMA StepRefines ==
  IInv /\ IInv' /\ plan \in Plans /\ [Next]_vars => [Window!Next]_Window!avars
<1> SUFFICES ASSUME IInv, IInv', plan \in Plans, [Next]_vars PROVE [Window!Next]_Window!avars
  OBVIOUS
<1>1. CASE UNCHANGED vars
  <2>1. SameMarks /\ UNCHANGED <<plan, failedHosts, failedSlots, code>>
    BY <1>1, NoLine DEF vars, SameMarks
  <2> QED
    BY <2>1, WindowKept
<1>2. CASE Refuse \/ Finish \/ Crash
  BY <1>2, EndsRefine
<1>3. CASE Admit
  <2>1. SameMarks /\ UNCHANGED <<plan, failedHosts, failedSlots, code>>
    BY <1>3, NoLine DEF SameMarks, Admit
  <2> QED
    BY <2>1, WindowKept
<1>4. CASE Skip
  BY <1>4, QuietLine DEF Skip, AtStep
<1>5. CASE DryRun
  BY <1>5, QuietLine DEF DryRun, AtStep
<1>6. CASE Attempt
  BY <1>6, AttemptRefines
<1>7. CASE RecordOk
  <2>1. pos \in 1..Length
    BY <1>7 DEF RecordOk, IInv, TypeOK
  <2> QED
    BY <1>7, <2>1, QuietLine DEF RecordOk
<1>8. CASE RecordFail
  BY <1>8, RecordFailRefines
<1> QED
  BY <1>1, <1>2, <1>3, <1>4, <1>5, <1>6, <1>7, <1>8 DEF Next, Progress, Done

(* A whole run of exec.Executor, whatever its plan and whatever fails,     *)
(* keeps the promise of a rolling window: RollingWindow under the mapping  *)
(* of Executor's state to verdicts, lost occupants and the exit code.      *)
THEOREM Refinement == Spec => KeepsPromise
<1>1. Init => Window!Init
  <2> SUFFICES ASSUME Init PROVE Window!Init
    OBVIOUS
  <2>1. \A h \in Host : Verdict(h) = "open" /\ failedSlots[h] = {}
    BY InitInv, UntouchedIsOpen DEF Init
  <2> QED
    BY <2>1 DEF Init, Window!Init, NoFailedSlots
<1>2. Init => plan \in Plans
  BY DEF Init
<1>3. plan \in Plans /\ [Next]_vars => (plan \in Plans)'
  BY DEF Next, Progress, Done, vars, Refuse, Admit, Skip, DryRun, Attempt, RecordOk, RecordFail, Finish, Crash
<1> QED
  BY <1>1, <1>2, <1>3, Invariant, StepRefines, PTL DEF Spec, KeepsPromise, Window!Spec

=============================================================================
