-------------------------- MODULE RosterStoreProofs --------------------------
(***************************************************************************)
(* What TLAPS proves about RosterStore, for any fleet, any number of       *)
(* commands at once and any guard configuration: no parked agent is lost   *)
(* from the rosters on disk; with one operator beside the heartbeat, set   *)
(* falls in from the last secure; and one command at a time cannot move    *)
(* current.json past the occupant guard.                                   *)
(***************************************************************************)
EXTENDS RosterStore, TLAPS

(* The stages in which a command holds a roster of its own.                *)
Holding == {"save", "guard", "unlink", "link", "replace", "exec"}

(* From the guard on, that roster is in its file.                          *)
DraftOnDisk ==
  \A p \in Proc : proc[p].stage \in Holding \ {"save"} =>
    proc[p].at \in DOMAIN files /\ files[proc[p].at] = proc[p].draft

(* Rolls have times of their own: no command saves over another's file.    *)
OwnTime ==
  /\ \A p \in Proc : proc[p].stage \in Holding => proc[p].at \in 1..clock
  /\ \A p \in Proc : proc[p].stage = "save" => proc[p].at \notin DOMAIN files
  /\ \A p, q \in Proc :
       p # q /\ proc[p].stage \in Holding /\ proc[q].stage \in Holding => proc[p].at # proc[q].at

Inv == TypeOK /\ NothingLost /\ DraftOnDisk /\ OwnTime

-----------------------------------------------------------------------------
LEMMA IdleIsProcess == Idle \in Process
  BY DEF Idle, Nothing, Process, Roster, Reason, Verb, Stage

LEMMA InitInv == Init => Inv
  <1> SUFFICES ASSUME Init PROVE Inv
    OBVIOUS
  <1>1. TypeOK
    BY IdleIsProcess, BoundsAssumption DEF Init, TypeOK, Idle
  <1>2. NothingLost /\ DraftOnDisk /\ OwnTime
    BY DEF Init, NothingLost, DraftOnDisk, OwnTime, Idle, Holding
  <1> QED BY <1>1, <1>2 DEF Inv

(* What a command's step does to the commands: its own record, no other.   *)
LEMMA OneCommand ==
  ASSUME Inv, NEW p \in Proc, NEW r \in Process, proc' = [proc EXCEPT ![p] = r]
  PROVE  proc' \in [Proc -> Process] /\ \A q \in Proc : proc'[q] = IF q = p THEN r ELSE proc[q]
BY DEF Inv, TypeOK

(* A command that ends holds nothing any more.                             *)
LEMMA EndInv ==
  ASSUME Inv, NEW p \in Proc, End(p), UNCHANGED <<files, current, fleet, past>>,
         clock' \in clock..MaxRolls, tmp' \in {0} \cup DOMAIN files
  PROVE  Inv'
<1>1. proc' \in [Proc -> Process] /\ \A q \in Proc : proc'[q] = IF q = p THEN Idle ELSE proc[q]
  BY IdleIsProcess, OneCommand DEF End
<1>2. clock \in Nat /\ clock' \in Nat /\ clock <= clock'
  BY BoundsAssumption DEF Inv, TypeOK
<1>3. TypeOK'
  <2>1. \A q \in Proc : proc'[q].at <= clock'
    <3> TAKE q \in Proc
    <3>1. proc[q].at <= clock /\ proc[q].at \in Nat
      BY DEF Inv, TypeOK, Process
    <3> QED
      BY <1>1, <1>2, <3>1 DEF Idle
  <2>2. DOMAIN files \subseteq 1..clock'
    BY <1>2, BoundsAssumption DEF Inv, TypeOK
  <2> QED
    BY <1>1, <1>2, <2>1, <2>2, BoundsAssumption DEF Inv, TypeOK, fleet, past
<1>4. NothingLost' /\ DraftOnDisk' /\ OwnTime'
  BY <1>1, <1>2 DEF Inv, NothingLost, DraftOnDisk, OwnTime, Idle, Holding, fleet
<1> QED
  BY <1>3, <1>4 DEF Inv

(* The same when the command has changed the fleet in its last step.       *)
LEMMA EndAfterInv ==
  ASSUME Inv, NEW p \in Proc, End(p), UNCHANGED <<clock, files, current, tmp, events, posing>>,
         agents' \subseteq panes' /\ panes' \subseteq Slot /\ parked' \subseteq Slot /\ lastPark' \subseteq Slot,
         \A x \in parked' : \E u \in DOMAIN files : x \in files[u].agents
  PROVE  Inv'
<1>1. proc' \in [Proc -> Process] /\ \A q \in Proc : proc'[q] = IF q = p THEN Idle ELSE proc[q]
  BY IdleIsProcess, OneCommand DEF End
<1>2. TypeOK' /\ NothingLost'
  BY <1>1, BoundsAssumption DEF Inv, TypeOK, NothingLost, Idle
<1>3. DraftOnDisk' /\ OwnTime'
  BY <1>1 DEF Inv, DraftOnDisk, OwnTime, Idle, Holding
<1> QED
  BY <1>2, <1>3 DEF Inv

(* A command goes on, and holds what it held or nothing.                   *)
LEMMA GoOnInv ==
  ASSUME Inv, NEW p \in Proc, NEW s \in Stage, NEW l \in {"pre", "post"}, NEW k \in SUBSET Slot,
         NEW t, NEW d,
         \/ s \notin Holding /\ t = 0 /\ d = Nothing
         \/ /\ proc[p].stage \in Holding \ {"save"} /\ s \in Holding \ {"save"}
            /\ t = proc[p].at /\ d = proc[p].draft,
         Continue(p, s, l, t, d, k),
         UNCHANGED <<clock, files>>,
         agents' \subseteq panes' /\ panes' \subseteq Slot /\ parked' \subseteq Slot /\ lastPark' \subseteq Slot,
         UNCHANGED <<events, posing>>,
         current' \in {0} \cup DOMAIN files,
         tmp' \in {0} \cup DOMAIN files,
         \A x \in parked' : \E u \in DOMAIN files : x \in files[u].agents
  PROVE  Inv'
<1> DEFINE r == [verb |-> proc[p].verb, force |-> proc[p].force, stage |-> s, leg |-> l,
                 at |-> t, draft |-> d, task |-> k]
<1>1. clock \in Nat /\ t \in Nat /\ t <= clock /\ d \in Roster
  BY BoundsAssumption DEF Inv, TypeOK, Process, Nothing, Roster, Reason
<1>2. r \in Process
  BY <1>1 DEF Inv, TypeOK, Process
<1>3. proc' \in [Proc -> Process] /\ \A q \in Proc : proc'[q] = IF q = p THEN r ELSE proc[q]
  BY <1>2, OneCommand DEF Continue
<1>4. TypeOK'
  BY <1>1, <1>3 DEF Inv, TypeOK
<1>5. NothingLost'
  BY DEF NothingLost
<1>6. DraftOnDisk' /\ OwnTime'
  BY <1>3 DEF Inv, DraftOnDisk, OwnTime, Holding
<1> QED
  BY <1>4, <1>5, <1>6 DEF Inv

-----------------------------------------------------------------------------
LEMMA BeginInv == ASSUME Inv, NEW p \in Proc, Begin(p) PROVE Inv'
<1>1. PICK v \in Verb, f \in BOOLEAN :
        /\ v = "set" => SetSource \in DOMAIN files
        /\ proc' = [proc EXCEPT ![p] =
            [verb |-> v, force |-> f, stage |-> IF v = "set" THEN "restore" ELSE "roll",
             leg |-> IF v \in {"secure", "relieve"} THEN "pre" ELSE "post", at |-> 0, draft |-> Nothing,
             task |-> IF v = "set" THEN files[SetSource].agents ELSE {}]]
  BY DEF Begin
<1> DEFINE r == [verb |-> v, force |-> f, stage |-> IF v = "set" THEN "restore" ELSE "roll",
                 leg |-> IF v \in {"secure", "relieve"} THEN "pre" ELSE "post", at |-> 0, draft |-> Nothing,
                 task |-> IF v = "set" THEN files[SetSource].agents ELSE {}]
<1>2. r.task \in SUBSET Slot /\ Nothing \in Roster
  BY <1>1 DEF Inv, TypeOK, Roster, Reason, Nothing
<1>3. r \in Process
  BY <1>2 DEF Process, Stage
<1>4. proc' \in [Proc -> Process] /\ \A q \in Proc : proc'[q] = IF q = p THEN r ELSE proc[q]
  BY <1>1, <1>3, OneCommand
<1>5. r.stage \notin Holding /\ r.at = 0
  BY DEF Holding
<1> HIDE DEF r
<1>6. TypeOK' /\ NothingLost'
  BY <1>4, <1>5, BoundsAssumption DEF Inv, TypeOK, NothingLost, Begin, store, fleet, past
<1>7. DraftOnDisk' /\ OwnTime'
  BY <1>4, <1>5 DEF Inv, DraftOnDisk, OwnTime, Begin, store
<1> QED
  BY <1>6, <1>7 DEF Inv

(* The time of a new roll is later than that of any file or command.       *)
LEMMA RollInv == ASSUME Inv, NEW p \in Proc, Roll(p) PROVE Inv'
<1>0. clock \in Nat /\ clock' = clock + 1 /\ clock' \in clock..MaxRolls
  BY BoundsAssumption DEF Inv, TypeOK, Roll
<1>1. CASE End(p)
  BY <1>0, <1>1, EndInv DEF Roll, Inv, TypeOK
<1>2. ASSUME NEW d \in Roster, Continue(p, "save", proc[p].leg, clock + 1, d, {}) PROVE Inv'
  <2> DEFINE r == [verb |-> proc[p].verb, force |-> proc[p].force, stage |-> "save", leg |-> proc[p].leg,
                   at |-> clock + 1, draft |-> d, task |-> {}]
  <2>1. r \in Process
    BY <1>0 DEF Inv, TypeOK, Process, Stage
  <2>2. proc' \in [Proc -> Process] /\ \A q \in Proc : proc'[q] = IF q = p THEN r ELSE proc[q]
    BY <1>2, <2>1, OneCommand DEF Continue
  <2>3. \A t \in DOMAIN files : t # clock + 1
    BY <1>0 DEF Inv, TypeOK
  <2>4. TypeOK' /\ NothingLost'
    BY <1>0, <2>2 DEF Inv, TypeOK, NothingLost, Roll, fleet, past, Process
  <2>5. DraftOnDisk'
    BY <2>2 DEF Inv, DraftOnDisk, Holding, Roll
  <2>6. \A q \in Proc : proc[q].stage \in Holding => proc[q].at \in 1..clock
    BY DEF Inv, OwnTime
  <2>7. OwnTime'
    BY <1>0, <2>2, <2>3, <2>6 DEF Inv, OwnTime, Roll
  <2> QED
    BY <2>4, <2>5, <2>7 DEF Inv
<1>3. PICK up \in SUBSET Host, why \in ReasonsOf(p) :
        LET seen == {s \in Slot : HostOf[s] \in up}
            roster == [reason |-> why, agents |-> agents \cap seen, panes |-> panes \cap seen]
        IN  End(p) \/ Continue(p, "save", proc[p].leg, clock + 1, roster, {})
  BY DEF Roll
<1> DEFINE seen == {s \in Slot : HostOf[s] \in up}
           roster == [reason |-> why, agents |-> agents \cap seen, panes |-> panes \cap seen]
<1>4. roster \in Roster
  BY SnapAssumption DEF Roster, Reason, ReasonsOf, Inv, TypeOK
<1> QED
  BY <1>1, <1>2, <1>3, <1>4

(* Saving adds a file and takes none away.                                 *)
LEMMA SaveInv == ASSUME Inv, NEW p \in Proc, Save(p) PROVE Inv'
<1> DEFINE t == proc[p].at
           r == [verb |-> proc[p].verb, force |-> proc[p].force, stage |-> "guard", leg |-> proc[p].leg,
                 at |-> t, draft |-> proc[p].draft, task |-> proc[p].task]
<1>0. clock \in Nat /\ t \in 1..clock /\ proc[p] \in Process
  BY BoundsAssumption DEF Inv, TypeOK, OwnTime, Holding, Save
<1>1. r \in Process
  BY <1>0 DEF Process, Stage
<1>2. proc' \in [Proc -> Process] /\ \A q \in Proc : proc'[q] = IF q = p THEN r ELSE proc[q]
  BY <1>1, OneCommand DEF Save, Go, Continue
<1>3. /\ DOMAIN files' = DOMAIN files \cup {t}
      /\ files'[t] = proc[p].draft
      /\ \A u \in DOMAIN files : u # t /\ files'[u] = files[u]
  BY DEF Save, Inv, OwnTime
<1>4. TypeOK'
  <2>1. proc[p].draft \in Roster
    BY <1>0 DEF Process
  <2>2. \A q \in Proc : proc'[q].at <= clock
    BY <1>0, <1>2 DEF Inv, TypeOK
  <2> QED
    BY <1>0, <1>2, <1>3, <2>1, <2>2 DEF Inv, TypeOK, Save, fleet, past
<1>5. NothingLost'
  BY <1>3 DEF Inv, NothingLost, Save, fleet
<1>6. DraftOnDisk'
  BY <1>2, <1>3 DEF Inv, DraftOnDisk
<1>7. OwnTime'
  BY <1>0, <1>2, <1>3 DEF Inv, OwnTime, Save, Holding
<1> QED
  BY <1>4, <1>5, <1>6, <1>7 DEF Inv

LEMMA GuardInv == ASSUME Inv, NEW p \in Proc, Guard(p) PROVE Inv'
<1>1. CASE End(p)
  BY <1>1, EndInv, BoundsAssumption DEF Guard, store, Inv, TypeOK
<1>2. CASE Go(p, "unlink")
  BY <1>2, GoOnInv DEF Guard, Go, Stage, Holding, store, fleet, past, Inv, TypeOK, Process, NothingLost
<1> QED
  BY <1>1, <1>2 DEF Guard

LEMMA UnlinkInv == ASSUME Inv, NEW p \in Proc, Unlink(p) PROVE Inv'
  BY GoOnInv DEF Unlink, Go, Stage, Holding, fleet, past, Inv, TypeOK, Process, NothingLost

LEMMA LinkInv == ASSUME Inv, NEW p \in Proc, Link(p) PROVE Inv'
<1>1. proc[p].at \in DOMAIN files
  BY DEF Link, Inv, DraftOnDisk, Holding
<1>2. CASE End(p) /\ tmp' = tmp
  BY <1>2, EndInv, BoundsAssumption DEF Link, Inv, TypeOK
<1>3. CASE Go(p, "replace") /\ tmp' = proc[p].at
  BY <1>1, <1>3, GoOnInv DEF Link, Go, Stage, Holding, fleet, past, Inv, TypeOK, Process, NothingLost
<1> QED
  BY <1>2, <1>3 DEF Link

LEMMA ReplaceInv == ASSUME Inv, NEW p \in Proc, Replace(p) PROVE Inv'
<1>1. tmp' = 0 /\ current' \in {0} \cup DOMAIN files
  BY DEF Replace, Inv, TypeOK
<1>2. CASE Go(p, "exec")
  BY <1>1, <1>2, GoOnInv DEF Replace, Go, Stage, Holding, fleet, past, Inv, TypeOK, Process, NothingLost
<1>3. CASE End(p)
  <2> DEFINE r == Idle
  <2>1. proc' \in [Proc -> Process] /\ \A q \in Proc : proc'[q] = IF q = p THEN Idle ELSE proc[q]
    BY <1>3, IdleIsProcess, OneCommand DEF End
  <2>2. TypeOK' /\ NothingLost'
    BY <1>1, <2>1, BoundsAssumption DEF Inv, TypeOK, NothingLost, Replace, fleet, past, Idle
  <2>3. DraftOnDisk' /\ OwnTime'
    BY <2>1 DEF Inv, DraftOnDisk, OwnTime, Replace, Idle, Holding
  <2> QED
    BY <2>2, <2>3 DEF Inv
<1> QED
  BY <1>2, <1>3 DEF Replace

(* The agents that exit are agents of the roster the command has on disk.  *)
LEMMA ParkInv == ASSUME Inv, NEW p \in Proc, Park(p) PROVE Inv'
<1>1. proc[p].at \in DOMAIN files /\ files[proc[p].at] = proc[p].draft
  BY DEF Park, Inv, DraftOnDisk, Holding
<1>2. PICK gone \in SUBSET (proc[p].draft.agents \cap agents) :
        /\ agents' = agents \ gone
        /\ parked' = parked \cup gone
        /\ lastPark' = IF proc[p].verb = "secure" THEN lastPark \cup gone ELSE lastPark
        /\ \/ proc[p].verb = "relieve" /\ Continue(p, "restore", "post", 0, Nothing, gone)
           \/ proc[p].verb = "secure" /\ (Continue(p, "roll", "post", 0, Nothing, {}) \/ End(p))
  BY DEF Park
<1>3. \A x \in parked' : \E u \in DOMAIN files : x \in files[u].agents
  BY <1>1, <1>2 DEF Inv, NothingLost
<1>4. /\ agents' \subseteq panes' /\ panes' \subseteq Slot /\ gone \subseteq Slot
      /\ parked' \subseteq Slot /\ lastPark' \subseteq Slot
  BY <1>2 DEF Inv, TypeOK, Park
<1>5. UNCHANGED <<clock, files, current, tmp, events, posing>>
  BY DEF Park, store
<1>6. CASE Continue(p, "restore", "post", 0, Nothing, gone)
  BY <1>3, <1>4, <1>5, <1>6, GoOnInv DEF Stage, Holding, Inv, TypeOK
<1>7. CASE Continue(p, "roll", "post", 0, Nothing, {})
  BY <1>3, <1>4, <1>5, <1>7, GoOnInv DEF Stage, Holding, Inv, TypeOK
<1>8. CASE End(p)
  BY <1>3, <1>4, <1>5, <1>8, EndAfterInv
<1> QED
  BY <1>2, <1>6, <1>7, <1>8

LEMMA RestoreInv == ASSUME Inv, NEW p \in Proc, Restore(p) PROVE Inv'
<1>1. PICK back \in SUBSET proc[p].task :
       /\ agents' = agents \cup back
       /\ panes' = panes \cup back
       /\ parked' = parked \ back
       /\ lastPark' = lastPark \ back
  BY DEF Restore
<1>2. back \subseteq Slot
  BY DEF Inv, TypeOK, Process
<1>3. /\ agents' \subseteq panes' /\ panes' \subseteq Slot
      /\ parked' \subseteq Slot /\ lastPark' \subseteq Slot
  BY <1>1, <1>2 DEF Inv, TypeOK
<1>4. \A x \in parked' : \E u \in DOMAIN files : x \in files[u].agents
  BY <1>1 DEF Inv, NothingLost
<1>5. UNCHANGED <<clock, files, current, tmp, events, posing>>
  BY DEF Restore, store
<1>6. CASE Continue(p, "roll", "post", 0, Nothing, {})
  BY <1>3, <1>4, <1>5, <1>6, GoOnInv DEF Stage, Holding, Inv, TypeOK
<1>7. CASE End(p)
  BY <1>3, <1>4, <1>5, <1>7, EndAfterInv
<1> QED
  BY <1>6, <1>7 DEF Restore

LEMMA DieInv == ASSUME Inv, NEW p \in Proc, Die(p) PROVE Inv'
  BY EndInv, BoundsAssumption DEF Die, store, Inv, TypeOK

(* What happens to the fleet by itself parks nobody.                       *)
LEMMA FleetInv ==
  ASSUME Inv, (\E h \in Host : Reboot(h)) \/ (\E s \in Slot : StartByHand(s))
  PROVE  Inv'
<1>1. UNCHANGED <<store, posing, proc>> /\ parked' \subseteq parked /\ lastPark' \subseteq lastPark
  BY DEF Reboot, StartByHand, past
<1>2. agents' \subseteq panes' /\ panes' \subseteq Slot
  BY DEF Reboot, StartByHand, Inv, TypeOK
<1>3. events' \in 0..MaxEvents
  BY BoundsAssumption DEF Reboot, StartByHand, Inv, TypeOK
<1>4. TypeOK' /\ NothingLost'
  BY <1>1, <1>2, <1>3 DEF Inv, TypeOK, NothingLost, store
<1>5. DraftOnDisk' /\ OwnTime'
  BY <1>1 DEF Inv, DraftOnDisk, OwnTime, store
<1> QED
  BY <1>4, <1>5 DEF Inv

LEMMA StepInv == Inv /\ [Next]_vars => Inv'
<1> SUFFICES ASSUME Inv, [Next]_vars PROVE Inv'
  OBVIOUS
<1>1. CASE UNCHANGED vars
  BY <1>1 DEF vars, store, fleet, past, Inv, TypeOK, NothingLost, DraftOnDisk, OwnTime
<1>2. ASSUME NEW p \in Proc, Command(p) PROVE Inv'
  BY <1>2, BeginInv, RollInv, SaveInv, GuardInv, UnlinkInv, LinkInv, ReplaceInv, ParkInv, RestoreInv, DieInv
  DEF Command
<1>3. CASE (\E h \in Host : Reboot(h)) \/ (\E s \in Slot : StartByHand(s))
  BY <1>3, FleetInv
<1> QED
  BY <1>1, <1>2, <1>3 DEF Next

LEMMA Invariant == Spec => []Inv
  BY InitInv, StepInv, PTL DEF Spec

(* The variables have their types.                                         *)
THEOREM TypeCorrect == Spec => []TypeOK
<1>1. Inv => TypeOK
  BY DEF Inv
<1> QED
  BY <1>1, Invariant, PTL

(* roster.write loses nobody: whatever commands run side by side, whatever *)
(* the guard refuses and whoever is killed, every agent a verb made exit   *)
(* is an agent in some roster on disk.                                     *)
THEOREM NothingLostHolds == Spec => []NothingLost
<1>1. Inv => NothingLost
  BY DEF Inv
<1> QED
  BY <1>1, Invariant, PTL

-----------------------------------------------------------------------------
(* With one command at a time, what the guard compared is still true at    *)
(* the rename: nobody else moved current.json or the temporary link.       *)
GuardStands ==
  /\ \A p \in Proc :
       proc[p].stage \in {"unlink", "link", "replace"} /\ ~Forced(p)
         => GuardAllows(CountOf(current), Cardinality(proc[p].draft.panes))
  /\ \A p \in Proc : proc[p].stage = "replace" => tmp = proc[p].at

LEMMA AloneStep ==
  ASSUME \A p, q \in Proc : p = q
  PROVE  Inv /\ GuardStands /\ [Next]_vars => GuardStands'
<1> SUFFICES ASSUME Inv, GuardStands, [Next]_vars, NEW p \in Proc
             PROVE  /\ proc'[p].stage \in {"unlink", "link", "replace"} /\ ~Forced(p)'
                         => GuardAllows(CountOf(current)', Cardinality(proc'[p].draft.panes))
                    /\ proc'[p].stage = "replace" => tmp' = proc'[p].at
  BY DEF GuardStands
<1>1. CASE proc'[p] = proc[p] /\ UNCHANGED <<files, current, tmp>>
  BY <1>1 DEF GuardStands, Forced, CountOf
<1>2. CASE proc'[p].stage \notin {"unlink", "link", "replace"}
  BY <1>2
<1>3. CASE Guard(p) /\ Go(p, "unlink")
  <2>1. proc'[p] = [verb |-> proc[p].verb, force |-> proc[p].force, stage |-> "unlink", leg |-> proc[p].leg,
                    at |-> proc[p].at, draft |-> proc[p].draft, task |-> proc[p].task]
    BY <1>3 DEF Go, Continue, Inv, TypeOK
  <2>2. ~End(p)
    BY <2>1 DEF End, Idle, Inv, TypeOK
  <2>3. Forced(p)' = Forced(p) /\ CountOf(current)' = CountOf(current)
    BY <1>3, <2>1 DEF Forced, CountOf, Guard, store
  <2> QED
    BY <1>3, <2>1, <2>2, <2>3 DEF Guard
<1>4. CASE Unlink(p) \/ (Link(p) /\ ~End(p))
  <2>1. PICK s \in {"link", "replace"} : Go(p, s) /\ (s = "replace" => tmp' = proc[p].at)
    BY <1>4 DEF Unlink, Link
  <2>2. proc'[p] = [verb |-> proc[p].verb, force |-> proc[p].force, stage |-> s, leg |-> proc[p].leg,
                    at |-> proc[p].at, draft |-> proc[p].draft, task |-> proc[p].task]
    BY <2>1 DEF Go, Continue, Inv, TypeOK
  <2>3. Forced(p)' = Forced(p) /\ CountOf(current)' = CountOf(current)
    BY <1>4, <2>2 DEF Forced, CountOf, Unlink, Link
  <2> QED
    BY <1>4, <2>1, <2>2, <2>3 DEF GuardStands, Unlink, Link
<1>5. ASSUME Command(p) PROVE proc'[p].stage \notin {"unlink", "link", "replace"}
                              \/ (Guard(p) /\ Go(p, "unlink")) \/ Unlink(p) \/ (Link(p) /\ ~End(p))
  <2>1. End(p) => proc'[p].stage = "idle"
    BY DEF End, Idle, Inv, TypeOK
  <2>2. \A s, l, t, d, k : Continue(p, s, l, t, d, k) => proc'[p].stage = s
    BY DEF Continue, Inv, TypeOK
  <2>3. CASE Begin(p)
    BY <2>3 DEF Begin, Inv, TypeOK
  <2> QED
    BY <1>5, <2>1, <2>2, <2>3 DEF Command, Roll, Save, Guard, Replace, Park, Restore, Die, Go
<1>6. (\E q \in Proc : Command(q)) => Command(p)
  OBVIOUS
<1>7. ASSUME (\E h \in Host : Reboot(h)) \/ (\E s \in Slot : StartByHand(s)) \/ UNCHANGED vars
      PROVE  proc'[p] = proc[p] /\ UNCHANGED <<files, current, tmp>>
  BY <1>7 DEF Reboot, StartByHand, vars, store
<1> QED
  BY <1>1, <1>2, <1>3, <1>4, <1>5, <1>6, <1>7 DEF Next

(* The occupant guard holds for commands run one at a time: without        *)
(* --force, current.json never moves to a roster refused against the one   *)
(* it replaces.  (With the heartbeat beside a verb it does not: that is    *)
(* the run guard_race.)                                                    *)
THEOREM GuardKeptAlone ==
  ASSUME \A p, q \in Proc : p = q
  PROVE  Spec => GuardKept
<1>1. Init => GuardStands
  BY DEF Init, GuardStands, Idle
<1> DEFINE Kept ==
      \A p \in Proc :
        proc[p].stage = "replace" /\ proc'[p].stage # "replace" /\ current' # current /\ ~Forced(p)
          => GuardAllows(CountOf(current), CountOf(current'))
<1>2. Inv /\ GuardStands /\ Inv' /\ [Next]_vars => [Kept]_vars
  <2> SUFFICES ASSUME Inv, GuardStands, Inv', [Next]_vars, NEW p \in Proc,
                      proc[p].stage = "replace", current' # current, ~Forced(p)
               PROVE  GuardAllows(CountOf(current), CountOf(current'))
    OBVIOUS
  <2>1. Replace(p)
    BY DEF Next, Command, vars, store, fleet, past, Begin, Roll, Save, Guard, Unlink, Link, Replace, Park, Restore, Die,
           Reboot, StartByHand
  <2>2. current' = proc[p].at /\ files' = files
    BY <2>1 DEF Replace, GuardStands
  <2>3. proc[p].at \in DOMAIN files /\ files[proc[p].at] = proc[p].draft /\ proc[p].at # 0
    BY BoundsAssumption DEF Inv, DraftOnDisk, Holding, TypeOK
  <2>4. CountOf(current') = Cardinality(proc[p].draft.panes)
    BY <2>2, <2>3 DEF CountOf
  <2> QED
    BY <2>4 DEF GuardStands
<1> QED
  BY <1>1, <1>2, AloneStep, Invariant, PTL DEF Spec, GuardKept

-----------------------------------------------------------------------------
(* The roster that set falls in from *)

(* The heartbeat beside one operator: two operators can be in two secures. *)
OneOperator == \A p, q \in Proc \ Timer : p = q

Newest(t) == t \in PreSecure /\ \A u \in PreSecure : u <= t

(* A command gives its roster a reason of its own; the heartbeat's is never *)
(* one a secure writes, and a secure's roster is newer than any on disk    *)
(* that is said to precede one.                                            *)
SaysTrue(p) ==
  /\ p \in Timer => proc[p].verb = "snap"
  /\ proc[p].stage = "exec" => proc[p].leg = "pre"
  /\ proc[p].stage \in Holding => proc[p].draft.reason \in ReasonsOf(p)
  /\ proc[p].stage \in Holding /\ proc[p].verb = "secure" /\ proc[p].leg = "pre" =>
       \A u \in PreSecure : u <= proc[p].at

(* While there is anybody to find, there is a roster to look in; and it has *)
(* them, unless a snap poses as it.                                        *)
LastSecure ==
  /\ lastPark # {} => \E t \in PreSecure : Newest(t)
  /\ \A t \in DOMAIN files \ posing : Newest(t) => lastPark \subseteq files[t].agents
  /\ \A p \in Proc : SaysTrue(p)

LEMMA InitLastSecure == Init => LastSecure
BY DEF Init, LastSecure, SaysTrue, Idle, Holding

(* A command that holds a roster no longer, or still the one it held. *)
GoesOn(p, r) ==
  /\ r.verb = proc[p].verb
  /\ \/ r.stage \notin Holding
     \/ /\ proc[p].stage \in Holding /\ r.stage \in Holding
        /\ r.at = proc[p].at /\ r.draft = proc[p].draft /\ r.leg = proc[p].leg
  /\ r.stage = "exec" => r.leg = "pre"

LEMMA ProcessKept ==
  ASSUME LastSecure, NEW p \in Proc, NEW r, proc' = [proc EXCEPT ![p] = r], proc \in [Proc -> Process],
         r = Idle \/ GoesOn(p, r), UNCHANGED files
  PROVE  \A q \in Proc : SaysTrue(q)'
<1> SUFFICES ASSUME NEW q \in Proc PROVE SaysTrue(q)'
  OBVIOUS
<1>1. SaysTrue(q) /\ PreSecure' = PreSecure
  BY DEF LastSecure, PreSecure
<1>2. CASE q # p \/ r = Idle
  <2>1. CASE proc'[q] = Idle
    BY <2>1 DEF SaysTrue, Idle, Holding
  <2>2. CASE proc'[q] = proc[q]
    BY <1>1, <2>2 DEF SaysTrue, ReasonsOf
  <2> QED BY <1>2, <2>1, <2>2
<1>3. CASE q = p /\ GoesOn(p, r)
  <2>1. proc'[q] = r
    BY <1>3
  <2> QED BY <1>1, <1>3, <2>1 DEF SaysTrue, GoesOn, ReasonsOf, Holding
<1> QED BY <1>2, <1>3

LEMMA ContinueGoesOn ==
  ASSUME NEW p \in Proc, NEW s, NEW l, NEW t, NEW d, NEW k, Continue(p, s, l, t, d, k),
         \/ s \notin Holding
         \/ /\ proc[p].stage \in Holding /\ s \in Holding
            /\ t = proc[p].at /\ d = proc[p].draft /\ l = proc[p].leg,
         s = "exec" => l = "pre"
  PROVE  \E r : proc' = [proc EXCEPT ![p] = r] /\ GoesOn(p, r)
<1> DEFINE r == [verb |-> proc[p].verb, force |-> proc[p].force, stage |-> s, leg |-> l,
                 at |-> t, draft |-> d, task |-> k]
<1>1. proc' = [proc EXCEPT ![p] = r]
  BY DEF Continue
<1>2. GoesOn(p, r)
  BY DEF GoesOn
<1> QED BY <1>1, <1>2

(* Agents come back, or nothing happens to them. *)
LEMMA NobodyParked ==
  ASSUME LastSecure, UNCHANGED <<files, posing>>, lastPark' \subseteq lastPark, \A q \in Proc : SaysTrue(q)'
  PROVE  LastSecure'
BY DEF LastSecure, Newest, PreSecure

LEMMA BeginSecure == ASSUME Inv, LastSecure, NEW p \in Proc, Begin(p) PROVE LastSecure'
<1>1. UNCHANGED <<files, posing, lastPark>>
  BY DEF Begin, store, past
<1>2. /\ proc'[p].stage \in {"restore", "roll"} /\ (p \in Timer => proc'[p].verb = "snap")
      /\ \A q \in Proc : q # p => proc'[q] = proc[q]
  BY DEF Begin, Inv, TypeOK
<1>3. ASSUME NEW q \in Proc PROVE SaysTrue(q)'
  <2>1. SaysTrue(q) /\ PreSecure' = PreSecure
    BY <1>1 DEF LastSecure, PreSecure
  <2>2. CASE q = p
    BY <1>2, <2>2 DEF SaysTrue, Holding
  <2>3. CASE q # p
    BY <1>2, <2>1, <2>3 DEF SaysTrue, ReasonsOf
  <2> QED BY <2>2, <2>3
<1> QED BY <1>1, <1>3, NobodyParked

LEMMA RollSecure == ASSUME Inv, LastSecure, NEW p \in Proc, Roll(p) PROVE LastSecure'
<1>1. UNCHANGED <<files, posing, lastPark>> /\ clock \in Nat /\ proc \in [Proc -> Process]
  BY BoundsAssumption DEF Roll, past, Inv, TypeOK
<1>2. CASE End(p)
  BY <1>1, <1>2, ProcessKept, NobodyParked DEF End
<1>3. CASE ~End(p)
  <2>1. PICK d : d.reason \in ReasonsOf(p) /\ Continue(p, "save", proc[p].leg, clock + 1, d, {})
    BY <1>3 DEF Roll
  <2>2. /\ proc'[p].stage = "save" /\ proc'[p].verb = proc[p].verb /\ proc'[p].leg = proc[p].leg
        /\ proc'[p].at = clock + 1 /\ proc'[p].draft = d
        /\ \A q \in Proc : q # p => proc'[q] = proc[q]
    BY <1>1, <2>1 DEF Continue
  <2>3. \A u \in PreSecure : u <= clock + 1
    BY <1>1 DEF PreSecure, Inv, TypeOK
  <2>4. ASSUME NEW q \in Proc PROVE SaysTrue(q)'
    <3>1. SaysTrue(q) /\ PreSecure' = PreSecure
      BY <1>1 DEF LastSecure, PreSecure
    <3>2. CASE q = p
      BY <2>1, <2>2, <2>3, <3>1, <3>2 DEF SaysTrue, ReasonsOf
    <3>3. CASE q # p
      BY <2>2, <3>1, <3>3 DEF SaysTrue, ReasonsOf
    <3> QED BY <3>2, <3>3
  <2> QED BY <1>1, <2>4, NobodyParked
<1> QED BY <1>2, <1>3

(* The roster of a secure is the newest of its kind from now on, and no    *)
(* agent was parked since; a snap's may pose as it, and any other leaves   *)
(* the newest of its kind alone.                                           *)
LEMMA SaveSecure == ASSUME OneOperator, Inv, LastSecure, NEW p \in Proc, Save(p) PROVE LastSecure'
<1> DEFINE t == proc[p].at
           d == proc[p].draft
<1>1. /\ DOMAIN files' = DOMAIN files \cup {t} /\ files'[t] = d /\ t \notin DOMAIN files
      /\ \A u \in DOMAIN files : files'[u] = files[u]
  BY DEF Save, Inv, OwnTime
<1>2. /\ proc'[p].stage = "guard" /\ proc'[p].verb = proc[p].verb /\ proc'[p].leg = proc[p].leg
      /\ proc'[p].at = t /\ proc'[p].draft = d
      /\ \A q \in Proc : q # p => proc'[q] = proc[q]
  BY DEF Save, Go, Continue, Inv, TypeOK
<1>3. /\ SaysTrue(p) /\ d.reason \in ReasonsOf(p)
      /\ proc[p].verb = "secure" /\ proc[p].leg = "pre" => \A u \in PreSecure : u <= t
  BY DEF LastSecure, SaysTrue, Save, Holding
<1>4. /\ d.reason = "pre-secure" => p \notin Timer
      /\ d.reason = "pre-secure" /\ proc[p].verb # "snap" => proc[p].verb = "secure" /\ proc[p].leg = "pre"
      /\ proc[p].verb = "secure" /\ proc[p].leg = "pre" => d.reason = "pre-secure"
  BY <1>3 DEF ReasonsOf, SaysTrue, Inv, TypeOK, Process
<1>5. PreSecure' = PreSecure \cup (IF d.reason = "pre-secure" THEN {t} ELSE {})
  BY <1>1 DEF PreSecure
<1>6. t \in Nat
  BY DEF Inv, TypeOK, Process
<1>7. ASSUME NEW q \in Proc PROVE SaysTrue(q)'
  <2>1. SaysTrue(q)
    BY DEF LastSecure
  <2>2. CASE q = p
    <3>1. ReasonsOf(p)' = ReasonsOf(p)
      BY <1>2 DEF ReasonsOf
    <3>2. proc[p].verb = "secure" /\ proc[p].leg = "pre" => \A u \in PreSecure' : u <= t
      BY <1>3, <1>5, <1>6
    <3> QED BY <1>2, <1>3, <2>1, <2>2, <3>1, <3>2 DEF SaysTrue, Holding
  <2>3. CASE q # p
    <3>1. proc'[q] = proc[q] /\ ReasonsOf(q)' = ReasonsOf(q)
      BY <1>2, <2>3 DEF ReasonsOf
    <3>2. CASE d.reason # "pre-secure"
      BY <1>5, <2>1, <3>1, <3>2 DEF SaysTrue
    <3>3. CASE d.reason = "pre-secure"
      <4>1. p \notin Timer
        BY <1>4, <3>3
      <4>2. q \in Timer /\ proc[q].verb = "snap"
        BY <2>1, <2>3, <4>1 DEF OneOperator, SaysTrue
      <4> QED BY <2>1, <3>1, <4>2 DEF SaysTrue
    <3> QED BY <3>2, <3>3
  <2> QED BY <2>2, <2>3
<1>8. CASE d.reason # "pre-secure"
  <2>1. UNCHANGED <<lastPark, posing, PreSecure>>
    BY <1>5, <1>8 DEF Save, past
  <2>2. t \notin PreSecure
    BY <1>1 DEF PreSecure
  <2> QED BY <1>1, <1>7, <2>1, <2>2 DEF LastSecure, Newest
<1>9. CASE d.reason = "pre-secure" /\ proc[p].verb = "snap"
  <2>1. posing' = posing \cup {t} /\ lastPark' = lastPark /\ PreSecure' = PreSecure \cup {t}
    BY <1>5, <1>9 DEF Save
  <2>2. \A u \in PreSecure : u \in Nat
    BY DEF PreSecure, Inv, TypeOK
  <2>3. lastPark' # {} => \E u \in PreSecure' : Newest(u)'
    <3> SUFFICES ASSUME lastPark # {} PROVE \E u \in PreSecure' : Newest(u)'
      BY <2>1
    <3>1. PICK u \in PreSecure : Newest(u)
      BY DEF LastSecure
    <3>2. CASE u <= t
      BY <1>6, <2>1, <2>2, <3>1, <3>2 DEF Newest
    <3>3. CASE ~(u <= t)
      BY <1>6, <2>1, <2>2, <3>1, <3>3 DEF Newest
    <3> QED BY <3>2, <3>3
  <2>4. ASSUME NEW u \in DOMAIN files' \ posing', Newest(u)' PROVE lastPark' \subseteq files'[u].agents
    <3>1. u \in DOMAIN files \ posing /\ files'[u] = files[u] /\ Newest(u)
      BY <1>1, <2>1, <2>4 DEF Newest
    <3> QED BY <2>1, <3>1 DEF LastSecure
  <2> QED BY <1>7, <2>3, <2>4 DEF LastSecure
<1>10. CASE d.reason = "pre-secure" /\ proc[p].verb # "snap"
  <2>1. lastPark' = {}
    BY <1>10 DEF Save
  <2> QED BY <1>7, <2>1 DEF LastSecure
<1> QED BY <1>8, <1>9, <1>10

(* What a secure parks is in its roster, the newest of its kind. *)
LEMMA ParkSecure == ASSUME OneOperator, Inv, LastSecure, NEW p \in Proc, Park(p) PROVE LastSecure'
<1>1. PICK gone \in SUBSET (proc[p].draft.agents \cap agents) :
        /\ lastPark' = IF proc[p].verb = "secure" THEN lastPark \cup gone ELSE lastPark
        /\ \/ Continue(p, "restore", "post", 0, Nothing, gone)
           \/ Continue(p, "roll", "post", 0, Nothing, {})
           \/ End(p)
  BY DEF Park
<1>2. UNCHANGED <<files, posing>> /\ proc \in [Proc -> Process]
  BY DEF Park, store, Inv, TypeOK
<1>3. PICK r : proc' = [proc EXCEPT ![p] = r] /\ (r = Idle \/ GoesOn(p, r))
  <2>1. "restore" \notin Holding /\ "roll" \notin Holding
    BY DEF Holding
  <2> QED BY <1>1, <2>1, ContinueGoesOn DEF End
<1>4. \A q \in Proc : SaysTrue(q)'
  BY <1>2, <1>3, ProcessKept
<1>5. CASE proc[p].verb # "secure"
  BY <1>1, <1>2, <1>4, <1>5, NobodyParked
<1>6. CASE proc[p].verb = "secure"
  <2>0. PICK t : t = proc[p].at
    OBVIOUS
  <2>1. t \in DOMAIN files /\ files[t] = proc[p].draft /\ t \in Nat
    BY <2>0 DEF Park, Inv, TypeOK, Process, DraftOnDisk, Holding
  <2>2. Newest(t)
    BY <1>6, <2>0, <2>1 DEF Park, LastSecure, SaysTrue, ReasonsOf, Holding, Newest, PreSecure
  <2>3. \A u \in DOMAIN files : Newest(u) => u = t
    BY <2>1, <2>2, BoundsAssumption DEF Newest, PreSecure, Inv, TypeOK
  <2>4. t \in DOMAIN files \ posing => lastPark \subseteq files[t].agents
    BY <2>2 DEF LastSecure
  <2>5. gone \subseteq files[t].agents
    BY <1>1, <2>1
  <2>6. \A u \in DOMAIN files : Newest(u)' = Newest(u)
    BY <1>2 DEF Newest, PreSecure
  <2>7. t \in PreSecure' /\ Newest(t)'
    BY <1>2, <2>1, <2>2, <2>6 DEF Newest, PreSecure
  <2> QED BY <1>1, <1>2, <1>4, <1>6, <2>1, <2>3, <2>4, <2>5, <2>6, <2>7 DEF LastSecure
<1> QED BY <1>5, <1>6

LEMMA OtherSecure ==
  ASSUME Inv, LastSecure, NEW p \in Proc,
         Guard(p) \/ Unlink(p) \/ Link(p) \/ Replace(p) \/ Restore(p) \/ Die(p)
  PROVE  LastSecure'
<1>1. UNCHANGED <<files, posing>> /\ lastPark' \subseteq lastPark /\ proc \in [Proc -> Process]
  BY DEF Guard, Unlink, Link, Replace, Restore, Die, store, past, Inv, TypeOK
<1>2. PICK r : proc' = [proc EXCEPT ![p] = r] /\ (r = Idle \/ GoesOn(p, r))
  <2>1. CASE End(p)
    BY <2>1 DEF End
  <2>2. ASSUME NEW s \in {"unlink", "link", "replace"}, Go(p, s), proc[p].stage \in Holding
        PROVE  \E r : proc' = [proc EXCEPT ![p] = r] /\ (r = Idle \/ GoesOn(p, r))
    <3>1. s \in Holding
      BY DEF Holding
    <3> QED BY <2>2, <3>1, ContinueGoesOn DEF Go
  <2>3. CASE Go(p, "exec") /\ proc[p].leg = "pre" /\ proc[p].stage \in Holding
    <3>1. "exec" \in Holding
      BY DEF Holding
    <3> QED BY <2>3, <3>1, ContinueGoesOn DEF Go
  <2>4. CASE Continue(p, "roll", "post", 0, Nothing, {})
    <3>1. "roll" \notin Holding
      BY DEF Holding
    <3> QED BY <2>4, <3>1, ContinueGoesOn
  <2> QED BY <2>1, <2>2, <2>3, <2>4 DEF Guard, Unlink, Link, Replace, Restore, Die, Holding
<1> QED BY <1>1, <1>2, ProcessKept, NobodyParked

LEMMA SecureStep == OneOperator /\ Inv /\ LastSecure /\ [Next]_vars => LastSecure'
<1> SUFFICES ASSUME OneOperator, Inv, LastSecure, [Next]_vars PROVE LastSecure'
  OBVIOUS
<1>1. ASSUME NEW p \in Proc, Command(p) PROVE LastSecure'
  BY <1>1, BeginSecure, RollSecure, SaveSecure, ParkSecure, OtherSecure DEF Command
<1>2. ASSUME UNCHANGED <<files, posing, proc>>, lastPark' \subseteq lastPark PROVE LastSecure'
  <2>1. \A q \in Proc : SaysTrue(q)'
    BY <1>2 DEF LastSecure, SaysTrue, PreSecure, ReasonsOf
  <2> QED BY <1>2, <2>1, NobodyParked
<1>3. ASSUME (\E h \in Host : Reboot(h)) \/ (\E s \in Slot : StartByHand(s)) \/ UNCHANGED vars
      PROVE  UNCHANGED <<files, posing, proc>> /\ lastPark' \subseteq lastPark
  BY <1>3 DEF Reboot, StartByHand, vars, store, past
<1> QED BY <1>1, <1>2, <1>3 DEF Next

(* cli.set_source: with one operator beside the heartbeat, while           *)
(* current.json is a roster after a secure, `set` falls in from one in     *)
(* which every agent the last secure parked is still an agent, however the *)
(* two interleave, whatever is refused and whichever is killed; unless the *)
(* operator has labelled a snap as the roster before a secure since.       *)
THEOREM SetSeesLastParkHolds ==
  ASSUME OneOperator
  PROVE  Spec => []SetSeesLastPark
<1>1. Inv /\ LastSecure => SetSeesLastPark
  <2> SUFFICES ASSUME Inv, LastSecure, current # 0, files[current].reason = "post-secure", lastPark # {},
                      SetSource \notin posing
               PROVE  lastPark \subseteq files[SetSource].agents
    BY DEF SetSeesLastPark
  <2>1. PICK t \in PreSecure : Newest(t)
    BY DEF LastSecure
  <2>2. SetSource = CHOOSE u \in PreSecure : \A v \in PreSecure : v <= u
    BY <2>1 DEF SetSource
  <2>3. \A u \in PreSecure : (\A v \in PreSecure : v <= u) => u = t
    BY <2>1, BoundsAssumption DEF Newest, PreSecure, Inv, TypeOK
  <2>4. SetSource = t /\ t \in DOMAIN files
    BY <2>1, <2>2, <2>3 DEF Newest, PreSecure
  <2> QED BY <2>1, <2>4 DEF LastSecure
<1> QED BY <1>1, InitLastSecure, SecureStep, Invariant, PTL DEF Spec
=============================================================================
