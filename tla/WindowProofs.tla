---------------------------- MODULE WindowProofs ----------------------------
(***************************************************************************)
(* Of fleets, plans and requests of any size.  First what the planners     *)
(* write into a plan, then what a step may do to the panes, then the       *)
(* invariants of verbs run one after another.                              *)
(***************************************************************************)
EXTENDS Window, SequenceLemmas

-----------------------------------------------------------------------------
(* What the planners write *)

Text == {"", "exit", "seat", "resume", "prompt"}

Place == [ws : Label, tab : Label, at : Nat]

StepRecord ==
  [op : Op, kind : Kind, host : Host, slot : Slot \cup {NoSlot}, mutating : BOOLEAN, restore : BOOLEAN,
   never : BOOLEAN, session : Session \cup {NoSession}, target : Slot \cup {NoSlot} \cup Nat,
   creates : Slot \cup {NoSlot}, place : Place, text : Text]

Planned == {s \in StepRecord : PlannedStep(s)}

(* A planned step that is no stop.                                         *)
Calm == {s \in Planned : s.op # "stop"}

Occupant ==
  [slot : Slot, session : Session, pane : Nat, ws : Nat, wl : Label, tab : Nat, tl : Label,
   role : {"shell", "agent", "watcher", "bridge"}, status : {"idle", "working", "blocked", "none"}]

LEMMA KindIs ==
  ASSUME NEW op \in Op, NEW h \in Host PROVE KindOf(op, h) \in Kind
  BY DEF KindOf, Kind, Op

LEMMA NoPlaceIs == NoPlace \in Place
  BY PlannerAssumption DEF NoPlace, Place

(* What a step is, as far as its op says anything about it.                *)
StepIs(x, op, h, session, creates, target) ==
  /\ x \in StepRecord
  /\ x.op = op /\ x.kind = KindOf(op, h) /\ x.host = h
  /\ x.session = session /\ x.creates = creates /\ x.target = target

LEMMA BlankIs ==
  ASSUME NEW op \in Op, NEW h \in Host
  PROVE  StepIs(Blank(op, h), op, h, NoSession, NoSlot, NoSlot)
<1>1. KindOf(op, h) \in Kind /\ NoPlace \in Place /\ (op \notin ReadOnly) \in BOOLEAN
  BY KindIs, NoPlaceIs
<1> QED BY <1>1 DEF Blank, StepRecord, StepIs, Text

LEMMA SessionSet ==
  ASSUME NEW x, NEW op, NEW h, NEW s, NEW c, NEW t, StepIs(x, op, h, s, c, t), NEW v \in Session
  PROVE  StepIs([x EXCEPT !.session = v], op, h, v, c, t)
  BY DEF StepRecord, StepIs

LEMMA SlotSet ==
  ASSUME NEW x, NEW op, NEW h, NEW s, NEW c, NEW t, StepIs(x, op, h, s, c, t), NEW v \in Slot
  PROVE  StepIs([x EXCEPT !.slot = v], op, h, s, c, t)
  BY DEF StepRecord, StepIs

LEMMA TargetSet ==
  ASSUME NEW x, NEW op, NEW h, NEW s, NEW c, NEW t, StepIs(x, op, h, s, c, t), NEW v \in Slot \cup {NoSlot} \cup Nat
  PROVE  StepIs([x EXCEPT !.target = v], op, h, s, c, v)
  BY DEF StepRecord, StepIs

LEMMA CreatesSet ==
  ASSUME NEW x, NEW op, NEW h, NEW s, NEW c, NEW t, StepIs(x, op, h, s, c, t), NEW v \in Slot \cup {NoSlot}
  PROVE  StepIs([x EXCEPT !.creates = v], op, h, s, v, t)
  BY DEF StepRecord, StepIs

LEMMA PlaceSet ==
  ASSUME NEW x, NEW op, NEW h, NEW s, NEW c, NEW t, StepIs(x, op, h, s, c, t), NEW v \in Place
  PROVE  StepIs([x EXCEPT !.place = v], op, h, s, c, t)
  BY DEF StepRecord, StepIs

LEMMA TextSet ==
  ASSUME NEW x, NEW op, NEW h, NEW s, NEW c, NEW t, StepIs(x, op, h, s, c, t), NEW v \in Text
  PROVE  StepIs([x EXCEPT !.text = v], op, h, s, c, t)
  BY DEF StepRecord, StepIs

LEMMA RestoreSet ==
  ASSUME NEW x, NEW op, NEW h, NEW s, NEW c, NEW t, StepIs(x, op, h, s, c, t)
  PROVE  StepIs([x EXCEPT !.restore = TRUE], op, h, s, c, t)
  BY DEF StepRecord, StepIs

LEMMA IsPlanned ==
  ASSUME NEW x, NEW op, NEW h, NEW s, NEW c, NEW t, StepIs(x, op, h, s, c, t),
         op \in {"start", "stop", "create", "tab", "split"} => s \in Session,
         op \in {"create", "tab", "split"} => c \in Slot,
         op \in {"tab", "split"} => t \in Slot,
         op \notin Keys \cup {"tab", "split"} => t = NoSlot
  PROVE  x \in Planned
  BY DEF StepIs, StepRecord, Planned, PlannedStep, Place, Text

LEMMA OnSessionIs ==
  ASSUME NEW op \in Op, NEW s \in Session
  PROVE  StepIs(OnSession(op, s), op, HostOf[s], s, NoSlot, NoSlot)
<1>1. HostOf[s] \in Host
  BY PlannerAssumption
<1> QED BY <1>1, BlankIs, SessionSet DEF OnSession

LEMMA AboutIs ==
  ASSUME NEW op \in Op, NEW o \in Occupant, NEW target \in Slot \cup {NoSlot} \cup Nat
  PROVE  StepIs(About(op, o, target), op, HostOf[o.session], o.session, NoSlot, target)
<1> DEFINE x == OnSession(op, o.session)
<1>1. o.session \in Session /\ o.slot \in Slot
  BY DEF Occupant
<1>2. StepIs(x, op, HostOf[o.session], o.session, NoSlot, NoSlot)
  BY <1>1, OnSessionIs
<1> DEFINE y == [x EXCEPT !.slot = o.slot]
<1>3. About(op, o, target) = [y EXCEPT !.target = target]
  BY Zenon DEF About
<1> HIDE DEF x
<1>4. StepIs(y, op, HostOf[o.session], o.session, NoSlot, NoSlot)
  BY <1>1, <1>2, SlotSet
<1> HIDE DEF y
<1> QED BY <1>3, <1>4, TargetSet

LEMMA AboutPlanned ==
  ASSUME NEW op \in Keys \cup {"config"}, NEW o \in Occupant, NEW target \in Slot \cup {NoSlot} \cup Nat,
         op = "config" => target = NoSlot
  PROVE  About(op, o, target) \in Calm
<1>1. op \in Op /\ op \notin {"start", "stop", "create", "tab", "split"} /\ (op \notin Keys => target = NoSlot)
  BY DEF Op, Keys
<1>2. StepIs(About(op, o, target), op, HostOf[o.session], o.session, NoSlot, target)
  BY <1>1, AboutIs
<1> QED BY <1>1, <1>2, IsPlanned DEF StepIs, Calm

LEMMA PlannedText ==
  ASSUME NEW x \in Calm, NEW v \in Text
  PROVE  [x EXCEPT !.text = v] \in Calm
  BY DEF Calm, Planned, PlannedStep, StepRecord, Text

LEMMA PlannedRestore ==
  ASSUME NEW x \in Calm
  PROVE  [x EXCEPT !.restore = TRUE] \in Calm
  BY DEF Calm, Planned, PlannedStep, StepRecord

LEMMA TypedPlanned ==
  ASSUME NEW o \in Occupant, NEW target \in Slot \cup {NoSlot} \cup Nat, NEW text \in {"exit", "seat", "resume"}
  PROVE  Typed(o, target, text) \in Seq(Calm)
<1>1. About("type", o, target) \in Calm /\ About("enter", o, target) \in Calm
  BY AboutPlanned DEF Keys
<1>2. [About("type", o, target) EXCEPT !.text = text] \in Calm
  BY <1>1, PlannedText DEF Text
<1> QED BY <1>1, <1>2 DEF Typed

LEMMA ParkPlanned ==
  ASSUME NEW o \in Occupant PROVE ParkSteps(o) \in Seq(Calm)
<1>1. o.pane \in Slot \cup {NoSlot} \cup Nat
  BY DEF Occupant
<1>2. \A op \in {"clear", "exit", "interrupt"} : About(op, o, o.pane) \in Calm
  BY <1>1, AboutPlanned DEF Keys
<1>3. Typed(o, o.pane, "exit") \in Seq(Calm)
  BY <1>1, TypedPlanned
<1>4. <<About("clear", o, o.pane)>> \in Seq(Calm) /\ <<About("exit", o, o.pane)>> \in Seq(Calm)
      /\ <<About("interrupt", o, o.pane)>> \in Seq(Calm)
  BY <1>2
<1> QED BY <1>3, <1>4 DEF ParkSteps

LEMMA PartsIn ==
  ASSUME NEW C, NEW T, NEW q \in Seq(T), NEW parts, parts = [i \in DOMAIN q |-> parts[i]],
         \A i \in DOMAIN q : parts[i] \in Seq(C)
  PROVE  parts \in Seq(Seq(C)) /\ FlattenSeq(parts) \in Seq(C)
<1>1. <<>> \in Seq(C) /\ \A a, b \in Seq(C) : a \o b \in Seq(C)
  OBVIOUS
<1>2. DOMAIN q = 1..Len(q) /\ Len(q) \in Nat
  BY LenProperties
<1>3. parts \in [1..Len(q) -> Seq(C)]
  BY <1>2
<1>4. parts \in Seq(Seq(C))
  BY <1>2, <1>3
<1> QED BY <1>1, <1>4, FlattenIn

LEMMA ParkedIs ==
  ASSUME NEW pool \in Seq(Occupant), NEW force
  PROVE  Parked(pool, force) = Chosen(pool, {o \in Occupant : IsParked(o, force)})
<1>1. \A i \in DOMAIN pool : pool[i] \in Occupant
  BY ElementOfSeq
<1> QED BY <1>1 DEF Parked, Selection, Chosen

LEMMA AllParkPlanned ==
  ASSUME NEW pool \in Seq(Occupant), NEW force
  PROVE  Parked(pool, force) \in Seq(Occupant) /\ AllParkSteps(pool, force) \in Seq(Calm)
<1> DEFINE parked == Parked(pool, force)
           parts == [i \in DOMAIN parked |-> ParkSteps(parked[i])]
<1>1. parked \in Seq(Occupant)
  <2> DEFINE S == {o \in Occupant : IsParked(o, force)}
  <2>1. parked = Chosen(pool, S) /\ S \in SUBSET Occupant
    BY ParkedIs
  <2> HIDE DEF S
  <2>2. parked \in Seq(S)
    BY <2>1, ChosenIs
  <2> QED BY <2>1, <2>2
<1> HIDE DEF parked
<1>2. \A i \in DOMAIN parked : ParkSteps(parked[i]) \in Seq(Calm)
  BY <1>1, ElementOfSeq, ParkPlanned
<1>3. FlattenSeq(parts) \in Seq(Calm)
  BY <1>1, <1>2, PartsIn
<1>4. AllParkSteps(pool, force) = FlattenSeq(parts)
  BY DEF AllParkSteps, parked
<1> HIDE DEF parts
<1> QED BY <1>1, <1>3, <1>4 DEF parked

LEMMA StartPlanned ==
  ASSUME NEW s \in Session, NEW boot \in Slot \cup {NoSlot}, NEW place \in Place
  PROVE  /\ StartSteps(s, boot, place) \in Seq(Calm)
         /\ StartSteps(s, boot, place)[1].op = "start" /\ StartSteps(s, boot, place)[1].session = s
         /\ Len(StartSteps(s, boot, place)) = 2
<1> DEFINE x == OnSession("start", s)
           y == [x EXCEPT !.creates = boot]
           z == [y EXCEPT !.place = place]
<1>1. StepIs(x, "start", HostOf[s], s, NoSlot, NoSlot)
  BY OnSessionIs DEF Op
<1>2. StepIs(OnSession("up", s), "up", HostOf[s], s, NoSlot, NoSlot)
  BY OnSessionIs DEF Op
<1>3. StartSteps(s, boot, place) = <<z, OnSession("up", s)>>
  BY Zenon DEF StartSteps
<1> HIDE DEF x
<1>4. StepIs(y, "start", HostOf[s], s, boot, NoSlot)
  BY <1>1, CreatesSet
<1> HIDE DEF y
<1>5. StepIs(z, "start", HostOf[s], s, boot, NoSlot)
  BY <1>4, PlaceSet
<1> HIDE DEF z
<1>6. z \in Planned /\ OnSession("up", s) \in Planned
  BY <1>2, <1>5, IsPlanned
<1>7. z \in Calm /\ OnSession("up", s) \in Calm /\ z.op = "start" /\ z.session = s
  BY <1>2, <1>5, <1>6 DEF Calm, StepIs
<1> QED BY <1>3, <1>7

LEMMA BlankPlanned ==
  ASSUME NEW op \in Op \ {"start", "stop", "create", "tab", "split"}, NEW h \in Host
  PROVE  Blank(op, h) \in Calm
<1>1. StepIs(Blank(op, h), op, h, NoSession, NoSlot, NoSlot)
  BY BlankIs
<1>2. Blank(op, h) \in Planned
  BY <1>1, IsPlanned
<1> QED BY <1>1, <1>2 DEF Calm, StepIs

LEMMA OnSessionPlanned ==
  ASSUME NEW op \in Op \ {"start", "stop", "create", "tab", "split"}, NEW s \in Session
  PROVE  OnSession(op, s) \in Calm
<1>1. StepIs(OnSession(op, s), op, HostOf[s], s, NoSlot, NoSlot)
  BY OnSessionIs
<1>2. OnSession(op, s) \in Planned
  BY <1>1, IsPlanned
<1> QED BY <1>1, <1>2 DEF Calm, StepIs

LEMMA AttachPlanned ==
  ASSUME NEW s \in Session PROVE AttachSteps(s) \in Seq(Calm)
<1>1. Blank("viewport", Cockpit) \in Calm /\ Blank("attach", Cockpit) \in Calm
  BY PlannerAssumption, BlankPlanned DEF Op
<1> QED BY <1>1 DEF AttachSteps

-----------------------------------------------------------------------------
(* The shape *)

LEMMA AtIs ==
  ASSUME NEW want, NEW i \in Nat PROVE At(want, i) \in Nat
<1> DEFINE S == {j \in 1..(i - 1) : SameTab(want[j], want[i])}
<1>1. IsFiniteSet(1..(i - 1))
  BY FS_Interval
<1>2. IsFiniteSet(S)
  BY <1>1, FS_Subset
<1>3. Cardinality(S) \in Nat
  BY <1>2, FS_CardinalityType
<1> QED BY <1>3 DEF At

LEMMA PlaceOfIs ==
  ASSUME NEW want \in Seq(Occupant), NEW i \in 1..Len(want)
  PROVE  PlaceOf(want, i) \in Place /\ want[i].slot \in Slot /\ want[i].session \in Session
<1>1. want[i] \in Occupant /\ i \in Nat
  BY ElementOfSeq, LenProperties
<1> QED BY <1>1, AtIs DEF PlaceOf, Place, Occupant

LEMMA LeadOfTabIs ==
  ASSUME NEW want, NEW i \in Nat \ {0} PROVE LeadOfTab(want, i) \in 1..i
<1> DEFINE S == {j \in 1..i : SameTab(want[j], want[i])}
           l == Lowest(S)
<1>1. S \in SUBSET Nat /\ i \in S
  BY DEF SameTab
<1>2. l \in S /\ \A q \in S : l <= q
  <2> HIDE DEF S
  <2> QED BY <1>1, LowestIs
<1> HIDE DEF l
<1>3. ASSUME NEW j \in 1..(l - 1) PROVE ~SameTab(want[j], want[l])
  <2>1. j \in 1..i /\ ~(l <= j)
    BY <1>2
  <2>2. j \notin S
    BY <1>2, <2>1
  <2> QED BY <1>2, <2>1, <2>2 DEF SameTab
<1>4. l \in 1..i /\ SameTab(want[l], want[i]) /\ FirstOfTab(want, l)
  BY <1>2, <1>3 DEF FirstOfTab
<1> QED BY <1>4 DEF LeadOfTab

LEMMA LeadOfWorkspaceIs ==
  ASSUME NEW want, NEW i \in Nat \ {0} PROVE LeadOfWorkspace(want, i) \in 1..i
<1> DEFINE S == {j \in 1..i : want[j].ws = want[i].ws}
           l == Lowest(S)
<1>1. S \in SUBSET Nat /\ i \in S
  OBVIOUS
<1>2. l \in S /\ \A q \in S : l <= q
  <2> HIDE DEF S
  <2> QED BY <1>1, LowestIs
<1> HIDE DEF l
<1>3. ASSUME NEW j \in 1..(l - 1) PROVE want[j].ws # want[l].ws
  <2>1. j \in 1..i /\ ~(l <= j)
    BY <1>2
  <2>2. j \notin S
    BY <1>2, <2>1
  <2> QED BY <1>2, <2>1, <2>2
<1>4. l \in 1..i /\ want[l].ws = want[i].ws /\ FirstOfWorkspace(want, l)
  BY <1>2, <1>3 DEF FirstOfWorkspace
<1> QED BY <1>4 DEF LeadOfWorkspace

LEMMA ShapeStepPlanned ==
  ASSUME NEW op \in {"create", "tab", "split"}, NEW want \in Seq(Occupant), NEW i \in 1..Len(want),
         NEW target \in Slot \cup {NoSlot}, op = "create" => target = NoSlot, op # "create" => target \in Slot
  PROVE  ShapeStep(op, want, i, target) \in Calm
<1> DEFINE ss == want[i].session
           x == OnSession(op, ss)
           y == [x EXCEPT !.target = target]
           z == [y EXCEPT !.creates = want[i].slot]
           u == [z EXCEPT !.place = PlaceOf(want, i)]
<1>1. ss \in Session /\ want[i].slot \in Slot /\ PlaceOf(want, i) \in Place
  BY PlaceOfIs
<1>2. StepIs(x, op, HostOf[ss], ss, NoSlot, NoSlot)
  BY <1>1, OnSessionIs DEF Op
<1>3. ShapeStep(op, want, i, target) = u
  BY Zenon DEF ShapeStep
<1> HIDE DEF x
<1>4. StepIs(y, op, HostOf[ss], ss, NoSlot, target)
  BY <1>2, TargetSet
<1> HIDE DEF y
<1>5. StepIs(z, op, HostOf[ss], ss, want[i].slot, target)
  BY <1>1, <1>4, CreatesSet
<1> HIDE DEF z
<1>6. StepIs(u, op, HostOf[ss], ss, want[i].slot, target)
  BY <1>1, <1>5, PlaceSet
<1> HIDE DEF u, ss
<1>7. u \in Planned
  BY <1>1, <1>6, IsPlanned DEF Keys
<1> QED BY <1>3, <1>6, <1>7 DEF Calm, StepIs

LEMMA CreationPlanned ==
  ASSUME NEW want \in Seq(Occupant), NEW i \in 1..Len(want), NEW live, NEW boot
  PROVE  Creation(want, i, live, boot) \in Seq(Calm)
<1>1. i \in Nat \ {0} /\ Len(want) \in Nat
  BY LenProperties
<1>2. \A j \in 1..i : want[j].slot \in Slot
  BY <1>1, PlaceOfIs
<1>3. want[LeadOfTab(want, i)].slot \in Slot /\ want[LeadOfWorkspace(want, i)].slot \in Slot
  BY <1>1, <1>2, LeadOfTabIs, LeadOfWorkspaceIs
<1>4. /\ ShapeStep("create", want, i, NoSlot) \in Calm
      /\ ShapeStep("tab", want, i, want[LeadOfWorkspace(want, i)].slot) \in Calm
      /\ ShapeStep("split", want, i, want[LeadOfTab(want, i)].slot) \in Calm
  BY <1>3, ShapeStepPlanned
<1> QED BY <1>4 DEF Creation

LEMMA ShapePlanned ==
  ASSUME NEW roster, NEW want \in Seq(Occupant), NEW live, NEW boot
  PROVE  ShapeSteps(roster, want, live, boot) \in Seq(Calm)
<1> DEFINE parts == [i \in DOMAIN want |-> Creation(want, i, live, boot) \o Relayout(roster, want, i, live)]
<1>1. ASSUME NEW i \in DOMAIN want PROVE parts[i] \in Seq(Calm)
  <2>1. i \in 1..Len(want)
    BY LenProperties
  <2>2. Creation(want, i, live, boot) \in Seq(Calm)
    BY <2>1, CreationPlanned
  <2>3. OnSession("layout", want[i].session) \in Calm
    BY <2>1, PlaceOfIs, OnSessionPlanned DEF Op
  <2>4. Relayout(roster, want, i, live) \in Seq(Calm)
    BY <2>3 DEF Relayout
  <2> QED BY <2>2, <2>4
<1>2. ShapeSteps(roster, want, live, boot) = FlattenSeq(parts) /\ parts = [i \in DOMAIN want |-> parts[i]]
  BY DEF ShapeSteps
<1> HIDE DEF parts
<1> QED BY <1>1, <1>2, PartsIn

-----------------------------------------------------------------------------
(* Bringing an occupant back *)

LEMMA AgentPlanned ==
  ASSUME NEW o \in Occupant, NEW target \in Slot \cup {NoSlot} \cup Nat, NEW live, NEW noPrompt
  PROVE  AgentSteps(o, target, live, noPrompt) \in Seq(Calm)
<1>1. /\ About("config", o, NoSlot) \in Calm
      /\ \A op \in {"native", "agent", "idle", "clear", "prompt", "enter"} : About(op, o, target) \in Calm
  BY AboutPlanned DEF Keys
<1>2. /\ [About("prompt", o, target) EXCEPT !.text = "prompt"] \in Calm
      /\ [About("enter", o, target) EXCEPT !.text = "prompt"] \in Calm
  BY <1>1, PlannedText DEF Text
<1>3. Typed(o, target, "seat") \in Seq(Calm) /\ Typed(o, target, "resume") \in Seq(Calm)
  BY TypedPlanned
<1> DEFINE mux == Mux[HostOfOccupant(o)]
           native == mux = "cmux" /\ ~live /\ Trait[o.slot].auto
           A == IF Trait[o.slot].config THEN <<About("config", o, NoSlot)>> ELSE << >>
           B == IF Trait[o.slot].seat /\ ~native THEN Typed(o, target, "seat") ELSE << >>
           C == IF native THEN <<About("native", o, target)>>
                ELSE IF mux = "herdr" THEN <<About("agent", o, target)>>
                ELSE Typed(o, target, "resume")
           E == IF mux = "herdr" THEN <<About("prompt", o, target)>>
                 ELSE << [About("prompt", o, target) EXCEPT !.text = "prompt"],
                         [About("enter", o, target) EXCEPT !.text = "prompt"] >>
           D == IF noPrompt \/ ~Trait[o.slot].prompt THEN << >>
                ELSE <<About("idle", o, target), About("clear", o, target)>> \o E
<1>4. A \in Seq(Calm)
  BY <1>1
<1>5. B \in Seq(Calm)
  BY <1>3
<1>6. C \in Seq(Calm)
  BY <1>1, <1>3
<1>7. E \in Seq(Calm)
  BY <1>1, <1>2
<1>8. D \in Seq(Calm)
  <2> HIDE DEF E
  <2>1. <<About("idle", o, target), About("clear", o, target)>> \in Seq(Calm)
    BY <1>1
  <2> QED BY <1>7, <2>1
<1>9. AgentSteps(o, target, live, noPrompt) = A \o B \o C \o D
  BY Zenon DEF AgentSteps
<1> HIDE DEF A, B, C, D
<1> QED BY <1>4, <1>5, <1>6, <1>8, <1>9

LEMMA WatcherPlanned ==
  ASSUME NEW o \in Occupant, NEW target \in Slot \cup {NoSlot} \cup Nat
  PROVE  WatcherSteps(o, target) \in Seq(Calm)
<1>1. About("relaunch", o, target) \in Calm /\ About("enter", o, target) \in Calm
  BY AboutPlanned DEF Keys
<1> QED BY <1>1 DEF WatcherSteps

LEMMA RestorePlanned ==
  ASSUME NEW want, NEW i, NEW o \in Occupant, NEW live, NEW noPrompt
  PROVE  RestoreSteps(want, i, o, live, noPrompt) \in Seq(Calm)
<1> DEFINE target == IF live /\ FirstOfTab(want, i) THEN o.pane ELSE o.slot
           steps == CASE Protected(o) -> << >>
                      [] ~Protected(o) /\ o.role = "agent" -> AgentSteps(o, target, live, noPrompt)
                      [] ~Protected(o) /\ o.role = "watcher" -> WatcherSteps(o, target)
                      [] OTHER -> << >>
<1>1. target \in Slot \cup {NoSlot} \cup Nat
  BY DEF Occupant
<1> HIDE DEF target
<1>2. AgentSteps(o, target, live, noPrompt) \in Seq(Calm) /\ WatcherSteps(o, target) \in Seq(Calm)
  BY <1>1, AgentPlanned, WatcherPlanned
<1>3. steps \in Seq(Calm)
  BY <1>2
<1>4. RestoreSteps(want, i, o, live, noPrompt) = [k \in DOMAIN steps |-> [steps[k] EXCEPT !.restore = TRUE]]
  BY Zenon DEF RestoreSteps, target
<1> HIDE DEF steps
<1>5. DOMAIN steps = 1..Len(steps) /\ Len(steps) \in Nat /\ \A k \in DOMAIN steps : steps[k] \in Calm
  BY <1>3, LenProperties, ElementOfSeq
<1>6. \A k \in DOMAIN steps : [steps[k] EXCEPT !.restore = TRUE] \in Calm
  BY <1>5, PlannedRestore
<1> QED BY <1>4, <1>5, <1>6

Starts(q, s) == \E x \in ToSet(q) : x.op = "start" /\ x.session = s

LEMMA StartsIn ==
  ASSUME NEW a \in Seq(Calm), NEW b \in Seq(Calm), NEW s, Starts(a, s) \/ Starts(b, s)
  PROVE  Starts(a \o b, s)
<1>1. ToSet(a \o b) = ToSet(a) \cup ToSet(b)
  BY ConcatHas
<1> QED BY <1>1 DEF Starts

LEMMA StartStarts ==
  ASSUME NEW s \in Session, NEW boot \in Slot \cup {NoSlot}, NEW place \in Place
  PROVE  StartSteps(s, boot, place) \in Seq(Calm) /\ Starts(StartSteps(s, boot, place), s)
<1>1. 1 \in DOMAIN StartSteps(s, boot, place)
  BY StartPlanned, LenProperties
<1> QED BY <1>1, StartPlanned DEF Starts, ToSet

Mine(occs, s) == Selection(occs, LAMBDA o : o.session = s)

Want(roster, mine, s) == Selection(roster, LAMBDA o : o.session = s /\ Some(mine, LAMBDA q : q.slot = o.slot))

(* A session with an occupant to restore has a pane in the layout.         *)
LEMMA MineIs ==
  ASSUME NEW occs \in Seq(Occupant), NEW s
  PROVE  Mine(occs, s) \in Seq(Occupant) /\ ToSet(Mine(occs, s)) = {o \in ToSet(occs) : o.session = s}
<1> DEFINE M == {o \in Occupant : o.session = s}
<1>1. \A i \in DOMAIN occs : occs[i] \in Occupant
  BY ElementOfSeq
<1>2. Mine(occs, s) = Chosen(occs, M) /\ M \in SUBSET Occupant
  BY <1>1 DEF Mine, Selection, Chosen
<1>3. ToSet(occs) \cap M = {o \in ToSet(occs) : o.session = s}
  BY <1>1 DEF ToSet
<1> HIDE DEF M
<1>4. Mine(occs, s) \in Seq(M)
  BY <1>2, ChosenIs
<1>5. ToSet(Mine(occs, s)) = ToSet(occs) \cap M
  BY <1>2, ChosenIs
<1> QED BY <1>2, <1>3, <1>4, <1>5

Among(mine, o) == Some(mine, LAMBDA q : q.slot = o.slot)

LEMMA WantIn ==
  ASSUME NEW roster \in Seq(Occupant), NEW mine, NEW s
  PROVE  /\ Want(roster, mine, s) \in Seq(Occupant)
         /\ ToSet(Want(roster, mine, s)) =
              {o \in ToSet(roster) : o.session = s /\ Among(mine, o)}
<1> DEFINE W == {o \in Occupant : o.session = s /\ Among(mine, o)}
<1>1. \A i \in DOMAIN roster : roster[i] \in Occupant
  BY ElementOfSeq
<1>2. Want(roster, mine, s) = Chosen(roster, W) /\ W \in SUBSET Occupant
  BY <1>1 DEF Want, Among, Selection, Chosen
<1>3. ToSet(roster) \cap W = {o \in ToSet(roster) : o.session = s /\ Among(mine, o)}
  BY <1>1 DEF ToSet
<1> HIDE DEF W
<1>4. Want(roster, mine, s) \in Seq(W)
  BY <1>2, ChosenIs
<1>5. ToSet(Want(roster, mine, s)) = ToSet(roster) \cap W
  BY <1>2, ChosenIs
<1> QED BY <1>2, <1>3, <1>4, <1>5

(* A session with an occupant to restore has a pane in the layout.         *)
LEMMA WantIs ==
  ASSUME NEW roster \in Seq(Occupant), NEW occs \in Seq(Occupant), ToSet(occs) \subseteq ToSet(roster),
         NEW s \in SessionsOf(occs), NEW mine, NEW want, mine = Mine(occs, s), want = Want(roster, mine, s)
  PROVE  mine \in Seq(Occupant) /\ want \in Seq(Occupant) /\ 1 \in 1..Len(want)
<1>1. mine \in Seq(Occupant) /\ ToSet(mine) = {o \in ToSet(occs) : o.session = s}
  BY MineIs
<1>2. /\ want \in Seq(Occupant)
      /\ ToSet(want) = {o \in ToSet(roster) : o.session = s /\ Among(mine, o)}
  BY WantIn
<1>3. PICK i \in DOMAIN occs : occs[i].session = s
  BY DEF SessionsOf
<1>4. occs[i] \in ToSet(occs) /\ occs[i] \in ToSet(roster) /\ occs[i] \in ToSet(mine)
  BY <1>1, <1>3 DEF ToSet
<1>5. PICK j \in DOMAIN mine : mine[j] = occs[i]
  BY <1>4 DEF ToSet
<1>6. Among(mine, occs[i])
  BY <1>5 DEF Among, Some
<1>7. occs[i] \in ToSet(want)
  BY <1>2, <1>3, <1>4, <1>6
<1>8. PICK k \in DOMAIN want : want[k] = occs[i]
  BY <1>7 DEF ToSet
<1> QED BY <1>1, <1>2, <1>8, LenProperties

LEMMA SetGroupPlanned ==
  ASSUME NEW roster \in Seq(Occupant), NEW occs \in Seq(Occupant), ToSet(occs) \subseteq ToSet(roster),
         NEW s \in SessionsOf(occs), NEW live, NEW running \in BOOLEAN, NEW noPrompt
  PROVE  /\ SetGroup(roster, s, occs, live, running, noPrompt) \in Seq(Calm)
         /\ ~running => Starts(SetGroup(roster, s, occs, live, running, noPrompt), s)
<1> DEFINE mine == Mine(occs, s)
           want == Want(roster, mine, s)
           boot == IF ~running /\ Mux[HostOf[s]] = "tmux" THEN want[1].slot ELSE NoSlot
           spot(o) == CHOOSE i \in DOMAIN want : want[i].slot = o.slot
           parts == [i \in DOMAIN mine |-> RestoreSteps(want, spot(mine[i]), mine[i], live, noPrompt)]
           A == <<OnSession("reach", s)>>
           B == IF running THEN << >> ELSE StartSteps(s, boot, PlaceOf(want, 1))
           C == AttachSteps(s)
           D == ShapeSteps(roster, want, live, boot)
           E == FlattenSeq(parts)
           F == <<OnSession("ids", s)>>
<1>1. SetGroup(roster, s, occs, live, running, noPrompt) = A \o B \o C \o D \o E \o F
  BY Zenon DEF SetGroup, Mine, Want
<1>2. s \in Session
  <2>1. PICK i \in DOMAIN occs : s = occs[i].session
    BY DEF SessionsOf
  <2>2. occs[i] \in Occupant
    BY ElementOfSeq
  <2> QED BY <2>1, <2>2 DEF Occupant
<1>3. mine \in Seq(Occupant) /\ want \in Seq(Occupant) /\ 1 \in 1..Len(want)
  BY WantIs
<1> HIDE DEF mine, want
<1>4. boot \in Slot \cup {NoSlot} /\ PlaceOf(want, 1) \in Place
  BY <1>3, PlaceOfIs
<1> HIDE DEF boot
<1>5. A \in Seq(Calm) /\ F \in Seq(Calm)
  <2>1. OnSession("reach", s) \in Calm /\ OnSession("ids", s) \in Calm
    BY <1>2, OnSessionPlanned DEF Op
  <2> QED BY <2>1
<1>6. B \in Seq(Calm) /\ (~running => Starts(B, s))
  <2>1. CASE running
    BY <2>1
  <2>2. CASE ~running
    BY <1>2, <1>4, <2>2, StartStarts
  <2> QED BY <2>1, <2>2
<1>7. C \in Seq(Calm)
  BY <1>2, AttachPlanned
<1>8. D \in Seq(Calm)
  BY <1>3, ShapePlanned
<1>9. E \in Seq(Calm)
  <2>1. \A i \in DOMAIN mine : mine[i] \in Occupant
    BY <1>3, ElementOfSeq
  <2> HIDE DEF spot
  <2>2. \A i \in DOMAIN mine : parts[i] \in Seq(Calm)
    BY <2>1, RestorePlanned
  <2>3. parts = [i \in DOMAIN mine |-> parts[i]]
    OBVIOUS
  <2> HIDE DEF parts
  <2> QED BY <1>3, <2>2, <2>3, PartsIn
<1> HIDE DEF A, B, C, D, E, F
<1>10. /\ A \o B \in Seq(Calm) /\ A \o B \o C \in Seq(Calm) /\ A \o B \o C \o D \in Seq(Calm)
       /\ A \o B \o C \o D \o E \in Seq(Calm)
  BY <1>5, <1>6, <1>7, <1>8, <1>9
<1>11. ~running => Starts(A \o B \o C \o D \o E \o F, s)
  BY <1>5, <1>6, <1>7, <1>8, <1>9, <1>10, StartsIn
<1> QED BY <1>1, <1>5, <1>10, <1>11

LEMMA SessionsAre ==
  ASSUME NEW occs \in Seq(Occupant)
  PROVE  /\ SessionsOf(occs) \subseteq Session /\ IsFiniteSet(SessionsOf(occs))
         /\ SetToSeq(SessionsOf(occs)) \in Seq(SessionsOf(occs))
<1>1. SessionsOf(occs) \subseteq Session
  <2>1. \A i \in DOMAIN occs : occs[i] \in Occupant
    BY ElementOfSeq
  <2> QED BY <2>1 DEF SessionsOf, Occupant
<1>2. IsFiniteSet(SessionsOf(occs))
  BY <1>1, FS_Subset, PlannerAssumption
<1> QED BY <1>1, <1>2, SetToSeqIs

LEMMA StartsFlat ==
  ASSUME NEW parts \in Seq(Seq(Calm)), NEW k \in DOMAIN parts, NEW s, Starts(parts[k], s)
  PROVE  Starts(FlattenSeq(parts), s)
<1>1. Around(Calm, FlattenSeq(parts), parts[k])
  BY FlattenHas
<1>2. parts[k] \in Seq(Calm)
  BY ElementOfSeq
<1>3. ToSet(parts[k]) \subseteq ToSet(FlattenSeq(parts))
  BY <1>1, <1>2, AroundHas
<1> QED BY <1>3 DEF Starts

LEMMA SetPlanned ==
  ASSUME NEW roster \in Seq(Occupant), NEW occs \in Seq(Occupant), ToSet(occs) \subseteq ToSet(roster),
         NEW live, NEW running, NEW noPrompt, NEW q, q = SetToSeq(SessionsOf(occs))
  PROVE  /\ SetSteps(roster, occs, live, running, noPrompt) \in Seq(Calm)
         /\ \A i \in DOMAIN q :
               HostOf[q[i]] \notin running => Starts(SetSteps(roster, occs, live, running, noPrompt), q[i])
<1> DEFINE parts == [i \in DOMAIN q |-> SetGroup(roster, q[i], occs, live, HostOf[q[i]] \in running, noPrompt)]
<1>1. q \in Seq(SessionsOf(occs)) /\ SetSteps(roster, occs, live, running, noPrompt) = FlattenSeq(parts) \o <<Snap>>
  BY SessionsAre DEF SetSteps
<1>2. \A i \in DOMAIN q : q[i] \in SessionsOf(occs)
  BY <1>1, ElementOfSeq
<1>3. \A i \in DOMAIN q : parts[i] \in Seq(Calm) /\ (HostOf[q[i]] \notin running => Starts(parts[i], q[i]))
  <2> SUFFICES ASSUME NEW i \in DOMAIN q
               PROVE  parts[i] \in Seq(Calm) /\ (HostOf[q[i]] \notin running => Starts(parts[i], q[i]))
    OBVIOUS
  <2> DEFINE up == HostOf[q[i]] \in running
  <2>1. up \in BOOLEAN /\ q[i] \in SessionsOf(occs)
    BY <1>2
  <2>2. parts[i] = SetGroup(roster, q[i], occs, live, up, noPrompt)
    OBVIOUS
  <2>3. HostOf[q[i]] \notin running <=> ~up
    OBVIOUS
  <2> HIDE DEF up, parts
  <2> QED BY <2>1, <2>2, <2>3, SetGroupPlanned
<1>4. parts = [i \in DOMAIN q |-> parts[i]] /\ DOMAIN parts = DOMAIN q
  OBVIOUS
<1> HIDE DEF parts
<1>5. parts \in Seq(Seq(Calm)) /\ FlattenSeq(parts) \in Seq(Calm)
  BY <1>1, <1>3, <1>4, PartsIn
<1>6. Snap \in Calm
  BY PlannerAssumption, BlankPlanned DEF Snap, Op
<1>7. ASSUME NEW i \in DOMAIN q, HostOf[q[i]] \notin running PROVE Starts(FlattenSeq(parts) \o <<Snap>>, q[i])
  <2>3. Starts(FlattenSeq(parts), q[i])
    BY <1>3, <1>4, <1>5, <1>7, StartsFlat
  <2>4. <<Snap>> \in Seq(Calm)
    BY <1>6
  <2> QED BY <1>5, <2>3, <2>4, StartsIn
<1>8. FlattenSeq(parts) \o <<Snap>> \in Seq(Calm)
  BY <1>5, <1>6
<1> QED BY <1>1, <1>7, <1>8
-----------------------------------------------------------------------------
(* The plans *)

LEMMA ChosenIn ==
  ASSUME NEW T, NEW S \in SUBSET T, NEW seq \in Seq(T)
  PROVE  Chosen(seq, S) \in Seq(T) /\ ToSet(Chosen(seq, S)) \subseteq ToSet(seq)
<1>1. Chosen(seq, S) \in Seq(S) /\ ToSet(Chosen(seq, S)) = ToSet(seq) \cap S
  BY ChosenIs
<1> QED BY <1>1

LEMMA SnapCalm == Snap \in Calm
  BY PlannerAssumption, BlankPlanned DEF Snap, Op

LEMMA SelectedIn ==
  ASSUME NEW roster \in Seq(Occupant), NEW opts
  PROVE  Selected(roster, opts) \in Seq(Occupant) /\ ToSet(Selected(roster, opts)) \subseteq ToSet(roster)
<1> DEFINE S == {o \in Occupant : Named(o, opts) /\ ~OffLimits(o, opts)}
<1>1. \A i \in DOMAIN roster : roster[i] \in Occupant
  BY ElementOfSeq
<1>2. Selected(roster, opts) = Chosen(roster, S) /\ S \in SUBSET Occupant
  BY <1>1 DEF Selected, Selection, Chosen
<1> HIDE DEF S
<1> QED BY <1>2, ChosenIn

LEMMA PlanSetPlanned ==
  ASSUME NEW roster \in Seq(Occupant), NEW opts
  PROVE  PlanSet(roster, opts).steps \in Seq(Calm)
<1> DEFINE occs == Selected(roster, opts)
           steps == IF occs = << >> THEN << >>
                    ELSE SetSteps(roster, occs, FALSE, opts.running, opts.noPrompt)
<1>1. PlanSet(roster, opts).steps = steps
  BY DEF PlanSet, PlanOf
<1>2. occs \in Seq(Occupant) /\ ToSet(occs) \subseteq ToSet(roster)
  BY SelectedIn
<1>3. SetSteps(roster, occs, FALSE, opts.running, opts.noPrompt) \in Seq(Calm)
  <2> HIDE DEF occs
  <2> QED BY <1>2, SetPlanned
<1>4. << >> \in Seq(Calm)
  OBVIOUS
<1>5. steps = << >> \/ steps = SetSteps(roster, occs, FALSE, opts.running, opts.noPrompt)
  OBVIOUS
<1> HIDE DEF steps, occs
<1> QED BY <1>1, <1>3, <1>4, <1>5

LEMMA PoolIn ==
  ASSUME NEW roster \in Seq(Occupant), NEW opts
  PROVE  SecurePool(roster, opts) \in Seq(Occupant)
<1> DEFINE hosts == {HostOf[s] : s \in SessionsOf(Selected(roster, opts))}
           S == {o \in Occupant : HostOfOccupant(o) \in hosts /\ (HostOfOccupant(o) # Cockpit \/ opts.local)}
<1>1. \A i \in DOMAIN roster : roster[i] \in Occupant
  BY ElementOfSeq
<1>2. CASE opts.mode # "host"
  BY <1>2, SelectedIn DEF SecurePool
<1>3. CASE opts.mode = "host"
  <2> HIDE DEF hosts
  <2>1. SecurePool(roster, opts) = Chosen(roster, S) /\ S \in SUBSET Occupant
    BY <1>1, <1>3 DEF SecurePool, Selection, Chosen, hosts
  <2> HIDE DEF S
  <2> QED BY <2>1, ChosenIn
<1> QED BY <1>2, <1>3

LEMMA FoldsCalm ==
  ASSUME NEW parked \in Seq(Occupant) PROVE Folds(parked) \in Seq(Calm)
<1> DEFINE first(i) == \A j \in 1..(i - 1) : parked[j].session # parked[i].session \/ parked[j].ws # parked[i].ws
           fold(o) == [OnSession("fold", o.session) EXCEPT !.target = o.pane]
           parts == [i \in DOMAIN parked |-> IF first(i) THEN <<fold(parked[i])>> ELSE << >>]
<1>1. ASSUME NEW o \in Occupant PROVE fold(o) \in Calm
  <2> DEFINE x == OnSession("fold", o.session)
  <2>1. o.session \in Session /\ o.pane \in Slot \cup {NoSlot} \cup Nat
    BY DEF Occupant
  <2>2. StepIs(x, "fold", HostOf[o.session], o.session, NoSlot, NoSlot)
    BY <2>1, OnSessionIs DEF Op
  <2> HIDE DEF x
  <2>3. StepIs([x EXCEPT !.target = o.pane], "fold", HostOf[o.session], o.session, NoSlot, o.pane)
    BY <2>1, <2>2, TargetSet
  <2>4. [x EXCEPT !.target = o.pane] \in Planned
    BY <2>1, <2>3, IsPlanned DEF Keys
  <2> QED BY <2>3, <2>4 DEF x, Calm, StepIs
<1>2. \A i \in DOMAIN parked : parked[i] \in Occupant
  BY ElementOfSeq
<1>3. Folds(parked) = FlattenSeq(parts)
  BY DEF Folds
<1> HIDE DEF fold, first
<1>4. \A i \in DOMAIN parked : parts[i] \in Seq(Calm)
  <2> TAKE i \in DOMAIN parked
  <2>1. fold(parked[i]) \in Calm
    BY <1>1, <1>2
  <2> QED BY <2>1
<1>5. parts = [i \in DOMAIN parked |-> parts[i]]
  OBVIOUS
<1> HIDE DEF parts
<1> QED BY <1>3, <1>4, <1>5, PartsIn

LEMMA StopPlanned ==
  ASSUME NEW s \in Session
  PROVE  /\ OnSession("stop", s) \in Planned
         /\ OnSession("stop", s).op = "stop" /\ OnSession("stop", s).session = s
<1>1. StepIs(OnSession("stop", s), "stop", HostOf[s], s, NoSlot, NoSlot)
  BY OnSessionIs DEF Op
<1> QED BY <1>1, IsPlanned DEF Keys, StepIs

LEMMA StopsPlanned ==
  ASSUME NEW S \in SUBSET Session
  PROVE  SetToSeq({OnSession("stop", s) : s \in S}) \in Seq(Planned)
<1> DEFINE T == {OnSession("stop", s) : s \in S}
           f == [s \in S |-> OnSession("stop", s)]
<1>1. IsFiniteSet(S)
  BY FS_Subset, PlannerAssumption
<1>2. f \in Surjection(S, T)
  BY DEF Surjection
<1>3. T \in SUBSET Planned
  BY StopPlanned
<1> HIDE DEF T, f
<1>4. IsFiniteSet(T)
  BY <1>1, <1>2, FS_Surjection
<1>5. SetToSeq(T) \in Seq(T)
  BY <1>4, SetToSeqIs
<1>6. SetToSeq(T) \in Seq(Planned)
  BY <1>3, <1>5
<1> QED BY <1>6 DEF T

LEMMA PlanSecurePlanned ==
  ASSUME NEW roster \in Seq(Occupant), NEW opts
  PROVE  PlanSecure(roster, opts).steps \in Seq(Planned)
<1> DEFINE pool == SecurePool(roster, opts)
           A == AllParkSteps(pool, opts.force)
           B == SecureClosings(roster, opts)
<1>1. PlanSecure(roster, opts).steps = <<Snap>> \/ PlanSecure(roster, opts).steps = <<Snap>> \o A \o B
  BY DEF PlanSecure, PlanOf
<1>2. pool \in Seq(Occupant)
  BY PoolIn
<1>3. SessionsOf(pool) \in SUBSET Session
  <2> HIDE DEF pool
  <2> QED BY <1>2, SessionsAre
<1>4. Parked(pool, opts.force) \in Seq(Occupant) /\ A \in Seq(Calm)
  <2> HIDE DEF pool
  <2> QED BY <1>2, AllParkPlanned
<1>5. Folds(Parked(pool, opts.force)) \in Seq(Calm)
  BY <1>4, FoldsCalm
<1>6. Calm \subseteq Planned
  BY DEF Calm
<1>7. B \in Seq(Planned)
  <2>1. B \in {Folds(Parked(pool, opts.force)), SetToSeq({OnSession("stop", s) : s \in SessionsOf(pool)}), << >>}
    BY DEF SecureClosings
  <2>2. SetToSeq({OnSession("stop", s) : s \in SessionsOf(pool)}) \in Seq(Planned)
    BY <1>3, StopsPlanned
  <2>3. Folds(Parked(pool, opts.force)) \in Seq(Planned)
    BY <1>5, <1>6
  <2>4. << >> \in Seq(Planned)
    OBVIOUS
  <2> QED BY <2>1, <2>2, <2>3, <2>4
<1>8. A \in Seq(Planned) /\ <<Snap>> \in Seq(Planned)
  BY <1>4, <1>6, SnapCalm
<1> HIDE DEF A, B
<1>9. <<Snap>> \o A \o B \in Seq(Planned)
  BY <1>7, <1>8
<1> QED BY <1>1, <1>8, <1>9

-----------------------------------------------------------------------------
(* The window of one host *)

OneSession == \A s, t \in Session : HostOf[s] = HostOf[t] => s = t

(* Every session that is stopped is started later, but for those of D.     *)
Owes(q, D) ==
  \A k \in 1..Len(q) : q[k].op = "stop" =>
    \/ q[k].session \in D
    \/ \E j \in (k + 1)..Len(q) : q[j].op = "start" /\ q[j].session = q[k].session

LEMMA CalmOwes ==
  ASSUME NEW c \in Seq(Calm), NEW D PROVE Owes(c, D) /\ c \in Seq(Planned)
<1>1. \A k \in 1..Len(c) : c[k] \in Calm
  OBVIOUS
<1>2. Calm \subseteq Planned
  BY DEF Calm
<1> QED BY <1>1, <1>2 DEF Owes, Calm

LEMMA OwesMore ==
  ASSUME NEW a \in Seq(Planned), NEW b \in Seq(Planned), NEW D, NEW E, Owes(a, D), Owes(b, E),
         \A s \in D : s \in E \/ Starts(b, s)
  PROVE  a \o b \in Seq(Planned) /\ Owes(a \o b, E)
<1> DEFINE q == a \o b
<1>1. /\ q \in Seq(Planned) /\ Len(q) = Len(a) + Len(b) /\ Len(a) \in Nat /\ Len(b) \in Nat
      /\ \A k \in 1..Len(a) : q[k] = a[k]
      /\ \A k \in 1..Len(b) : q[Len(a) + k] = b[k]
  OBVIOUS
<1> HIDE DEF q
<1>2. ASSUME NEW k \in 1..Len(q), q[k].op = "stop", q[k].session \notin E
      PROVE  \E j \in (k + 1)..Len(q) : q[j].op = "start" /\ q[j].session = q[k].session
  <2>1. CASE k <= Len(a)
    <3>1. k \in 1..Len(a) /\ q[k] = a[k]
      BY <1>1, <2>1
    <3>2. CASE a[k].session \in D
      <4>1. Starts(b, a[k].session)
        BY <1>2, <3>1, <3>2
      <4>2. PICK i \in 1..Len(b) : b[i].op = "start" /\ b[i].session = a[k].session
        BY <1>1, <4>1 DEF Starts, ToSet
      <4>3. Len(a) + i \in (k + 1)..Len(q) /\ q[Len(a) + i] = b[i]
        BY <1>1, <2>1
      <4> QED BY <3>1, <4>2, <4>3
    <3>3. CASE a[k].session \notin D
      <4>1. PICK j \in (k + 1)..Len(a) : a[j].op = "start" /\ a[j].session = a[k].session
        BY <1>2, <3>1, <3>3 DEF Owes
      <4>2. j \in (k + 1)..Len(q) /\ q[j] = a[j]
        BY <1>1, <3>1
      <4> QED BY <3>1, <4>1, <4>2
    <3> QED BY <3>2, <3>3
  <2>2. CASE ~(k <= Len(a))
    <3> DEFINE i == k - Len(a)
    <3>0. i \in 1..Len(b) /\ k = Len(a) + i
      BY <1>1, <2>2
    <3>1. i \in 1..Len(b) /\ k = Len(a) + i /\ q[k] = b[i]
      <4> HIDE DEF i
      <4> QED BY <1>1, <3>0
    <3> HIDE DEF i
    <3>2. PICK j \in (i + 1)..Len(b) : b[j].op = "start" /\ b[j].session = b[i].session
      BY <1>2, <3>1 DEF Owes
    <3>3. Len(a) + j \in (k + 1)..Len(q) /\ q[Len(a) + j] = b[j]
      BY <1>1, <3>1
    <3> QED BY <3>1, <3>2, <3>3
  <2> QED BY <2>1, <2>2
<1> QED BY <1>1, <1>2 DEF Owes, q

LEMMA OwesCalm ==
  ASSUME NEW a \in Seq(Planned), NEW c \in Seq(Calm)
  PROVE  a \o c \in Seq(Planned) /\ (Owes(a, {}) => Owes(a \o c, {}))
<1>1. c \in Seq(Planned) /\ Owes(c, {})
  BY CalmOwes
<1> QED BY <1>1, OwesMore

LEMMA KeepsCalm ==
  ASSUME NEW q \in Seq(Session)
  PROVE  FlattenSeq([i \in DOMAIN q |-> <<OnSession("keep", q[i])>>]) \in Seq(Calm)
<1> DEFINE parts == [i \in DOMAIN q |-> <<OnSession("keep", q[i])>>]
<1>1. \A i \in DOMAIN q : parts[i] \in Seq(Calm)
  <2> TAKE i \in DOMAIN q
  <2>1. OnSession("keep", q[i]) \in Calm
    BY ElementOfSeq, OnSessionPlanned DEF Op
  <2> QED BY <2>1
<1>2. parts = [i \in DOMAIN q |-> parts[i]]
  OBVIOUS
<1> HIDE DEF parts
<1>3. FlattenSeq(parts) \in Seq(Calm)
  BY <1>1, <1>2, PartsIn
<1> QED BY <1>3 DEF parts

LEMMA StopsOwe ==
  ASSUME NEW q \in Seq(Session), NEW stops, stops = FlattenSeq([i \in DOMAIN q |-> <<OnSession("stop", q[i])>>])
  PROVE  stops \in Seq(Planned) /\ Owes(stops, ToSet(q))
<1> DEFINE parts == [i \in DOMAIN q |-> <<OnSession("stop", q[i])>>]
           Own == {x \in Planned : x.session \in ToSet(q)}
<1>1. \A i \in DOMAIN q : parts[i] \in Seq(Own)
  <2> TAKE i \in DOMAIN q
  <2>1. q[i] \in Session /\ q[i] \in ToSet(q)
    BY ElementOfSeq DEF ToSet
  <2>2. OnSession("stop", q[i]) \in Own
    BY <2>1, StopPlanned
  <2> QED BY <2>2
<1>2. parts = [i \in DOMAIN q |-> parts[i]] /\ stops = FlattenSeq(parts)
  OBVIOUS
<1>3. Own \subseteq Planned /\ \A x \in Own : x.session \in ToSet(q)
  OBVIOUS
<1> HIDE DEF parts, Own
<1>4. stops \in Seq(Own)
  BY <1>1, <1>2, PartsIn
<1>5. \A k \in 1..Len(stops) : stops[k] \in Own
  BY <1>4
<1>6. stops \in Seq(Planned)
  BY <1>3, <1>4
<1>7. \A k \in 1..Len(stops) : stops[k].session \in ToSet(q)
  BY <1>3, <1>5
<1> QED BY <1>6, <1>7 DEF Owes

LEMMA BringUpStarts ==
  ASSUME NEW roster \in Seq(Occupant), NEW s \in Session
  PROVE  BringUp(roster, s) \in Seq(Calm) /\ Starts(BringUp(roster, s), s)
<1> DEFINE all == Mine(roster, s)
           place == IF all = << >> THEN [NoPlace EXCEPT !.ws = "watchbill"] ELSE [NoPlace EXCEPT !.ws = all[1].wl]
<1>1. all \in Seq(Occupant)
  BY MineIs
<1>2. BringUp(roster, s) = StartSteps(s, NoSlot, place) \o AttachSteps(s)
  BY Zenon DEF BringUp, Mine
<1> HIDE DEF all
<1>3. all # << >> => all[1].wl \in Label
  <2> SUFFICES ASSUME all # << >> PROVE all[1].wl \in Label
    OBVIOUS
  <2>1. 1 \in 1..Len(all)
    BY <1>1
  <2>2. all[1] \in Occupant
    BY <1>1, <2>1
  <2> QED BY <2>2 DEF Occupant
<1>4. place \in Place
  BY <1>3, PlannerAssumption DEF NoPlace, Place
<1> HIDE DEF place
<1>5. StartSteps(s, NoSlot, place) \in Seq(Calm) /\ Starts(StartSteps(s, NoSlot, place), s)
  BY <1>4, StartStarts
<1>6. AttachSteps(s) \in Seq(Calm)
  BY AttachPlanned
<1>7. StartSteps(s, NoSlot, place) \o AttachSteps(s) \in Seq(Calm)
  BY <1>5, <1>6
<1> QED BY <1>2, <1>5, <1>6, <1>7, StartsIn

LEMMA BringUpsStart ==
  ASSUME NEW roster \in Seq(Occupant), NEW q \in Seq(Session), NEW ups,
         ups = FlattenSeq([i \in DOMAIN q |-> BringUp(roster, q[i])])
  PROVE  ups \in Seq(Calm) /\ \A s \in ToSet(q) : Starts(ups, s)
<1> DEFINE parts == [i \in DOMAIN q |-> BringUp(roster, q[i])]
<1>1. \A i \in DOMAIN q : parts[i] \in Seq(Calm) /\ Starts(parts[i], q[i])
  BY ElementOfSeq, BringUpStarts
<1>2. parts = [i \in DOMAIN q |-> parts[i]] /\ ups = FlattenSeq(parts) /\ DOMAIN parts = DOMAIN q
  OBVIOUS
<1> HIDE DEF parts
<1>3. parts \in Seq(Seq(Calm)) /\ ups \in Seq(Calm)
  BY <1>1, <1>2, PartsIn
<1>4. \A i \in DOMAIN q : Starts(ups, q[i])
  BY <1>1, <1>2, <1>3, StartsFlat
<1> QED BY <1>3, <1>4 DEF ToSet

LEMMA CommandsCalm ==
  ASSUME NEW names \in {<< >>, <<"action">>}, NEW h \in Host PROVE Commands(names, h) \in Seq(Calm)
<1>1. Blank("action", h) \in Calm
  BY BlankPlanned DEF Op
<1>2. CASE names = << >>
  <2>1. Commands(names, h) = << >>
    BY <1>2 DEF Commands
  <2> QED BY <2>1
<1>3. CASE names = <<"action">>
  <2>1. DOMAIN names = 1..1 /\ names[1] = "action"
    BY <1>3
  <2>2. Commands(names, h) = [i \in 1..1 |-> Blank(names[i], h)]
    BY <2>1 DEF Commands
  <2>3. \A i \in 1..1 : Blank(names[i], h) \in Calm
    BY <1>1, <2>1
  <2>4. Commands(names, h) = <<Blank(names[1], h)>>
    BY <2>2
  <2> QED BY <2>3, <2>4
<1> QED BY <1>2, <1>3

-----------------------------------------------------------------------------
(* Whom a window restores, and which sessions it stops *)

OnHost(roster, h) == {o \in ToSet(roster) : HostOf[o.session] = h}

LEMMA PoolOn ==
  ASSUME NEW roster \in Seq(Occupant), NEW h, NEW opts
  PROVE  Pool(roster, h, opts) \in Seq(Occupant) /\ ToSet(Pool(roster, h, opts)) \subseteq OnHost(roster, h)
<1> DEFINE S == {o \in Occupant : /\ HostOfOccupant(o) = h /\ o.role \in Parks(opts) /\ ~Protected(o)
                                  /\ opts.action = "upgrade-agents" => o.slot \in opts.kinds}
<1>1. \A i \in DOMAIN roster : roster[i] \in Occupant
  BY ElementOfSeq
<1>2. CASE opts.live
  BY <1>2 DEF Pool, ToSet
<1>3. CASE ~opts.live
  <2>1. Pool(roster, h, opts) = Chosen(roster, S) /\ S \in SUBSET Occupant /\ \A o \in S : HostOf[o.session] = h
    BY <1>1, <1>3 DEF Pool, Selection, Chosen, HostOfOccupant
  <2> HIDE DEF S
  <2>2. Pool(roster, h, opts) \in Seq(S) /\ ToSet(Pool(roster, h, opts)) = ToSet(roster) \cap S
    BY <2>1, ChosenIs
  <2>3. Pool(roster, h, opts) \in Seq(Occupant)
    BY <2>1, <2>2
  <2> QED BY <2>1, <2>2, <2>3 DEF OnHost
<1> QED BY <1>2, <1>3

LEMMA ParkedOn ==
  ASSUME NEW pool \in Seq(Occupant), NEW force
  PROVE  Parked(pool, force) \in Seq(Occupant) /\ ToSet(Parked(pool, force)) \subseteq ToSet(pool)
<1> DEFINE S == {o \in Occupant : IsParked(o, force)}
<1>1. Parked(pool, force) = Chosen(pool, S) /\ S \in SUBSET Occupant
  BY ParkedIs
<1> HIDE DEF S
<1> QED BY <1>1, ChosenIn

LEMMA RestoredOn ==
  ASSUME NEW roster \in Seq(Occupant), NEW h, NEW opts
  PROVE  Restored(roster, h, opts) \in Seq(Occupant) /\ ToSet(Restored(roster, h, opts)) \subseteq OnHost(roster, h)
<1> DEFINE parked == Parked(Pool(roster, h, opts), opts.force)
           among(o) == Some(parked, LAMBDA p : p.slot = o.slot)
           S == {o \in Occupant : HostOfOccupant(o) = h /\ ~Protected(o) /\ o.role \notin {"agent", "bridge"} /\ ~among(o)}
           others == Selection(roster, LAMBDA o : /\ HostOfOccupant(o) = h /\ ~Protected(o)
                                                  /\ o.role \notin {"agent", "bridge"}
                                                  /\ ~Some(parked, LAMBDA p : p.slot = o.slot))
<1>1. parked \in Seq(Occupant) /\ ToSet(parked) \subseteq OnHost(roster, h)
  BY PoolOn, ParkedOn
<1>2. Restored(roster, h, opts) = IF Stops(opts) THEN parked \o others ELSE parked
  BY Zenon DEF Restored
<1> HIDE DEF parked
<1>3. \A i \in DOMAIN roster : roster[i] \in Occupant
  BY ElementOfSeq
<1>4. others = Chosen(roster, S) /\ S \in SUBSET Occupant /\ \A o \in S : HostOf[o.session] = h
  <2> HIDE DEF among
  <2>1. others = Selection(roster, LAMBDA o : HostOfOccupant(o) = h /\ ~Protected(o) /\ o.role \notin {"agent", "bridge"} /\ ~among(o))
    BY DEF Selection, among
  <2> QED BY <1>3, <2>1 DEF Selection, Chosen, HostOfOccupant
<1> HIDE DEF others, S
<1>5. others \in Seq(Occupant) /\ ToSet(others) \subseteq OnHost(roster, h)
  <2>1. others \in Seq(S)
    BY <1>4, ChosenIs
  <2>2. ToSet(others) = ToSet(roster) \cap S
    BY <1>4, ChosenIs
  <2> QED BY <1>4, <2>1, <2>2 DEF OnHost
<1>6. parked \o others \in Seq(Occupant) /\ ToSet(parked \o others) \subseteq OnHost(roster, h)
  BY <1>1, <1>5, ConcatHas
<1> QED BY <1>1, <1>2, <1>6

LEMMA HostSessionsAre ==
  ASSUME NEW roster \in Seq(Occupant), NEW h \in Host
  PROVE  /\ HostSessions(roster, h) \in Seq({s \in Session : HostOf[s] = h})
         /\ 1 \in DOMAIN HostSessions(roster, h)
<1> DEFINE seen == {s \in SessionsOf(roster) : HostOf[s] = h}
           S == IF seen # {} THEN seen ELSE {s \in Session : HostOf[s] = h}
<1>1. S # {} /\ S \subseteq {s \in Session : HostOf[s] = h}
  BY SessionsAre, PlannerAssumption
<1>2. HostSessions(roster, h) = SetToSeq(S)
  BY DEF HostSessions
<1> HIDE DEF S
<1>3. S \subseteq Session
  BY <1>1
<1>4. IsFiniteSet(S)
  BY <1>3, FS_Subset, PlannerAssumption
<1>5. SetToSeq(S) \in Seq(S) /\ Len(SetToSeq(S)) = Cardinality(S)
  BY <1>4, SetToSeqIs
<1>6. Cardinality(S) \in Nat /\ Cardinality(S) # 0
  BY <1>1, <1>4, FS_CardinalityType, FS_EmptySet
<1>7. DOMAIN SetToSeq(S) = 1..Cardinality(S)
  BY <1>5, LenProperties
<1> QED BY <1>1, <1>2, <1>5, <1>6, <1>7
LEMMA RelieveHostPlanned ==
  ASSUME NEW roster \in Seq(Occupant), NEW h \in Host, NEW opts
  PROVE  /\ RelieveHost(roster, h, opts) \in Seq(Planned)
         /\ OneSession => Owes(RelieveHost(roster, h, opts), {})
<1> DEFINE sessions == HostSessions(roster, h)
           stop == Stops(opts)
           restored == Restored(roster, h, opts)
           verify == <<OnSession("verify", sessions[1])>> \o (IF opts.expected THEN <<Blank("expect", h)>> ELSE << >>)
           running == IF stop THEN {} ELSE {h}
           sets == SetSteps(roster, restored, ~stop, running, opts.noPrompt)
           ups == EachSession(sessions, LAMBDA s : BringUp(roster, s))
           A == <<Blank("host-start", h)>>
           B == AllParkSteps(Pool(roster, h, opts), opts.force)
           C == IF Mux[h] = "herdr" THEN EachSession(sessions, LAMBDA s : <<OnSession("keep", s)>>) ELSE << >>
           D == Commands(Early(opts), h)
           E == IF stop THEN EachSession(sessions, LAMBDA s : <<OnSession("stop", s)>>) ELSE << >>
           F == Commands(Late(opts), h)
           G == IF stop THEN << >> ELSE verify
           H == IF restored # << >> THEN sets ELSE IF stop THEN ups ELSE << >>
           I == IF stop THEN verify ELSE << >>
           J == <<Blank("set-complete", h)>>
<1>1. RelieveHost(roster, h, opts) = A \o B \o C \o D \o E \o F \o G \o H \o I \o J
  BY Zenon DEF RelieveHost
<1>2. sessions \in Seq(Session) /\ 1 \in DOMAIN sessions /\ \A s \in ToSet(sessions) : s \in Session /\ HostOf[s] = h
  <2>1. sessions \in Seq({s \in Session : HostOf[s] = h}) /\ 1 \in DOMAIN sessions
    BY HostSessionsAre
  <2> HIDE DEF sessions
  <2>2. \A i \in DOMAIN sessions : sessions[i] \in {s \in Session : HostOf[s] = h}
    BY <2>1, ElementOfSeq
  <2> QED BY <2>1, <2>2 DEF ToSet
<1>3. restored \in Seq(Occupant) /\ ToSet(restored) \subseteq OnHost(roster, h)
  BY RestoredOn
<1>4. B \in Seq(Calm)
  BY PoolOn, AllParkPlanned
<1>5. C \in Seq(Calm)
  <2>1. EachSession(sessions, LAMBDA s : <<OnSession("keep", s)>>)
          = FlattenSeq([i \in DOMAIN sessions |-> <<OnSession("keep", sessions[i])>>])
    BY DEF EachSession
  <2> HIDE DEF sessions
  <2>2. FlattenSeq([i \in DOMAIN sessions |-> <<OnSession("keep", sessions[i])>>]) \in Seq(Calm)
    BY <1>2, KeepsCalm
  <2>3. << >> \in Seq(Calm)
    OBVIOUS
  <2> QED BY <2>1, <2>2, <2>3
<1>6. E \in Seq(Planned) /\ Owes(E, IF stop THEN ToSet(sessions) ELSE {})
  <2>1. EachSession(sessions, LAMBDA s : <<OnSession("stop", s)>>)
          = FlattenSeq([i \in DOMAIN sessions |-> <<OnSession("stop", sessions[i])>>])
    BY DEF EachSession
  <2> DEFINE stops == FlattenSeq([i \in DOMAIN sessions |-> <<OnSession("stop", sessions[i])>>])
  <2>2. stops \in Seq(Planned) /\ Owes(stops, ToSet(sessions))
    <3> HIDE DEF sessions
    <3> QED BY <1>2, StopsOwe
  <2>3. << >> \in Seq(Planned) /\ Owes(<< >>, {})
    BY DEF Owes
  <2> QED BY <2>1, <2>2, <2>3
<1>7. D \in Seq(Calm) /\ F \in Seq(Calm)
  <2>1. Early(opts) \in {<< >>, <<"action">>} /\ Late(opts) \in {<< >>, <<"action">>}
    BY DEF Early, Late
  <2> QED BY <2>1, CommandsCalm
<1>8. verify \in Seq(Calm)
  <2>1. sessions[1] \in Session
    BY <1>2 DEF ToSet
  <2>2. OnSession("verify", sessions[1]) \in Calm /\ Blank("expect", h) \in Calm
    BY <2>1, OnSessionPlanned, BlankPlanned DEF Op
  <2> HIDE DEF sessions
  <2> QED BY <2>2
<1>9. sets \in Seq(Calm) /\ (OneSession /\ stop /\ restored # << >> => \A s \in ToSet(sessions) : Starts(sets, s))
  <2> DEFINE q == SetToSeq(SessionsOf(restored))
  <2>1. ToSet(restored) \subseteq ToSet(roster)
    BY <1>3 DEF OnHost
  <2>2. sets \in Seq(Calm) /\ \A i \in DOMAIN q : HostOf[q[i]] \notin running => Starts(sets, q[i])
    <3> HIDE DEF restored, running, stop
    <3> QED BY <1>3, <2>1, SetPlanned
  <2>3. ASSUME OneSession, stop, restored # << >>, NEW s \in ToSet(sessions) PROVE Starts(sets, s)
    <3>1. 1 \in DOMAIN restored
      <4> HIDE DEF restored
      <4> QED BY <1>3, <2>3, LenProperties
    <3>2. restored[1].session \in SessionsOf(restored) /\ restored[1] \in ToSet(restored)
      BY <3>1 DEF SessionsOf, ToSet
    <3> HIDE DEF restored, sets, sessions
    <3>3. SessionsOf(restored) \subseteq Session /\ IsFiniteSet(SessionsOf(restored)) /\ q \in Seq(SessionsOf(restored))
      BY <1>3, SessionsAre
    <3>4. Len(q) = Cardinality(SessionsOf(restored)) /\ Cardinality(SessionsOf(restored)) # 0 /\ Len(q) \in Nat
      BY <3>2, <3>3, SetToSeqIs, FS_EmptySet, FS_CardinalityType
    <3>5. \A x \in SessionsOf(restored) : x = s
      <4> SUFFICES ASSUME NEW x \in SessionsOf(restored) PROVE x = s
        OBVIOUS
      <4>1. PICK i \in DOMAIN restored : x = restored[i].session
        BY DEF SessionsOf
      <4>2. HostOf[x] = h /\ x \in Session
        BY <1>3, <3>3, <4>1 DEF OnHost, ToSet
      <4> QED BY <1>2, <2>3, <4>2 DEF OneSession
    <3>6. 1 \in DOMAIN q /\ q[1] \in SessionsOf(restored)
      <4> HIDE DEF q
      <4>1. 1 \in DOMAIN q
        BY <3>3, <3>4, LenProperties
      <4> QED BY <3>3, <4>1, ElementOfSeq
    <3>7. HostOf[q[1]] \notin running
      BY <2>3
    <3> HIDE DEF q, running
    <3> QED BY <2>2, <3>5, <3>6, <3>7
  <2> HIDE DEF sets
  <2> QED BY <2>2, <2>3
<1>10. ups \in Seq(Calm) /\ \A s \in ToSet(sessions) : Starts(ups, s)
  <2>1. ups = FlattenSeq([i \in DOMAIN sessions |-> BringUp(roster, sessions[i])])
    BY DEF EachSession
  <2> HIDE DEF sessions, ups
  <2> QED BY <1>2, <2>1, BringUpsStart
<1>11. A \in Seq(Calm) /\ J \in Seq(Calm)
  <2>1. Blank("host-start", h) \in Calm /\ Blank("set-complete", h) \in Calm
    BY BlankPlanned DEF Op
  <2> QED BY <2>1
<1> HIDE DEF verify, sets, ups, sessions, restored
<1>12. << >> \in Seq(Calm)
  OBVIOUS
<1>13. G \in Seq(Calm) /\ I \in Seq(Calm)
  BY <1>8, <1>12
<1>14. H \in Seq(Calm) /\ (OneSession /\ stop => \A s \in ToSet(sessions) : Starts(H, s))
  BY <1>9, <1>10, <1>12
<1> DEFINE S == IF stop THEN ToSet(sessions) ELSE {}
<1>15. OneSession => \A s \in S : s \in {} \/ Starts(H, s)
  BY <1>14
<1>16. Owes(E, S)
  BY <1>6
<1> HIDE DEF A, B, C, D, E, F, G, H, I, J, S
<1>17. A \o B \o C \o D \in Seq(Calm)
  BY <1>4, <1>5, <1>7, <1>11
<1>18. A \o B \o C \o D \o E \in Seq(Planned) /\ Owes(A \o B \o C \o D \o E, S)
  BY <1>6, <1>16, <1>17, CalmOwes, OwesMore
<1>19. A \o B \o C \o D \o E \o F \in Seq(Planned) /\ Owes(A \o B \o C \o D \o E \o F, S)
  BY <1>7, <1>18, CalmOwes, OwesMore
<1>20. A \o B \o C \o D \o E \o F \o G \in Seq(Planned) /\ Owes(A \o B \o C \o D \o E \o F \o G, S)
  BY <1>13, <1>19, CalmOwes, OwesMore
<1>21. /\ A \o B \o C \o D \o E \o F \o G \o H \in Seq(Planned)
       /\ OneSession => Owes(A \o B \o C \o D \o E \o F \o G \o H, {})
  <2>1. H \in Seq(Planned)
    BY <1>14, CalmOwes
  <2> QED BY <1>14, <1>15, <1>20, <2>1, CalmOwes, OwesMore
<1>22. /\ A \o B \o C \o D \o E \o F \o G \o H \o I \in Seq(Planned)
       /\ OneSession => Owes(A \o B \o C \o D \o E \o F \o G \o H \o I, {})
  BY <1>13, <1>21, OwesCalm
<1>23. /\ A \o B \o C \o D \o E \o F \o G \o H \o I \o J \in Seq(Planned)
       /\ OneSession => Owes(A \o B \o C \o D \o E \o F \o G \o H \o I \o J, {})
  BY <1>11, <1>22, OwesCalm
<1> QED BY <1>1, <1>23

LEMMA PlanRelievePlanned ==
  ASSUME NEW roster \in Seq(Occupant), NEW opts, opts.hosts \in Seq(Host)
  PROVE  /\ PlanRelieve(roster, opts).steps \in Seq(Planned)
         /\ OneSession => Owes(PlanRelieve(roster, opts).steps, {})
<1> DEFINE hosts == Selection(opts.hosts, LAMBDA h : InScope(h, opts))
           parts == [i \in DOMAIN hosts |-> RelieveHost(roster, hosts[i], opts)]
           S == {h \in Host : InScope(h, opts)}
           pre == <<Snap, Blank("guard", Cockpit)>>
           R == {q \in Seq(Planned) : OneSession => Owes(q, {})}
<1>1. \A i \in DOMAIN opts.hosts : opts.hosts[i] \in Host
  BY ElementOfSeq
<1>2. hosts = Chosen(opts.hosts, S) /\ S \in SUBSET Host
  BY <1>1 DEF Selection, Chosen
<1>3. PlanRelieve(roster, opts).steps = pre \o FlattenSeq(parts)
  BY DEF PlanRelieve, PlanOf
<1>4. pre \in Seq(Calm)
  <2>1. Blank("guard", Cockpit) \in Calm
    BY PlannerAssumption, BlankPlanned DEF Op
  <2> QED BY <2>1, SnapCalm
<1> HIDE DEF S, hosts, pre
<1>5. hosts \in Seq(Host)
  BY <1>2, ChosenIn
<1>6. DOMAIN hosts = 1..Len(hosts) /\ Len(hosts) \in Nat /\ \A i \in DOMAIN hosts : hosts[i] \in Host
  BY <1>5, LenProperties, ElementOfSeq
<1>7. parts \in Seq(R)
  <2>1. \A i \in DOMAIN hosts : RelieveHost(roster, hosts[i], opts) \in R
    BY <1>6, RelieveHostPlanned
  <2>2. parts \in [1..Len(hosts) -> R]
    BY <1>6, <2>1
  <2> HIDE DEF R, parts
  <2> QED BY <1>6, <2>2
<1> HIDE DEF parts
<1>8. << >> \in R /\ R \in SUBSET Seq(Planned)
  BY DEF Owes
<1>9. \A a, b \in R : a \o b \in R
  BY OwesMore
<1>10. pre \in R
  BY <1>4, CalmOwes
<1> HIDE DEF R
<1>11. FlattenSeq(parts) \in R
  BY <1>7, <1>8, <1>9, FlattenIn
<1>12. pre \o FlattenSeq(parts) \in R
  BY <1>9, <1>10, <1>11
<1> QED BY <1>3, <1>12 DEF R

-----------------------------------------------------------------------------
(* What a step may do to a world: panes are added and none is taken away   *)
(* or moved to another session.                                            *)
Kept(w, v) ==
  /\ v \in World
  /\ Len(w.panes) <= Len(v.panes)
  /\ \A p \in 1..Len(w.panes) : v.panes[p].session = w.panes[p].session

-----------------------------------------------------------------------------
(* Lemmas about panes *)

SameSession(q, r) == r \in Pane /\ r.session = q.session

LEMMA ShellTyped == ASSUME NEW q \in Pane PROVE SameSession(q, Shell(q))
  BY DEF SameSession, Shell, Pane

LEMMA RunsTyped ==
  ASSUME NEW q \in Pane, NEW r \in {"shell", "watcher", "down", "gone"}
  PROVE  SameSession(q, [q EXCEPT !.runs = r]) /\ SameSession(q, [Shell(q) EXCEPT !.runs = r])
  BY DEF SameSession, Shell, Pane

LEMMA JobTyped == ASSUME NEW q \in Pane PROVE SameSession(q, Job(q))
  BY RunsTyped DEF Job

LEMMA AgentInTyped ==
  ASSUME NEW q \in Pane, NEW slot \in Slot \cup {NoSlot} PROVE SameSession(q, AgentIn(q, slot))
  BY DEF SameSession, AgentIn, Pane

LEMMA StatusTyped ==
  ASSUME NEW q \in Pane, NEW st \in {"idle", "working", "blocked"}
  PROVE  SameSession(q, [q EXCEPT !.status = st])
  BY DEF SameSession, Pane

LEMMA TypeTyped ==
  ASSUME NEW q \in Pane, NEW slot \in Slot \cup {NoSlot},
         NEW text \in {"", "exit", "seat", "resume", "prompt", "relaunch"}
  PROVE  SameSession(q, Type(q, text, slot))
<1>1. CASE q.typed = ""
  BY <1>1 DEF SameSession, Type, Pane
<1>2. CASE q.typed # ""
  BY <1>2 DEF SameSession, Type, Pane
<1> QED  BY <1>1, <1>2

LEMMA SubmittedTyped == ASSUME NEW q \in Pane PROVE SameSession(q, Submitted(q))
  BY DEF SameSession, Submitted, Pane

LEMMA SameTyped == ASSUME NEW q \in Pane PROVE SameSession(q, q)
  BY DEF SameSession

LEMMA EnterTyped ==
  ASSUME NEW q \in Pane, NEW r \in Enter(q) PROVE SameSession(q, r)
<1> DEFINE goes == q.status = "idle" /\ q.typed = "exit"
<1>1. CASE q.typed = "" /\ q.status # "blocked"
  BY <1>1, SameTyped DEF Enter
<1>2. CASE ~(q.typed = "" /\ q.status # "blocked")
  <2>1. CASE q.runs = "agent" /\ goes
    BY <1>2, <2>1, ShellTyped, SameTyped DEF Enter
  <2>2. CASE q.runs = "agent" /\ ~goes
    <3>1. r = [Submitted(q) EXCEPT !.status = "working"]
      BY <1>2, <2>2 DEF Enter
    <3> QED  BY <3>1, SubmittedTyped, StatusTyped DEF SameSession
  <2>3. CASE q.runs = "shell" /\ q.typed = "resume"
    <3>1. r \in {AgentIn(q, q.whose), Shell(q)}
      BY <1>2, <2>3 DEF Enter
    <3>2. q.whose \in Slot \cup {NoSlot}
      BY DEF Pane
    <3> QED  BY <3>1, <3>2, AgentInTyped, ShellTyped
  <2>4. CASE q.runs = "shell" /\ q.typed = "relaunch"
    BY <1>2, <2>4, JobTyped DEF Enter
  <2>5. CASE /\ ~(q.runs = "agent" /\ goes) /\ ~(q.runs = "agent" /\ ~goes)
             /\ ~(q.runs = "shell" /\ q.typed = "resume") /\ ~(q.runs = "shell" /\ q.typed = "relaunch")
    BY <1>2, <2>5, SubmittedTyped DEF Enter
  <2> QED  BY <2>1, <2>2, <2>3, <2>4, <2>5
<1> QED  BY <1>1, <1>2

-----------------------------------------------------------------------------
(* Lemmas about worlds *)

LEMMA KeptSelf == ASSUME NEW w \in World PROVE Kept(w, w)
  BY DEF Kept, World

LEMMA WithKept ==
  ASSUME world \in World, NEW p \in DOMAIN world.panes, NEW q, SameSession(world.panes[p], q)
  PROVE  Kept(world, With(p, q)) /\ With(p, q).up = world.up
<1>1. With(p, q).up = world.up /\ With(p, q) = [panes |-> [world.panes EXCEPT ![p] = q], up |-> world.up]
  BY DEF With, World
<1>2. [world.panes EXCEPT ![p] = q] \in Seq(Pane) /\ Len([world.panes EXCEPT ![p] = q]) = Len(world.panes)
  BY DEF World, SameSession
<1>3. \A r \in 1..Len(world.panes) : [world.panes EXCEPT ![p] = q][r].session = world.panes[r].session
  BY DEF World, SameSession
<1> QED  BY <1>1, <1>2, <1>3 DEF Kept, World

LEMMA WorldIs ==
  ASSUME NEW w \in World, NEW panes, NEW up
  PROVE  /\ [w EXCEPT !.up = up, !.panes = panes] = [panes |-> panes, up |-> up]
         /\ [w EXCEPT !.panes = panes] = [panes |-> panes, up |-> w.up]
<1>1. [w EXCEPT !.panes = panes] = [panes |-> panes, up |-> w.up]
  BY DEF World
<1>2. [w EXCEPT !.up = up] = [panes |-> w.panes, up |-> up]
  BY DEF World
<1>3. [[panes |-> w.panes, up |-> up] EXCEPT !.panes = panes] = [panes |-> panes, up |-> up]
  OBVIOUS
<1>4. [w EXCEPT !.up = up, !.panes = panes] = [[w EXCEPT !.up = up] EXCEPT !.panes = panes]
  BY Zenon
<1> QED  BY <1>1, <1>2, <1>3, <1>4

(* A change of every pane that leaves each in its session. *)
LEMMA AllKept ==
  ASSUME NEW w \in World, NEW panes, NEW up \in SUBSET Session,
         DOMAIN panes = DOMAIN w.panes, panes = [p \in DOMAIN w.panes |-> panes[p]],
         \A p \in DOMAIN w.panes : SameSession(w.panes[p], panes[p])
  PROVE  Kept(w, [panes |-> panes, up |-> up])
<1>1. w.panes \in Seq(Pane) /\ DOMAIN w.panes = 1..Len(w.panes) /\ Len(w.panes) \in Nat
  BY DEF World
<1>2. panes \in [1..Len(w.panes) -> Pane]
  BY <1>1 DEF SameSession
<1>3. panes \in Seq(Pane)
  BY <1>1, <1>2
<1>4. Len(panes) = Len(w.panes)
  BY <1>1, <1>2, <1>3
<1> QED  BY <1>1, <1>3, <1>4 DEF Kept, World, SameSession

LEMMA StoppedKept ==
  ASSUME world \in World, NEW s \in Session
  PROVE  Kept(world, Stopped(s)) /\ Stopped(s).up = world.up \ {s}
<1> DEFINE after(q) == IF q.session # s \/ q.runs = "gone" THEN q
                       ELSE [Shell(q) EXCEPT !.runs = IF Mux[HostOf[s]] = "tmux" THEN "gone" ELSE "down"]
           panes == [p \in DOMAIN world.panes |-> after(world.panes[p])]
<1>1. Stopped(s) = [panes |-> panes, up |-> world.up \ {s}]
  <2>1. Stopped(s) = [world EXCEPT !.up = world.up \ {s}, !.panes = panes]
    BY Zenon DEF Stopped
  <2> HIDE DEF panes
  <2> QED  BY <2>1, WorldIs, Zenon
<1>2. \A p \in DOMAIN world.panes : SameSession(world.panes[p], panes[p])
  <2> TAKE p \in DOMAIN world.panes
  <2>1. world.panes[p] \in Pane
    BY DEF World
  <2> QED  BY <2>1, RunsTyped, SameTyped
<1> HIDE DEF after
<1> QED  BY <1>1, <1>2, AllKept DEF World

LEMMA RestartedKept ==
  ASSUME world \in World, NEW s \in Session, NEW as \in {"shell", "gone"}
  PROVE  Kept(world, Restarted(s, as)) /\ Restarted(s, as).up = world.up \cup {s}
<1> DEFINE after(q) == IF q.session = s /\ q.runs = "down" THEN [q EXCEPT !.runs = as] ELSE q
           panes == [p \in DOMAIN world.panes |-> after(world.panes[p])]
<1>1. Restarted(s, as) = [panes |-> panes, up |-> world.up \cup {s}]
  <2>1. Restarted(s, as) = [world EXCEPT !.up = world.up \cup {s}, !.panes = panes]
    BY Zenon DEF Restarted
  <2> HIDE DEF panes
  <2> QED  BY <2>1, WorldIs, Zenon
<1>2. \A p \in DOMAIN world.panes : SameSession(world.panes[p], panes[p])
  <2> TAKE p \in DOMAIN world.panes
  <2>1. world.panes[p] \in Pane
    BY DEF World
  <2> QED  BY <2>1, RunsTyped, SameTyped
<1> HIDE DEF after
<1> QED  BY <1>1, <1>2, AllKept DEF World

(* v is w with one more pane, in session s. *)
Grown(w, v, s) ==
  /\ Kept(w, v) /\ v.up = w.up
  /\ Len(v.panes) = Len(w.panes) + 1
  /\ v.panes[Len(w.panes) + 1].session = s

LEMMA AddedKept ==
  ASSUME NEW w \in World, NEW s \in Session, NEW ws \in Nat, NEW tab \in Nat,
         NEW place \in [ws : Label, tab : Label, at : Nat], NEW slot \in Slot
  PROVE  Grown(w, Added(w, s, ws, tab, place, slot), s)
<1> DEFINE n == Len(w.panes) + 1
           q == [session |-> s, ws |-> IF ws = 0 THEN n ELSE ws, wl |-> place.ws,
                 tab |-> IF tab = 0 THEN n ELSE tab, tl |-> place.tab, slot |-> slot, runs |-> "shell",
                 who |-> NoSlot, status |-> "none", typed |-> "", whose |-> NoSlot]
<1>1. w.panes \in Seq(Pane) /\ n \in Nat
  BY DEF World
<1>2. q \in Pane /\ q.session = s
  BY <1>1 DEF Pane
<1>3. Added(w, s, ws, tab, place, slot) = [panes |-> Append(w.panes, q), up |-> w.up]
  <2>1. Added(w, s, ws, tab, place, slot) = [w EXCEPT !.panes = Append(w.panes, q)]
    BY Zenon DEF Added
  <2> HIDE DEF q
  <2> QED  BY <2>1, WorldIs, Zenon
<1> HIDE DEF q
<1>4. Append(w.panes, q) \in Seq(Pane) /\ Len(Append(w.panes, q)) = n /\ Append(w.panes, q)[n] = q
  BY <1>1, <1>2
<1>5. \A p \in 1..Len(w.panes) : Append(w.panes, q)[p] = w.panes[p]
  BY <1>1, <1>2
<1>6. /\ Added(w, s, ws, tab, place, slot).panes = Append(w.panes, q)
      /\ Added(w, s, ws, tab, place, slot).up = w.up
  BY <1>3
<1> QED  BY <1>1, <1>2, <1>3, <1>4, <1>5, <1>6 DEF Grown, Kept, World

-----------------------------------------------------------------------------
(* What exec remembers of the panes *)

MemOK(w, m) ==
  /\ m \in Mem
  /\ \A s \in Slot : m.map[s] \in 0..Len(w.panes)
  /\ \A t \in Session : \A p \in m.seen[t] : p \in 1..Len(w.panes) /\ w.panes[p].session = t

(* Why no pane is given out twice: a pane that exec has bound to an        *)
(* occupant was either claimed from a restored layout, or made after the   *)
(* layout of its session was read, so that no layout has it.               *)
NotOffered(w, m, p) ==
  \/ p \in m.claimed
  \/ w.panes[p].session \in m.read /\ \A t \in Session : p \notin m.seen[t]

Apart(w, m) ==
  /\ \A s \in Slot : m.map[s] # 0 => NotOffered(w, m, m.map[s])
  /\ \A s, t \in Slot : s # t /\ m.map[s] # 0 => m.map[s] # m.map[t]

LEMMA MemoryKept ==
  ASSUME NEW w \in World, NEW v, Kept(w, v), NEW m, MemOK(w, m)
  PROVE  MemOK(v, m) /\ (Apart(w, m) => Apart(v, m))
<1>1. Len(w.panes) \in Nat /\ Len(v.panes) \in Nat /\ Len(w.panes) <= Len(v.panes)
  BY DEF World, Kept
<1>2. \A p \in 1..Len(w.panes) : v.panes[p].session = w.panes[p].session
  BY DEF Kept
<1>3. \A s \in Slot : m.map[s] \in 0..Len(w.panes)
  BY DEF MemOK
<1>4. MemOK(v, m)
  <2>1. \A t \in Session : \A p \in m.seen[t] : p \in 1..Len(v.panes) /\ v.panes[p].session = t
    BY <1>1, <1>2 DEF MemOK
  <2> QED  BY <1>1, <1>3, <2>1 DEF MemOK
<1>5. ASSUME Apart(w, m) PROVE Apart(v, m)
  <2>2. ASSUME NEW s \in Slot, m.map[s] # 0 PROVE NotOffered(v, m, m.map[s])
    <3>1. m.map[s] \in 1..Len(w.panes)
      BY <1>1, <1>3, <2>2
    <3> QED  BY <1>2, <1>5, <2>2, <3>1 DEF Apart, NotOffered
  <2> QED  BY <1>5, <2>2 DEF Apart
<1> QED  BY <1>4, <1>5

LEMMA LookedApart ==
  ASSUME world \in World, MemOK(world, memory), NEW s, s.session \in Session, NEW m \in Looked(s)
  PROVE  /\ MemOK(world, m)
         /\ m.map = memory.map /\ m.claimed = memory.claimed
         /\ s.session \in m.read
         /\ Apart(world, memory) => Apart(world, m)
<1>1. CASE s.session \in memory.read
  BY <1>1 DEF Looked
<1>2. CASE s.session \notin memory.read
  <2>0. PICK live \in {LivePanes(world, s.session), {}} :
          m = [memory EXCEPT !.read = memory.read \cup {s.session}, !.seen[s.session] = live]
    BY <1>2 DEF Looked
  <2>1. live \in SUBSET Nat /\ \A p \in live : p \in 1..Len(world.panes) /\ world.panes[p].session = s.session
    BY DEF LivePanes, World
  <2>2. m = [memory EXCEPT !.read = memory.read \cup {s.session}, !.seen[s.session] = live]
    BY <2>0
  <2>3. /\ m.map = memory.map /\ m.claimed = memory.claimed
        /\ m.read = memory.read \cup {s.session}
        /\ m.seen = [memory.seen EXCEPT ![s.session] = live]
        /\ m \in Mem
    <3> DEFINE a == [memory EXCEPT !.read = memory.read \cup {s.session}]
    <3>1. memory \in Mem
      BY DEF MemOK
    <3>2. /\ a.map = memory.map /\ a.claimed = memory.claimed /\ a.seen = memory.seen
          /\ a.read = memory.read \cup {s.session} /\ a \in Mem
      BY <3>1 DEF Mem
    <3>3. m = [a EXCEPT !.seen[s.session] = live]
      BY <2>2, Zenon
    <3> HIDE DEF a
    <3>4. [a.seen EXCEPT ![s.session] = live] \in [Session -> SUBSET Nat]
      BY <2>1, <3>2 DEF Mem
    <3>5. m = [a EXCEPT !.seen = [a.seen EXCEPT ![s.session] = live]]
      BY <3>3
    <3>6. m \in Mem /\ m.map = a.map /\ m.claimed = a.claimed /\ m.read = a.read
      BY <3>2, <3>4, <3>5 DEF Mem
    <3>7. m.seen = [a.seen EXCEPT ![s.session] = live]
      BY <3>2, <3>5 DEF Mem
    <3> QED  BY <3>2, <3>6, <3>7
  <2>4. \A t \in Session : m.seen[t] = IF t = s.session THEN live ELSE memory.seen[t]
    BY <2>3 DEF MemOK, Mem
  <2>6. MemOK(world, m)
    BY <2>1, <2>3, <2>4 DEF MemOK
  <2>5. ASSUME Apart(world, memory) PROVE Apart(world, m)
    <3>2. ASSUME NEW x \in Slot, m.map[x] # 0 PROVE NotOffered(world, m, m.map[x])
      <4>1. NotOffered(world, memory, m.map[x])
        BY <2>3, <2>5, <3>2 DEF Apart
      <4>2. CASE m.map[x] \in memory.claimed
        BY <2>3, <4>2 DEF NotOffered
      <4>3. CASE /\ world.panes[m.map[x]].session \in memory.read
                 /\ \A t \in Session : m.map[x] \notin memory.seen[t]
        BY <1>2, <2>1, <2>3, <2>4, <4>3 DEF NotOffered
      <4> QED  BY <4>1, <4>2, <4>3 DEF NotOffered
    <3> QED  BY <2>3, <2>5, <3>2 DEF Apart
  <2> QED  BY <2>3, <2>5, <2>6
<1> QED  BY <1>1, <1>2

(* n is m with slot bound to p. *)
Binds(m, n, slot, p) ==
  /\ n \in Mem
  /\ n.read = m.read /\ n.seen = m.seen
  /\ m.claimed \subseteq n.claimed
  /\ \A t \in Slot : n.map[t] = m.map[t] \/ (t = slot /\ n.map[t] = p)

LEMMA BindApart ==
  ASSUME NEW w \in World, NEW m, MemOK(w, m), NEW n, NEW p \in 1..Len(w.panes), NEW slot,
         Binds(m, n, slot, p)
  PROVE  /\ MemOK(w, n)
         /\ Apart(w, m) /\ NotOffered(w, n, p) /\ (\A t \in Slot : m.map[t] # p) => Apart(w, n)
<1>1. \A t \in Slot : n.map[t] = m.map[t] \/ (t = slot /\ n.map[t] = p)
  BY DEF Binds
<1>2. \A t \in Slot : m.map[t] \in 0..Len(w.panes)
  BY DEF MemOK
<1>3. Len(w.panes) \in Nat
  BY DEF World
<1>4. MemOK(w, n)
  BY <1>1, <1>2, <1>3 DEF MemOK, Binds
<1>5. ASSUME Apart(w, m), NotOffered(w, n, p), \A t \in Slot : m.map[t] # p
      PROVE  Apart(w, n)
  <2>2. ASSUME NEW t \in Slot, n.map[t] # 0 PROVE NotOffered(w, n, n.map[t])
    <3>1. CASE n.map[t] = m.map[t]
      <4>1. NotOffered(w, m, m.map[t])
        BY <1>5, <2>2, <3>1 DEF Apart
      <4> QED  BY <3>1, <4>1 DEF NotOffered, Binds
    <3>2. CASE n.map[t] = p
      BY <1>5, <3>2
    <3> QED  BY <1>1, <3>1, <3>2
  <2>3. \A t, u \in Slot : t # u /\ n.map[t] # 0 => n.map[t] # n.map[u]
    BY <1>1, <1>5 DEF Apart
  <2> QED  BY <2>2, <2>3 DEF Apart
<1> QED  BY <1>4, <1>5

LEMMA BoundIs ==
  ASSUME NEW m \in Mem, NEW slot \in Slot \cup {NoSlot}, NEW p \in Nat
  PROVE  Binds(m, Bound(m, slot, p), slot, p)
<1>1. CASE slot = NoSlot
  BY <1>1 DEF Bound, Binds
<1>2. CASE slot # NoSlot
  <2>1. Bound(m, slot, p) = [m EXCEPT !.map = [m.map EXCEPT ![slot] = p]]
    BY <1>2 DEF Bound
  <2>2. [m.map EXCEPT ![slot] = p] \in [Slot -> Nat]
    BY <1>2 DEF Mem
  <2> QED  BY <1>2, <2>1, <2>2 DEF Mem, Binds
<1> QED  BY <1>1, <1>2

(* A pane that has just been made. *)
LEMMA NewPaneApart ==
  ASSUME NEW w \in World, NEW v, Kept(w, v), NEW n, n = Len(w.panes) + 1, Len(v.panes) = n,
         NEW m, MemOK(w, m), NEW slot \in Slot \cup {NoSlot}
  PROVE  /\ MemOK(v, Bound(m, slot, n))
         /\ v.panes[n].session \in m.read /\ Apart(w, m) => Apart(v, Bound(m, slot, n))
<1> DEFINE b == Bound(m, slot, n)
<1>1. Len(w.panes) \in Nat /\ n \in 1..Len(v.panes) /\ n \in Nat
  BY DEF World
<1>2. v \in World /\ m \in Mem
  BY DEF Kept, MemOK
<1>3. MemOK(v, m) /\ (Apart(w, m) => Apart(v, m))
  BY MemoryKept
<1>4. Binds(m, b, slot, n)
  BY <1>1, <1>2, BoundIs
<1> HIDE DEF b
<1>5. MemOK(v, b) /\ (Apart(v, m) /\ NotOffered(v, b, n) /\ (\A t \in Slot : m.map[t] # n) => Apart(v, b))
  BY <1>1, <1>2, <1>3, <1>4, BindApart
<1>6. \A t \in Slot : m.map[t] # n
  BY <1>1 DEF MemOK
<1>7. ASSUME v.panes[n].session \in m.read, Apart(w, m) PROVE NotOffered(v, b, n)
  <2>1. \A t \in Session : n \notin m.seen[t]
    BY <1>1 DEF MemOK
  <2> QED  BY <1>4, <1>7, <2>1 DEF NotOffered, Binds
<1> QED  BY <1>3, <1>5, <1>6, <1>7 DEF b

(* A restored pane that nobody has claimed. *)
LEMMA ReusedApart ==
  ASSUME world \in World, MemOK(world, memory), NEW s, s.session \in Session,
         s.creates \in Slot \cup {NoSlot}, NEW m \in Looked(s), NEW p \in Reusable(s, m)
  PROVE  MemOK(world, Reused(s, m, p)) /\ (Apart(world, memory) => Apart(world, Reused(s, m, p)))
<1> DEFINE b == Bound(m, s.creates, p)
           n == Reused(s, m, p)
<1>1. /\ MemOK(world, m) /\ m.map = memory.map /\ m.claimed = memory.claimed
      /\ Apart(world, memory) => Apart(world, m)
  BY LookedApart
<1>2. p \in m.seen[s.session] /\ p \notin memory.claimed
  <2>1. p \in m.seen[s.session] /\ p \notin m.claimed
    BY Zenon DEF Reusable
  <2> QED  BY <1>1, <2>1
<1>3. p \in 1..Len(world.panes) /\ p \in Nat /\ m \in Mem
  BY <1>1, <1>2 DEF MemOK, Mem
<1>4. Binds(m, b, s.creates, p)
  BY <1>3, BoundIs
<1>5. n = [b EXCEPT !.claimed = b.claimed \cup {p}]
  BY Zenon DEF Reused
<1> HIDE DEF b, n
<1>6. Binds(m, n, s.creates, p) /\ p \in n.claimed
  BY <1>3, <1>4, <1>5 DEF Mem, Binds
<1>7. MemOK(world, n) /\ (Apart(world, m) /\ NotOffered(world, n, p) /\ (\A t \in Slot : m.map[t] # p) => Apart(world, n))
  BY <1>1, <1>3, <1>6, BindApart
<1>8. NotOffered(world, n, p)
  BY <1>6 DEF NotOffered
<1>9. ASSUME Apart(world, m), NEW t \in Slot, m.map[t] = p PROVE FALSE
  <2>1. p # 0
    BY <1>3
  <2>2. NotOffered(world, m, p)
    BY <1>9, <2>1 DEF Apart
  <2> QED  BY <1>1, <1>2, <2>2 DEF NotOffered
<1> QED  BY <1>1, <1>7, <1>8, <1>9 DEF n

-----------------------------------------------------------------------------
(* What a step leaves behind *)

(* No tmux session is started whose first pane is to be an occupant's.     *)
NoTmuxBoot == AtStep /\ This.op = "start" /\ Mux[This.host] = "tmux" => This.creates = NoSlot

Sound == world \in World /\ MemOK(world, memory)

(* Only a stop takes a session down, and only its own.                     *)
UpHolds(w) ==
  \A t \in world.up : t \in w.up \/ (AtStep /\ This.op = "stop" /\ This.session = t)

Leaves(w, m) ==
  /\ Kept(world, w) /\ UpHolds(w)
  /\ MemOK(w, m)
  /\ NoTmuxBoot /\ Apart(world, memory) => Apart(w, m)

Fits(r) == Leaves(r.world, r.memory)

LEMMA ResultFits ==
  ASSUME NEW out, NEW w, NEW m, Leaves(w, m) PROVE Fits(Result(out, w, m))
  BY DEF Fits, Result

LEMMA SameFits == ASSUME Sound PROVE Leaves(world, memory)
  BY KeptSelf DEF Leaves, Sound, UpHolds

LEMMA FailsFits == ASSUME Sound, NEW r \in Fails PROVE Fits(r)
  BY SameFits, ResultFits DEF Fails

(* A change of the panes that exec keeps no memory of. *)
LEMMA KeptFits ==
  ASSUME Sound, NEW w, Kept(world, w), UpHolds(w) PROVE Leaves(w, memory)
  BY MemoryKept DEF Leaves, Sound

(* A command done, or reported as failed with or without its effect. *)
LEMMA DoesFits ==
  ASSUME Sound, NEW w, NEW m, Leaves(w, m), NEW r \in Does(w, m) PROVE Fits(r)
<1>1. r = Result("ok", w, m) \/ r = Result("fail", world, memory) \/ r = Result("fail", w, memory)
  BY DEF Does
<1>2. Leaves(w, memory)
  BY KeptFits DEF Leaves
<1> QED  BY <1>1, <1>2, SameFits, ResultFits

LEMMA NothingFits == ASSUME Sound, NEW r \in Nothing PROVE Fits(r)
  BY SameFits, DoesFits DEF Nothing

LEMMA PaneFits ==
  ASSUME Sound, NEW p \in DOMAIN world.panes, NEW q, SameSession(world.panes[p], q),
         NEW r \in Does(With(p, q), memory)
  PROVE  Fits(r)
<1>1. Kept(world, With(p, q)) /\ UpHolds(With(p, q))
  BY WithKept DEF Sound, UpHolds
<1> QED  BY <1>1, KeptFits, DoesFits

LEMMA MakeFits ==
  ASSUME Sound, NEW s, PlannedStep(s), s.op \in {"create", "tab", "split"}, ~Unfilled(s),
         NEW r \in Make(s)
  PROVE  Fits(r)
<1> DEFINE base == PaneOf(s)
           ws == IF s.op = "create" THEN 0 ELSE world.panes[base].ws
           tab == IF s.op = "split" THEN world.panes[base].tab ELSE 0
           wl == IF s.op = "create" THEN s.place.ws ELSE world.panes[base].wl
           place == [s.place EXCEPT !.ws = wl]
           n == Len(world.panes) + 1
           w == Added(world, s.session, ws, tab, place, s.creates)
<1>1. s.session \in Session /\ s.creates \in Slot /\ s.place \in [ws : Label, tab : Label, at : Nat]
  BY DEF PlannedStep
<1>3. s.op \in {"tab", "split"} => base \in DOMAIN world.panes /\ world.panes[base] \in Pane
  <2> SUFFICES ASSUME s.op \in {"tab", "split"} PROVE base \in DOMAIN world.panes /\ world.panes[base] \in Pane
    OBVIOUS
  <2>1. ~ByName(s) /\ s.target \in Slot
    BY DEF ByName, PlannedStep
  <2>2. base = memory.map[s.target] /\ base # 0
    BY <2>1 DEF PaneOf, Unfilled
  <2>3. memory.map[s.target] \in 0..Len(world.panes)
    BY <2>1 DEF Sound, MemOK
  <2> QED  BY <2>2, <2>3 DEF Sound, World
<1>4. ws \in Nat /\ tab \in Nat /\ place \in [ws : Label, tab : Label, at : Nat]
  <2>1. ws \in Nat
    BY <1>3 DEF Pane
  <2>2. tab \in Nat
    BY <1>3 DEF Pane
  <2>3. wl \in Label
    BY <1>1, <1>3 DEF Pane
  <2> QED  BY <1>1, <2>1, <2>2, <2>3
<1> HIDE DEF base, ws, tab, place
<1>5. Kept(world, w) /\ UpHolds(w) /\ Len(w.panes) = n /\ w.panes[n].session = s.session
  <2>1. world \in World
    BY DEF Sound
  <2>2. Grown(world, w, s.session)
    BY <1>1, <1>4, <2>1, AddedKept, Zenon
  <2> QED  BY <2>2 DEF Grown, UpHolds
<1>6. ASSUME NEW m \in Looked(s)
      PROVE  /\ Leaves(w, Bound(m, s.creates, n)) /\ Leaves(world, m)
             /\ \A p \in Reusable(s, m) : Leaves(world, Reused(s, m, p))
  <2>1. /\ MemOK(world, m) /\ s.session \in m.read
        /\ Apart(world, memory) => Apart(world, m)
    BY <1>1, <1>6, LookedApart DEF Sound
  <2>2. Leaves(w, Bound(m, s.creates, n))
    <3> HIDE DEF w, n
    <3>1. world \in World /\ n = Len(world.panes) + 1
      BY DEF Sound, n
    <3> QED  BY <1>1, <1>5, <2>1, <3>1, NewPaneApart DEF Leaves
  <2>3. Leaves(world, m)
    BY <2>1, KeptSelf DEF Leaves, Sound, UpHolds
  <2>4. ASSUME NEW p \in Reusable(s, m) PROVE Leaves(world, Reused(s, m, p))
    BY <1>1, <1>6, ReusedApart, KeptSelf DEF Leaves, Sound, UpHolds
  <2> QED  BY <2>2, <2>3, <2>4
<1>7. CASE s.session \notin world.up
  BY <1>7, FailsFits DEF Make
<1>8. CASE s.session \in world.up
  <2>1. PICK m \in Looked(s) :
          r \in IF Reusable(s, m) # {} THEN {Result("ok", world, Reused(s, m, CHOOSE p \in Reusable(s, m) : TRUE))}
                ELSE MadeAnew(s, m)
    BY <1>8, Zenon DEF Make
  <2>2. CASE Reusable(s, m) # {}
    <3>1. (CHOOSE p \in Reusable(s, m) : TRUE) \in Reusable(s, m)
      BY <2>2
    <3>2. r = Result("ok", world, Reused(s, m, CHOOSE p \in Reusable(s, m) : TRUE))
      BY <2>1, <2>2
    <3> QED  BY <1>6, <3>1, <3>2, ResultFits
  <2>3. CASE Reusable(s, m) = {}
    <3>1. r = Result("fail", world, m) \/ r \in Does(w, Bound(m, s.creates, n))
      BY <2>1, <2>3, Zenon DEF MadeAnew, w, ws, tab, place, base
    <3> QED  BY <1>6, <3>1, ResultFits, DoesFits
  <2> QED  BY <2>2, <2>3
<1> QED  BY <1>7, <1>8

LEMMA StartFits ==
  ASSUME Sound, NEW s, PlannedStep(s), AtStep, s = This, s.op = "start", NEW r \in Start(s)
  PROVE  Fits(r)
<1>1. /\ s.session \in Session /\ s.creates \in Slot \cup {NoSlot} /\ s.host \in Host
      /\ s.place \in [ws : Label, tab : Label, at : Nat]
  BY DEF PlannedStep
<1>2. CASE Mux[s.host] # "tmux"
  <2>1. r \in Does(Restarted(s.session, "shell"), memory) \cup Does(Restarted(s.session, "gone"), memory)
    BY <1>2, Zenon DEF Start
  <2>2. \A as \in {"shell", "gone"} : Leaves(Restarted(s.session, as), memory)
    BY <1>1, RestartedKept, KeptFits DEF Sound, UpHolds
  <2> QED  BY <2>1, <2>2, DoesFits
<1>3. CASE Mux[s.host] = "tmux"
  <2> DEFINE slot == IF s.creates = NoSlot THEN CHOOSE x \in Slot : TRUE ELSE s.creates
             up == [world EXCEPT !.up = world.up \cup {s.session}]
             n == Len(world.panes) + 1
             w == Added(up, s.session, 0, 0, s.place, slot)
  <2>1. slot \in Slot
    BY <1>1, WindowAssumption
  <2>2. up \in World /\ up.panes = world.panes /\ up.up = world.up \cup {s.session}
    BY <1>1 DEF Sound, World
  <2> HIDE DEF slot, up
  <2>3. Kept(up, w) /\ w.up = up.up /\ Len(w.panes) = n
    <3>1. 0 \in Nat
      OBVIOUS
    <3>2. Grown(up, w, s.session)
      BY <1>1, <2>1, <2>2, <3>1, AddedKept, Zenon
    <3> QED  BY <2>2, <3>2 DEF Grown
  <2>4. r \in Fails \cup Does(w, Bound(memory, s.creates, n))
    BY <1>3, Zenon DEF Start, slot, up
  <2>5. Kept(world, w) /\ UpHolds(w)
    BY <2>2, <2>3 DEF Kept, UpHolds
  <2>6. MemOK(w, Bound(memory, s.creates, n))
    <3> HIDE DEF w, n
    <3>1. n = Len(world.panes) + 1 /\ world \in World /\ MemOK(world, memory)
      BY DEF n, Sound
    <3> QED  BY <1>1, <2>3, <2>5, <3>1, NewPaneApart
  <2>7. ASSUME NoTmuxBoot, Apart(world, memory) PROVE Apart(w, Bound(memory, s.creates, n))
    <3>1. Bound(memory, s.creates, n) = memory
      BY <1>3, <2>7 DEF NoTmuxBoot, Bound
    <3> QED  BY <2>5, <2>7, <3>1, MemoryKept DEF Sound
  <2>8. Leaves(w, Bound(memory, s.creates, n))
    BY <2>5, <2>6, <2>7 DEF Leaves
  <2> QED  BY <2>4, <2>8, FailsFits, DoesFits
<1> QED  BY <1>2, <1>3

LEMMA OnPaneFits ==
  ASSUME Sound, NEW s, PlannedStep(s), s.op \in Keys, Alive(world, PaneOf(s)), NEW r \in OnPane(s)
  PROVE  Fits(r)
<1> DEFINE p == PaneOf(s)
           q == world.panes[p]
           mux == Mux[s.host]
<1>1. p \in DOMAIN world.panes /\ q \in Pane
  BY DEF Alive, Sound, World
<1>2. /\ s.slot \in Slot \cup {NoSlot}
      /\ s.text \in {"", "exit", "seat", "resume", "prompt", "relaunch"}
  BY DEF PlannedStep
<1>3. ASSUME NEW a, SameSession(q, a), r \in Does(With(p, a), memory) PROVE Fits(r)
  BY <1>1, <1>3, PaneFits
<1>4. SameSession(q, q) /\ SameSession(q, Submitted(q)) /\ SameSession(q, Shell(q)) /\ SameSession(q, Job(q))
  BY <1>1, SameTyped, SubmittedTyped, ShellTyped, JobTyped
<1>5. SameSession(q, AgentIn(q, s.slot)) /\ SameSession(q, Type(q, s.text, s.slot))
      /\ SameSession(q, Type(q, "relaunch", s.slot))
  BY <1>1, <1>2, AgentInTyped, TypeTyped
<1>6. \A a \in Enter(q) : SameSession(q, a) /\ Leaves(With(p, a), memory)
  <2> TAKE a \in Enter(q)
  <2>1. SameSession(q, a)
    BY <1>1, EnterTyped
  <2> QED  BY <1>1, <2>1, WithKept, KeptFits DEF Sound, UpHolds
<1>7. SameSession(q, [q EXCEPT !.status = "working"])
  BY <1>1, StatusTyped
<1>8. ASSUME r \in Fails \/ r \in Nothing PROVE Fits(r)
  BY <1>8, FailsFits, NothingFits
<1> HIDE DEF p
<1>10. CASE s.op = "clear"
  <2>1. r \in Does(With(p, Submitted(q)), memory)
    BY <1>10, Zenon DEF OnPane, p
  <2> QED  BY <1>3, <1>4, <2>1
<1>11. CASE s.op = "type"
  <2>1. r \in Does(With(p, Type(q, s.text, s.slot)), memory)
    BY <1>11 DEF OnPane, p
  <2> QED  BY <1>3, <1>5, <2>1
<1>12. CASE s.op = "enter"
  <2>1. r \in Fails \/ \E a \in Enter(q) : r \in Does(With(p, a), memory)
    BY <1>12 DEF OnPane, p
  <2> QED  BY <1>3, <1>6, <1>8, <2>1
<1>13. CASE s.op = "interrupt"
  <2>1. r \in Does(With(p, Shell(q)), memory) \/ r \in Does(With(p, q), memory)
    BY <1>13 DEF OnPane, p
  <2> QED  BY <1>3, <1>4, <2>1
<1>14. CASE s.op = "exit"
  <2>1. \/ r \in Nothing \/ r \in Fails
        \/ \E a \in Enter(q) : r = Result(IF a.runs = "agent" THEN "fail" ELSE "ok", With(p, a), memory)
        \/ \E a \in {q} \cup Enter(q) : r = Result("ok", With(p, a), memory)
    BY <1>14 DEF OnPane, p
  <2>2. Leaves(With(p, q), memory)
    BY <1>1, <1>4, WithKept, KeptFits DEF Sound, UpHolds
  <2> QED  BY <1>6, <1>8, <2>1, <2>2, ResultFits
<1>15. CASE s.op \in {"agent", "native"}
  <2>1. r \in Does(With(p, AgentIn(q, s.slot)), memory) \/ r \in Nothing \/ r \in Fails
    BY <1>15 DEF OnPane, p
  <2> QED  BY <1>3, <1>5, <1>8, <2>1
<1>16. CASE s.op = "idle"
  <2>1. r \in Nothing \/ r \in Fails
    BY <1>16 DEF OnPane, p
  <2> QED  BY <1>8, <2>1
<1>17. CASE s.op = "prompt"
  <2>1. \/ r \in Fails \/ r \in Does(With(p, [q EXCEPT !.status = "working"]), memory)
        \/ r \in Does(With(p, Type(q, s.text, s.slot)), memory)
    BY <1>17 DEF OnPane, p
  <2> QED  BY <1>3, <1>5, <1>7, <1>8, <2>1
<1>18. CASE s.op = "relaunch"
  <2>1. \/ r \in Does(With(p, Job(q)), memory) \/ r \in Does(With(p, q), memory)
        \/ r \in Does(With(p, Type(q, "relaunch", s.slot)), memory)
    BY <1>18 DEF OnPane, p
  <2> QED  BY <1>3, <1>4, <1>5, <2>1
<1>19. CASE s.op = "fold"
  <2> DEFINE after(a) == IF a.session = q.session /\ a.ws = q.ws THEN [Shell(a) EXCEPT !.runs = "gone"] ELSE a
             panes == [x \in DOMAIN world.panes |-> after(world.panes[x])]
  <2>1. r \in Does([world EXCEPT !.panes = panes], memory)
    BY <1>19 DEF OnPane, p
  <2>2. \A x \in DOMAIN world.panes : SameSession(world.panes[x], panes[x])
    <3> TAKE x \in DOMAIN world.panes
    <3>1. world.panes[x] \in Pane
      BY DEF Sound, World
    <3> QED  BY <3>1, RunsTyped, SameTyped
  <2> HIDE DEF after
  <2>3. Kept(world, [panes |-> panes, up |-> world.up])
    BY <2>2, AllKept DEF Sound, World
  <2> HIDE DEF panes
  <2>4. Kept(world, [world EXCEPT !.panes = panes]) /\ [world EXCEPT !.panes = panes].up = world.up
    BY <2>3, WorldIs DEF Sound
  <2>5. UpHolds([world EXCEPT !.panes = panes])
    BY <2>4 DEF UpHolds
  <2> QED  BY <2>1, <2>4, <2>5, KeptFits, DoesFits
<1> QED
  BY <1>10, <1>11, <1>12, <1>13, <1>14, <1>15, <1>16, <1>17, <1>18, <1>19 DEF Keys

(* The steps that exec has no way to fail. *)
Markers == {"snap", "guard", "host-start", "set-complete", "ids", "expect"}

LEMMA ResultsFit ==
  ASSUME Sound, NEW s, PlannedStep(s), AtStep, s = This, NEW r \in Results(s) PROVE Fits(r)
<1>1. ASSUME r = Result("ok", world, memory) \/ r \in Fails \/ r \in Nothing PROVE Fits(r)
  BY <1>1, SameFits, ResultFits, FailsFits, NothingFits
<1>2. CanFail(s) <=> s.op \notin Markers
  BY DEF PlannedStep, CanFail, KindOf, Op, Markers
<1>3. /\ s.op \in {"start", "stop"} => s.session \in Session
      /\ s.op \notin Keys \cup {"tab", "split"} => ~Unfilled(s)
  <2>1. s.op \notin Keys \cup {"tab", "split"} => s.target \notin Slot
    BY NoSlotAssumption DEF PlannedStep
  <2> QED  BY <2>1 DEF PlannedStep, Unfilled
<1>4. CASE s.op \in Markers
  <2>1. r = Result("ok", world, memory)
    BY <1>2, <1>4 DEF Results, Markers, Keys
  <2> QED  BY <1>1, <2>1
<1>5. CASE s.op \in {"create", "tab", "split"}
  <2>1. CASE Unfilled(s)
    <3>1. r \in Fails
      BY <1>2, <1>5, <2>1 DEF Results, Markers, Keys
    <3> QED  BY <1>1, <3>1
  <2>2. CASE ~Unfilled(s)
    <3>1. r \in Make(s)
      BY <1>2, <1>5, <2>2 DEF Results, Markers, Keys
    <3> QED  BY <1>5, <2>2, <3>1, MakeFits
  <2> QED  BY <2>1, <2>2
<1>6. CASE s.op = "start"
  <2>1. ~Unfilled(s)
    BY <1>3, <1>6 DEF Keys
  <2>2. r \in Start(s)
    BY <1>2, <1>6, <2>1 DEF Results, Markers, Keys
  <2> QED  BY <1>6, <2>2, StartFits
<1>7. CASE s.op = "stop"
  <2>1. ~Unfilled(s)
    BY <1>3, <1>7 DEF Keys
  <2>2. r \in Fails \/ r \in Does(Stopped(s.session), memory)
    BY <1>2, <1>7, <2>1 DEF Results, Markers, Keys
  <2>3. Kept(world, Stopped(s.session)) /\ UpHolds(Stopped(s.session))
    BY <1>3, <1>7, StoppedKept DEF Sound, UpHolds
  <2>4. Leaves(Stopped(s.session), memory)
    BY <2>3, KeptFits
  <2> QED  BY <2>2, <2>4, DoesFits, FailsFits
<1>8. CASE s.op \in {"up", "layout", "verify", "keep", "action", "reach", "viewport", "attach", "config"}
  <2>1. ~Unfilled(s)
    BY <1>3, <1>8 DEF Keys
  <2>2. r \in Nothing \/ r \in Fails
    BY <1>2, <1>8, <2>1 DEF Results, Markers, Keys
  <2> QED  BY <1>1, <2>2
<1>9. CASE s.op \in Keys
  <2>1. CASE Unfilled(s)
    <3>1. r \in Fails
      BY <1>2, <1>9, <2>1 DEF Results, Markers, Keys
    <3> QED  BY <1>1, <3>1
  <2>2. CASE ~Unfilled(s)
    <3>1. r \in Nothing \/ r \in Fails \/ (Alive(world, PaneOf(s)) /\ r \in OnPane(s))
      BY <1>2, <1>9, <2>2 DEF Results, Markers, Keys
    <3> QED  BY <1>1, <1>9, <3>1, OnPaneFits
  <2> QED  BY <2>1, <2>2
<1> QED
  BY <1>4, <1>5, <1>6, <1>7, <1>8, <1>9 DEF PlannedStep, Op, Keys, Markers

-----------------------------------------------------------------------------
(* A start leaves the session up, or reports that it failed. *)

LEMMA StartUp ==
  ASSUME Sound, NEW s, PlannedStep(s), s.op = "start", NEW r \in Results(s), r.out = "ok"
  PROVE  s.session \in r.world.up
<1>1. s.session \in Session /\ s.creates \in Slot \cup {NoSlot} /\ s.place \in [ws : Label, tab : Label, at : Nat]
  BY DEF PlannedStep
<1>2. ~Unfilled(s) /\ CanFail(s)
  <2>1. s.target \notin Slot
    BY NoSlotAssumption DEF PlannedStep, Keys
  <2> QED  BY <2>1 DEF PlannedStep, Unfilled, CanFail, KindOf
<1>3. r \in Start(s)
  BY <1>2 DEF Results, Keys
<1>4. ASSUME NEW w, NEW m, r \in Does(w, m) PROVE r.world = w
  BY <1>4 DEF Does, Result
<1>5. r \notin Fails
  BY DEF Fails, Result
<1>6. CASE Mux[s.host] # "tmux"
  <2>1. r \in Does(Restarted(s.session, "shell"), memory) \cup Does(Restarted(s.session, "gone"), memory)
    BY <1>3, <1>6, Zenon DEF Start
  <2>2. \A as \in {"shell", "gone"} : Restarted(s.session, as).up = world.up \cup {s.session}
    BY <1>1, RestartedKept DEF Sound
  <2> QED  BY <1>4, <2>1, <2>2
<1>7. CASE Mux[s.host] = "tmux"
  <2> DEFINE slot == IF s.creates = NoSlot THEN CHOOSE x \in Slot : TRUE ELSE s.creates
             up == [world EXCEPT !.up = world.up \cup {s.session}]
             n == Len(world.panes) + 1
             w == Added(up, s.session, 0, 0, s.place, slot)
  <2>1. slot \in Slot
    BY <1>1, WindowAssumption
  <2>2. up \in World /\ up.up = world.up \cup {s.session}
    BY <1>1 DEF Sound, World
  <2> HIDE DEF slot, up
  <2>3. w.up = up.up
    <3>1. 0 \in Nat
      OBVIOUS
    <3>2. Grown(up, w, s.session)
      BY <1>1, <2>1, <2>2, <3>1, AddedKept, Zenon
    <3> QED  BY <3>2 DEF Grown
  <2>4. r \in Fails \cup Does(w, Bound(memory, s.creates, n))
    BY <1>3, <1>7, Zenon DEF Start, slot, up
  <2> QED  BY <1>4, <1>5, <2>2, <2>3, <2>4
<1> QED  BY <1>6, <1>7

-----------------------------------------------------------------------------
(* The inductive invariants *)

FleetInv ==
  /\ Sound
  /\ away \subseteq Slot
  /\ turns \in 0..MaxTurns
  /\ run \in 0..MaxRuns

(* The roster a set would fall in from, and the plan under execution, are  *)
(* what the planners make and read.                                        *)
PlanInv ==
  /\ source \in Seq(Occupant)
  /\ plan.steps \in Seq(Planned)
  /\ OneSession /\ plan.verb = "relieve" => Owes(plan.steps, {})

LEMMA RollIs ==
  ASSUME NEW w \in World PROVE Roll(w) \in Seq(Occupant)
<1> DEFINE all == [p \in DOMAIN w.panes |-> p]
           pane == Selection(all, LAMBDA p : Alive(w, p))
           S == {p \in 1..Len(w.panes) : Alive(w, p)}
           seen(p) == [slot |-> w.panes[p].slot, session |-> w.panes[p].session, pane |-> p,
                       ws |-> w.panes[p].ws, wl |-> w.panes[p].wl, tab |-> w.panes[p].tab, tl |-> w.panes[p].tl,
                       role |-> w.panes[p].runs, status |-> w.panes[p].status]
<1>1. w.panes \in Seq(Pane) /\ DOMAIN w.panes = 1..Len(w.panes) /\ Len(w.panes) \in Nat
  BY DEF World
<1>2. all \in [1..Len(w.panes) -> 1..Len(w.panes)]
  BY <1>1
<1>3. all \in Seq(1..Len(w.panes)) /\ \A i \in DOMAIN all : all[i] \in 1..Len(w.panes)
  BY <1>1, <1>2
<1> HIDE DEF all
<1>4. pane = Chosen(all, S) /\ S \in SUBSET (1..Len(w.panes))
  BY <1>3 DEF Selection, Chosen
<1> HIDE DEF pane, S
<1>5. pane \in Seq(S)
  BY <1>3, <1>4, ChosenIs
<1>6. \A p \in S : seen(p) \in Occupant
  <2> TAKE p \in S
  <2>1. p \in 1..Len(w.panes) /\ Alive(w, p) /\ p \in Nat
    BY <1>1 DEF S
  <2>2. w.panes[p] \in Pane
    BY <1>1, <2>1
  <2>3. w.panes[p].runs \in {"shell", "agent", "watcher", "bridge"}
    BY <2>1, <2>2 DEF Alive, Pane
  <2> QED  BY <2>1, <2>2, <2>3 DEF Pane, Occupant
<1>7. Roll(w) = [i \in DOMAIN pane |-> seen(pane[i])]
  BY Zenon DEF Roll, pane, all
<1> HIDE DEF seen
<1>8. DOMAIN pane = 1..Len(pane) /\ Len(pane) \in Nat /\ \A i \in DOMAIN pane : pane[i] \in S
  BY <1>5, LenProperties, ElementOfSeq
<1> QED  BY <1>6, <1>7, <1>8

LEMMA PlanForIs ==
  ASSUME world \in World, source \in Seq(Occupant), NEW q \in Requests
  PROVE  /\ PlanFor(q).steps \in Seq(Planned)
         /\ OneSession /\ PlanFor(q).verb = "relieve" => Owes(PlanFor(q).steps, {})
<1>1. Roll(world) \in Seq(Occupant)
  BY RollIs
<1>2. q.verb \in Verb
  BY WindowAssumption
<1>3. CASE q.verb = "secure"
  <2>1. PlanFor(q) = PlanSecure(Roll(world), q.opts)
    BY <1>3 DEF PlanFor
  <2>2. PlanSecure(Roll(world), q.opts).verb = "secure"
    BY DEF PlanSecure, PlanOf
  <2> QED  BY <1>1, <2>1, <2>2, PlanSecurePlanned
<1>4. CASE q.verb = "set"
  <2>1. PlanFor(q) = PlanSet(source, [q.opts EXCEPT !.running = ServerUp])
    BY <1>4 DEF PlanFor
  <2>2. PlanFor(q).verb = "set"
    BY <2>1 DEF PlanSet, PlanOf
  <2>3. PlanFor(q).steps \in Seq(Calm)
    BY <2>1, PlanSetPlanned
  <2> QED  BY <2>2, <2>3, CalmOwes
<1>5. CASE q.verb = "relieve"
  <2> DEFINE opts == IF q.resume THEN [q.opts EXCEPT !.done = ResumeDone] ELSE q.opts
  <2>1. PlanFor(q) = PlanRelieve(Roll(world), opts)
    BY <1>5 DEF PlanFor
  <2>2. "hosts" \in DOMAIN q.opts /\ q.opts.hosts \in Seq(Host)
    BY <1>5, WindowAssumption
  <2>3. opts.hosts \in Seq(Host)
    BY <2>2
  <2> HIDE DEF opts
  <2> QED  BY <1>1, <2>1, <2>3, PlanRelievePlanned
<1> QED  BY <1>2, <1>3, <1>4, <1>5 DEF Verb

LEMMA FreshFits ==
  ASSUME NEW w \in World PROVE MemOK(w, FreshMemory) /\ Apart(w, FreshMemory)
<1>1. Len(w.panes) \in Nat
  BY DEF World
<1> QED  BY <1>1 DEF MemOK, Apart, FreshMemory, Mem

LEMMA StepPlanned == PlanInv => StepIsPlanned
<1> SUFFICES ASSUME PlanInv, AtStep PROVE PlannedStep(This)
  BY DEF StepIsPlanned
<1>1. plan.steps \in Seq(Planned) /\ pos \in 1..Len(plan.steps)
  BY DEF PlanInv, AtStep, Length
<1>2. This \in Planned
  BY <1>1 DEF This
<1> QED  BY <1>2 DEF Planned

LEMMA InitHolds == WindowInit => FleetInv /\ PlanInv /\ Apart(world, memory)
<1> SUFFICES ASSUME WindowInit PROVE FleetInv /\ PlanInv /\ Apart(world, memory)
  OBVIOUS
<1>1. world \in World /\ memory = FreshMemory
  BY WindowAssumption DEF WindowInit
<1>2. PlanInv
  BY DEF WindowInit, NoPlan, PlanInv
<1> QED  BY <1>1, <1>2, FreshFits, WindowAssumption DEF WindowInit, FleetInv, Sound

(* Plans and rosters stay what the planners make of them.                 *)
LEMMA NextKeepsPlans == FleetInv /\ PlanInv /\ [WindowNext]_allVars => PlanInv'
<1> SUFFICES ASSUME FleetInv, PlanInv, [WindowNext]_allVars PROVE PlanInv'
  OBVIOUS
<1>1. Roll(world) \in Seq(Occupant)
  BY RollIs DEF FleetInv, Sound
<1>2. ASSUME NEW q \in Requests, Begin(q) PROVE PlanInv'
  <2>1. plan' = PlanFor(q) /\ source' \in Seq(Occupant)
    BY <1>1, <1>2 DEF Begin, PlanInv
  <2>2. /\ PlanFor(q).steps \in Seq(Planned)
        /\ OneSession /\ PlanFor(q).verb = "relieve" => Owes(PlanFor(q).steps, {})
    BY PlanForIs DEF FleetInv, Sound, PlanInv
  <2> QED  BY <2>1, <2>2 DEF PlanInv, Owes
<1>3. ASSUME UNCHANGED <<plan, source>> PROVE PlanInv'
  BY <1>3 DEF PlanInv, Owes
<1>4. CASE Bookkeeping
  BY <1>3, <1>4 DEF Bookkeeping, fleet, Admit, Skip, RecordOk, RecordFail
<1>5. CASE Run
  BY <1>3, <1>5 DEF Run, Attempt
<1>6. CASE End
  <2>1. plan' = plan /\ source' \in Seq(Occupant)
    BY <1>1, <1>6 DEF End, Finish, PlanInv
  <2> QED  BY <2>1 DEF PlanInv, Owes
<1>7. CASE Killed
  BY <1>3, <1>7 DEF Killed, Crash, fleet
<1>8. ASSUME NEW p \in DOMAIN world.panes, Turn(p) PROVE PlanInv'
  BY <1>3, <1>8 DEF Turn, vars
<1>9. CASE UNCHANGED allVars
  BY <1>3, <1>9 DEF allVars, vars, fleet
<1> QED
  BY <1>2, <1>4, <1>5, <1>6, <1>7, <1>8, <1>9 DEF WindowNext

LEMMA NextHolds ==
  FleetInv /\ StepIsPlanned /\ [WindowNext]_allVars
    => FleetInv' /\ (NoTmuxBoot /\ Apart(world, memory) => Apart(world, memory)')
<1> DEFINE ApartKept == NoTmuxBoot /\ Apart(world, memory) => Apart(world, memory)'
<1> SUFFICES ASSUME FleetInv, StepIsPlanned, [WindowNext]_allVars PROVE FleetInv' /\ ApartKept
  OBVIOUS
<1>0. Sound /\ world \in World
  BY DEF FleetInv, Sound
<1>1. ASSUME NEW q \in Requests, Begin(q) PROVE FleetInv' /\ ApartKept
  <2>1. run' \in 0..MaxRuns
    BY <1>1, WindowAssumption DEF Begin, FleetInv
  <2>2. world' = world /\ memory' = FreshMemory /\ turns' = turns /\ away' = away
    BY <1>1 DEF Begin
  <2>3. MemOK(world, FreshMemory) /\ Apart(world, FreshMemory)
    BY <1>0, FreshFits
  <2> QED  BY <1>0, <2>1, <2>2, <2>3 DEF FleetInv, Sound, MemOK, Apart, NotOffered
<1>2. ASSUME UNCHANGED <<world, memory, turns, away, run>> PROVE FleetInv' /\ ApartKept
  BY <1>2 DEF FleetInv, Sound, MemOK, Apart, NotOffered
<1>3. CASE Bookkeeping
  BY <1>2, <1>3 DEF Bookkeeping, fleet, Admit, Skip, RecordOk, RecordFail
<1>4. CASE Run
  <2>1. AtStep /\ PlannedStep(This) /\ UNCHANGED <<run, turns>>
    BY <1>4 DEF Run, Attempt, StepIsPlanned
  <2>2. PICK r \in Results(This) : world' = r.world /\ memory' = r.memory
    BY <1>4 DEF Run
  <2>3. Leaves(r.world, r.memory)
    BY <1>0, <2>1, ResultsFit DEF Fits
  <2>4. away' \subseteq Slot
    BY <1>4 DEF Run, FleetInv, Running
  <2>5. /\ world' \in World /\ MemOK(world', memory')
        /\ NoTmuxBoot /\ Apart(world, memory) => Apart(world', memory')
    BY <2>2, <2>3 DEF Leaves, Kept
  <2> QED  BY <2>1, <2>4, <2>5 DEF FleetInv, Sound, MemOK, Apart, NotOffered
<1>5. CASE End
  BY <1>2, <1>5 DEF End, Finish
<1>6. CASE Killed
  BY <1>2, <1>6 DEF Killed, Crash, fleet
<1>7. ASSUME NEW p \in DOMAIN world.panes, Turn(p) PROVE FleetInv' /\ ApartKept
  <2>1. PICK st \in {"idle", "working", "blocked"} : world' = [world EXCEPT !.panes[p].status = st]
    BY <1>7 DEF Turn
  <2>2. world.panes[p] \in Pane
    BY <1>0 DEF World
  <2>3. world' = With(p, [world.panes[p] EXCEPT !.status = st])
    BY <2>1, Zenon DEF With
  <2>4. Kept(world, world') /\ UpHolds(world')
    BY <1>0, <2>2, <2>3, StatusTyped, WithKept DEF UpHolds
  <2>5. Leaves(world', memory)
    BY <1>0, <2>4, KeptFits
  <2>6. UNCHANGED <<memory, run, away>> /\ turns' \in 0..MaxTurns
    BY <1>7, WindowAssumption DEF Turn, vars, FleetInv
  <2>7. /\ world' \in World /\ MemOK(world', memory)
        /\ NoTmuxBoot /\ Apart(world, memory) => Apart(world', memory)
    BY <2>5 DEF Leaves, Kept
  <2> QED  BY <2>6, <2>7 DEF FleetInv, Sound, MemOK, Apart, NotOffered
<1>8. CASE UNCHANGED allVars
  BY <1>2, <1>8 DEF allVars, vars, fleet
<1> QED
  BY <1>1, <1>3, <1>4, <1>5, <1>6, <1>7, <1>8 DEF WindowNext

-----------------------------------------------------------------------------
(* A window that has met no failure *)

(* The steps that are done with. *)
Passed == IF attempt = "ok" THEN pos ELSE pos - 1

(* Each session started so far is up, or was stopped again.                *)
StartedUp(n) ==
  \A k \in 1..n : k <= Length /\ plan.steps[k].op = "start" =>
    \/ plan.steps[k].session \in world.up
    \/ \E j \in (k + 1)..n : plan.steps[j].op = "stop" /\ plan.steps[j].session = plan.steps[k].session

RunInv ==
  /\ pos \in Nat /\ result \in [Count -> Nat] /\ attempt \in {"none", "ok", "fail"}
  /\ attempt # "none" => pos \in 1..Length
  /\ code \in {"running", "OK"} /\ result["failed"] = 0 =>
       /\ failedHosts = {} /\ failedSlots = NoFailedSlots
       /\ attempt # "fail" => StartedUp(Passed)
  /\ code = "OK" /\ plan.verb = "relieve" => result["failed"] = 0 /\ pos = Length + 1 /\ attempt = "none"

LEMMA InitRuns == WindowInit => RunInv
<1> SUFFICES ASSUME WindowInit PROVE RunInv
  OBVIOUS
<1>1. /\ pos = 0 /\ attempt = "none" /\ plan = NoPlan /\ result = ZeroResult
      /\ failedHosts = {} /\ failedSlots = NoFailedSlots
  BY DEF WindowInit
<1>2. StartedUp(Passed)
  BY <1>1 DEF StartedUp, Passed
<1> QED BY <1>1, <1>2 DEF RunInv, NoPlan, ZeroResult, Count

LEMMA BeginRuns == ASSUME NEW q, Begin(q), PlanInv PROVE RunInv'
<1>1. /\ pos' = 0 /\ attempt' = "none" /\ code' = "running" /\ result' = ZeroResult
      /\ failedHosts' = {} /\ failedSlots' = NoFailedSlots
  BY DEF Begin
<1>2. StartedUp(Passed)'
  BY <1>1 DEF StartedUp, Passed
<1> QED BY <1>1, <1>2 DEF RunInv, ZeroResult, Count

(* What leaves the plan, the world and the count of failures alone.        *)
LEMMA SameRuns ==
  ASSUME RunInv, UNCHANGED <<plan, failedHosts, failedSlots>>, result' \in [Count -> Nat],
         result'["failed"] = result["failed"], pos' \in Nat, attempt' \in {"none", "ok", "fail"},
         attempt' # "none" => pos' \in 1..Length, code = "running", code' = "running",
         \A t \in world.up : t \in world'.up,
         result["failed"] = 0 /\ attempt' # "fail" => Passed' = Passed /\ attempt # "fail"
  PROVE  RunInv'
<1>1. ASSUME result["failed"] = 0, attempt' # "fail" PROVE StartedUp(Passed)'
  <2>1. StartedUp(Passed) /\ Passed' = Passed
    BY <1>1 DEF RunInv
  <2> QED BY <2>1 DEF StartedUp, Length
<1> QED BY <1>1 DEF RunInv, Length

LEMMA CountsOn ==
  ASSUME result \in [Count -> Nat], NEW c \in Count, result' = [result EXCEPT ![c] = @ + 1]
  PROVE  /\ result' \in [Count -> Nat]
         /\ c # "failed" => result'["failed"] = result["failed"]
         /\ c = "failed" => result'["failed"] # 0
<1>1. result["failed"] \in Nat /\ result[c] \in Nat
  BY DEF Count
<1> QED BY <1>1 DEF Count

LEMMA PosIs ==
  ASSUME PlanInv, AtStep
  PROVE  /\ Length \in Nat /\ pos \in 1..Length /\ This \in Planned /\ This.host \in Host
         /\ \A k \in 1..Length : plan.steps[k] \in Planned
<1>1. Len(plan.steps) \in Nat /\ \A k \in 1..Len(plan.steps) : plan.steps[k] \in Planned
  BY DEF PlanInv
<1>2. pos \in 1..Length
  BY DEF AtStep
<1>3. This \in Planned
  BY <1>1, <1>2 DEF This, Length
<1> QED BY <1>1, <1>2, <1>3 DEF Length, Planned, PlannedStep

LEMMA BookkeepingRuns == ASSUME RunInv, PlanInv, Bookkeeping PROVE RunInv'
<1>0. UNCHANGED world /\ Length \in Nat
  BY DEF Bookkeeping, fleet, PlanInv, Length
<1>1. CASE Admit
  <2>1. /\ pos = 0 /\ pos' = 1 /\ code = "running" /\ attempt = "none"
        /\ UNCHANGED <<plan, run, attempt, failedHosts, failedSlots, result, code>>
    BY <1>1 DEF Admit, RunInv
  <2>2. ASSUME result["failed"] = 0 PROVE StartedUp(Passed)'
    BY <2>1 DEF StartedUp, Passed
  <2> QED BY <2>1, <2>2 DEF RunInv
<1>2. CASE Skip
  <2>1. /\ AtStep /\ (HostOut \/ SlotOut) /\ pos' = pos + 1 /\ code = "running" /\ attempt = "none"
        /\ UNCHANGED <<plan, run, attempt, failedHosts, failedSlots, code>>
        /\ result' = [result EXCEPT !["skipped"] = @ + 1]
    BY <1>2 DEF Skip, AtStep
  <2>2. result["failed"] # 0
    <3> SUFFICES ASSUME result["failed"] = 0 PROVE FALSE
      OBVIOUS
    <3>1. failedHosts = {} /\ failedSlots = NoFailedSlots
      BY <2>1 DEF RunInv
    <3> QED BY <2>1, <3>1, PosIs DEF HostOut, SlotOut, NoFailedSlots
  <2>3. result' \in [Count -> Nat] /\ result'["failed"] = result["failed"]
    BY <2>1, CountsOn DEF RunInv, Count
  <2>4. pos' \in Nat
    BY <2>1 DEF RunInv
  <2> QED BY <2>1, <2>2, <2>3, <2>4 DEF RunInv
<1>3. CASE RecordOk
  <2>1. /\ pos' = pos + 1 /\ code = "running" /\ attempt = "ok" /\ attempt' = "none"
        /\ UNCHANGED <<plan, run, failedHosts, failedSlots, code>>
        /\ result' = [result EXCEPT !["ran"] = @ + 1]
    BY <1>3 DEF RecordOk
  <2>2. result' \in [Count -> Nat] /\ result'["failed"] = result["failed"]
    BY <2>1, CountsOn DEF RunInv, Count
  <2>3. pos \in Nat /\ pos' \in Nat
    BY <2>1 DEF RunInv
  <2>4. Passed' = Passed
    BY <2>1, <2>3 DEF Passed
  <2> QED BY <1>0, <2>1, <2>2, <2>3, <2>4, SameRuns
<1>4. CASE RecordFail
  <2>1. /\ pos' = pos + 1 /\ code = "running" /\ attempt = "fail" /\ attempt' = "none"
        /\ UNCHANGED <<plan, run, code>>
        /\ result' = [result EXCEPT !["failed"] = @ + 1]
    BY <1>4 DEF RecordFail
  <2>2. result' \in [Count -> Nat] /\ result'["failed"] # 0
    BY <2>1, CountsOn DEF RunInv, Count
  <2>3. pos' \in Nat
    BY <2>1 DEF RunInv
  <2> QED BY <2>1, <2>2, <2>3 DEF RunInv
<1> QED BY <1>1, <1>2, <1>3, <1>4 DEF Bookkeeping

LEMMA RunRuns == ASSUME FleetInv, PlanInv, RunInv, Run PROVE RunInv'
<1>1. /\ AtStep /\ code = "running" /\ attempt = "none"
      /\ UNCHANGED <<plan, run, pos, failedHosts, failedSlots, result, code>>
  BY DEF Run, Attempt, AtStep
<1>2. PICK r \in Results(This) : attempt' = r.out /\ world' = r.world
  BY DEF Run
<1>3. attempt' \in {"ok", "fail"}
  BY DEF Run, Attempt
<1>4. Length \in Nat /\ pos \in 1..Length /\ PlannedStep(This)
  BY <1>1, PosIs DEF Planned
<1>5. UpHolds(world')
  BY <1>1, <1>2, <1>4, ResultsFit DEF FleetInv, Fits, Leaves
<1>6. ASSUME result["failed"] = 0, attempt' = "ok" PROVE StartedUp(Passed)'
  <2>1. StartedUp(pos - 1) /\ Passed' = pos
    BY <1>1, <1>6 DEF RunInv, Passed
  <2>2. ASSUME NEW k \in 1..pos, plan.steps[k].op = "start"
        PROVE  \/ plan.steps[k].session \in world'.up
               \/ \E j \in (k + 1)..pos : plan.steps[j].op = "stop" /\ plan.steps[j].session = plan.steps[k].session
    <3>1. CASE k = pos
      <4>1. This.op = "start" /\ r.out = "ok" /\ This = plan.steps[k]
        BY <1>2, <1>6, <2>2, <3>1 DEF This
      <4>2. This.session \in r.world.up
        BY <1>4, <4>1, StartUp DEF FleetInv
      <4> QED BY <1>2, <4>1, <4>2
    <3>2. CASE k # pos
      <4>1. k \in 1..(pos - 1) /\ k <= Length
        BY <1>4, <3>2
      <4>2. CASE plan.steps[k].session \in world.up
        <5>1. CASE plan.steps[k].session \in world'.up
          BY <5>1
        <5>2. CASE plan.steps[k].session \notin world'.up
          <6>1. This.op = "stop" /\ This.session = plan.steps[k].session
            BY <1>5, <4>2, <5>2 DEF UpHolds
          <6>2. pos \in (k + 1)..pos
            BY <1>4, <4>1
          <6> QED BY <6>1, <6>2 DEF This
        <5> QED BY <5>1, <5>2
      <4>3. CASE plan.steps[k].session \notin world.up
        <5>1. PICK j \in (k + 1)..(pos - 1) : plan.steps[j].op = "stop" /\ plan.steps[j].session = plan.steps[k].session
          BY <2>1, <2>2, <4>1, <4>3 DEF StartedUp
        <5>2. j \in (k + 1)..pos
          BY <1>4, <4>1, <5>1
        <5> QED BY <5>1, <5>2
      <4> QED BY <4>2, <4>3
    <3> QED BY <3>1, <3>2
  <2>3. StartedUp(pos)'
    BY <1>1, <2>2 DEF StartedUp
  <2> QED BY <1>1, <2>1, <2>3 DEF StartedUp
<1> QED BY <1>1, <1>3, <1>4, <1>6 DEF RunInv, Length

LEMMA EndRuns == ASSUME RunInv, PlanInv, End PROVE RunInv'
<1>1. /\ code = "running" /\ pos = Length + 1
      /\ UNCHANGED <<plan, run, pos, attempt, failedHosts, failedSlots, result, world>>
      /\ code' = "OK" => result["failed"] = 0
  BY DEF End, Finish
<1>2. Length \in Nat
  BY DEF PlanInv, Length
<1>3. attempt = "none"
  BY <1>1, <1>2 DEF RunInv
<1>4. code' # "running"
  BY DEF End, Finish
<1>5. ASSUME result["failed"] = 0 PROVE StartedUp(Passed)'
  BY <1>1, <1>3, <1>5 DEF RunInv, StartedUp, Passed, Length
<1> QED BY <1>1, <1>2, <1>3, <1>4, <1>5 DEF RunInv, Length

LEMMA StillRuns == ASSUME RunInv, UNCHANGED <<vars, world>> PROVE RunInv'
<1>1. ASSUME StartedUp(Passed) PROVE StartedUp(Passed)'
  BY <1>1 DEF vars, StartedUp, Passed, Length
<1> QED BY <1>1 DEF RunInv, vars, Length

LEMMA KilledRuns == ASSUME RunInv, Killed PROVE RunInv'
  BY DEF Killed, Crash, fleet, RunInv, Length

LEMMA TurnRuns == ASSUME FleetInv, PlanInv, RunInv, NEW p \in DOMAIN world.panes, Turn(p) PROVE RunInv'
<1>1. UNCHANGED vars /\ code = "running"
  BY DEF Turn
<1>2. PICK st \in {"idle", "working", "blocked"} : world' = [world EXCEPT !.panes[p].status = st]
  BY DEF Turn
<1>3. world'.up = world.up
  BY <1>2 DEF FleetInv, Sound, World
<1>4. Passed' = Passed
  BY <1>1 DEF vars, Passed
<1>5. ASSUME StartedUp(Passed) PROVE StartedUp(Passed)'
  BY <1>1, <1>3, <1>5 DEF vars, StartedUp, Passed, Length
<1> QED BY <1>1, <1>5 DEF RunInv, vars, Length

LEMMA NextRuns == FleetInv /\ PlanInv /\ RunInv /\ [WindowNext]_allVars => RunInv'
<1> SUFFICES ASSUME FleetInv, PlanInv, RunInv, [WindowNext]_allVars PROVE RunInv'
  OBVIOUS
<1>1. UNCHANGED allVars => UNCHANGED <<vars, world>>
  BY DEF allVars, fleet
<1> QED BY <1>1, BeginRuns, BookkeepingRuns, RunRuns, EndRuns, StillRuns, KilledRuns, TurnRuns DEF WindowNext

LEMMA UpAtTheEnd == PlanInv /\ RunInv /\ OneSession => StoppedIsUp
<1> SUFFICES ASSUME PlanInv, RunInv, OneSession, code = "OK", plan.verb = "relieve",
                    NEW k \in 1..Length, plan.steps[k].op = "stop", plan.steps[k].session \notin world.up
             PROVE  FALSE
  BY DEF StoppedIsUp
<1> DEFINE s == plan.steps[k].session
           S == {n \in 0..Length : /\ Length - n \in 1..Length /\ plan.steps[Length - n].op = "stop"
                                   /\ plan.steps[Length - n].session = s}
           l == Lowest(S)
           m == Length - l
<1>1. Length \in Nat /\ Length = Len(plan.steps)
  BY DEF PlanInv, Length
<1>2. pos = Length + 1 /\ attempt = "none" /\ StartedUp(Passed) /\ Owes(plan.steps, {})
  BY DEF RunInv, PlanInv
<1>3. Passed = Length
  BY <1>1, <1>2 DEF Passed
<1>4. Length - k \in S /\ S \in SUBSET Nat
  BY <1>1
<1>5. l \in S /\ \A n \in S : l <= n
  <2> HIDE DEF S
  <2> QED BY <1>4, LowestIs
<1> HIDE DEF l
<1>6. m \in 1..Length /\ plan.steps[m].op = "stop" /\ plan.steps[m].session = s
  BY <1>1, <1>5
<1>7. ASSUME NEW j \in (m + 1)..Length, plan.steps[j].op = "stop", plan.steps[j].session = s PROVE FALSE
  <2>1. j \in 1..Length /\ Length - j \in 0..Length /\ Length - (Length - j) = j
    BY <1>1, <1>6
  <2>2. Length - j \in S
    BY <1>7, <2>1
  <2>3. l <= Length - j
    BY <1>5, <2>2
  <2> QED BY <1>1, <1>5, <1>6, <2>1, <2>3
<1> HIDE DEF m, S
<1>8. PICK i \in (m + 1)..Length : plan.steps[i].op = "start" /\ plan.steps[i].session = s
  BY <1>1, <1>2, <1>6 DEF Owes
<1>9. i \in 1..Length
  BY <1>1, <1>6
<1>10. PICK j \in (i + 1)..Length : plan.steps[j].op = "stop" /\ plan.steps[j].session = s
  BY <1>1, <1>2, <1>3, <1>8, <1>9 DEF StartedUp
<1>11. j \in (m + 1)..Length
  BY <1>1, <1>6, <1>9, <1>10
<1> QED BY <1>7, <1>10, <1>11

-----------------------------------------------------------------------------
(* Theorems *)

(* Whatever is asked and whatever the fleet looks like, a step names       *)
(* sessions and occupants of the fleet, and what makes a pane or stops a   *)
(* server says in which session (plan_secure, plan_set and plan_relieve).  *)
THEOREM StepsArePlanned == WindowSpec => []StepIsPlanned
<1>1. FleetInv /\ PlanInv /\ [WindowNext]_allVars => (FleetInv /\ PlanInv)'
  BY StepPlanned, NextHolds, NextKeepsPlans
<1> QED  BY <1>1, InitHolds, StepPlanned, PTL DEF WindowSpec

(* What a step does to the panes of a multiplexer, and what exec remembers *)
(* of them, keep their types: a pane that exec has bound to an occupant    *)
(* exists, whatever was made, taken over, stopped, folded or started since.*)
THEOREM TypeCorrect == WindowSpec => []WindowTypeOK
<1>1. FleetInv /\ StepIsPlanned => WindowTypeOK
  BY DEF FleetInv, Sound, MemOK, WindowTypeOK
<1>2. FleetInv /\ PlanInv /\ [WindowNext]_allVars => (FleetInv /\ PlanInv)'
  BY StepPlanned, NextHolds, NextKeepsPlans
<1> QED  BY <1>1, <1>2, InitHolds, StepPlanned, PTL DEF WindowSpec

(* No two occupants are ever restored into one pane (exec._try_reuse,      *)
(* _claimed): a restored pane is claimed when it is taken, and the layout  *)
(* a pane is taken from was read before any pane was made in its session.  *)
(* But where tmux starts a session with the pane of an occupant, that pane *)
(* is in the layout read afterwards, and nobody claims it (exec.py:102).   *)
THEOREM OnePaneEachHolds == WindowSpec /\ []NoTmuxBoot => []OnePaneEach
<1>1. Apart(world, memory) => OnePaneEach
  BY DEF Apart, OnePaneEach
<1>2. FleetInv /\ PlanInv /\ [WindowNext]_allVars
        => (FleetInv /\ PlanInv)' /\ (NoTmuxBoot /\ Apart(world, memory) => Apart(world, memory)')
  BY StepPlanned, NextHolds, NextKeepsPlans
<1> QED  BY <1>1, <1>2, InitHolds, PTL DEF WindowSpec

(* Where no host has two sessions, a window that ends with code 0 leaves   *)
(* every session it stopped up (plan_relieve.plan_relieve): whatever it    *)
(* restores, each stop of the plan has a start of the same session behind  *)
(* it, and without a failure no step but a stop takes a session down.      *)
THEOREM StoppedIsUpHolds == OneSession => (WindowSpec => []StoppedIsUp)
<1> SUFFICES ASSUME OneSession PROVE WindowSpec => []StoppedIsUp
  OBVIOUS
<1>1. FleetInv /\ PlanInv /\ RunInv /\ [WindowNext]_allVars => (FleetInv /\ PlanInv /\ RunInv)'
  BY StepPlanned, NextHolds, NextKeepsPlans, NextRuns
<1>2. PlanInv /\ RunInv => StoppedIsUp
  BY UpAtTheEnd
<1> QED BY <1>1, <1>2, InitHolds, InitRuns, PTL DEF WindowSpec

=============================================================================
