----------------------------- MODULE SlotsProofs -----------------------------
(***************************************************************************)
(* What TLAPS proves about Slots, for any panes, any number of rolls and   *)
(* of conversations: however many rolls overlap, slots.json never has two  *)
(* slots for one human id; and until two overlap, a kill at any moment     *)
(* leaves it readable and an agent that stays keeps its slot.              *)
(***************************************************************************)
EXTENDS Slots, TLAPS

(* The stores with the first m slot ids, and what a roll may know of them. *)
Stores(m) == Partial(1..m, Record)

Rolling(m) ==
  [stage : {"idle", "load", "assign", "write", "rename"}, seen : Partial(Label, Talk),
   mem : Stores(m), given : Partial(Label, 1..m), fd : {"none", "tmp", "json", "gone"}]

Rosters(m) == [seen : Partial(Label, Talk), given : Partial(Label, 1..m)]

Typed ==
  /\ world \in [Label -> Talk \cup {Closed}]
  /\ moves \in 0..MaxMoves /\ rolls \in 0..MaxRolls /\ minted \in Nat
  /\ json \in {Empty, Mixed} \cup Stores(minted)
  /\ tmp \in {Absent, Empty, Mixed} \cup Stores(minted)
  /\ proc \in [Proc -> Rolling(minted)]
  /\ last \in Rosters(minted)
  /\ overlapped \in BOOLEAN

(* No two records of a store have one human id. *)
Unique(mem) == \A s, t \in DOMAIN mem : mem[s].label = mem[t].label => s = t

(* Every store there is, on disk or in the memory of a roll, is unique. *)
UniqueStores ==
  /\ Readable => Unique(json)
  /\ tmp \notin {Absent, Empty, Mixed} => Unique(tmp)
  /\ \A p \in Proc : Unique(proc[p].mem)

Inv == Typed /\ UniqueStores

-----------------------------------------------------------------------------
(* Partial functions *)

LEMMA PartialIntro ==
  ASSUME NEW S, NEW T, NEW D \in SUBSET S, NEW f \in [D -> T]
  PROVE  f \in Partial(S, T)
BY DEF Partial

LEMMA PartialElim ==
  ASSUME NEW S, NEW T, NEW f \in Partial(S, T)
  PROVE  DOMAIN f \subseteq S /\ f \in [DOMAIN f -> T]
<1>1. PICK D \in SUBSET S : f \in [D -> T]
  BY DEF Partial
<1> QED BY <1>1

LEMMA PartialGrows ==
  ASSUME NEW S, NEW T, NEW U, NEW V, S \subseteq U, T \subseteq V
  PROVE  Partial(S, T) \subseteq Partial(U, V)
<1> SUFFICES ASSUME NEW f \in Partial(S, T) PROVE f \in Partial(U, V)
  OBVIOUS
<1>1. DOMAIN f \in SUBSET U /\ f \in [DOMAIN f -> V]
  BY PartialElim
<1> QED BY <1>1, PartialIntro

(* f with one more element, or another value of one it has. *)
Put(f, e, v) == [x \in DOMAIN f \cup {e} |-> IF x = e THEN v ELSE f[x]]

LEMMA PartialAdd ==
  ASSUME NEW S, NEW T, NEW f \in Partial(S, T), NEW e \in S, NEW v \in T
  PROVE  Put(f, e, v) \in Partial(S, T)
<1>1. DOMAIN f \cup {e} \in SUBSET S /\ Put(f, e, v) \in [DOMAIN f \cup {e} -> T]
  BY PartialElim DEF Put
<1> QED BY <1>1, PartialIntro

LEMMA NothingPartial ==
  ASSUME NEW S, NEW T
  PROVE  NoRecords \in Partial(S, T) /\ DOMAIN NoRecords = {}
<1>1. {} \in SUBSET S /\ NoRecords \in [{} -> T]
  BY DEF NoRecords
<1> QED BY <1>1, PartialIntro DEF NoRecords

(* Minting only adds slot ids. *)
LEMMA MintingGrows ==
  ASSUME NEW m \in Nat, NEW n \in Nat, m <= n
  PROVE  Stores(m) \subseteq Stores(n) /\ Rolling(m) \subseteq Rolling(n) /\ Rosters(m) \subseteq Rosters(n)
<1>1. 1..m \subseteq 1..n
  OBVIOUS
<1>2. Stores(m) \subseteq Stores(n) /\ Partial(Label, 1..m) \subseteq Partial(Label, 1..n)
  BY <1>1, PartialGrows DEF Stores
<1> QED BY <1>2 DEF Rolling, Rosters

LEMMA IdleTyped ==
  ASSUME NEW m \in Nat
  PROVE  Idle \in Rolling(m) /\ Unique(Idle.mem) /\ NoRoster \in Rosters(m)
BY NothingPartial DEF Idle, Rolling, Stores, Unique, NoRoster, Rosters

LEMMA TypedMeansTypeOK == Typed => TypeOK
<1> SUFFICES ASSUME Typed PROVE TypeOK
  OBVIOUS
<1>1. ASSUME NEW mem \in Stores(minted) PROVE Store(mem)
  <2>1. DOMAIN mem \subseteq 1..minted /\ mem \in [DOMAIN mem -> Record]
    BY PartialElim DEF Stores
  <2> QED BY <2>1 DEF Store
<1>2. \A p \in Proc : Process(proc[p])
  BY <1>1 DEF Typed, Rolling, Process
<1> QED BY <1>1, <1>2 DEF Typed, TypeOK, Rosters

-----------------------------------------------------------------------------
(* The store in the memory of a roll *)

Known(l, talk) == [label |-> l, session |-> talk]

(* The slots that Assign may give, if m is the number of the next one.     *)
Choices(mem, l, talk, m) == IF Matches(mem, l, talk) = {} THEN {m} ELSE Matches(mem, l, talk)

(* The record that Matches finds is given to l and to no other: either it  *)
(* was l's already, or l had none; and a new slot id is no other's.        *)
LEMMA AssignKeepsUnique ==
  ASSUME NEW m \in Nat, NEW mem \in Stores(m), Unique(mem), NEW l \in Label, NEW talk \in Talk, NEW kept \in Talk,
         NEW s \in Choices(mem, l, talk, m + 1)
  PROVE  Unique(Put(mem, s, Known(l, kept)))
<1> DEFINE new == Put(mem, s, Known(l, kept))
<1>1. DOMAIN mem \subseteq 1..m /\ m + 1 \notin DOMAIN mem
  BY PartialElim DEF Stores
<1>2. \A x \in DOMAIN mem : mem[x].label = l => x = s
  <2> SUFFICES ASSUME NEW x \in DOMAIN mem, mem[x].label = l PROVE x = s
    OBVIOUS
  <2>1. x \in ByHuman(mem, l) /\ Matches(mem, l, talk) = ByHuman(mem, l)
    BY DEF ByHuman, Matches
  <2>2. s \in ByHuman(mem, l)
    BY <2>1 DEF Choices
  <2> QED BY <2>2 DEF ByHuman, Unique
<1>3. \A x \in DOMAIN new : new[x].label = IF x = s THEN l ELSE mem[x].label
  BY DEF Put, Known
<1>4. DOMAIN new = DOMAIN mem \cup {s}
  BY DEF Put
<1> HIDE DEF new
<1>5. ASSUME NEW x \in DOMAIN new, NEW y \in DOMAIN new, new[x].label = new[y].label PROVE x = y
  BY <1>2, <1>3, <1>4, <1>5 DEF Unique
<1> QED BY <1>5 DEF Unique, new

-----------------------------------------------------------------------------
(* Steps *)

LEMMA InitInv == Init => Inv
<1> SUFFICES ASSUME Init PROVE Inv
  OBVIOUS
<1>1. 0 \in Nat /\ Idle \in Rolling(minted) /\ NoRoster \in Rosters(minted) /\ Unique(Idle.mem)
  BY IdleTyped DEF Init
<1>2. NoRecords \in Stores(minted) /\ Unique(NoRecords)
  BY NothingPartial DEF Stores, Unique
<1>3. world \in [Label -> Talk \cup {Closed}]
  BY DEF Init
<1>4. overlapped \in BOOLEAN
  BY DEF Init
<1>5. Typed
  BY <1>1, <1>2, <1>3, <1>4, BoundsAssumption DEF Init, Typed
<1> QED BY <1>1, <1>2, <1>5 DEF Init, Inv, UniqueStores

(* A step of one roll leaves the others as they are. *)
LEMMA OneRoll ==
  ASSUME NEW m \in Nat, proc \in [Proc -> Rolling(m)], \A q \in Proc : Unique(proc[q].mem),
         NEW p \in Proc, NEW r \in Rolling(m), Unique(r.mem), proc' = [proc EXCEPT ![p] = r]
  PROVE  proc' \in [Proc -> Rolling(m)] /\ \A q \in Proc : Unique(proc'[q].mem)
OBVIOUS

LEMMA GatherInv ==
  ASSUME Inv, NEW p \in Proc, Gather(p)
  PROVE  Inv'
<1>1. PICK up \in SUBSET Host :
        LET open == {l \in Label : HostOf[l] \in up /\ world[l] # Closed}
        IN  proc' = [proc EXCEPT ![p] = [Idle EXCEPT !.stage = "load", !.seen = [l \in open |-> world[l]]]]
  BY DEF Gather
<1> DEFINE open == {l \in Label : HostOf[l] \in up /\ world[l] # Closed}
           seen == [l \in open |-> world[l]]
           r == [Idle EXCEPT !.stage = "load", !.seen = seen]
<1>2. seen \in Partial(Label, Talk)
  <2>1. open \in SUBSET Label /\ seen \in [open -> Talk]
    BY DEF Inv, Typed
  <2> HIDE DEF open, seen
  <2> QED BY <2>1, PartialIntro
<1>3. proc' = [proc EXCEPT ![p] = r]
  BY <1>1
<1> HIDE DEF seen
<1>4. r \in Rolling(minted) /\ Unique(r.mem)
  BY <1>2, IdleTyped DEF Inv, Typed, Rolling, Idle
<1> HIDE DEF r
<1>5. proc' \in [Proc -> Rolling(minted)] /\ \A q \in Proc : Unique(proc'[q].mem)
  BY <1>3, <1>4, OneRoll DEF Inv, Typed, UniqueStores
<1>6. rolls' \in 0..MaxRolls
  BY BoundsAssumption DEF Gather, Inv, Typed
<1> QED BY <1>5, <1>6 DEF Gather, past, Inv, Typed, UniqueStores, Readable

LEMMA LoadInv ==
  ASSUME Inv, NEW p \in Proc, Load(p)
  PROVE  Inv'
<1> DEFINE r == IF Readable THEN [proc[p] EXCEPT !.stage = "assign", !.mem = json] ELSE Idle
<1>1. proc' = [proc EXCEPT ![p] = r]
  BY DEF Load, Inv, Typed
<1>2. r \in Rolling(minted) /\ Unique(r.mem)
  BY IdleTyped DEF Inv, Typed, UniqueStores, Readable, Rolling
<1> HIDE DEF r
<1>3. proc' \in [Proc -> Rolling(minted)] /\ \A q \in Proc : Unique(proc'[q].mem)
  BY <1>1, <1>2, OneRoll DEF Inv, Typed, UniqueStores
<1> QED BY <1>3 DEF Load, past, Inv, Typed, UniqueStores, Readable

(* What an assignment does: a slot for l, the record of which is l's now.  *)
LEMMA AssignEffect ==
  ASSUME Inv, NEW p \in Proc, NEW l \in Label, Assign(p, l)
  PROVE  \E s \in Choices(proc[p].mem, l, proc[p].seen[l], minted + 1), kept \in Talk :
           /\ proc[p].seen[l] # Shell => kept = proc[p].seen[l]
           /\ s \in 1..minted' /\ minted' \in Nat /\ minted <= minted'
           /\ proc' = [proc EXCEPT ![p] = [proc[p] EXCEPT
                !.mem = Put(proc[p].mem, s, Known(l, kept)), !.given = Put(proc[p].given, l, s)]]
<1> DEFINE mem == proc[p].mem
           given == proc[p].given
           talk == proc[p].seen[l]
           match == Matches(mem, l, talk)
<1>1. PICK s \in IF match = {} THEN {minted + 1} ELSE match :
        /\ minted' = IF match = {} THEN minted + 1 ELSE minted
        /\ LET kept == IF talk = Shell /\ match # {} THEN mem[s].session ELSE talk
               rec == [label |-> l, session |-> kept]
           IN  proc' = [proc EXCEPT
                 ![p].mem = [x \in DOMAIN mem \cup {s} |-> IF x = s THEN rec ELSE mem[x]],
                 ![p].given = [x \in DOMAIN @ \cup {l} |-> IF x = l THEN s ELSE @[x]]]
  BY DEF Assign, NewUlid
<1> DEFINE kept == IF talk = Shell /\ match # {} THEN mem[s].session ELSE talk
<1>2. minted \in Nat /\ proc[p] \in Rolling(minted) /\ proc \in [Proc -> Rolling(minted)]
  BY DEF Inv, Typed
<1>3. DOMAIN mem \subseteq 1..minted /\ mem \in [DOMAIN mem -> Record]
  BY <1>2, PartialElim DEF Rolling, Stores
<1>4. match \subseteq DOMAIN mem
  BY DEF Matches, ByHuman, BySession
<1>5. talk \in Talk
  <2>1. proc[p].seen \in Partial(Label, Talk) /\ l \in DOMAIN proc[p].seen
    BY <1>2 DEF Assign, Rolling
  <2> QED BY <2>1, PartialElim
<1>6. kept \in Talk /\ (talk # Shell => kept = talk)
  BY <1>1, <1>3, <1>4, <1>5 DEF Record
<1>7. s \in 1..minted' /\ minted' \in Nat /\ minted <= minted'
  BY <1>1, <1>2, <1>3, <1>4
<1>8. proc' = [proc EXCEPT ![p] = [proc[p] EXCEPT
        !.mem = Put(mem, s, Known(l, kept)),
        !.given = Put(given, l, s)]]
  BY <1>1, <1>2 DEF Rolling, Put, Known
<1> HIDE DEF kept
<1>9. s \in Choices(mem, l, talk, minted + 1)
  BY <1>1 DEF Choices
<1> QED BY <1>6, <1>7, <1>8, <1>9

LEMMA AssignInv ==
  ASSUME Inv, NEW p \in Proc, NEW l \in Label, Assign(p, l)
  PROVE  Inv'
<1> DEFINE mem == proc[p].mem
           given == proc[p].given
<1>1. PICK s \in Choices(mem, l, proc[p].seen[l], minted + 1), kept \in Talk :
        /\ proc[p].seen[l] # Shell => kept = proc[p].seen[l]
        /\ s \in 1..minted' /\ minted' \in Nat /\ minted <= minted'
        /\ proc' = [proc EXCEPT ![p] = [proc[p] EXCEPT
             !.mem = Put(mem, s, Known(l, kept)),
             !.given = Put(given, l, s)]]
  BY AssignEffect, Zenon
<1> DEFINE new == Put(mem, s, Known(l, kept))
           got == Put(given, l, s)
           r == [proc[p] EXCEPT !.mem = new, !.given = got]
<1>2. /\ minted \in Nat
      /\ Stores(minted) \subseteq Stores(minted') /\ Rolling(minted) \subseteq Rolling(minted')
      /\ Rosters(minted) \subseteq Rosters(minted')
  BY <1>1, MintingGrows DEF Inv, Typed
<1>3. proc[p] \in Rolling(minted) /\ proc[p] \in Rolling(minted')
  BY <1>2 DEF Inv, Typed
<1>4. new \in Stores(minted')
  <2>1. mem \in Partial(1..minted', Record) /\ Known(l, kept) \in Record
    BY <1>3 DEF Rolling, Stores, Record, Known
  <2> QED BY <1>1, <2>1, PartialAdd DEF Stores
<1>5. got \in Partial(Label, 1..minted')
  <2>1. given \in Partial(Label, 1..minted')
    BY <1>3 DEF Rolling
  <2> QED BY <1>1, <2>1, PartialAdd
<1>6. Unique(new)
  <2>1. mem \in Stores(minted) /\ Unique(mem)
    BY <1>3 DEF Rolling, Inv, UniqueStores
  <2>2. proc[p].seen[l] \in Talk
    <3>1. proc[p].seen \in Partial(Label, Talk) /\ l \in DOMAIN proc[p].seen
      BY <1>3 DEF Assign, Rolling
    <3> QED BY <3>1, PartialElim
  <2> QED BY <1>1, <1>2, <2>1, <2>2, AssignKeepsUnique
<1>7. proc' = [proc EXCEPT ![p] = r]
  BY <1>1
<1> HIDE DEF new, got
<1>8. r \in Rolling(minted') /\ Unique(r.mem)
  BY <1>3, <1>4, <1>5, <1>6 DEF Rolling
<1> HIDE DEF r
<1>9. proc' \in [Proc -> Rolling(minted')] /\ \A q \in Proc : Unique(proc'[q].mem)
  <2>1. proc \in [Proc -> Rolling(minted')]
    BY <1>2 DEF Inv, Typed
  <2> QED BY <1>1, <1>7, <1>8, <2>1, OneRoll DEF Inv, UniqueStores
<1> QED BY <1>1, <1>2, <1>9 DEF Assign, past, Inv, Typed, UniqueStores, Readable

LEMMA OpenInv ==
  ASSUME Inv, NEW p \in Proc, Open(p)
  PROVE  Inv'
<1> DEFINE r == [proc[p] EXCEPT !.stage = "write", !.fd = "tmp"]
<1>1. proc' = [proc EXCEPT ![p] = r]
  BY DEF Open, Inv, Typed, Rolling
<1>2. r \in Rolling(minted) /\ Unique(r.mem)
  BY DEF Inv, Typed, UniqueStores, Rolling
<1> HIDE DEF r
<1>3. proc' \in [Proc -> Rolling(minted)] /\ \A q \in Proc : Unique(proc'[q].mem)
  BY <1>1, <1>2, OneRoll DEF Inv, Typed, UniqueStores
<1> QED BY <1>3 DEF Open, past, Inv, Typed, UniqueStores, Readable

(* A write leaves the store of the roll, or no store at all. *)
LEMMA WriteInv ==
  ASSUME Inv, NEW p \in Proc, Write(p)
  PROVE  Inv'
<1> DEFINE r == [proc[p] EXCEPT !.stage = "rename", !.fd = "none"]
<1>1. proc' = [proc EXCEPT ![p] = r]
  BY DEF Write, Inv, Typed, Rolling
<1>2. r \in Rolling(minted) /\ Unique(r.mem)
  BY DEF Inv, Typed, UniqueStores, Rolling
<1> HIDE DEF r
<1>3. proc' \in [Proc -> Rolling(minted)] /\ \A q \in Proc : Unique(proc'[q].mem)
  BY <1>1, <1>2, OneRoll DEF Inv, Typed, UniqueStores
<1>4. proc[p].mem \in Stores(minted) /\ Unique(proc[p].mem)
  BY DEF Inv, Typed, UniqueStores, Rolling
<1>5. tmp' \in {tmp, proc[p].mem, Mixed} /\ json' \in {json, proc[p].mem, Mixed}
  BY DEF Write, Written
<1> QED BY <1>3, <1>4, <1>5 DEF Write, past, Inv, Typed, UniqueStores, Readable

LEMMA RenameInv ==
  ASSUME Inv, NEW p \in Proc, Rename(p)
  PROVE  Inv'
<1>1. Idle \in Rolling(minted) /\ Unique(Idle.mem)
  BY IdleTyped DEF Inv, Typed
<1>2. CASE tmp = Absent
  <2>1. proc' = [proc EXCEPT ![p] = Idle] /\ UNCHANGED <<json, last>>
    BY <1>2 DEF Rename
  <2>2. proc' \in [Proc -> Rolling(minted)] /\ \A q \in Proc : Unique(proc'[q].mem)
    BY <1>1, <2>1, OneRoll DEF Inv, Typed, UniqueStores
  <2> QED BY <2>1, <2>2 DEF Rename, Inv, Typed, UniqueStores, Readable
<1>3. CASE tmp # Absent
  <2>1. /\ json' = tmp
        /\ last' = [seen |-> proc[p].seen, given |-> proc[p].given]
        /\ proc' = [q \in Proc |->
             IF q = p THEN Idle
             ELSE [proc[q] EXCEPT !.fd = CASE @ = "tmp" -> "json" [] @ = "json" -> "gone" [] OTHER -> @]]
    BY <1>3 DEF Rename
  <2>2. \A q \in Proc : proc'[q] \in Rolling(minted) /\ Unique(proc'[q].mem)
    <3> TAKE q \in Proc
    <3>1. CASE q = p
      BY <1>1, <2>1, <3>1
    <3>2. CASE q # p
      <4> DEFINE fd == CASE proc[q].fd = "tmp" -> "json" [] proc[q].fd = "json" -> "gone" [] OTHER -> proc[q].fd
      <4>1. proc[q] \in Rolling(minted)
        BY DEF Inv, Typed
      <4>2. proc'[q] = [proc[q] EXCEPT !.fd = fd]
        BY <2>1, <3>2, <4>1 DEF Rolling
      <4>3. fd \in {"none", "tmp", "json", "gone"}
        BY <4>1 DEF Rolling
      <4> HIDE DEF fd
      <4>4. Unique(proc[q].mem)
        BY DEF Inv, UniqueStores
      <4> QED BY <4>1, <4>2, <4>3, <4>4 DEF Rolling
    <3> QED BY <3>1, <3>2
  <2>3. proc' \in [Proc -> Rolling(minted)]
    BY <2>1, <2>2
  <2>4. last' \in Rosters(minted)
    BY <2>1 DEF Inv, Typed, Rolling, Rosters
  <2> QED BY <1>3, <2>1, <2>2, <2>3, <2>4 DEF Rename, Inv, Typed, UniqueStores, Readable
<1> QED BY <1>2, <1>3

LEMMA DieInv ==
  ASSUME Inv, NEW p \in Proc, Die(p)
  PROVE  Inv'
<1>1. Idle \in Rolling(minted) /\ Unique(Idle.mem)
  BY IdleTyped DEF Inv, Typed
<1>2. proc' \in [Proc -> Rolling(minted)] /\ \A q \in Proc : Unique(proc'[q].mem)
  BY <1>1, OneRoll DEF Die, Inv, Typed, UniqueStores
<1> QED BY <1>2 DEF Die, past, Inv, Typed, UniqueStores, Readable

LEMMA ChangeInv ==
  ASSUME Inv, NEW l \in Label, NEW w \in Talk \cup {Closed}, Change(l, w)
  PROVE  Inv'
<1>1. world' \in [Label -> Talk \cup {Closed}]
  BY DEF Change, Inv, Typed, Talk
<1> QED BY <1>1, BoundsAssumption DEF Change, past, Inv, Typed, UniqueStores, Readable

LEMMA NextInv == Inv /\ [Next]_vars => Inv'
<1> SUFFICES ASSUME Inv, [Next]_vars PROVE Inv'
  OBVIOUS
<1>1. CASE \E l \in Label, w \in Talk \cup {Closed} : Change(l, w)
  BY <1>1, ChangeInv
<1>2. ASSUME NEW p \in Proc, Roll(p) PROVE Inv'
  BY <1>2, GatherInv, LoadInv, AssignInv, OpenInv, WriteInv, RenameInv, DieInv DEF Roll
<1>3. CASE UNCHANGED vars
  BY <1>3 DEF vars, past, Inv, Typed, UniqueStores, Readable
<1> QED BY <1>1, <1>2, <1>3 DEF Next

LEMMA Invariant == Spec => []Inv
BY InitInv, NextInv, PTL DEF Spec

-----------------------------------------------------------------------------
(* The variables of Slots keep their types. *)
THEOREM TypeCorrect == Spec => []TypeOK
<1>1. Inv => TypeOK
  BY TypedMeansTypeOK DEF Inv
<1> QED BY <1>1, Invariant, PTL

(* SlotStore.by_human_id has one answer: however many rolls overlap, die   *)
(* or write into each other's file, a slots.json that can be read has no   *)
(* two slots with the same human id.                                       *)
THEOREM OneSlotPerLabelHolds == Spec => []OneSlotPerLabel
<1>1. Inv => OneSlotPerLabel
  BY DEF Inv, UniqueStores, OneSlotPerLabel, Unique
<1> QED BY <1>1, Invariant, PTL

-----------------------------------------------------------------------------
(* One roll at a time *)

Solo == \A p, q \in Proc : proc[p].stage # "idle" /\ proc[q].stage # "idle" => p = q

(* While a roll goes on and no two ever met, the others are not under way. *)
LEMMA OthersIdle ==
  ASSUME Inv, Solo, ~overlapped', NEW p \in Proc, Roll(p)
  PROVE  /\ ~overlapped /\ Solo'
         /\ \A q \in Proc \ {p} :
              proc[q].stage = "idle" /\ proc'[q].stage = "idle" /\ proc'[q].seen = proc[q].seen
<1>1. proc \in [Proc -> Rolling(minted)]
  BY DEF Inv, Typed
<1>2. ~overlapped /\ \A q \in Proc \ {p} : proc[q].stage = "idle"
  <2>1. CASE Gather(p)
    BY <2>1 DEF Gather
  <2>2. CASE ~Gather(p)
    <3>1. proc[p].stage # "idle"
      BY <2>2 DEF Roll, Load, Assign, Open, Write, Rename, Die
    <3>2. overlapped' = overlapped
      BY <2>2 DEF Roll, Load, Assign, Open, Write, Rename, Die, past
    <3> QED BY <3>1, <3>2 DEF Solo
  <2> QED BY <2>1, <2>2
<1>3. \A q \in Proc \ {p} : proc'[q].stage = proc[q].stage /\ proc'[q].seen = proc[q].seen
  <2> TAKE q \in Proc \ {p}
  <2>1. CASE Rename(p) /\ tmp # Absent
    <3> DEFINE fd == CASE proc[q].fd = "tmp" -> "json" [] proc[q].fd = "json" -> "gone" [] OTHER -> proc[q].fd
    <3>1. proc'[q] = [proc[q] EXCEPT !.fd = fd]
      BY <1>1, <2>1 DEF Rename, Rolling
    <3> HIDE DEF fd
    <3> QED BY <1>1, <3>1 DEF Rolling
  <2>2. CASE ~(Rename(p) /\ tmp # Absent)
    <3>1. proc'[q] = proc[q]
      BY <1>1, <2>2 DEF Roll, Gather, Load, Assign, Open, Write, Rename, Die
    <3> QED BY <3>1
  <2> QED BY <2>1, <2>2
<1> QED BY <1>2, <1>3 DEF Solo

(* The text a roll writes goes into an empty file of its own.              *)
OwnFile ==
  \A p \in Proc :
    /\ proc[p].stage = "write" => proc[p].fd = "tmp" /\ tmp = Empty
    /\ proc[p].stage = "rename" => tmp = proc[p].mem

LEMMA InitOwnFile == Init => OwnFile
BY DEF Init, OwnFile, Idle

LEMMA OwnFileStep ==
  ASSUME Inv, Solo, OwnFile, ~overlapped', [Next]_vars
  PROVE  OwnFile'
<1>1. ASSUME NEW p \in Proc, Roll(p) PROVE OwnFile'
  <2>1. /\ proc \in [Proc -> Rolling(minted)] /\ proc[p] \in Rolling(minted)
        /\ \A q \in Proc \ {p} : proc'[q].stage = "idle"
    BY <1>1, OthersIdle DEF Inv, Typed
  <2>2. CASE Gather(p) \/ Load(p) \/ Die(p)
    <3>1. Gather(p) => proc'[p].stage = "load"
      BY <2>1 DEF Gather, Idle
    <3>2. Load(p) => proc'[p].stage \in {"assign", "idle"}
      BY <2>1 DEF Load, Idle, Rolling
    <3>3. Die(p) => proc'[p].stage = "idle"
      BY <2>1 DEF Die, Idle
    <3> QED BY <2>1, <2>2, <3>1, <3>2, <3>3 DEF OwnFile
  <2>3. ASSUME NEW l \in Label, Assign(p, l) PROVE OwnFile'
    <3>1. proc'[p].stage = "assign"
      BY <2>1, <2>3 DEF Assign, Rolling
    <3> QED BY <2>1, <3>1 DEF OwnFile
  <2>4. CASE Open(p)
    <3>1. proc'[p].stage = "write" /\ proc'[p].fd = "tmp" /\ tmp' = Empty
      BY <2>1, <2>4 DEF Open, Rolling
    <3> QED BY <2>1, <3>1 DEF OwnFile
  <2>5. CASE Write(p)
    <3>1. proc'[p].stage = "rename" /\ proc'[p].mem = proc[p].mem
      BY <2>1, <2>5 DEF Write, Rolling
    <3>2. tmp' = proc[p].mem
      BY <2>5 DEF Write, Written, OwnFile
    <3> QED BY <2>1, <3>1, <3>2 DEF OwnFile
  <2>6. CASE Rename(p)
    <3>1. proc'[p].stage = "idle"
      BY <2>1, <2>6 DEF Rename, Idle
    <3> QED BY <2>1, <3>1 DEF OwnFile
  <2> QED BY <1>1, <2>2, <2>3, <2>4, <2>5, <2>6 DEF Roll
<1>2. CASE UNCHANGED <<proc, tmp>>
  BY <1>2 DEF OwnFile
<1>3. UNCHANGED vars \/ (\E l \in Label, w \in Talk \cup {Closed} : Change(l, w)) => UNCHANGED <<proc, tmp>>
  BY DEF vars, Change
<1> QED BY <1>1, <1>2, <1>3 DEF Next

(* A store is readable, if Empty, Mixed and Absent are none. *)
LEMMA ReadableStep ==
  ASSUME \A m \in Nat : {Empty, Mixed, Absent} \cap Stores(m) = {},
         Inv, OwnFile, Readable, [Next]_vars
  PROVE  Readable'
<1>1. CASE UNCHANGED json
  BY <1>1 DEF Readable
<1>2. ASSUME NEW p \in Proc, Write(p) PROVE UNCHANGED json
  BY <1>2 DEF Write, OwnFile
<1>3. ASSUME NEW p \in Proc, Rename(p), json' # json PROVE Readable'
  <2>1. json' = proc[p].mem
    BY <1>3 DEF Rename, OwnFile
  <2>2. proc[p].mem \in Stores(minted) /\ minted \in Nat
    BY DEF Inv, Typed, Rolling
  <2> QED BY <2>1, <2>2 DEF Readable
<1>4. ASSUME NEW p \in Proc, Roll(p) PROVE Write(p) \/ Rename(p) \/ UNCHANGED json
  BY <1>4 DEF Roll, Gather, Load, Assign, Open, Die
<1>5. UNCHANGED vars \/ (\E l \in Label, w \in Talk \cup {Closed} : Change(l, w)) => UNCHANGED json
  BY DEF vars, Change
<1> QED BY <1>1, <1>2, <1>3, <1>4, <1>5 DEF Next

-----------------------------------------------------------------------------
(* Slots that stay *)

(* A conversation runs in one pane at a time. *)
OnePane(panes) == \A l, k \in DOMAIN panes : panes[l] = panes[k] /\ panes[l] \in Session => l = k

(* The agents of a roster have their slots in the store. *)
HasSlots(mem, roster) ==
  \A l \in DOMAIN roster.seen \cap DOMAIN roster.given :
    roster.seen[l] # Shell =>
      roster.given[l] \in DOMAIN mem /\ mem[roster.given[l]] = Known(l, roster.seen[l])

(* The agents of the last roster that are still there have their slots in  *)
(* the memory of the roll, whether they were assigned yet or not.          *)
StillThere(r) ==
  \A l \in DOMAIN r.seen \cap DOMAIN last.seen :
    r.seen[l] = last.seen[l] /\ r.seen[l] # Shell =>
      /\ last.given[l] \in DOMAIN r.mem /\ r.mem[last.given[l]] = Known(l, r.seen[l])
      /\ l \in DOMAIN r.given => r.given[l] = last.given[l]

RollKeeps(r) ==
  /\ OnePane(r.seen)
  /\ r.stage = "load" => DOMAIN r.given = {}
  /\ r.stage \in {"assign", "write", "rename"} => HasSlots(r.mem, r) /\ StillThere(r)
  /\ r.stage \in {"write", "rename"} => DOMAIN r.given = DOMAIN r.seen

KeepsSlots ==
  /\ OnePane(world)
  /\ DOMAIN last.given = DOMAIN last.seen
  /\ HasSlots(json, last)
  /\ \A p \in Proc : RollKeeps(proc[p])

AloneInv == Inv /\ Solo /\ OwnFile /\ KeepsSlots

LEMMA InitKeeps == Init => KeepsSlots
<1> SUFFICES ASSUME Init PROVE KeepsSlots
  OBVIOUS
<1>1. DOMAIN NoRecords = {}
  BY DEF NoRecords
<1>2. OnePane(world)
  BY DEF Init, OnePane
<1>3. \A p \in Proc : RollKeeps(proc[p])
  BY <1>1 DEF Init, Idle, RollKeeps, OnePane
<1> QED BY <1>1, <1>2, <1>3 DEF Init, KeepsSlots, HasSlots, NoRoster

(* A roll gives the slot of one agent to no other: only the pane it had,   *)
(* or the conversation it is in, leads to it.                              *)
LEMMA SlotStays ==
  ASSUME NEW m \in Nat, NEW mem \in Stores(m), NEW l \in Label, NEW talk \in Talk,
         NEW s \in Choices(mem, l, talk, m + 1),
         NEW x \in DOMAIN mem, NEW k, k # l, NEW t, t # talk, mem[x] = Known(k, t)
  PROVE  x # s
<1>1. DOMAIN mem \subseteq 1..m
  BY PartialElim DEF Stores
<1>2. CASE Matches(mem, l, talk) = {}
  BY <1>1, <1>2 DEF Choices
<1>3. CASE Matches(mem, l, talk) # {}
  BY <1>3 DEF Choices, Matches, ByHuman, BySession, Known
<1> QED BY <1>2, <1>3

(* The slot of an agent that stays is found by its human id. *)
LEMMA SlotFound ==
  ASSUME NEW mem, Unique(mem), NEW l \in Label, NEW talk, NEW m,
         NEW s \in Choices(mem, l, talk, m),
         NEW x \in DOMAIN mem, mem[x] = Known(l, talk)
  PROVE  s = x
<1>1. x \in ByHuman(mem, l) /\ Matches(mem, l, talk) = ByHuman(mem, l)
  BY DEF ByHuman, Matches, Known
<1>2. s \in DOMAIN mem /\ mem[s].label = l /\ mem[x].label = l
  BY <1>1 DEF Choices, ByHuman
<1> QED BY <1>2 DEF Unique

LEMMA AssignKeeps ==
  ASSUME AloneInv, NEW p \in Proc, NEW l \in Label, Assign(p, l)
  PROVE  RollKeeps(proc'[p]) /\ UNCHANGED <<world, json, last>>
<1> DEFINE r == proc[p]
<1>1. PICK s \in Choices(r.mem, l, r.seen[l], minted + 1), kept \in Talk :
        /\ r.seen[l] # Shell => kept = r.seen[l]
        /\ s \in 1..minted' /\ minted' \in Nat /\ minted <= minted'
        /\ proc' = [proc EXCEPT ![p] = [r EXCEPT !.mem = Put(r.mem, s, Known(l, kept)), !.given = Put(r.given, l, s)]]
  <2>1. Inv
    BY DEF AloneInv
  <2> QED BY <2>1, AssignEffect, Zenon
<1>2. r \in Rolling(minted) /\ minted \in Nat /\ proc \in [Proc -> Rolling(minted)]
  BY DEF AloneInv, Inv, Typed
<1>3. r.stage = "assign" /\ l \in DOMAIN r.seen /\ l \notin DOMAIN r.given
  BY DEF Assign
<1>4. RollKeeps(r) /\ OnePane(r.seen) /\ HasSlots(r.mem, r) /\ StillThere(r) /\ Unique(r.mem)
  BY <1>3 DEF AloneInv, KeepsSlots, RollKeeps, Inv, UniqueStores
<1>5. \A k \in DOMAIN r.seen : r.seen[k] \in Talk
  BY <1>2, PartialElim DEF Rolling
<1> DEFINE mem == Put(r.mem, s, Known(l, kept))
           given == Put(r.given, l, s)
           q == proc'[p]
<1>6. q.stage = "assign" /\ q.seen = r.seen /\ q.mem = mem /\ q.given = given
  BY <1>1, <1>2, <1>3 DEF Rolling
<1>7. /\ DOMAIN mem = DOMAIN r.mem \cup {s} /\ mem[s] = Known(l, kept)
      /\ \A x \in DOMAIN r.mem : x # s => mem[x] = r.mem[x]
      /\ DOMAIN given = DOMAIN r.given \cup {l} /\ given[l] = s
      /\ \A k \in DOMAIN r.given : given[k] = r.given[k]
  BY <1>3 DEF Put
(* Nobody else's slot is taken. *)
<1>8. ASSUME NEW k \in DOMAIN r.seen, k # l, r.seen[k] # Shell, NEW x \in DOMAIN r.mem,
             r.mem[x] = Known(k, r.seen[k])
      PROVE  x \in DOMAIN mem /\ mem[x] = Known(k, r.seen[k])
  <2>1. r.seen[k] \in Session /\ r.seen[l] \in Talk
    BY <1>3, <1>5, <1>8 DEF Talk
  <2>2. r.seen[k] # r.seen[l]
    BY <1>3, <1>4, <1>8, <2>1 DEF OnePane
  <2>3. r.mem \in Stores(minted)
    BY <1>2 DEF Rolling
  <2>4. x # s
    BY <1>1, <1>2, <1>8, <2>1, <2>2, <2>3, SlotStays
  <2> QED BY <1>7, <1>8, <2>4
<1> HIDE DEF r, q, mem, given
<1>9. HasSlots(q.mem, q)
  <2> SUFFICES ASSUME NEW k \in DOMAIN q.seen \cap DOMAIN q.given, q.seen[k] # Shell
               PROVE  q.given[k] \in DOMAIN q.mem /\ q.mem[q.given[k]] = Known(k, q.seen[k])
    BY DEF HasSlots
  <2>1. CASE k = l
    BY <1>1, <1>6, <1>7, <2>1
  <2>2. CASE k # l
    <3>1. k \in DOMAIN r.seen /\ k \in DOMAIN r.given /\ given[k] = r.given[k]
      BY <1>6, <1>7, <2>2
    <3>2. r.given[k] \in DOMAIN r.mem /\ r.mem[r.given[k]] = Known(k, r.seen[k])
      BY <1>4, <1>6, <3>1 DEF HasSlots
    <3> QED BY <1>6, <1>8, <2>2, <3>1, <3>2
  <2> QED BY <2>1, <2>2
<1>10. last' = last /\ world' = world /\ json' = json
  BY DEF Assign, past
<1>11. StillThere(q)
  <2> SUFFICES ASSUME NEW k \in DOMAIN q.seen \cap DOMAIN last.seen, q.seen[k] = last.seen[k], q.seen[k] # Shell
               PROVE  /\ last.given[k] \in DOMAIN q.mem /\ q.mem[last.given[k]] = Known(k, q.seen[k])
                      /\ k \in DOMAIN q.given => q.given[k] = last.given[k]
    BY DEF StillThere
  <2>1. /\ last.given[k] \in DOMAIN r.mem /\ r.mem[last.given[k]] = Known(k, r.seen[k])
        /\ k \in DOMAIN r.given => r.given[k] = last.given[k]
    BY <1>4, <1>6 DEF StillThere
  <2>2. CASE k = l
    <3>1. s = last.given[l]
      BY <1>1, <1>4, <2>1, <2>2, SlotFound
    <3> QED BY <1>1, <1>6, <1>7, <2>2, <3>1
  <2>3. CASE k # l
    BY <1>6, <1>7, <1>8, <2>1, <2>3
  <2> QED BY <2>2, <2>3
<1> QED BY <1>4, <1>6, <1>9, <1>10, <1>11 DEF RollKeeps, q

LEMMA ChangeKeeps ==
  ASSUME AloneInv, NEW l \in Label, NEW w \in Talk \cup {Closed}, Change(l, w)
  PROVE  OnePane(world')
<1> DEFINE from == {m \in Label : world[m] = w /\ w \in Session}
<1>1. /\ world' = [m \in Label |-> IF m = l THEN w ELSE IF m \in from THEN Shell ELSE world[m]]
      /\ world \in [Label -> Talk \cup {Closed}] /\ OnePane(world)
  BY DEF Change, AloneInv, Inv, Typed, KeepsSlots
<1> SUFFICES ASSUME NEW m \in Label, NEW k \in Label, world'[m] = world'[k], world'[m] \in Session PROVE m = k
  BY <1>1 DEF OnePane
<1>2. CASE m = l \/ k = l
  BY <1>1, <1>2, ValuesAssumption
<1>3. CASE m # l /\ k # l
  BY <1>1, <1>3, ValuesAssumption DEF OnePane
<1> QED BY <1>2, <1>3

LEMMA RollStep ==
  ASSUME AloneInv, ~overlapped', NEW p \in Proc, Roll(p)
  PROVE  KeepsSlots'
<1>0. Inv /\ Solo
  BY DEF AloneInv
<1>1. /\ proc \in [Proc -> Rolling(minted)] /\ proc[p] \in Rolling(minted) /\ RollKeeps(proc[p])
      /\ \A q \in Proc \ {p} : proc'[q].stage = "idle" /\ OnePane(proc'[q].seen)
  BY <1>0, OthersIdle DEF Inv, Typed, AloneInv, KeepsSlots, RollKeeps
<1>others. \A q \in Proc \ {p} : RollKeeps(proc[q])'
  BY <1>1 DEF RollKeeps
<1>2. OnePane(world) /\ DOMAIN last.given = DOMAIN last.seen /\ HasSlots(json, last)
  BY DEF AloneInv, KeepsSlots
<1>3. ASSUME RollKeeps(proc[p])', UNCHANGED <<world, json, last>> PROVE KeepsSlots'
  BY <1>others, <1>2, <1>3 DEF KeepsSlots, HasSlots
<1>4. ASSUME proc'[p] = Idle PROVE RollKeeps(proc[p])'
  BY <1>4 DEF RollKeeps, Idle, OnePane, NoRecords
<1>5. CASE Gather(p)
  <2>1. PICK up \in SUBSET Host :
          LET open == {l \in Label : HostOf[l] \in up /\ world[l] # Closed}
          IN  proc' = [proc EXCEPT ![p] = [Idle EXCEPT !.stage = "load", !.seen = [l \in open |-> world[l]]]]
    BY <1>5 DEF Gather
  <2> DEFINE open == {l \in Label : HostOf[l] \in up /\ world[l] # Closed}
             seen == [l \in open |-> world[l]]
  <2>2. OnePane(seen)
    BY <1>2 DEF OnePane, AloneInv, Inv, Typed
  <2>3. proc'[p] = [Idle EXCEPT !.stage = "load", !.seen = seen]
    BY <1>1, <2>1
  <2> HIDE DEF seen
  <2>4. proc'[p].stage = "load" /\ proc'[p].seen = seen /\ DOMAIN proc'[p].given = {}
    BY <2>3 DEF Idle, NoRecords
  <2>5. RollKeeps(proc[p])'
    BY <2>2, <2>4 DEF RollKeeps
  <2> QED BY <1>3, <1>5, <2>5 DEF Gather
<1>6. CASE Load(p)
  <2>1. CASE ~Readable
    <3>1. proc'[p] = Idle
      BY <1>1, <1>6, <2>1 DEF Load
    <3> QED BY <1>3, <1>4, <1>6, <3>1 DEF Load, past
  <2>2. CASE Readable
    <3>1. /\ proc'[p].stage = "assign" /\ proc'[p].mem = json
          /\ proc'[p].seen = proc[p].seen /\ proc'[p].given = proc[p].given
      BY <1>1, <1>6, <2>2 DEF Load, Rolling
    <3>2. OnePane(proc[p].seen) /\ DOMAIN proc[p].given = {}
      BY <1>1, <1>6 DEF Load, RollKeeps
    <3>3. HasSlots(proc'[p].mem, proc'[p]) /\ StillThere(proc'[p])
      BY <1>2, <3>1, <3>2 DEF HasSlots, StillThere
    <3>4. UNCHANGED <<world, json, last>>
      BY <1>6 DEF Load, past
    <3>5. StillThere(proc[p])'
      BY <3>3, <3>4 DEF StillThere
    <3>6. RollKeeps(proc[p])'
      BY <3>1, <3>2, <3>3, <3>5 DEF RollKeeps, HasSlots
    <3> QED BY <1>3, <3>4, <3>6
  <2> QED BY <2>1, <2>2
<1>7. ASSUME NEW l \in Label, Assign(p, l) PROVE KeepsSlots'
  <2>1. RollKeeps(proc'[p]) /\ UNCHANGED <<world, json, last>>
    BY <1>7, AssignKeeps
  <2>2. RollKeeps(proc[p])'
    BY <2>1 DEF RollKeeps, StillThere, HasSlots
  <2> QED BY <1>3, <2>1, <2>2
<1>8. CASE Open(p)
  <2>1. /\ proc'[p].stage = "write" /\ proc'[p].mem = proc[p].mem
        /\ proc'[p].seen = proc[p].seen /\ proc'[p].given = proc[p].given
        /\ UNCHANGED <<world, json, last>>
    BY <1>1, <1>8 DEF Open, Rolling, past
  <2>2. /\ OnePane(proc[p].seen) /\ HasSlots(proc[p].mem, proc[p]) /\ StillThere(proc[p])
        /\ DOMAIN proc[p].given = DOMAIN proc[p].seen
    BY <1>1, <1>8 DEF Open, RollKeeps
  <2>3. RollKeeps(proc[p])'
    BY <2>1, <2>2 DEF RollKeeps, StillThere, HasSlots
  <2> QED BY <1>3, <2>1, <2>3
<1>9. CASE Write(p)
  <2>1. /\ proc'[p].stage = "rename" /\ proc'[p].mem = proc[p].mem
        /\ proc'[p].seen = proc[p].seen /\ proc'[p].given = proc[p].given
        /\ UNCHANGED <<world, last>>
    BY <1>1, <1>9 DEF Write, Rolling, past
  <2>2. json' = json
    BY <1>9 DEF Write, AloneInv, OwnFile
  <2>3. /\ OnePane(proc[p].seen) /\ HasSlots(proc[p].mem, proc[p]) /\ StillThere(proc[p])
        /\ DOMAIN proc[p].given = DOMAIN proc[p].seen
    BY <1>1, <1>9 DEF Write, RollKeeps
  <2>4. RollKeeps(proc[p])'
    BY <2>1, <2>3 DEF RollKeeps, StillThere, HasSlots
  <2> QED BY <1>3, <2>1, <2>2, <2>4
<1>10. CASE Rename(p)
  <2>1. proc'[p] = Idle /\ UNCHANGED world
    BY <1>1, <1>10 DEF Rename
  <2>2. RollKeeps(proc[p])'
    BY <1>4, <2>1
  <2>3. CASE tmp = Absent
    BY <1>3, <1>10, <2>1, <2>2, <2>3 DEF Rename
  <2>4. CASE tmp # Absent
    <3>1. json' = proc[p].mem /\ last' = [seen |-> proc[p].seen, given |-> proc[p].given]
      BY <1>10, <2>4 DEF Rename, AloneInv, OwnFile
    <3>2. HasSlots(proc[p].mem, proc[p]) /\ DOMAIN proc[p].given = DOMAIN proc[p].seen
      BY <1>1, <1>10 DEF Rename, RollKeeps
    <3>3. last'.seen = proc[p].seen /\ last'.given = proc[p].given
      BY <3>1
    <3>4. HasSlots(json, last)' /\ (DOMAIN last.given = DOMAIN last.seen)'
      BY <3>1, <3>2, <3>3 DEF HasSlots
    <3>5. OnePane(world)'
      BY <1>2, <2>1 DEF OnePane
    <3> QED BY <1>others, <2>2, <3>4, <3>5 DEF KeepsSlots
  <2> QED BY <2>3, <2>4
<1>11. CASE Die(p)
  <2>1. proc'[p] = Idle
    BY <1>1, <1>11 DEF Die
  <2> QED BY <1>3, <1>4, <1>11, <2>1 DEF Die, past
<1> QED BY <1>5, <1>6, <1>7, <1>8, <1>9, <1>10, <1>11 DEF Roll

LEMMA KeepsStep ==
  ASSUME AloneInv, ~overlapped', [Next]_vars
  PROVE  KeepsSlots'
<1>1. ASSUME OnePane(world'), UNCHANGED <<json, last, proc>> PROVE KeepsSlots'
  BY <1>1 DEF AloneInv, KeepsSlots, HasSlots, RollKeeps, StillThere, OnePane
<1>2. ASSUME NEW l \in Label, NEW w \in Talk \cup {Closed}, Change(l, w) PROVE KeepsSlots'
  BY <1>1, <1>2, ChangeKeeps DEF Change, past
<1>3. CASE UNCHANGED vars
  BY <1>1, <1>3 DEF vars, past, AloneInv, KeepsSlots, OnePane
<1> QED BY <1>2, <1>3, RollStep DEF Next

(* Until two rolls have met, each finds everything as the last one left it. *)
UntilMet == Inv /\ (~overlapped => AloneInv)

LEMMA UntilMetHolds == Spec => []UntilMet
<1>1. Init => UntilMet
  <2>1. Init => Solo
    BY DEF Init, Solo, Idle
  <2> QED BY <2>1, InitInv, InitOwnFile, InitKeeps DEF UntilMet, AloneInv
<1>2. UntilMet /\ [Next]_vars => UntilMet'
  <2> SUFFICES ASSUME UntilMet, [Next]_vars, ~overlapped' PROVE AloneInv'
    BY NextInv DEF UntilMet
  <2>1. Inv
    BY DEF UntilMet
  <2>2. ~overlapped /\ (Solo => Solo')
    <3>1. ASSUME NEW p \in Proc, Roll(p) PROVE ~overlapped /\ (Solo => Solo')
      <4>1. ~overlapped
        BY <3>1 DEF Roll, Gather, Load, Assign, Open, Write, Rename, Die, past
      <4> QED BY <2>1, <3>1, <4>1, OthersIdle
    <3>2. ASSUME UNCHANGED <<proc, overlapped>> PROVE ~overlapped /\ (Solo => Solo')
      BY <3>2 DEF Solo
    <3>3. UNCHANGED vars \/ (\E l \in Label, w \in Talk \cup {Closed} : Change(l, w)) => UNCHANGED <<proc, overlapped>>
      BY DEF vars, past, Change
    <3> QED BY <3>1, <3>2, <3>3 DEF Next
  <2>3. AloneInv /\ Solo /\ OwnFile
    BY <2>2 DEF UntilMet, AloneInv
  <2>4. Inv'
    BY <2>1, NextInv
  <2>5. OwnFile'
    BY <2>1, <2>3, OwnFileStep
  <2>6. KeepsSlots'
    BY <2>3, KeepsStep
  <2> QED BY <2>2, <2>3, <2>4, <2>5, <2>6 DEF AloneInv
<1> QED BY <1>1, <1>2, PTL DEF Spec

(* A kill at any moment of a roll leaves a slots.json that can be loaded,  *)
(* until two rolls have been under way at once: the new store replaces the *)
(* old one only when it is written.  (Empty, Mixed and Absent stand for    *)
(* what is no store.)                                                      *)
THEOREM AlwaysReadableAlone ==
  ASSUME \A m \in Nat : {Empty, Mixed, Absent} \cap Stores(m) = {}
  PROVE  Spec => []AlwaysReadable
<1>1. Init => AlwaysReadable
  <2> SUFFICES ASSUME Init PROVE json \notin {Empty, Mixed}
    BY DEF AlwaysReadable, Readable
  <2>1. json \in Stores(0)
    BY NothingPartial DEF Init, Stores
  <2> QED BY <2>1
<1>2. UntilMet /\ UntilMet' /\ AlwaysReadable /\ [Next]_vars => AlwaysReadable'
  <2> SUFFICES ASSUME UntilMet, AlwaysReadable, [Next]_vars, ~overlapped' PROVE Readable'
    BY DEF AlwaysReadable
  <2>1. ~overlapped
    BY DEF Next, Roll, Change, Gather, Load, Assign, Open, Write, Rename, Die, past, vars
  <2> QED BY <2>1, ReadableStep DEF UntilMet, AloneInv, AlwaysReadable
<1> QED BY <1>1, <1>2, UntilMetHolds, PTL DEF Spec

(* An agent that two successive rolls see in the same place, in the same   *)
(* conversation, has the same slot in both rosters, whatever came and went *)
(* around it, and whichever rolls were killed, until two rolls have been   *)
(* under way at once.                                                      *)
THEOREM StillSameSlotAlone == Spec => StillSameSlot
<1> DEFINE Same ==
      ~overlapped =>
        \A l \in DOMAIN last.seen \cap DOMAIN last'.seen :
          last.seen[l] = last'.seen[l] /\ last.seen[l] # Shell => last.given[l] = last'.given[l]
<1>1. UntilMet /\ [Next]_vars => [Same]_last
  <2> SUFFICES ASSUME UntilMet, [Next]_vars, last' # last, ~overlapped PROVE Same
    OBVIOUS
  <2>1. PICK p \in Proc : Rename(p) /\ tmp # Absent
    BY DEF Next, vars, past, Roll, Change, Gather, Load, Assign, Open, Write, Rename, Die
  <2>2. last'.seen = proc[p].seen /\ last'.given = proc[p].given
    BY <2>1 DEF Rename
  <2>3. StillThere(proc[p]) /\ DOMAIN proc[p].given = DOMAIN proc[p].seen
    BY <2>1 DEF Rename, UntilMet, AloneInv, KeepsSlots, RollKeeps
  <2> QED BY <2>2, <2>3 DEF StillThere
<1> QED BY <1>1, UntilMetHolds, PTL DEF Spec, StillSameSlot
=============================================================================
