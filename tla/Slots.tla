-------------------------------- MODULE Slots --------------------------------
(***************************************************************************)
(* Durable slot identity: slots.json, and how a roll gives every occupant  *)
(* its slot id (slots.py, called from cli._roll and collect.build_roster). *)
(* A roll looks at the panes, loads the store, assigns in memory, and      *)
(* saves.  Rolls are processes that nothing serialises, and the temporary  *)
(* file of a save has the same name in all of them.                        *)
(***************************************************************************)
EXTENDS Integers, FiniteSets

CONSTANTS
  Label,     \* human ids
  Host,
  HostOf,    \* the host in each human id
  Session,   \* native conversation ids
  Shell,     \* in a pane without an agent, or whose conversation is not known
  Closed,    \* of a human id no pane has
  Proc,      \* the rolls that may run at once
  Empty, Mixed,   \* an unreadable file: of no bytes; of two writes in one
  Absent,    \* no temporary file
  MaxRolls,  \* bound: rolls per behaviour
  MaxMoves   \* bound: changes of the panes per behaviour

ASSUME BoundsAssumption == MaxRolls \in Nat /\ MaxMoves \in Nat
ASSUME HostAssumption == HostOf \in [Label -> Host]
ASSUME ValuesAssumption ==
  /\ Shell # Closed /\ {Shell, Closed} \cap Session = {}
  /\ Empty # Mixed /\ Absent \notin {Empty, Mixed}

VARIABLES
  world,     \* what runs under each human id
  moves,     \* how often that changed
  json,      \* slots.json
  tmp,       \* slots.tmp
  minted,    \* ULIDs minted so far; a slot id is the number of its minting
  rolls,     \* rolls begun
  proc,      \* the rolls under way, see Process
  last,      \* history: what the newest finished roll saw, and the slots it gave
  overlapped \* history: two rolls have been under way at once

past == <<last, overlapped>>
vars == <<world, moves, json, tmp, minted, rolls, proc, past>>

(* A conversation, or that there is none. *)
Talk == Session \cup {Shell}

(* SlotStore.slots: the records by slot id. *)
Record == [label : Label, session : Talk]

NoRecords == [s \in {} |-> Shell]

Readable == json \notin {Empty, Mixed}

(* What a roll knows.  fd is the file its open descriptor of slots.tmp is  *)
(* by now: still that, already slots.json, or a file without a name.       *)
Idle == [stage |-> "idle", seen |-> NoRecords, mem |-> NoRecords, given |-> NoRecords, fd |-> "none"]

NoRoster == [seen |-> NoRecords, given |-> NoRecords]

Init ==
  /\ world \in [Label -> Talk \cup {Closed}]
  /\ \A l, m \in Label : world[l] = world[m] /\ world[l] \in Session => l = m
  /\ moves = 0
  /\ json = NoRecords
  /\ tmp = Absent
  /\ minted = 0
  /\ rolls = 0
  /\ proc = [p \in Proc |-> Idle]
  /\ last = NoRoster
  /\ overlapped = FALSE

-----------------------------------------------------------------------------
(* A pane opens or closes; a conversation starts in a pane, ends, or is    *)
(* resumed in another one of its host.  It runs in one pane at a time.     *)
Change(l, w) ==
  /\ moves < MaxMoves
  /\ moves' = moves + 1
  /\ w # world[l]
  /\ LET from == {m \in Label : world[m] = w /\ w \in Session}
     IN  /\ \A m \in from : HostOf[m] = HostOf[l]
         /\ world' = [m \in Label |-> IF m = l THEN w ELSE IF m \in from THEN Shell ELSE world[m]]
  /\ UNCHANGED <<json, tmp, minted, rolls, proc, past>>

(* collect.gather of the hosts that answer. *)
Gather(p) ==
  /\ proc[p].stage = "idle"
  /\ rolls < MaxRolls
  /\ rolls' = rolls + 1
  /\ overlapped' = (overlapped \/ \E q \in Proc : proc[q].stage # "idle")
  /\ \E up \in SUBSET Host :
       LET open == {l \in Label : HostOf[l] \in up /\ world[l] # Closed}
       IN  proc' = [proc EXCEPT ![p] = [Idle EXCEPT !.stage = "load", !.seen = [l \in open |-> world[l]]]]
  /\ UNCHANGED <<world, moves, json, tmp, minted, last>>

(* SlotStore.load; a file that does not parse ends the command. *)
Load(p) ==
  /\ proc[p].stage = "load"
  /\ proc' = [proc EXCEPT ![p] = IF Readable THEN [@ EXCEPT !.stage = "assign", !.mem = json] ELSE Idle]
  /\ UNCHANGED <<world, moves, json, tmp, minted, rolls, past>>

(* SlotStore.by_human_id and by_agent_session.  Either returns the first   *)
(* record that matches; here any, for the store is kept sorted by ULID,    *)
(* and those of one millisecond sort at random.                            *)
ByHuman(mem, l) == {s \in DOMAIN mem : mem[s].label = l}

BySession(mem, l, talk) ==
  {s \in DOMAIN mem : talk # Shell /\ mem[s].session = talk /\ HostOf[mem[s].label] = HostOf[l]}

(* Wrong: the conversation is looked for first. *)
SessionFirst(mem, l, talk) ==
  IF BySession(mem, l, talk) # {} THEN BySession(mem, l, talk) ELSE ByHuman(mem, l)

(* Wrong: whichever matches. *)
EitherWay(mem, l, talk) == ByHuman(mem, l) \cup BySession(mem, l, talk)

Matches(mem, l, talk) ==
  IF ByHuman(mem, l) # {} THEN ByHuman(mem, l) ELSE BySession(mem, l, talk)

(* Wrong: the number of the last one. *)
OldUlid == minted

(* new_ulid: later ones are greater. *)
NewUlid == minted + 1

(* SlotStore.assign for the occupant under l.  A record that matches is    *)
(* the slot, moved to l; a shell leaves the conversation recorded in it    *)
(* as it is.                                                               *)
Assign(p, l) ==
  /\ proc[p].stage = "assign"
  /\ l \in DOMAIN proc[p].seen \ DOMAIN proc[p].given
  /\ LET mem == proc[p].mem
         talk == proc[p].seen[l]
         match == Matches(mem, l, talk)
     IN  \E s \in IF match = {} THEN {NewUlid} ELSE match :
           /\ minted' = IF match = {} THEN NewUlid ELSE minted
           /\ LET kept == IF talk = Shell /\ match # {} THEN mem[s].session ELSE talk
                  rec == [label |-> l, session |-> kept]
              IN  proc' = [proc EXCEPT
                    ![p].mem = [x \in DOMAIN mem \cup {s} |-> IF x = s THEN rec ELSE mem[x]],
                    ![p].given = [x \in DOMAIN @ \cup {l} |-> IF x = l THEN s ELSE @[x]]]
  /\ UNCHANGED <<world, moves, json, tmp, rolls, past>>

(* SlotStore.save, once every occupant has its slot: write_text opens the  *)
(* temporary file, which empties it, and writes it; then it is renamed.    *)
Open(p) ==
  /\ proc[p].stage = "assign"
  /\ DOMAIN proc[p].given = DOMAIN proc[p].seen
  /\ tmp' = Empty
  /\ proc' = [proc EXCEPT ![p].stage = "write", ![p].fd = "tmp"]
  /\ UNCHANGED <<world, moves, json, minted, rolls, past>>

(* What a write leaves in a file: another's text, there already, may be    *)
(* longer and show behind it.                                              *)
Written(file, mem) == IF file = Empty THEN {mem} ELSE {mem, Mixed}

(* Wrong: the store is written where it is read. *)
WriteInPlace(p) ==
  /\ proc[p].stage = "write"
  /\ json' = IF json # Empty THEN Empty ELSE proc[p].mem
  /\ proc' = IF json # Empty THEN proc ELSE [proc EXCEPT ![p].stage = "rename", ![p].fd = "none"]
  /\ tmp' = IF json # Empty THEN tmp ELSE proc[p].mem
  /\ UNCHANGED <<world, moves, minted, rolls, past>>

Write(p) ==
  /\ proc[p].stage = "write"
  /\ CASE proc[p].fd = "tmp"  -> tmp' \in Written(tmp, proc[p].mem) /\ json' = json
       [] proc[p].fd = "json" -> json' \in Written(json, proc[p].mem) /\ tmp' = tmp
       [] OTHER               -> UNCHANGED <<json, tmp>>
  /\ proc' = [proc EXCEPT ![p].stage = "rename", ![p].fd = "none"]
  /\ UNCHANGED <<world, moves, minted, rolls, past>>

(* os.replace, which fails when another roll has renamed the file already. *)
(* Then the roll is finished and its roster is used.                       *)
Rename(p) ==
  /\ proc[p].stage = "rename"
  /\ IF tmp = Absent
       THEN /\ proc' = [proc EXCEPT ![p] = Idle]
            /\ UNCHANGED <<json, last>>
       ELSE /\ json' = tmp
            /\ last' = [seen |-> proc[p].seen, given |-> proc[p].given]
            /\ proc' = [q \in Proc |->
                 IF q = p THEN Idle
                 ELSE [proc[q] EXCEPT !.fd = CASE @ = "tmp" -> "json" [] @ = "json" -> "gone" [] OTHER -> @]]
  /\ tmp' = Absent
  /\ UNCHANGED <<world, moves, minted, rolls, overlapped>>

(* The command is killed. *)
Die(p) ==
  /\ proc[p].stage # "idle"
  /\ proc' = [proc EXCEPT ![p] = Idle]
  /\ UNCHANGED <<world, moves, json, tmp, minted, rolls, past>>

Roll(p) ==
  \/ Gather(p) \/ Load(p) \/ (\E l \in Label : Assign(p, l))
  \/ Open(p) \/ Write(p) \/ Rename(p) \/ Die(p)

Next ==
  \/ \E l \in Label, w \in Talk \cup {Closed} : Change(l, w)
  \/ \E p \in Proc : Roll(p)

Spec == Init /\ [][Next]_vars

-----------------------------------------------------------------------------
Partial(S, T) == UNION {[D -> T] : D \in SUBSET S}

Store(mem) == DOMAIN mem \subseteq 1..minted /\ \A s \in DOMAIN mem : mem[s] \in Record

Process(r) ==
  /\ r.stage \in {"idle", "load", "assign", "write", "rename"}
  /\ r.seen \in Partial(Label, Talk)
  /\ Store(r.mem)
  /\ r.given \in Partial(Label, 1..minted)
  /\ r.fd \in {"none", "tmp", "json", "gone"}

TypeOK ==
  /\ world \in [Label -> Talk \cup {Closed}]
  /\ moves \in 0..MaxMoves /\ rolls \in 0..MaxRolls /\ minted \in Nat
  /\ json \in {Empty, Mixed} \/ Store(json)
  /\ tmp \in {Absent, Empty, Mixed} \/ Store(tmp)
  /\ DOMAIN proc = Proc /\ \A p \in Proc : Process(proc[p])
  /\ last.seen \in Partial(Label, Talk) /\ last.given \in Partial(Label, 1..minted)
  /\ overlapped \in BOOLEAN

(* No two slots of slots.json have the same human id, so by_human_id has   *)
(* one answer, however many rolls overlap.                                 *)
OneSlotPerLabel ==
  Readable => \A s, t \in DOMAIN json : json[s].label = json[t].label => s = t

(* A kill at any moment leaves a slots.json the next command can load, as  *)
(* long as no two rolls have written into each other's temporary file.     *)
AlwaysReadable == ~overlapped => Readable

(* An agent seen by two successive rolls with the same conversation under  *)
(* the same human id has the same slot in both rosters: what the operator  *)
(* pinned on it (roster.merge) is not lost.  (Of two rolls at once each    *)
(* mints a slot of its own.)                                               *)
StillSameSlot ==
  [][ ~overlapped =>
        \A l \in DOMAIN last.seen \cap DOMAIN last'.seen :
          last.seen[l] = last'.seen[l] /\ last.seen[l] # Shell => last.given[l] = last'.given[l] ]_last

=============================================================================
