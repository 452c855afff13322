---------------------------- MODULE CollectProofs ----------------------------
(***************************************************************************)
(* Of every host, with any number of panes, directories, changes and       *)
(* failures: what a roll says of a pane was so, and every pane is in it    *)
(* once.  The inductive invariant IInv ties each answer to what ran in the *)
(* pane since it was listed, and the order of the commands to which of     *)
(* them have been answered; the rest is what classify and build_roster     *)
(* make of the answers.                                                    *)
(***************************************************************************)
EXTENDS Collect, FiniteSetTheorems, WellFoundedInduction, TLAPS

LEMMA LeastIs ==
  ASSUME NEW S \in SUBSET Nat, S # {}
  PROVE  Least(S) \in S /\ \A q \in S : Least(S) <= q
<1>1. IsWellFoundedOn({r \in Nat \X Nat : r[1] < r[2]}, Nat)
  BY NatLessThanWellFounded, Zenon DEF OpToRel
<1>2. \E x \in S : \A y \in S : ~(<<y, x>> \in {r \in Nat \X Nat : r[1] < r[2]})
  BY <1>1, WFMin, Zenon
<1>3. PICK x \in S : \A y \in S : ~(<<y, x>> \in {r \in Nat \X Nat : r[1] < r[2]})
  BY <1>2
<1>4. \A y \in S : x <= y
  <2> SUFFICES ASSUME NEW y \in S, ~(x <= y) PROVE FALSE
    OBVIOUS
  <2>1. <<y, x>> \in Nat \X Nat /\ <<y, x>>[1] < <<y, x>>[2]
    OBVIOUS
  <2>2. <<y, x>> \in {r \in Nat \X Nat : r[1] < r[2]}
    BY <2>1, Zenon
  <2> QED  BY <1>3, <2>2
<1> QED  BY <1>3, <1>4, Zenon DEF Least

-----------------------------------------------------------------------------
(* Lemmas about classify *)

(* The agent's row, where there is one. *)
LEMMA AgentArgvIs ==
  ASSUME NEW kind, NEW rows, DOMAIN rows \in SUBSET Nat,
         \E n \in DOMAIN rows : AgentOf(rows[n]) = kind
  PROVE  AgentOf(AgentArgv(kind, rows)) = kind
<1> DEFINE own == {n \in DOMAIN rows : AgentOf(rows[n]) = kind}
<1>1. own \in SUBSET Nat /\ own # {}
  OBVIOUS
<1>2. Least(own) \in own
  BY <1>1, LeastIs
<1>3. AgentArgv(kind, rows) = rows[Least(own)]
  BY <1>1 DEF AgentArgv
<1> QED  BY <1>2, <1>3

LEMMA LeastOfOne == ASSUME NEW n \in Nat PROVE Least({n}) = n
  BY LeastIs

LEMMA LeastOfTwo == Least(1..2) = 1
<1>1. Least(1..2) \in 1..2 /\ \A q \in 1..2 : Least(1..2) <= q
  BY LeastIs
<1> QED  BY <1>1

(* What there is to know of the rows of a program. *)
RowsAre(rows, o) ==
  /\ DOMAIN rows \in SUBSET Nat
  /\ (\E n \in DOMAIN rows : rows[n].exe = "herdr") <=> o.prog = "bridge"
  /\ \A n \in DOMAIN rows : AgentOf(rows[n]) \in {"", KindOf(o)}
  /\ o.prog \in Agents => \E n \in DOMAIN rows : AgentOf(rows[n]) = KindOf(o)
  /\ o.prog \in {"watcher", "respawned"} => FirstRow(rows).exe = "watchexec"
  /\ o.prog \in {"shell", "server"} => FirstRow(rows).exe # "watchexec"

(* One process is kept, unless it is the shell of the pane on a            *)
(* multiplexer that lists it.                                              *)
LEMMA ParsedOne ==
  ASSUME NEW row, ~(row.own /\ row.exe = "zsh") \/ host.mux = "herdr"
  PROVE  /\ DOMAIN Parsed(<<row>>) = {1} /\ Parsed(<<row>>)[1] = row
         /\ FirstRow(Parsed(<<row>>)) = row
<1>1. DOMAIN <<row>> = {1} /\ <<row>>[1] = row
  OBVIOUS
<1>2. DOMAIN Parsed(<<row>>) = {1} /\ Parsed(<<row>>)[1] = row
  BY <1>1 DEF Parsed, Restrict
<1> QED  BY <1>2, LeastOfOne DEF FirstRow

LEMMA ParsedShell ==
  ASSUME NEW row, row.own, row.exe = "zsh", host.mux # "herdr"
  PROVE  DOMAIN Parsed(<<row>>) = {} /\ FirstRow(Parsed(<<row>>)) = Row(TRUE, "", "")
<1>1. DOMAIN <<row>> = {1} /\ <<row>>[1] = row
  OBVIOUS
<1>2. DOMAIN Parsed(<<row>>) = {}
  BY <1>1 DEF Parsed, Restrict
<1> QED  BY <1>2 DEF FirstRow

(* Two that are not the pane's own are both kept. *)
LEMMA ParsedTwo ==
  ASSUME NEW rows, NEW one, NEW other, DOMAIN rows = {1, 2}, rows[1] = one, rows[2] = other,
         ~(one.own \/ other.own)
  PROVE  DOMAIN Parsed(rows) = {1, 2} /\ Parsed(rows)[1] = one /\ Parsed(rows)[2] = other
<1>1. {n \in {1, 2} : ~rows[n].own} = {1, 2}
  OBVIOUS
<1> QED  BY <1>1 DEF Parsed, Restrict

LEMMA TwoRows ==
  ASSUME NEW one, NEW other
  PROVE  DOMAIN <<one, other>> = {1, 2} /\ <<one, other>>[1] = one /\ <<one, other>>[2] = other
  OBVIOUS

(* The agent a row is. *)
LEMMA AgentRows ==
  /\ AgentOf(Row(FALSE, "claude", "")) = "claude" /\ AgentOf(Row(FALSE, "node", "codex")) = "codex"
  /\ AgentOf(Row(FALSE, "caffeinate", "")) = "" /\ AgentOf(Row(FALSE, "node", "server.js")) = ""
  /\ AgentOf(Row(FALSE, "watchexec", "make")) = "" /\ AgentOf(Row(TRUE, "watchexec", "make")) = ""
  /\ AgentOf(Row(FALSE, "herdr", "")) = "" /\ AgentOf(Row(TRUE, "zsh", "")) = ""
  BY DEF AgentOf, AgentExe, Row

LEMMA Kinds ==
  ASSUME NEW o
  PROVE  /\ o.prog \in {"claude", "helped"} => KindOf(o) = "claude"
         /\ o.prog = "codex" => KindOf(o) = "codex"
         /\ o.prog \notin Agents => KindOf(o) = ""
  BY DEF KindOf, IsAgent, Agents

(* Rows of one process that is kept. *)
LEMMA OneRowIs ==
  ASSUME NEW rows, NEW row, NEW o,
         DOMAIN rows = {1}, rows[1] = row, FirstRow(rows) = row,
         row.exe = "herdr" <=> o.prog = "bridge",
         AgentOf(row) = KindOf(o),
         o.prog \in {"watcher", "respawned"} => row.exe = "watchexec",
         o.prog \in {"shell", "server"} => row.exe # "watchexec"
  PROVE  RowsAre(rows, o)
<1>1. DOMAIN rows \in SUBSET Nat
  OBVIOUS
<1>2. (\E n \in DOMAIN rows : rows[n].exe = "herdr") <=> o.prog = "bridge"
  OBVIOUS
<1>3. \A n \in DOMAIN rows : AgentOf(rows[n]) \in {"", KindOf(o)}
  OBVIOUS
<1>4. o.prog \in Agents => \E n \in DOMAIN rows : AgentOf(rows[n]) = KindOf(o)
  OBVIOUS
<1>5. o.prog \in {"watcher", "respawned"} => FirstRow(rows).exe = "watchexec"
  OBVIOUS
<1>6. o.prog \in {"shell", "server"} => FirstRow(rows).exe # "watchexec"
  OBVIOUS
<1> QED  BY <1>1, <1>2, <1>3, <1>4, <1>5, <1>6, Zenon DEF RowsAre

(* No rows: a shell at its prompt. *)
LEMMA NoRowIs ==
  ASSUME NEW rows, NEW o, DOMAIN rows = {}, FirstRow(rows).exe = "", o.prog = "shell", o.prog \notin Agents
  PROVE  RowsAre(rows, o)
  BY DEF RowsAre

LEMMA OneAndTwo == {1, 2} \in SUBSET Nat
  OBVIOUS

(* An agent behind a helper. *)
LEMMA TwoRowsAre ==
  ASSUME NEW rows, NEW one, NEW other, NEW o,
         DOMAIN rows = {1, 2}, rows[1] = one, rows[2] = other, o.prog = "helped",
         one.exe # "herdr", other.exe # "herdr", AgentOf(one) = "", AgentOf(other) = KindOf(o)
  PROVE  RowsAre(rows, o)
<1>1. (\E n \in DOMAIN rows : rows[n].exe = "herdr") <=> o.prog = "bridge"
  OBVIOUS
<1>2. \A n \in DOMAIN rows : AgentOf(rows[n]) \in {"", KindOf(o)}
  OBVIOUS
<1>3. \E n \in DOMAIN rows : AgentOf(rows[n]) = KindOf(o)
  OBVIOUS
<1> QED  BY <1>1, <1>2, <1>3, OneAndTwo, Zenon DEF RowsAre

(* Of every program the rows that are kept say what it is. *)
LEMMA ForegroundIs ==
  ASSUME NEW o, o.prog \in Programs
  PROVE  RowsAre(Parsed(Foreground(o.prog)), o)
<1> DEFINE rows == Parsed(Foreground(o.prog))
<1>1. ASSUME NEW one, NEW other, Foreground(o.prog) = <<one, other>>, ~(one.own \/ other.own),
             o.prog = "helped", one.exe # "herdr", other.exe # "herdr",
             AgentOf(one) = "", AgentOf(other) = KindOf(o)
      PROVE  RowsAre(rows, o)
  <2> DEFINE all == Foreground(o.prog)
  <2>1. all = <<one, other>> /\ ~(one.own \/ other.own)
    BY <1>1
  <2> HIDE DEF all
  <2>2. DOMAIN all = {1, 2} /\ all[1] = one /\ all[2] = other
    BY <2>1, TwoRows, Zenon
  <2>3. DOMAIN Parsed(all) = {1, 2} /\ Parsed(all)[1] = one /\ Parsed(all)[2] = other
    BY <2>1, <2>2, ParsedTwo, Zenon
  <2>4. RowsAre(Parsed(all), o)
    BY <1>1, <2>3, TwoRowsAre, Zenon
  <2> QED  BY <2>4, Zenon DEF all
<1>2. ASSUME NEW row, Foreground(o.prog) = <<row>>, row.own, row.exe = "zsh", o.prog = "shell",
             AgentOf(row) = KindOf(o), o.prog \notin Agents
      PROVE  RowsAre(rows, o)
  <2>1. CASE host.mux = "herdr"
    <3>1. DOMAIN rows = {1} /\ rows[1] = row /\ FirstRow(rows) = row
      BY <1>2, <2>1, ParsedOne
    <3> HIDE DEF rows
    <3> QED  BY <1>2, <3>1, OneRowIs
  <2>2. CASE host.mux # "herdr"
    <3>1. DOMAIN rows = {} /\ FirstRow(rows) = Row(TRUE, "", "")
      BY <1>2, <2>2, ParsedShell
    <3>2. Row(TRUE, "", "").exe = ""
      BY DEF Row
    <3> HIDE DEF rows
    <3> QED  BY <1>2, <3>1, <3>2, NoRowIs
  <2> QED  BY <2>1, <2>2
<1>3. ASSUME NEW row, Foreground(o.prog) = <<row>>, ~(row.own /\ row.exe = "zsh"),
             row.exe = "herdr" <=> o.prog = "bridge",
             AgentOf(row) = KindOf(o),
             o.prog \in {"watcher", "respawned"} => row.exe = "watchexec",
             o.prog \in {"shell", "server"} => row.exe # "watchexec"
      PROVE  RowsAre(rows, o)
  <2>1. DOMAIN rows = {1} /\ rows[1] = row /\ FirstRow(rows) = row
    BY <1>3, ParsedOne
  <2> HIDE DEF rows
  <2> QED  BY <1>3, <2>1, OneRowIs
<1>4. CASE o.prog = "claude"
  BY <1>3, <1>4, AgentRows, Kinds DEF Foreground, Row
<1>5. CASE o.prog = "helped"
  <2>1. Foreground(o.prog) = <<Row(FALSE, "caffeinate", ""), Row(FALSE, "claude", "")>>
    BY <1>5, Zenon DEF Foreground
  <2>2. /\ ~Row(FALSE, "caffeinate", "").own /\ ~Row(FALSE, "claude", "").own
        /\ Row(FALSE, "caffeinate", "").exe # "herdr" /\ Row(FALSE, "claude", "").exe # "herdr"
    BY DEF Row
  <2>3. AgentOf(Row(FALSE, "caffeinate", "")) = "" /\ AgentOf(Row(FALSE, "claude", "")) = KindOf(o)
    BY <1>5, AgentRows, Kinds, Zenon
  <2> QED  BY <1>1, <1>5, <2>1, <2>2, <2>3, Zenon
<1>6. CASE o.prog = "codex"
  BY <1>3, <1>6, AgentRows, Kinds DEF Foreground, Row
<1>7. CASE o.prog = "shell"
  <2>1. Foreground(o.prog) = <<Row(TRUE, "zsh", "")>>
    BY <1>7, Zenon DEF Foreground
  <2>2. Row(TRUE, "zsh", "").own /\ Row(TRUE, "zsh", "").exe = "zsh"
    BY DEF Row
  <2>3. AgentOf(Row(TRUE, "zsh", "")) = KindOf(o) /\ o.prog \notin Agents
    BY <1>7, AgentRows, Kinds DEF Agents
  <2> QED  BY <1>2, <1>7, <2>1, <2>2, <2>3, Zenon
<1>8. CASE o.prog = "server"
  BY <1>3, <1>8, AgentRows, Kinds DEF Foreground, Row, Agents
<1>9. CASE o.prog = "watcher"
  BY <1>3, <1>9, AgentRows, Kinds DEF Foreground, Row, Agents
<1>10. CASE o.prog = "respawned"
  BY <1>3, <1>10, AgentRows, Kinds DEF Foreground, Row, Agents
<1>11. CASE o.prog = "bridge"
  BY <1>3, <1>11, AgentRows, Kinds DEF Foreground, Row, Agents
<1>12. o.prog \in {"claude", "helped", "codex", "shell", "server", "watcher", "respawned", "bridge"}
  BY DEF Programs, Agents
<1> QED  BY <1>4, <1>5, <1>6, <1>7, <1>8, <1>9, <1>10, <1>11, <1>12

LEMMA Roles ==
  ASSUME NEW o, o.prog \in Programs
  PROVE  /\ IsAgent(o) <=> KindOf(o) # ""
         /\ IsAgent(o) => RoleOf(o) = "agent" /\ o.prog # "bridge"
         /\ o.prog = "bridge" => RoleOf(o) = "bridge"
         /\ ~IsAgent(o) => KindOf(o) = ""
         /\ o.prog \in {"watcher", "respawned"} => RoleOf(o) = "watcher"
         /\ o.prog \in {"shell", "server"} => RoleOf(o) = "shell"
         /\ IsAgent(o) \/ o.prog \in {"bridge", "watcher", "respawned", "shell", "server"}
  BY DEF IsAgent, KindOf, RoleOf, Programs, Agents

(* What classify makes of a pane in which o ran when its processes were    *)
(* listed, and of which the multiplexer said detected.                     *)
ClassIs(cls, detected, o) ==
  /\ o.prog = "bridge" => cls.role = "bridge" /\ cls.kind = ""
  /\ o.prog # "bridge" /\ detected # "" => cls.role = "agent" /\ cls.kind = detected
  /\ detected = "" => cls.role = RoleOf(o) /\ cls.kind = KindOf(o)
  /\ IsAgent(o) /\ detected \in {"", KindOf(o)} =>
       cls.role = "agent" /\ cls.kind = KindOf(o) /\ AgentOf(cls.argv) = KindOf(o)

(* Where a program's rows were listed and the multiplexer says nothing of  *)
(* an agent, classify finds what a reader of the pane would; and where it  *)
(* names the kind, the arguments are those of the agent's own row.         *)
LEMMA ClassifyIs ==
  ASSUME NEW o, o.prog \in Programs, NEW rows, RowsAre(rows, o),
         NEW detected \in {"", "claude", "codex"}
  PROVE  ClassIs(Classify(detected, rows), detected, o)
<1> DEFINE agents == {n \in DOMAIN rows : AgentOf(rows[n]) # ""}
           agent == rows[Least(agents)]
<1>1. /\ DOMAIN rows \in SUBSET Nat
      /\ (\E n \in DOMAIN rows : rows[n].exe = "herdr") <=> o.prog = "bridge"
      /\ \A n \in DOMAIN rows : AgentOf(rows[n]) \in {"", KindOf(o)}
      /\ o.prog \in Agents => \E n \in DOMAIN rows : AgentOf(rows[n]) = KindOf(o)
      /\ o.prog \in {"watcher", "respawned"} => FirstRow(rows).exe = "watchexec"
      /\ o.prog \in {"shell", "server"} => FirstRow(rows).exe # "watchexec"
  BY Zenon DEF RowsAre
<1>2. IsAgent(o) <=> KindOf(o) # ""
  BY Roles
<1>3. agents # {} => AgentOf(agent) = KindOf(o) /\ KindOf(o) # ""
  <2>1. SUFFICES ASSUME agents # {} PROVE AgentOf(agent) = KindOf(o) /\ KindOf(o) # ""
    OBVIOUS
  <2>2. Least(agents) \in agents
    BY <1>1, <2>1, LeastIs
  <2> QED  BY <1>1, <2>2
<1>4. agents = {} => ~IsAgent(o)
  BY <1>1, <1>2 DEF IsAgent
<1>5. SUFFICES ASSUME NEW cls, cls = Classify(detected, rows)
               PROVE  ClassIs(cls, detected, o)
  OBVIOUS
<1>6. CASE o.prog = "bridge"
  <2>1. cls = As("bridge", "", Row(FALSE, "herdr", ""))
    BY <1>1, <1>6, <1>5, Zenon DEF Classify
  <2>2. cls.role = "bridge" /\ cls.kind = ""
    BY <2>1, Zenon DEF As
  <2> HIDE DEF agents, agent
  <2> QED  BY <1>6, <2>2, Roles DEF ClassIs
<1>7. CASE o.prog # "bridge" /\ detected # ""
  <2>1. cls = As("agent", detected, AgentArgv(detected, rows))
    BY <1>1, <1>7, <1>5, Zenon DEF Classify
  <2>2. cls.role = "agent" /\ cls.kind = detected /\ cls.argv = AgentArgv(detected, rows)
    BY <2>1, Zenon DEF As
  <2>3. IsAgent(o) => AgentOf(AgentArgv(KindOf(o), rows)) = KindOf(o)
    BY <1>1, AgentArgvIs, Zenon DEF IsAgent
  <2> HIDE DEF agents, agent
  <2> QED  BY <1>7, <2>2, <2>3 DEF ClassIs
<1>8. CASE o.prog # "bridge" /\ detected = "" /\ agents # {}
  <2>1. cls = As("agent", AgentOf(agent), agent)
    BY <1>1, <1>8, <1>5, Zenon DEF Classify
  <2>2. cls.role = "agent" /\ cls.kind = AgentOf(agent) /\ cls.argv = agent
    BY <2>1, Zenon DEF As
  <2>3. cls.role = "agent" /\ cls.kind = KindOf(o) /\ AgentOf(cls.argv) = KindOf(o) /\ RoleOf(o) = "agent"
    BY <1>3, <1>8, <2>2, Roles, Zenon
  <2> HIDE DEF agents, agent
  <2> QED  BY <1>8, <2>3 DEF ClassIs
<1>9. CASE o.prog # "bridge" /\ detected = "" /\ agents = {}
  <2> DEFINE role == IF FirstRow(rows).exe = "watchexec" THEN "watcher" ELSE "shell"
  <2>1. cls = As(role, "", FirstRow(rows))
    BY <1>1, <1>9, <1>5, Zenon DEF Classify
  <2>2. cls.role = role /\ cls.kind = ""
    BY <2>1, Zenon DEF As
  <2>3. RoleOf(o) = role /\ KindOf(o) = ""
    BY <1>1, <1>4, <1>9, Roles
  <2> HIDE DEF role
  <2> HIDE DEF agents, agent
  <2> QED  BY <1>4, <1>9, <2>2, <2>3 DEF ClassIs
<1>10. o.prog = "bridge" \/ (o.prog # "bridge" /\ detected # "") \/ (o.prog # "bridge" /\ detected = "" /\ agents # {})
      \/ (o.prog # "bridge" /\ detected = "" /\ agents = {})
  OBVIOUS
<1> QED  BY <1>6, <1>7, <1>8, <1>9, <1>10, Zenon

-----------------------------------------------------------------------------
(* The inductive invariant *)

Stages == {"list", "info", "screen", "binding", "build", "built"}

Occupants == {o \in Occupant : IsAgent(o) \/ o.doing = "idle"}

RowsSeen == {<<>>} \cup {Parsed(Foreground(prog)) : prog \in Programs}

Histories == {seen \in SUBSET Occupants : IsFiniteSet(seen)}

Statuses == {"", "idle", "working", "blocked", "unknown", "done"}

Answers ==
  [listed : BOOLEAN, agent : {"", "claude", "codex"}, status : Statuses,
   talk : Int, quiet : BOOLEAN, rows : RowsSeen, cwd : Cwd \cup {""}, screen : {"", "dialog", "text"},
   binding : Hook]

Typed ==
  /\ host \in Hosts
  /\ world \in [Pane -> Occupants]
  /\ at \in Stages \X Nat \X Nat
  /\ facts \in [Pane -> Answers]
  /\ done \in SUBSET Nat /\ up \in BOOLEAN
  /\ truth \in [Pane -> Histories]
  /\ missed \in [Pane \cup {0} -> SUBSET Stages]

SessionOf(p) == host.layout[p].session

(* The roll asks about a pane. *)
Asking == at[1] \in {"info", "screen", "binding"}

(* Which command comes next; sessions are gathered in turn. *)
Control ==
  /\ at[1] = "list" => at[2] \in 1..host.sessions /\ at[3] = 0
  /\ Asking => at[3] \in Pane /\ SessionOf(at[3]) = at[2]
  /\ at[1] = "screen" => host.mux # "herdr"
  /\ at[1] = "binding" => host.mux = "cmux"
  /\ Running => \A s \in done : s < at[2]

(* The session of the pane has been listed. *)
InRoll(p) == SessionOf(p) \in done \/ (Asking /\ at[2] = SessionOf(p))

(* The command about the pane has been given. *)
Asked(p, what) ==
  \/ SessionOf(p) \in done
  \/ /\ Asking /\ at[2] = SessionOf(p)
     /\ \/ p < at[3]
        \/ p = at[3] /\ what = "info" /\ at[1] # "info"
        \/ p = at[3] /\ what = "screen" /\ at[1] = "binding"

(* The listing said of the pane what the multiplexer may where o runs. *)
Listing(f, o) == \E e \in Entries(o) : f.agent = e.agent /\ f.status = e.status /\ f.talk = e.talk

(* The screen of o may look like one without a dialog. *)
Unmarked(o) == o.doing # "dialog" \/ (host.mux = "cmux" /\ ~Known(o))

(* Each of the answers f is true of something in seen. *)
Heard(f, seen) ==
  /\ \E o \in seen : Listing(f, o)
  /\ \E o \in seen : f.cwd = o.cwd
  /\ f.screen = "text" => \E o \in seen : Unmarked(o)
  /\ f.binding # NoHook => host.mux = "cmux" /\ \E o \in seen : f.binding = o.hook

Ran(rows, seen) == \E o \in seen : rows = Parsed(Foreground(o.prog))

(* Every answer is about something that ran in the pane since. *)
Answered(p) ==
  /\ InRoll(p) => facts[p].listed
  /\ facts[p].listed =>
       /\ world[p] \in truth[p] /\ Heard(facts[p], truth[p])
       /\ Asked(p, "info") /\ "info" \notin missed[p] => Ran(facts[p].rows, truth[p])
       /\ Asked(p, "screen") /\ "screen" \notin missed[p] /\ host.mux # "herdr" => facts[p].screen # ""

AllAnswered == \A p \in Pane : Answered(p)

(* Every session before the one under way is gathered. *)
AllBefore ==
  \A s \in 1..host.sessions : (Running => s < at[2]) => s \in done

(* Unless the host broke off or a session could not be listed. *)
Gathered == up /\ missed[0] = {} => AllBefore

(* The roster is made of the answers. *)
Written == roster = IF at[1] = "built" THEN [p \in Kept |-> Record(p)] ELSE NoRoster

IInv == Typed /\ Control /\ AllAnswered /\ Gathered /\ Written

-----------------------------------------------------------------------------
(* The order of the commands *)

LEMMA LeastPane ==
  ASSUME NEW S \in SUBSET Pane, S # {}
  PROVE  Least(S) \in S /\ \A q \in S : Least(S) <= q
<1>1. S \in SUBSET Nat
  BY CollectBounds DEF Pane
<1> QED  BY <1>1, LeastIs

(* What is said of a host is said of the same host later. *)
LEMMA SameHost ==
  ASSUME host' = host
  PROVE  /\ \A o : Entries(o)' = Entries(o) /\ (Known(o)' <=> Known(o)) /\ (Unmarked(o)' <=> Unmarked(o))
         /\ Native' = Native
         /\ \A rows : Parsed(rows)' = Parsed(rows)
         /\ \A p : SessionOf(p)' = SessionOf(p)
         /\ Answers' = Answers
<1>1. /\ Native' = Native
      /\ \A o : Entries(o)' = Entries(o) /\ (Known(o)' <=> Known(o)) /\ (Unmarked(o)' <=> Unmarked(o))
  <2>1. Native' = Native
    BY DEF Native
  <2>2. \A o : Known(o)' <=> Known(o)
    BY <2>1 DEF Known, Own, IsAgent, KindOf
  <2>3. \A o : Unmarked(o)' <=> Unmarked(o)
    BY <2>2 DEF Unmarked
  <2>4. \A o : Says(o)' = Says(o)
    BY DEF Says
  <2>5. \A o : Entries(o)' = Entries(o)
    BY <2>2, <2>4, Zenon DEF Entries, IsAgent, KindOf, NoHook, Nothing, Entry
  <2> QED  BY <2>1, <2>2, <2>3, <2>5
<1>2. \A rows : Parsed(rows)' = Parsed(rows)
  BY DEF Parsed
<1>3. \A p : SessionOf(p)' = SessionOf(p)
  BY DEF SessionOf
<1>4. Answers' = Answers
  <2>1. RowsSeen' = RowsSeen
    BY DEF RowsSeen, Parsed
  <2> HIDE DEF RowsSeen
  <2> QED  BY <2>1 DEF Answers
<1> QED  BY <1>1, <1>2, <1>3, <1>4

LEMMA HostIs ==
  ASSUME Typed
  PROVE  /\ host.mux \in {"herdr", "tmux", "cmux"} /\ host.sessions \in Nat \ {0}
         /\ \A p \in Pane : host.layout[p].session \in 1..host.sessions
         /\ \A p \in Pane : SessionOf(p) \in 1..host.sessions
<1>1. host \in Hosts
  BY DEF Typed
<1>2. host.layout \in [Pane -> Places(host.sessions)] /\ host.mux \in {"herdr", "tmux", "cmux"}
      /\ host.sessions \in Nat \ {0}
  BY <1>1, HostsAreHosts
<1> QED  BY <1>2 DEF Places, SessionOf

(* The roll has done with the command at[1] about at[3]. *)
Moved ==
  /\ at' \in Stages \X Nat \X Nat /\ done' \in SUBSET Nat
  /\ Control'
  /\ at'[1] # "built"
  /\ \A q \in Pane : InRoll(q)' => InRoll(q)
  /\ \A q \in Pane : \A what \in {"info", "screen"} : Asked(q, what)' =>
       \/ Asked(q, what)
       \/ q = at[3] /\ what = at[1]
       \/ host.mux = "herdr" /\ what = "screen"
  /\ AllBefore => AllBefore'

(* The next session, or the end. *)
LEMMA EndIs ==
  ASSUME Typed, Control, host' = host, NEW s \in 1..host.sessions, at' = EndOf(s),
         \A t \in done : t <= s, \A t \in done' : t <= s, done' \in SUBSET Nat
  PROVE  /\ at' \in Stages \X Nat \X Nat /\ Control' /\ at'[1] \in {"list", "build"} /\ ~Asking'
         /\ \A t : Running' /\ t < s + 1 => t < at'[2]
         /\ Running' => at'[2] = s + 1
         /\ ~Running' => s = host.sessions
<1>1. host.sessions \in Nat
  BY HostIs
<1>2. CASE s < host.sessions
  <2>1. at' = <<"list", s + 1, 0>>
    BY <1>2 DEF EndOf
  <2>2. at'[1] = "list" /\ at'[2] = s + 1 /\ at'[3] = 0 /\ at' \in Stages \X Nat \X Nat
    BY <1>1, <2>1 DEF Stages
  <2>3. Control'
    BY <1>1, <1>2, <2>2 DEF Control, Asking, Running
  <2> QED  BY <1>1, <1>2, <2>2, <2>3 DEF Asking, Running
<1>3. CASE ~(s < host.sessions)
  <2>1. at' = <<"build", 0, 0>>
    BY <1>3 DEF EndOf
  <2>2. at'[1] = "build" /\ at' \in Stages \X Nat \X Nat
    BY <1>1, <2>1 DEF Stages
  <2>3. Control'
    BY <2>2 DEF Control, Asking, Running
  <2> QED  BY <1>1, <1>3, <2>2, <2>3 DEF Asking, Running
<1> QED  BY <1>2, <1>3

LEMMA OnwardMoves ==
  ASSUME Typed, Control, Asking, host' = host, Onward(at[2], at[3]),
         at[1] = "info" => host.mux = "herdr", at[1] = "screen" => host.mux = "tmux"
  PROVE  Moved
<1> DEFINE s == at[2]
           p == at[3]
<1>1. /\ p \in Pane /\ p # 0 /\ p \in Nat /\ s = SessionOf(p) /\ s \in 1..host.sessions /\ Running
      /\ \A t \in done : t < s
  BY HostIs, CollectBounds DEF Control, Asking, Running, Pane
<1>2. done \in SUBSET Nat /\ at \in Stages \X Nat \X Nat /\ host.sessions \in Nat /\ Pane \in SUBSET Nat
  BY HostIs, CollectBounds DEF Typed, Pane
<1>3. After(p) \in SUBSET Pane /\ \A q \in Pane : q \in After(p) <=> q > p /\ SessionOf(q) = s
  BY <1>1 DEF After, SessionOf
<1>4. \A q : SessionOf(q)' = SessionOf(q)
  BY SameHost
<1>5. \A q \in Pane : q = p /\ Asking => \A what \in {"info", "screen"} :
        Asked(q, what) \/ what = at[1] \/ (host.mux = "herdr" /\ what = "screen")
  BY <1>1 DEF Asked, Asking
<1>6. CASE After(p) # {}
  <2> DEFINE n == Least(After(p))
  <2>1. at' = <<"info", s, n>> /\ done' = done
    BY <1>1, <1>6 DEF Onward
  <2>2. n \in After(p) /\ \A q \in After(p) : n <= q
    BY <1>3, <1>6, LeastPane
  <2>3. n \in Pane /\ n > p /\ SessionOf(n) = s /\ n \in Nat
    BY <1>2, <1>3, <2>2
  <2> HIDE DEF n
  <2>4. at'[1] = "info" /\ at'[2] = s /\ at'[3] = n /\ at' \in Stages \X Nat \X Nat
    BY <1>1, <1>2, <2>1, <2>3 DEF Stages
  <2>5. Control'
    BY <1>1, <1>4, <2>1, <2>3, <2>4 DEF Control, Asking, Running
  <2>6. \A q \in Pane : InRoll(q)' => InRoll(q)
    BY <1>1, <1>4, <2>1, <2>4 DEF InRoll, Asking
  <2>7. ASSUME NEW q \in Pane, NEW what \in {"info", "screen"}, Asked(q, what)'
        PROVE  Asked(q, what) \/ (q = at[3] /\ what = at[1]) \/ (host.mux = "herdr" /\ what = "screen")
    <3>1. CASE SessionOf(q) \in done
      BY <3>1 DEF Asked
    <3>2. CASE SessionOf(q) \notin done
      <4>1. s = SessionOf(q) /\ q < n
        BY <1>4, <2>1, <2>4, <2>7, <3>2 DEF Asked
      <4>2. q <= p
        BY <1>1, <1>2, <1>3, <2>2, <2>3, <4>1
      <4>3. CASE q = p
        BY <1>5, <4>3
      <4>4. CASE q < p
        BY <4>1, <4>4 DEF Asked
      <4> QED  BY <1>1, <1>2, <4>2, <4>3, <4>4
    <3> QED  BY <3>1, <3>2
  <2>8. AllBefore => AllBefore'
    BY <1>1, <2>1, <2>4 DEF AllBefore, Running
  <2> QED  BY <2>1, <2>4, <2>5, <2>6, <2>7, <2>8, <1>2 DEF Moved
<1>7. CASE After(p) = {}
  <2>1. at' = EndOf(s) /\ done' = done \cup {s}
    BY <1>1, <1>7 DEF Onward
  <2>2. done' \in SUBSET Nat /\ (\A t \in done : t <= s) /\ (\A t \in done' : t <= s)
    <3>1. s \in Nat /\ \A t \in done : t \in Nat /\ t < s
      BY <1>1, <1>2
    <3> HIDE DEF s
    <3>2. \A t \in done' : t \in Nat /\ t <= s
      BY <2>1, <3>1
    <3> QED  BY <3>1, <3>2
  <2>3. /\ at' \in Stages \X Nat \X Nat /\ Control' /\ at'[1] \in {"list", "build"} /\ ~Asking'
        /\ Running' => at'[2] = s + 1
        /\ ~Running' => s = host.sessions
    BY <1>1, <2>1, <2>2, EndIs
  <2>4. \A q \in Pane : InRoll(q)' => InRoll(q)
    BY <1>1, <1>4, <2>1, <2>3 DEF InRoll
  <2>5. ASSUME NEW q \in Pane, NEW what \in {"info", "screen"}, Asked(q, what)'
        PROVE  Asked(q, what) \/ (q = at[3] /\ what = at[1]) \/ (host.mux = "herdr" /\ what = "screen")
    <3>1. SessionOf(q) \in done \/ SessionOf(q) = s
      BY <1>4, <2>1, <2>3, <2>5 DEF Asked
    <3>2. CASE SessionOf(q) \in done
      BY <3>2 DEF Asked
    <3>3. CASE SessionOf(q) = s /\ q < p
      BY <3>3 DEF Asked
    <3>4. CASE SessionOf(q) = s /\ ~(q < p)
      <4>1. q = p
        BY <1>1, <1>2, <1>3, <1>7, <3>4
      <4> QED  BY <1>5, <4>1
    <3> QED  BY <3>1, <3>2, <3>3, <3>4
  <2>6. AllBefore => AllBefore'
    <3>1. SUFFICES ASSUME AllBefore, NEW t \in 1..host.sessions, Running' => t < at'[2] PROVE t \in done'
      BY DEF AllBefore
    <3>2. t <= s
      BY <1>1, <1>2, <2>3, <3>1
    <3>3. t < s => t \in done
      BY <1>1, <3>1 DEF AllBefore
    <3> QED  BY <1>1, <1>2, <2>1, <3>2, <3>3
  <2> QED  BY <2>1, <2>3, <2>2, <2>4, <2>5, <2>6 DEF Moved
<1> QED  BY <1>6, <1>7

(* The next command about the same pane. *)
LEMMA SamePaneMoves ==
  ASSUME Typed, Control, Asking, host' = host, done' = done,
         \/ at[1] = "info" /\ at' = <<"screen", at[2], at[3]>> /\ host.mux # "herdr"
         \/ at[1] = "screen" /\ at' = <<"binding", at[2], at[3]>> /\ host.mux = "cmux"
  PROVE  Moved
<1>1. /\ at[3] \in Pane /\ at[2] = SessionOf(at[3]) /\ Running /\ \A t \in done : t < at[2]
      /\ at \in Stages \X Nat \X Nat /\ done \in SUBSET Nat
  BY DEF Control, Asking, Running, Typed
<1>2. /\ at'[1] \in {"screen", "binding"} /\ at'[2] = at[2] /\ at'[3] = at[3]
      /\ at' \in Stages \X Nat \X Nat
      /\ (at'[1] = "screen" => at[1] = "info" /\ host.mux # "herdr")
      /\ (at'[1] = "binding" => at[1] = "screen" /\ host.mux = "cmux")
  BY <1>1 DEF Stages
<1>3. \A q : SessionOf(q)' = SessionOf(q)
  BY SameHost
<1>4. Control'
  BY <1>1, <1>2, <1>3 DEF Control, Asking, Running
<1>5. \A q \in Pane : InRoll(q)' => InRoll(q)
  BY <1>1, <1>2, <1>3 DEF InRoll, Asking
<1>6. ASSUME NEW q \in Pane, NEW what \in {"info", "screen"}, Asked(q, what)'
      PROVE  Asked(q, what) \/ (q = at[3] /\ what = at[1]) \/ (host.mux = "herdr" /\ what = "screen")
  BY <1>1, <1>2, <1>3, <1>6 DEF Asked, Asking
<1>7. AllBefore => AllBefore'
  BY <1>1, <1>2 DEF AllBefore, Running
<1> QED  BY <1>1, <1>2, <1>4, <1>5, <1>6, <1>7 DEF Moved

LEMMA AfterInfoMoves ==
  ASSUME Typed, Control, at[1] = "info", host' = host, AfterInfo(at[2], at[3])
  PROVE  Moved
<1>1. Asking
  BY DEF Asking
<1>2. CASE host.mux = "herdr"
  BY <1>1, <1>2, OnwardMoves DEF AfterInfo
<1>3. CASE host.mux # "herdr"
  BY <1>1, <1>3, SamePaneMoves DEF AfterInfo
<1> QED  BY <1>2, <1>3

LEMMA AfterScreenMoves ==
  ASSUME Typed, Control, at[1] = "screen", host' = host, AfterScreen(at[2], at[3])
  PROVE  Moved
<1>1. Asking /\ host.mux \in {"tmux", "cmux"}
  BY HostIs DEF Asking, Control
<1>2. CASE host.mux = "tmux"
  BY <1>1, <1>2, OnwardMoves DEF AfterScreen
<1>3. CASE host.mux = "cmux"
  BY <1>1, <1>3, SamePaneMoves DEF AfterScreen
<1> QED  BY <1>1, <1>2, <1>3

LEMMA AfterBindingMoves ==
  ASSUME Typed, Control, at[1] = "binding", host' = host, Onward(at[2], at[3])
  PROVE  Moved
  BY OnwardMoves DEF Asking

(* A listing that fails leaves its session out. *)
LEMMA ListLostMoves ==
  ASSUME Typed, Control, at[1] = "list", host' = host, at' = EndOf(at[2]), done' = done
  PROVE  /\ at' \in Stages \X Nat \X Nat /\ Control' /\ at'[1] # "built"
         /\ \A q \in Pane : InRoll(q)' => InRoll(q)
         /\ \A q \in Pane : \A what \in {"info", "screen"} : Asked(q, what)' => Asked(q, what)
<1> DEFINE s == at[2]
<1>1. s \in 1..host.sessions /\ Running /\ (\A t \in done : t < s) /\ done \in SUBSET Nat /\ host.sessions \in Nat
  BY HostIs DEF Control, Running, Typed
<1>2. \A t \in done : t <= s
  BY <1>1
<1>3. at' \in Stages \X Nat \X Nat /\ Control' /\ at'[1] \in {"list", "build"} /\ ~Asking'
  BY <1>1, <1>2, EndIs
<1>4. \A q : SessionOf(q)' = SessionOf(q)
  BY SameHost
<1> QED  BY <1>3, <1>4 DEF InRoll, Asked

(* After the listing no pane of the session has been asked about. *)
LEMMA ListMoves ==
  ASSUME Typed, Control, at[1] = "list", host' = host, Onward(at[2], 0)
  PROVE  /\ at' \in Stages \X Nat \X Nat /\ Control' /\ at'[1] # "built" /\ done' \in SUBSET Nat
         /\ \A q \in Pane : InRoll(q)' => InRoll(q) \/ SessionOf(q) = at[2]
         /\ \A q \in Pane : InRoll(q) => SessionOf(q) # at[2]
         /\ \A q \in Pane : \A what \in {"info", "screen"} :
              Asked(q, what)' => Asked(q, what) /\ SessionOf(q) # at[2]
         /\ AllBefore => AllBefore'
<1> DEFINE s == at[2]
<1>1. /\ s \in 1..host.sessions /\ s \in Nat /\ Running /\ ~Asking /\ host.sessions \in Nat
      /\ done \in SUBSET Nat /\ \A t \in done : t < s
  BY HostIs DEF Control, Running, Typed, Asking
<1>2. \A q : SessionOf(q)' = SessionOf(q)
  BY SameHost
<1>3. PanesIn(s) \in SUBSET Pane /\ \A q \in Pane : q \in PanesIn(s) <=> SessionOf(q) = s
  BY DEF PanesIn, SessionOf
<1>4. \A q \in Pane : InRoll(q) => SessionOf(q) # s
  BY <1>1 DEF InRoll
<1>5. Pane \in SUBSET Nat
  BY CollectBounds DEF Pane
<1>6. CASE PanesIn(s) # {}
  <2> DEFINE n == Least(PanesIn(s))
  <2>1. at' = <<"info", s, n>> /\ done' = done
    BY <1>6 DEF Onward
  <2>2. n \in PanesIn(s) /\ \A q \in PanesIn(s) : n <= q
    BY <1>3, <1>6, LeastPane
  <2>3. n \in Pane /\ SessionOf(n) = s /\ n \in Nat
    BY <1>3, <1>5, <2>2
  <2> HIDE DEF n
  <2>4. at'[1] = "info" /\ at'[2] = s /\ at'[3] = n /\ at' \in Stages \X Nat \X Nat
    BY <1>1, <2>1, <2>3 DEF Stages
  <2>5. Control'
    BY <1>1, <1>2, <2>1, <2>3, <2>4 DEF Control, Asking, Running
  <2>6. \A q \in Pane : InRoll(q)' => InRoll(q) \/ SessionOf(q) = s
    BY <1>2, <2>1, <2>4 DEF InRoll
  <2>7. ASSUME NEW q \in Pane, NEW what \in {"info", "screen"}, Asked(q, what)'
        PROVE  Asked(q, what) /\ SessionOf(q) # s
    <3>1. SessionOf(q) \in done \/ (SessionOf(q) = s /\ q < n)
      BY <1>2, <2>1, <2>4, <2>7 DEF Asked
    <3>2. ~(SessionOf(q) = s /\ q < n)
      BY <1>3, <1>5, <2>2, <2>3
    <3> QED  BY <1>1, <3>1, <3>2 DEF Asked
  <2>8. AllBefore => AllBefore'
    BY <1>1, <2>1, <2>4 DEF AllBefore, Running
  <2> QED  BY <1>1, <1>4, <2>1, <2>4, <2>5, <2>6, <2>7, <2>8
<1>7. CASE PanesIn(s) = {}
  <2>1. at' = EndOf(s) /\ done' = done \cup {s}
    BY <1>7 DEF Onward
  <2>2. done' \in SUBSET Nat /\ (\A t \in done : t <= s) /\ (\A t \in done' : t <= s)
    <3> HIDE DEF s
    <3>1. \A t \in done' : t \in Nat /\ t <= s
      BY <1>1, <2>1
    <3> QED  BY <1>1, <3>1
  <2>3. /\ at' \in Stages \X Nat \X Nat /\ Control' /\ at'[1] \in {"list", "build"} /\ ~Asking'
        /\ Running' => at'[2] = s + 1
        /\ ~Running' => s = host.sessions
    BY <1>1, <2>1, <2>2, EndIs
  <2>4. \A q \in Pane : SessionOf(q) # s
    BY <1>3, <1>7
  <2>5. \A q \in Pane : InRoll(q)' => InRoll(q)
    BY <1>2, <2>1, <2>3, <2>4 DEF InRoll
  <2>6. \A q \in Pane : \A what \in {"info", "screen"} : Asked(q, what)' => Asked(q, what)
    BY <1>2, <2>1, <2>3, <2>4 DEF Asked
  <2>7. AllBefore => AllBefore'
    <3>1. SUFFICES ASSUME AllBefore, NEW t \in 1..host.sessions, Running' => t < at'[2] PROVE t \in done'
      BY DEF AllBefore
    <3>2. t <= s
      BY <1>1, <2>3, <3>1
    <3>3. t < s => t \in done
      BY <1>1, <3>1 DEF AllBefore
    <3> QED  BY <1>1, <2>1, <3>2, <3>3
  <2> QED  BY <1>4, <2>2, <2>3, <2>4, <2>5, <2>6, <2>7
<1> QED  BY <1>6, <1>7

(* What was heard does not depend on what changes, and stays true where    *)
(* more is seen.                                                           *)
LEMMA HeardAlike ==
  ASSUME host' = host
  PROVE  /\ \A f, seen : Heard(f, seen)' <=> Heard(f, seen)
         /\ \A rows, seen : Ran(rows, seen)' <=> Ran(rows, seen)
<1>1. \A f, o : Listing(f, o)' <=> Listing(f, o)
  BY SameHost, Zenon DEF Listing
<1>2. \A f, seen : Heard(f, seen)' <=> Heard(f, seen)
  BY <1>1, SameHost, Zenon DEF Heard, NoHook
<1>3. \A rows, seen : Ran(rows, seen)' <=> Ran(rows, seen)
  BY DEF Ran, Parsed
<1> QED  BY <1>2, <1>3

LEMMA HeardMore ==
  ASSUME NEW seen, NEW more, seen \subseteq more
  PROVE  /\ \A f : Heard(f, seen) => Heard(f, more)
         /\ \A rows : Ran(rows, seen) => Ran(rows, more)
  BY DEF Heard, Ran

(* What was answered of a pane stays true while other commands are given,  *)
(* and where its own is lost.                                              *)
LEMMA AnsweredKept ==
  ASSUME Moved, host' = host, world' = world, truth' = truth,
         NEW q \in Pane, Answered(q), facts'[q] = facts[q],
         missed[q] \subseteq missed'[q], q = at[3] => at[1] \in missed'[q]
  PROVE  Answered(q)'
<1>1. InRoll(q)' => InRoll(q)
  BY DEF Moved
<1>2. Asked(q, "info")' /\ "info" \notin missed'[q] => Asked(q, "info") /\ "info" \notin missed[q]
  BY DEF Moved
<1>3. Asked(q, "screen")' /\ "screen" \notin missed'[q] /\ host'.mux # "herdr" =>
        Asked(q, "screen") /\ "screen" \notin missed[q] /\ host.mux # "herdr"
  BY DEF Moved
<1>4. Heard(facts[q], truth[q])' <=> Heard(facts[q], truth[q])
  BY HeardAlike
<1>5. Ran(facts[q].rows, truth[q])' <=> Ran(facts[q].rows, truth[q])
  BY HeardAlike
<1> QED  BY <1>1, <1>2, <1>3, <1>4, <1>5 DEF Answered

-----------------------------------------------------------------------------
(* IInv is inductive *)

LEMMA NotYetWritten ==
  ASSUME Written, Running, roster' = roster, at'[1] # "built"
  PROVE  Written'
  BY DEF Written, Running, NoRoster

LEMMA NoFactsTyped == NoFacts \in Answers /\ ~NoFacts.listed
<1>1. <<>> \in RowsSeen
  BY Zenon DEF RowsSeen
<1> HIDE DEF RowsSeen
<1> QED  BY <1>1 DEF NoFacts, Answers, Statuses, NoHook, Hook

LEMMA HookOf ==
  ASSUME NEW kind \in {"", "claude", "codex"}, NEW talk \in Int
  PROVE  [kind |-> kind, talk |-> talk] \in Hook
  BY DEF Hook

LEMMA NoHookIs == NoHook \in Hook /\ NoHook.kind = ""
<1>1. "" \in {"", "claude", "codex"} /\ -1 \in Int
  OBVIOUS
<1>2. NoHook.kind = ""
  BY Zenon DEF NoHook
<1> QED  BY <1>1, <1>2, HookOf, Zenon DEF NoHook

LEMMA KindIs == ASSUME NEW o PROVE KindOf(o) \in {"", "claude", "codex"}
  BY DEF KindOf

(* What an occupant is made of. *)
LEMMA OccupantIs ==
  ASSUME NEW o \in Occupants
  PROVE  /\ o \in Occupant /\ o.prog \in Programs /\ o.cwd \in Cwd /\ o.doing \in Doing /\ o.talk \in Nat
         /\ o.hook \in Hook /\ o.hook.kind \in {"", "claude", "codex"} /\ o.hook.talk \in Int
         /\ o.talk \in Int
<1>1. o \in Occupant /\ o.prog \in Programs /\ o.cwd \in Cwd /\ o.doing \in Doing /\ o.talk \in Nat /\ o.hook \in Hook
  <2> HIDE DEF Hook
  <2> QED  BY DEF Occupants, Occupant
<1>2. o.hook.kind \in {"", "claude", "codex"} /\ o.hook.talk \in Int
  BY <1>1 DEF Hook
<1>3. \A n \in Nat : n \in Int
  OBVIOUS
<1> QED  BY <1>1, <1>2, <1>3, Zenon

LEMMA InitInv == ASSUME Init PROVE IInv
<1>1. host \in Hosts /\ host.sessions \in Nat \ {0}
  BY HostsAreHosts DEF Init
<1>2. at[1] = "list" /\ at[2] = 1 /\ at[3] = 0 /\ at \in Stages \X Nat \X Nat
  BY DEF Init, Stages
<1>3. world \in [Pane -> Occupants]
  <2>1. NoHook \in Hook /\ [kind : {"claude", "codex"}, talk : {0, 1}] \subseteq Hook
    <3>1. ASSUME NEW h \in [kind : {"claude", "codex"}, talk : {0, 1}] PROVE h \in Hook
      <4>1. h.kind \in {"claude", "codex"} /\ h.talk \in {0, 1} /\ h = [kind |-> h.kind, talk |-> h.talk]
        BY Zenon
      <4>2. h.talk \in Int
        <5>1. \A n \in {0, 1} : n \in Int
          OBVIOUS
        <5> QED  BY <4>1, <5>1, Zenon
      <4>3. h.kind \in {"", "claude", "codex"}
        BY <4>1, Zenon
      <4> QED  BY <4>1, <4>2, <4>3, HookOf, Zenon
    <3> QED  BY <3>1, NoHookIs
  <2>2. [prog : Programs, cwd : Cwd, doing : Doing, talk : {1},
         hook : {NoHook} \cup [kind : {"claude", "codex"}, talk : {0, 1}]] \subseteq Occupant
    BY <2>1 DEF Occupant
  <2> QED  BY <2>2 DEF Init, Occupants
<1>4. facts \in [Pane -> Answers] /\ \A p \in Pane : ~facts[p].listed
  BY NoFactsTyped DEF Init
<1>5. truth \in [Pane -> Histories]
  BY FS_EmptySet DEF Init, Histories
<1>6. Typed
  BY <1>1, <1>2, <1>3, <1>4, <1>5 DEF Init, Typed
<1>7. Control
  BY <1>1, <1>2 DEF Init, Control, Asking
<1>8. AllAnswered
  BY <1>2, <1>4 DEF Init, AllAnswered, Answered, InRoll, Asking
<1>9. AllBefore
  BY <1>1, <1>2 DEF AllBefore, Running
<1>10. Written
  BY <1>2 DEF Init, Written
<1> QED  BY <1>6, <1>7, <1>8, <1>9, <1>10 DEF IInv, Gathered

(* A pane changes: what was true of it has been true. *)
LEMMA BecomesInv ==
  ASSUME IInv, NEW p \in Pane, NEW o \in Occupants, Becomes(p, o)
  PROVE  IInv'
<1>1. /\ Running /\ world' = [world EXCEPT ![p] = o]
      /\ truth' = [truth EXCEPT ![p] = IF @ = {} THEN {} ELSE @ \cup {o}]
      /\ host' = host /\ at' = at /\ facts' = facts /\ done' = done /\ up' = up /\ roster' = roster
      /\ missed' = missed
  BY DEF Becomes
<1>2. Typed /\ Control /\ AllAnswered /\ Gathered /\ Written
  BY DEF IInv
<1>3. Typed'
  <2>1. world' \in [Pane -> Occupants]
    BY <1>1, <1>2 DEF Typed
  <2>2. truth' \in [Pane -> Histories]
    <3>1. truth \in [Pane -> Histories]
      BY <1>2 DEF Typed
    <3>2. (IF truth[p] = {} THEN {} ELSE truth[p] \cup {o}) \in Histories
      <4>1. truth[p] \in SUBSET Occupants /\ IsFiniteSet(truth[p])
        BY <3>1 DEF Histories
      <4>2. IsFiniteSet(truth[p] \cup {o}) /\ IsFiniteSet({})
        BY <4>1, FS_AddElement, FS_EmptySet
      <4> QED  BY <4>1, <4>2 DEF Histories
    <3> QED  BY <1>1, <3>1, <3>2
  <2> QED  BY <1>1, <1>2, <2>1, <2>2, SameHost DEF Typed
<1>4. Control' /\ Gathered'
  BY <1>1, <1>2 DEF Control, Gathered, AllBefore, Asking, Running, SessionOf
<1>5. Written'
  BY <1>1, <1>2, NotYetWritten DEF Running
<1>6. ASSUME NEW q \in Pane PROVE Answered(q)'
  <2>1. Answered(q)
    BY <1>2 DEF AllAnswered
  <2>2. /\ InRoll(q)' <=> InRoll(q)
        /\ \A what \in {"info", "screen"} : Asked(q, what)' <=> Asked(q, what)
    BY <1>1 DEF InRoll, Asked, Asking, SessionOf
  <2>3. facts'[q].listed => truth[q] \subseteq truth'[q] /\ world'[q] \in truth'[q]
    <3>1. facts'[q].listed => world[q] \in truth[q]
      BY <1>1, <2>1 DEF Answered
    <3>2. CASE q = p
      BY <1>1, <1>2, <3>1, <3>2 DEF Typed
    <3>3. CASE q # p
      BY <1>1, <1>2, <3>1, <3>3 DEF Typed
    <3> QED  BY <3>2, <3>3
  <2>4. facts'[q].listed /\ Heard(facts[q], truth[q]) => Heard(facts[q], truth[q])'
    BY <1>1, <2>3, HeardMore, HeardAlike
  <2>5. facts'[q].listed /\ Ran(facts[q].rows, truth[q]) => Ran(facts[q].rows, truth[q])'
    BY <1>1, <2>3, HeardMore, HeardAlike
  <2> QED  BY <1>1, <2>1, <2>2, <2>3, <2>4, <2>5 DEF Answered
<1> QED  BY <1>2, <1>3, <1>4, <1>5, <1>6 DEF IInv, AllAnswered

LEMMA ExitsInv == ASSUME IInv, NEW p \in Pane, Exits(p) PROVE IInv'
<1>1. world[p] \in Occupants
  BY DEF IInv, Typed
<1> DEFINE hook == IF host.mux = "cmux" THEN world[p].hook ELSE NoHook
<1>2. hook \in Hook
  BY <1>1, OccupantIs, NoHookIs, Zenon
<1> HIDE DEF hook
<1>3. [world[p] EXCEPT !.prog = "shell", !.doing = "idle", !.hook = hook] \in Occupants
  BY <1>1, <1>2 DEF Occupants, Occupant, Programs, Doing
<1>4. Becomes(p, [world[p] EXCEPT !.prog = "shell", !.doing = "idle", !.hook = hook])
  BY <1>1 DEF Exits, Occupants, Occupant, hook
<1> QED  BY <1>3, <1>4, BecomesInv

LEMMA StartsInv == ASSUME IInv, NEW p \in Pane, Starts(p) PROVE IInv'
<1>1. world[p] \in Occupants
  BY DEF IInv, Typed
<1>2. \A prog \in Agents : [world[p] EXCEPT !.prog = prog, !.talk = @ + 1] \in Occupants
  <2>1. ASSUME NEW prog \in Agents PROVE [world[p] EXCEPT !.prog = prog, !.talk = @ + 1] \in Occupant
    <3>1. prog \in Programs
      BY DEF Programs
    <3>2. world[p] \in [prog : Programs, cwd : Cwd, doing : Doing, talk : Nat, hook : Hook] /\ world[p].talk + 1 \in Nat
      BY <1>1 DEF Occupants, Occupant
    <3> QED  BY <3>1, <3>2 DEF Occupant
  <2>2. ASSUME NEW prog \in Agents PROVE [world[p] EXCEPT !.prog = prog, !.talk = @ + 1].prog = prog
    BY <1>1 DEF Occupants, Occupant
  <2> QED  BY <2>1, <2>2 DEF Occupants, IsAgent
<1> QED  BY <1>2, BecomesInv DEF Starts

LEMMA TurnsInv == ASSUME IInv, NEW p \in Pane, Turns(p) PROVE IInv'
<1>1. world[p] \in Occupants /\ IsAgent(world[p])
  BY DEF IInv, Typed, Turns
<1>2. \A doing \in Doing : [world[p] EXCEPT !.doing = doing] \in Occupants
  BY <1>1 DEF Occupants, Occupant, IsAgent
<1> QED  BY <1>2, BecomesInv DEF Turns

LEMMA HooksInv == ASSUME IInv, NEW p \in Pane, Hooks(p) PROVE IInv'
<1>1. world[p] \in Occupants /\ IsAgent(world[p])
  BY DEF IInv, Typed, Hooks
<1>2. Own(world[p]) \in Hook
  <2>1. world[p].talk \in Int
    BY <1>1, OccupantIs, Zenon
  <2>2. KindOf(world[p]) \in {"", "claude", "codex"}
    BY KindIs
  <2> QED  BY <2>1, <2>2, HookOf, Zenon DEF Own
<1>3. [world[p] EXCEPT !.hook = Own(world[p])] \in Occupants
  BY <1>1, <1>2 DEF Occupants, Occupant, IsAgent
<1> QED  BY <1>3, BecomesInv DEF Hooks

(* A command about a pane has been given: what is left to show is what is  *)
(* now said of that pane.                                                  *)
LEMMA CommandInv ==
  ASSUME IInv, Asking, Moved, host' = host, world' = world, up' = up, roster' = roster, truth' = truth,
         NEW p \in Pane, p = at[3],
         facts' \in [Pane -> Answers], \A q \in Pane \ {p} : facts'[q] = facts[q],
         missed' \in [Pane \cup {0} -> SUBSET Stages],
         \A q \in Pane \cup {0} : missed[q] \subseteq missed'[q],
         Answered(p)'
  PROVE  IInv'
<1>1. Typed /\ Control /\ AllAnswered /\ Gathered /\ Written
  BY DEF IInv
<1>2. Typed'
  BY <1>1, SameHost DEF Typed, Moved
<1>3. Control'
  BY DEF Moved
<1>4. AllAnswered'
  <2>1. ASSUME NEW q \in Pane, q # p PROVE Answered(q)'
    <3>1. Answered(q) /\ facts'[q] = facts[q] /\ missed[q] \subseteq missed'[q] /\ q # at[3]
      BY <1>1, <2>1 DEF AllAnswered
    <3> QED  BY <3>1, AnsweredKept
  <2> QED  BY <2>1 DEF AllAnswered
<1>5. Gathered'
  <2>1. missed'[0] = {} => missed[0] = {}
    OBVIOUS
  <2> QED  BY <1>1, <2>1 DEF Gathered, Moved
<1>6. Written'
  BY <1>1, NotYetWritten DEF Moved, Asking, Running
<1> QED  BY <1>2, <1>3, <1>4, <1>5, <1>6 DEF IInv

(* ... and it is what the answer of the command says, if there is one.     *)
LEMMA AnsweredNow ==
  ASSUME Moved, host' = host, world' = world, truth' = truth, missed' = missed,
         NEW p \in Pane, p = at[3], Answered(p), facts'[p].listed = facts[p].listed,
         Heard(facts[p], truth[p]) => Heard(facts'[p], truth[p]),
         (at[1] # "info" /\ facts'[p].rows = facts[p].rows) \/ Ran(facts'[p].rows, truth[p]),
         (at[1] # "screen" /\ facts'[p].screen = facts[p].screen) \/ facts'[p].screen # ""
  PROVE  Answered(p)'
<1>1. InRoll(p)' => InRoll(p)
  BY DEF Moved
<1>2. Asked(p, "info")' => Asked(p, "info") \/ at[1] = "info"
  BY DEF Moved
<1>3. Asked(p, "screen")' /\ host'.mux # "herdr" => (Asked(p, "screen") \/ at[1] = "screen") /\ host.mux # "herdr"
  BY DEF Moved
<1>4. \A f : Heard(f, truth[p])' <=> Heard(f, truth[p])
  BY HeardAlike
<1>5. \A rows : Ran(rows, truth[p])' <=> Ran(rows, truth[p])
  BY HeardAlike
<1> QED  BY <1>1, <1>2, <1>3, <1>4, <1>5 DEF Answered

(* The pane the roll asks about, and what runs in it.                      *)
LEMMA AskedPane ==
  ASSUME IInv, Asking
  PROVE  /\ Typed /\ Control /\ Running /\ at[3] \in Pane /\ Answered(at[3]) /\ facts[at[3]].listed
         /\ world[at[3]] \in Occupants /\ world[at[3]] \in truth[at[3]]
         /\ world[at[3]].prog \in Programs /\ world[at[3]].cwd \in Cwd /\ world[at[3]].talk \in Nat
         /\ facts \in [Pane -> Answers] /\ facts[at[3]] \in Answers
<1>1. Typed /\ Control /\ AllAnswered /\ at[3] \in Pane /\ SessionOf(at[3]) = at[2]
  BY DEF IInv, Control
<1>2. Answered(at[3]) /\ InRoll(at[3])
  BY <1>1 DEF AllAnswered, InRoll
<1>3. facts[at[3]].listed /\ world[at[3]] \in truth[at[3]]
  BY <1>2 DEF Answered
<1>4. world[at[3]] \in Occupants /\ facts \in [Pane -> Answers]
  BY <1>1 DEF Typed
<1>5. world[at[3]].prog \in Programs /\ world[at[3]].cwd \in Cwd /\ world[at[3]].talk \in Nat
  BY <1>4 DEF Occupants, Occupant
<1> QED  BY <1>1, <1>2, <1>3, <1>4, <1>5 DEF Asking, Running

LEMMA InfoInv == ASSUME IInv, Info PROVE IInv'
<1>1. PICK p \in Pane : p = at[3]
  BY AskedPane DEF Info, Asking
<1> DEFINE o == world[p]
           rows == Parsed(Foreground(o.prog))
<1>2. /\ Asking /\ at[1] = "info" /\ facts' = [facts EXCEPT ![p].rows = rows, ![p].cwd = o.cwd]
      /\ AfterInfo(at[2], at[3])
      /\ host' = host /\ world' = world /\ up' = up /\ roster' = roster /\ truth' = truth /\ missed' = missed
  BY <1>1 DEF Info, Asking
<1>3. /\ Typed /\ Control /\ Answered(p) /\ o \in truth[p] /\ o.prog \in Programs /\ o.cwd \in Cwd
      /\ facts \in [Pane -> Answers] /\ facts[p] \in Answers
  BY <1>1, <1>2, AskedPane
<1>4. Moved
  BY <1>2, <1>3, AfterInfoMoves
<1>5. rows \in RowsSeen
  BY <1>3 DEF RowsSeen
<1>6. Ran(rows, truth[p])
  BY <1>3 DEF Ran
<1> HIDE DEF rows
<1>7. [facts[p] EXCEPT !.rows = rows, !.cwd = o.cwd] \in Answers
  BY <1>3, <1>5 DEF Answers
<1>8. /\ facts' \in [Pane -> Answers] /\ facts'[p] = [facts[p] EXCEPT !.rows = rows, !.cwd = o.cwd]
      /\ \A q \in Pane \ {p} : facts'[q] = facts[q]
  BY <1>2, <1>3, <1>7
<1>9. /\ facts'[p].listed = facts[p].listed /\ facts'[p].rows = rows /\ facts'[p].screen = facts[p].screen
      /\ facts'[p].agent = facts[p].agent /\ facts'[p].status = facts[p].status /\ facts'[p].talk = facts[p].talk
      /\ facts'[p].binding = facts[p].binding /\ facts'[p].cwd = o.cwd
  BY <1>3, <1>8 DEF Answers
<1>10. Heard(facts[p], truth[p]) => Heard(facts'[p], truth[p])
  BY <1>3, <1>9 DEF Heard, Listing
<1>11. Answered(p)'
  BY <1>1, <1>2, <1>3, <1>4, <1>6, <1>9, <1>10, AnsweredNow
<1>12. missed' \in [Pane \cup {0} -> SUBSET Stages]
  BY <1>2, <1>3 DEF Typed
<1> QED  BY <1>1, <1>2, <1>4, <1>8, <1>11, <1>12, CommandInv

LEMMA ScreenInv == ASSUME IInv, Screen PROVE IInv'
<1>1. PICK p \in Pane : p = at[3]
  BY AskedPane DEF Screen, Asking
<1> DEFINE o == world[p]
<1> PICK screen \in Shows(o) : Screen /\ facts' = [facts EXCEPT ![p].screen = screen]
  BY <1>1 DEF Screen
<1>2. /\ Asking /\ at[1] = "screen" /\ facts' = [facts EXCEPT ![p].screen = screen]
      /\ AfterScreen(at[2], at[3])
      /\ host' = host /\ world' = world /\ up' = up /\ roster' = roster /\ truth' = truth /\ missed' = missed
  BY <1>1 DEF Screen, Asking
<1>3. /\ Typed /\ Control /\ Answered(p) /\ o \in truth[p]
      /\ facts \in [Pane -> Answers] /\ facts[p] \in Answers
  BY <1>1, <1>2, AskedPane
<1>4. Moved
  BY <1>2, <1>3, AfterScreenMoves
<1>5. screen \in {"", "dialog", "text"} /\ screen # "" /\ (screen = "text" => Unmarked(o))
  BY Zenon DEF Shows, Unmarked
<1>6. [facts[p] EXCEPT !.screen = screen] \in Answers
  BY <1>3, <1>5 DEF Answers
<1>7. /\ facts' \in [Pane -> Answers] /\ facts'[p] = [facts[p] EXCEPT !.screen = screen]
      /\ \A q \in Pane \ {p} : facts'[q] = facts[q]
  BY <1>2, <1>3, <1>6
<1>8. /\ facts'[p].listed = facts[p].listed /\ facts'[p].rows = facts[p].rows /\ facts'[p].screen = screen
      /\ facts'[p].agent = facts[p].agent /\ facts'[p].status = facts[p].status /\ facts'[p].talk = facts[p].talk
      /\ facts'[p].binding = facts[p].binding /\ facts'[p].cwd = facts[p].cwd
  BY <1>3, <1>7 DEF Answers
<1>9. Heard(facts[p], truth[p]) => Heard(facts'[p], truth[p])
  BY <1>3, <1>5, <1>8 DEF Heard, Listing
<1>10. Answered(p)'
  BY <1>1, <1>2, <1>3, <1>4, <1>5, <1>8, <1>9, AnsweredNow
<1>11. missed' \in [Pane \cup {0} -> SUBSET Stages]
  BY <1>2, <1>3 DEF Typed
<1> QED  BY <1>1, <1>2, <1>4, <1>7, <1>10, <1>11, CommandInv

LEMMA BindingInv == ASSUME IInv, Binding PROVE IInv'
<1>1. PICK p \in Pane : p = at[3]
  BY AskedPane DEF Binding, Asking
<1> DEFINE o == world[p]
<1> PICK binding \in {o.hook, NoHook} : Binding /\ facts' = [facts EXCEPT ![p].binding = binding]
  BY <1>1 DEF Binding
<1>2. /\ Asking /\ at[1] = "binding" /\ facts' = [facts EXCEPT ![p].binding = binding]
      /\ Onward(at[2], at[3])
      /\ host' = host /\ world' = world /\ up' = up /\ roster' = roster /\ truth' = truth /\ missed' = missed
  BY <1>1 DEF Binding, Asking
<1>3. /\ Typed /\ Control /\ Answered(p) /\ o \in truth[p] /\ o.talk \in Nat
      /\ facts \in [Pane -> Answers] /\ facts[p] \in Answers
  BY <1>1, <1>2, AskedPane
<1>4. Moved
  BY <1>2, <1>3, AfterBindingMoves
<1>5. binding \in Hook /\ (binding # NoHook => binding = o.hook) /\ host.mux = "cmux"
  BY <1>1, <1>2, <1>3, AskedPane, OccupantIs, NoHookIs DEF Control
<1>6. [facts[p] EXCEPT !.binding = binding] \in Answers
  BY <1>3, <1>5 DEF Answers
<1>7. /\ facts' \in [Pane -> Answers] /\ facts'[p] = [facts[p] EXCEPT !.binding = binding]
      /\ \A q \in Pane \ {p} : facts'[q] = facts[q]
  BY <1>2, <1>3, <1>6
<1>8. /\ facts'[p].listed = facts[p].listed /\ facts'[p].rows = facts[p].rows /\ facts'[p].screen = facts[p].screen
      /\ facts'[p].agent = facts[p].agent /\ facts'[p].status = facts[p].status /\ facts'[p].talk = facts[p].talk
      /\ facts'[p].binding = binding /\ facts'[p].cwd = facts[p].cwd
  BY <1>3, <1>7 DEF Answers
<1>9. Heard(facts[p], truth[p]) => Heard(facts'[p], truth[p])
  BY <1>3, <1>5, <1>8 DEF Heard, Listing
<1>10. Answered(p)'
  BY <1>1, <1>2, <1>3, <1>4, <1>8, <1>9, AnsweredNow
<1>11. missed' \in [Pane \cup {0} -> SUBSET Stages]
  BY <1>2, <1>3 DEF Typed
<1> QED  BY <1>1, <1>2, <1>4, <1>7, <1>10, <1>11, CommandInv

LEMMA SameRecord ==
  ASSUME host' = host, facts' = facts, done' = done
  PROVE  \A p : Record(p)' = Record(p)
  BY DEF Record, ClassOf, Status, Native, Resume, Kept, SameCwdKind, HumanId, WsLabel, PaneLabel, BaseName

LEMMA LostInv == ASSUME IInv, Lost PROVE IInv'
<1>1. /\ Running /\ missed' = [missed EXCEPT ![at[3]] = @ \cup {at[1]}]
      /\ host' = host /\ world' = world /\ facts' = facts /\ up' = up /\ roster' = roster /\ truth' = truth
  BY DEF Lost
<1>2. /\ Typed /\ Control /\ AllAnswered /\ Written
      /\ missed \in [Pane \cup {0} -> SUBSET Stages] /\ facts \in [Pane -> Answers]
  BY DEF IInv, Typed
<1>3. at[3] \in Pane \cup {0} /\ at[1] \in Stages
  BY <1>1, <1>2 DEF Control, Running, Asking, Typed
<1>4. /\ missed' \in [Pane \cup {0} -> SUBSET Stages] /\ at[1] \in missed'[at[3]]
      /\ \A q \in Pane \cup {0} : missed[q] \subseteq missed'[q]
  BY <1>1, <1>2, <1>3
<1>5. CASE at[1] = "list"
  <2>1. at' = EndOf(at[2]) /\ done' = done
    BY <1>5 DEF Lost
  <2>2. /\ at' \in Stages \X Nat \X Nat /\ Control' /\ at'[1] # "built"
        /\ \A q \in Pane : InRoll(q)' => InRoll(q)
        /\ \A q \in Pane : \A what \in {"info", "screen"} : Asked(q, what)' => Asked(q, what)
    BY <1>1, <1>2, <1>5, <2>1, ListLostMoves
  <2>3. Typed'
    BY <1>1, <1>2, <1>4, <2>1, <2>2, SameHost DEF Typed
  <2>4. ASSUME NEW q \in Pane PROVE Answered(q)'
    <3>1. Answered(q)
      BY <1>2 DEF AllAnswered
    <3>2. Heard(facts[q], truth[q])' <=> Heard(facts[q], truth[q])
      BY <1>1, HeardAlike
    <3>3. Ran(facts[q].rows, truth[q])' <=> Ran(facts[q].rows, truth[q])
      BY <1>1, HeardAlike
    <3>4. missed[q] \subseteq missed'[q]
      BY <1>4
    <3> QED  BY <1>1, <2>2, <3>1, <3>2, <3>3, <3>4 DEF Answered
  <2>5. Gathered'
    <3>1. at[3] = 0
      BY <1>2, <1>5 DEF Control
    <3>2. missed'[0] # {}
      BY <1>4, <3>1
    <3> QED  BY <3>2 DEF Gathered
  <2>6. Written'
    BY <1>1, <1>2, <2>2, NotYetWritten
  <2> QED  BY <2>2, <2>3, <2>4, <2>5, <2>6 DEF IInv, AllAnswered
<1>6. CASE at[1] # "list"
  <2>1. Asking
    BY <1>1, <1>6 DEF Running, Asking
  <2>2. Moved
    <3>1. CASE at[1] = "info"
      BY <1>1, <1>2, <3>1, AfterInfoMoves DEF Lost
    <3>2. CASE at[1] = "screen"
      BY <1>1, <1>2, <3>2, AfterScreenMoves DEF Lost
    <3>3. CASE at[1] = "binding"
      BY <1>1, <1>2, <3>3, AfterBindingMoves DEF Lost
    <3> QED  BY <2>1, <3>1, <3>2, <3>3 DEF Asking
  <2>3. PICK p \in Pane : p = at[3]
    BY <2>1, AskedPane
  <2>4. Answered(p) /\ missed[p] \subseteq missed'[p] /\ at[1] \in missed'[p]
    BY <1>2, <1>4, <2>3 DEF AllAnswered
  <2>5. Answered(p)'
    BY <1>1, <2>2, <2>3, <2>4, AnsweredKept
  <2> QED  BY <1>1, <1>2, <1>4, <2>1, <2>2, <2>3, <2>5, CommandInv
<1> QED  BY <1>5, <1>6

(* The sessions gathered before the host broke off are kept. *)
LEMMA BrokenInv == ASSUME IInv, Broken PROVE IInv'
<1>1. /\ Running /\ up' = FALSE /\ at' = <<"build", 0, 0>> /\ host' = host /\ world' = world
      /\ facts' = facts /\ done' = done /\ roster' = roster /\ truth' = truth /\ missed' = missed
  BY DEF Broken
<1>2. Typed /\ AllAnswered /\ Written
  BY DEF IInv
<1>3. at' \in Stages \X Nat \X Nat /\ at'[1] = "build" /\ ~Asking' /\ ~Running'
  BY <1>1 DEF Stages, Asking, Running
<1>4. Typed'
  BY <1>1, <1>2, <1>3, SameHost DEF Typed
<1>5. Control'
  BY <1>3 DEF Control, Asking
<1>6. ASSUME NEW q \in Pane PROVE Answered(q)'
  <2>1. Answered(q)
    BY <1>2 DEF AllAnswered
  <2>2. Heard(facts[q], truth[q])' <=> Heard(facts[q], truth[q])
    BY <1>1, HeardAlike
  <2>3. Ran(facts[q].rows, truth[q])' <=> Ran(facts[q].rows, truth[q])
    BY <1>1, HeardAlike
  <2>4. /\ InRoll(q)' => InRoll(q)
        /\ \A what \in {"info", "screen"} : Asked(q, what)' => Asked(q, what)
    BY <1>1, <1>3, SameHost DEF InRoll, Asked
  <2> QED  BY <1>1, <2>1, <2>2, <2>3, <2>4 DEF Answered
<1>7. Gathered'
  BY <1>1 DEF Gathered
<1>8. Written'
  BY <1>1, <1>2, <1>3, NotYetWritten
<1> QED  BY <1>4, <1>5, <1>6, <1>7, <1>8 DEF IInv, AllAnswered

LEMMA BuildInv == ASSUME IInv, Build PROVE IInv'
<1>1. /\ at[1] = "build" /\ at' = <<"built", 0, 0>> /\ roster' = [p \in Kept |-> Record(p)]
      /\ host' = host /\ world' = world /\ facts' = facts /\ done' = done /\ up' = up
      /\ truth' = truth /\ missed' = missed
  BY DEF Build
<1>2. Typed /\ AllAnswered /\ Gathered
  BY DEF IInv
<1>3. at' \in Stages \X Nat \X Nat /\ at'[1] = "built" /\ ~Asking' /\ ~Running' /\ ~Running
  BY <1>1 DEF Stages, Asking, Running
<1>4. Typed'
  BY <1>1, <1>2, <1>3, SameHost DEF Typed
<1>5. Control'
  BY <1>3 DEF Control, Asking
<1>6. ASSUME NEW q \in Pane PROVE Answered(q)'
  <2>1. Answered(q)
    BY <1>2 DEF AllAnswered
  <2>2. Heard(facts[q], truth[q])' <=> Heard(facts[q], truth[q])
    BY <1>1, HeardAlike
  <2>3. Ran(facts[q].rows, truth[q])' <=> Ran(facts[q].rows, truth[q])
    BY <1>1, HeardAlike
  <2>4. /\ InRoll(q)' => InRoll(q)
        /\ \A what \in {"info", "screen"} : Asked(q, what)' => Asked(q, what)
    BY <1>1, <1>3, SameHost DEF InRoll, Asked
  <2> QED  BY <1>1, <2>1, <2>2, <2>3, <2>4 DEF Answered
<1>7. Gathered'
  BY <1>1, <1>2, <1>3 DEF Gathered, AllBefore
<1>8. Written'
  <2>1. Kept' = Kept
    BY <1>1 DEF Kept
  <2>2. \A p : Record(p)' = Record(p)
    BY <1>1, SameRecord
  <2> QED  BY <1>1, <1>3, <2>1, <2>2 DEF Written
<1> QED  BY <1>4, <1>5, <1>6, <1>7, <1>8 DEF IInv, AllAnswered

(* What the multiplexer says where o runs. *)
Told(agent, status, talk, o) ==
  /\ ~Native => agent = "" /\ status = "" /\ talk = -1
  /\ host.mux = "herdr" \/ Known(o) => agent = KindOf(o) /\ talk = (IF Known(o) THEN o.talk ELSE -1)
  /\ status \in {"idle", "done"} => Unmarked(o)
  /\ agent \in {"", KindOf(o)} \/ (host.mux = "cmux" /\ agent = o.hook.kind)

LEMMA EntriesAre ==
  ASSUME NEW o \in Occupants, NEW e \in Entries(o), host.mux \in {"herdr", "tmux", "cmux"}
  PROVE  /\ e.agent \in {"", "claude", "codex"} /\ e.status \in Statuses /\ e.talk \in Int /\ e.quiet \in BOOLEAN
         /\ Told(e.agent, e.status, e.talk, o)
<1>1. /\ o.talk \in Int /\ o.hook.kind \in {"", "claude", "codex"} /\ o.hook.talk \in Int
      /\ KindOf(o) \in {"", "claude", "codex"} /\ o.doing \in Doing
  BY KindIs, OccupantIs
<1>2. /\ Says(o) \subseteq Statuses
      /\ \A says \in Says(o) : says \in {"idle", "done"} => o.doing # "dialog"
  BY <1>1 DEF Says, Statuses, Doing
<1>3. CASE host.mux = "tmux"
  <2>1. PICK quiet \in {FALSE, o.doing # "working"} : e = Entry("", "", -1, quiet)
    BY <1>3 DEF Entries
  <2>2. e.agent = "" /\ e.status = "" /\ e.talk = -1 /\ e.quiet = quiet
    BY <2>1 DEF Entry
  <2>3. quiet \in BOOLEAN
    BY Zenon
  <2>6. "" \in Statuses /\ -1 \in Int
    BY DEF Statuses
  <2>4. ~Native /\ ~Known(o) /\ host.mux # "herdr"
    BY <1>3 DEF Known, Native
  <2>5. Told("", "", -1, o)
    BY <2>4 DEF Told
  <2> QED  BY <2>2, <2>3, <2>5, <2>6
<1>4. CASE host.mux = "herdr" /\ IsAgent(o)
  <2> DEFINE talk == IF Known(o) THEN o.talk ELSE -1
  <2>1. PICK says \in Says(o) : e = Entry(KindOf(o), says, talk, FALSE)
    BY <1>4 DEF Entries
  <2>2. talk \in Int
    <3>1. -1 \in Int
      OBVIOUS
    <3> QED  BY <1>1, <3>1, Zenon
  <2>3. says \in Statuses /\ (says \in {"idle", "done"} => Unmarked(o))
    BY <1>2 DEF Unmarked
  <2>4. Native
    BY <1>4 DEF Native
  <2>5. Told(KindOf(o), says, talk, o)
    BY <2>3, <2>4, Zenon DEF Told
  <2> HIDE DEF talk
  <2>6. e.agent = KindOf(o) /\ e.status = says /\ e.talk = talk /\ e.quiet = FALSE
    BY <2>1 DEF Entry
  <2> QED  BY <1>1, <2>2, <2>3, <2>5, <2>6
<1>5. CASE host.mux = "herdr" /\ ~IsAgent(o)
  <2>1. e = Entry("", "", -1, FALSE)
    BY <1>5 DEF Entries, Nothing, Known
  <2>2. e.agent = "" /\ e.status = "" /\ e.talk = -1 /\ e.quiet = FALSE
    BY <2>1 DEF Entry
  <2>3. "" \in Statuses /\ -1 \in Int
    BY DEF Statuses
  <2>4. KindOf(o) = "" /\ ~Known(o) /\ Native
    BY <1>5 DEF KindOf, Known, Native
  <2>5. Told("", "", -1, o)
    BY <2>4 DEF Told
  <2> QED  BY <2>2, <2>3, <2>5
<1>6. CASE host.mux = "cmux" /\ Known(o)
  <2>1. PICK says \in Says(o) : e = Entry(KindOf(o), says, o.talk, FALSE)
    BY <1>6 DEF Entries
  <2>2. e.agent = KindOf(o) /\ e.status = says /\ e.talk = o.talk /\ e.quiet = FALSE
    BY <2>1 DEF Entry
  <2>3. says \in Statuses /\ (says \in {"idle", "done"} => Unmarked(o))
    BY <1>2 DEF Unmarked
  <2>4. Native
    BY <1>6 DEF Native
  <2>5. Told(KindOf(o), says, o.talk, o)
    BY <1>6, <2>3, <2>4, Zenon DEF Told
  <2> QED  BY <1>1, <2>2, <2>3, <2>5
<1>7. CASE host.mux = "cmux" /\ ~Known(o)
  <2>1. e = Entry("", "", -1, FALSE)
          \/ \E says \in {"idle", "working", "blocked", "unknown", "done"} :
               e = Entry(o.hook.kind, says, o.hook.talk, FALSE)
    BY <1>7, Zenon DEF Entries, Nothing
  <2>2. Unmarked(o) /\ Native
    BY <1>7 DEF Unmarked, Native
  <2>3. CASE e = Entry("", "", -1, FALSE)
    <3>1. e.agent = "" /\ e.status = "" /\ e.talk = -1 /\ e.quiet = FALSE
      BY <2>3 DEF Entry
    <3>2. "" \in Statuses /\ -1 \in Int
      BY DEF Statuses
    <3>3. Told("", "", -1, o)
      BY <1>7, <2>2 DEF Told
    <3> QED  BY <3>1, <3>2, <3>3
  <2>4. ASSUME NEW says \in {"idle", "working", "blocked", "unknown", "done"},
               e = Entry(o.hook.kind, says, o.hook.talk, FALSE)
        PROVE  /\ e.agent \in {"", "claude", "codex"} /\ e.status \in Statuses /\ e.talk \in Int /\ e.quiet \in BOOLEAN
               /\ Told(e.agent, e.status, e.talk, o)
    <3>1. e.agent = o.hook.kind /\ e.status = says /\ e.talk = o.hook.talk /\ e.quiet = FALSE
      BY <2>4 DEF Entry
    <3>2. says \in Statuses
      BY DEF Statuses
    <3>3. Told(o.hook.kind, says, o.hook.talk, o)
      BY <1>7, <2>2 DEF Told
    <3> QED  BY <1>1, <3>1, <3>2, <3>3
  <2> QED  BY <2>1, <2>3, <2>4
<1> QED  BY <1>3, <1>4, <1>5, <1>6, <1>7

(* What a listing says of a pane is so where what runs there runs. *)
LEMMA ListedIs ==
  ASSUME NEW p, world[p] \in Occupants, NEW e \in Entries(world[p]), host.mux \in {"herdr", "tmux", "cmux"}
  PROVE  /\ Listed(p, e) \in Answers /\ Listed(p, e).listed
         /\ Heard(Listed(p, e), {world[p]})
<1> DEFINE o == world[p]
           f == Listed(p, e)
<1>1. o.cwd \in Cwd
  BY DEF Occupants, Occupant
<1>2. e.agent \in {"", "claude", "codex"} /\ e.status \in Statuses /\ e.talk \in Int /\ e.quiet \in BOOLEAN
  BY EntriesAre
<1>3. f = [NoFacts EXCEPT !.listed = TRUE, !.cwd = o.cwd,
             !.quiet = e.quiet, !.agent = e.agent, !.status = e.status, !.talk = e.talk]
  BY Zenon DEF Listed
<1> HIDE DEF f
<1>4. f \in Answers
  BY <1>1, <1>2, <1>3, NoFactsTyped DEF Answers
<1>5. /\ f.listed /\ f.agent = e.agent /\ f.status = e.status /\ f.talk = e.talk /\ f.cwd = o.cwd
      /\ f.screen = NoFacts.screen /\ f.binding = NoFacts.binding
  BY <1>3, NoFactsTyped DEF Answers
<1>6. NoFacts.screen = "" /\ NoFacts.binding = NoHook
  BY DEF NoFacts
<1>7. Listing(f, o)
  BY <1>5 DEF Listing
<1>8. Heard(f, {o})
  <2> HIDE DEF o
  <2>1. f.screen # "text" /\ f.binding = NoHook
    BY <1>5, <1>6
  <2> QED  BY <1>5, <1>7, <2>1, Zenon DEF Heard
<1> QED  BY <1>4, <1>5, <1>8 DEF f

LEMMA ListInv == ASSUME IInv, List PROVE IInv'
<1> DEFINE s == at[2]
           S == PanesIn(at[2])
<1>1. PICK entry \in [S -> UNION {Entries(world[p]) : p \in S}] :
        /\ \A p \in S : entry[p] \in Entries(world[p])
        /\ facts' = [p \in Pane |-> IF p \in S THEN Listed(p, entry[p]) ELSE facts[p]]
  BY DEF List
<1>2. /\ at[1] = "list" /\ truth' = [p \in Pane |-> IF p \in S THEN {world[p]} ELSE truth[p]] /\ Onward(s, 0)
      /\ host' = host /\ world' = world /\ up' = up /\ roster' = roster /\ missed' = missed
  BY DEF List
<1>3. /\ Typed /\ Control /\ AllAnswered /\ Gathered /\ Written
      /\ world \in [Pane -> Occupants] /\ facts \in [Pane -> Answers] /\ truth \in [Pane -> Histories]
  BY DEF IInv, Typed
<1>4. /\ at' \in Stages \X Nat \X Nat /\ Control' /\ at'[1] # "built" /\ done' \in SUBSET Nat
      /\ \A q \in Pane : InRoll(q)' => InRoll(q) \/ SessionOf(q) = s
      /\ \A q \in Pane : \A what \in {"info", "screen"} :
           Asked(q, what)' => Asked(q, what) /\ SessionOf(q) # s
      /\ AllBefore => AllBefore'
  BY <1>2, <1>3, ListMoves
<1>5. S \in SUBSET Pane /\ \A q \in Pane : q \in S <=> SessionOf(q) = s
  BY DEF PanesIn, SessionOf
<1>6. ASSUME NEW q \in S
      PROVE  /\ facts'[q] \in Answers /\ facts'[q].listed /\ Heard(facts'[q], truth'[q])
             /\ truth'[q] = {world[q]} /\ world[q] \in Occupants
  <2>1. q \in Pane /\ world[q] \in Occupants /\ entry[q] \in Entries(world[q])
    BY <1>1, <1>3, <1>5
  <2>2. facts'[q] = Listed(q, entry[q]) /\ truth'[q] = {world[q]}
    BY <1>1, <1>2, <2>1
  <2>3. /\ Listed(q, entry[q]) \in Answers /\ Listed(q, entry[q]).listed
        /\ Heard(Listed(q, entry[q]), {world[q]})
    BY <1>3, <2>1, HostIs, ListedIs
  <2> QED  BY <2>1, <2>2, <2>3
<1>7. ASSUME NEW q \in Pane, q \notin S PROVE facts'[q] = facts[q] /\ truth'[q] = truth[q]
  BY <1>1, <1>2, <1>7
<1> HIDE DEF S
<1>8. Typed'
  <2>1. facts' \in [Pane -> Answers]
    <3>1. \A q \in Pane : facts'[q] \in Answers
      BY <1>3, <1>6, <1>7
    <3>2. DOMAIN facts' = Pane /\ facts' = [q \in Pane |-> facts'[q]]
      BY <1>1
    <3> QED  BY <3>1, <3>2
  <2>2. truth' \in [Pane -> Histories]
    <3>1. ASSUME NEW q \in Pane PROVE truth'[q] \in Histories
      <4>1. CASE q \in S
        <5>1. truth'[q] = {world[q]} /\ world[q] \in Occupants
          BY <1>6, <4>1
        <5>2. IsFiniteSet({world[q]})
          BY FS_Singleton
        <5> QED  BY <5>1, <5>2 DEF Histories
      <4>2. CASE q \notin S
        BY <1>3, <1>7, <4>2
      <4> QED  BY <4>1, <4>2
    <3>2. DOMAIN truth' = Pane /\ truth' = [q \in Pane |-> truth'[q]]
      BY <1>2
    <3> QED  BY <3>1, <3>2
  <2> QED  BY <1>2, <1>3, <1>4, <2>1, <2>2, SameHost DEF Typed
<1>9. ASSUME NEW q \in Pane PROVE Answered(q)'
  <2>1. \A f, seen : Heard(f, seen)' <=> Heard(f, seen)
    BY <1>2, HeardAlike
  <2>2. \A rows, seen : Ran(rows, seen)' <=> Ran(rows, seen)
    BY <1>2, HeardAlike
  <2>3. CASE q \in S
    <3>1. ~Asked(q, "info")' /\ ~Asked(q, "screen")'
      BY <1>4, <1>5, <2>3
    <3>2. facts'[q].listed /\ Heard(facts[q], truth[q])' /\ world'[q] \in truth'[q]
      BY <1>2, <1>6, <2>1, <2>3
    <3> QED  BY <3>1, <3>2 DEF Answered
  <2>4. CASE q \notin S
    <3>1. Answered(q) /\ facts'[q] = facts[q] /\ truth'[q] = truth[q]
      BY <1>3, <1>7, <2>4 DEF AllAnswered
    <3>2. /\ InRoll(q)' => InRoll(q)
          /\ \A what \in {"info", "screen"} : Asked(q, what)' => Asked(q, what)
      BY <1>4, <1>5, <2>4
    <3> QED  BY <1>2, <2>1, <2>2, <3>1, <3>2 DEF Answered
  <2> QED  BY <2>3, <2>4
<1>10. Gathered'
  BY <1>2, <1>3, <1>4 DEF Gathered
<1>11. Written'
  BY <1>2, <1>3, <1>4, NotYetWritten DEF Running
<1> QED  BY <1>4, <1>8, <1>9, <1>10, <1>11 DEF IInv, AllAnswered

LEMMA NextInv == ASSUME IInv, [Next]_vars PROVE IInv'
<1>1. CASE \E p \in Pane : Exits(p) \/ Starts(p) \/ Turns(p) \/ Hooks(p)
  BY <1>1, ExitsInv, StartsInv, TurnsInv, HooksInv
<1>2. CASE List
  BY <1>2, ListInv
<1>3. CASE Info
  BY <1>3, InfoInv
<1>4. CASE Screen
  BY <1>4, ScreenInv
<1>5. CASE Binding
  BY <1>5, BindingInv
<1>6. CASE Lost
  BY <1>6, LostInv
<1>7. CASE Broken
  BY <1>7, BrokenInv
<1>8. CASE Build
  BY <1>8, BuildInv
<1>9. CASE UNCHANGED vars
  <2>1. /\ host' = host /\ world' = world /\ at' = at /\ facts' = facts /\ done' = done /\ up' = up
        /\ roster' = roster /\ truth' = truth /\ missed' = missed
    BY <1>9 DEF vars
  <2>2. Typed'
    BY <2>1, SameHost DEF IInv, Typed
  <2>3. Control' /\ Gathered'
    BY <2>1 DEF IInv, Control, Gathered, AllBefore, Asking, Running, SessionOf
  <2>4. Written'
    BY <2>1, SameRecord DEF IInv, Written, Kept
  <2>5. ASSUME NEW q \in Pane PROVE Answered(q)'
    <3>1. Answered(q)
      BY DEF IInv, AllAnswered
    <3>2. \A f, seen : Heard(f, seen)' <=> Heard(f, seen)
      BY <2>1, HeardAlike
    <3>3. \A rows, seen : Ran(rows, seen)' <=> Ran(rows, seen)
      BY <2>1, HeardAlike
    <3> QED  BY <2>1, <3>1, <3>2, <3>3 DEF Answered, InRoll, Asked, Asking, SessionOf
  <2> QED  BY <2>2, <2>3, <2>4, <2>5 DEF IInv, AllAnswered
<1> QED  BY <1>1, <1>2, <1>3, <1>4, <1>5, <1>6, <1>7, <1>8, <1>9 DEF Next

LEMMA AlwaysIInv == Spec => []IInv
<1>1. Init => IInv
  BY InitInv
<1>2. IInv /\ [Next]_vars => IInv'
  BY NextInv
<1> QED  BY <1>1, <1>2, PTL DEF Spec

-----------------------------------------------------------------------------
(* The properties *)

LEMMA RosterIs ==
  ASSUME IInv, NEW p \in DOMAIN roster
  PROVE  /\ at[1] = "built" /\ p \in Kept /\ DOMAIN roster = Kept
         /\ p \in Pane /\ roster[p] = Record(p) /\ Answered(p) /\ facts[p].listed /\ SessionOf(p) \in done
         /\ facts[p] \in Answers /\ truth[p] \in Histories
<1>1. Typed /\ AllAnswered /\ Written
  BY DEF IInv
<1>2. DOMAIN NoRoster = {}
  BY DEF NoRoster
<1>3. at[1] = "built" /\ roster = [q \in Kept |-> Record(q)]
  BY <1>1, <1>2, Zenon DEF Written
<1>4. p \in Kept /\ DOMAIN roster = Kept /\ roster[p] = Record(p)
  BY <1>3
<1>5. p \in Pane /\ facts[p].listed /\ SessionOf(p) \in done
  BY <1>4 DEF Kept, SessionOf
<1> QED  BY <1>1, <1>3, <1>4, <1>5 DEF AllAnswered, Typed

(* The fields of an occupant. *)
LEMMA RecordIs ==
  ASSUME NEW p
  PROVE  /\ Record(p).role = ClassOf(p).role /\ Record(p).kind = ClassOf(p).kind
         /\ Record(p).argv = ClassOf(p).argv
         /\ Record(p).status = Status(ClassOf(p).role, facts[p])
         /\ Record(p).resume = Resume(p, ClassOf(p)) /\ Record(p).human = HumanId(p)
  BY DEF Record

LEMMA ClassOfIs ==
  ASSUME NEW p
  PROVE  LET cls == Classify(facts[p].agent, facts[p].rows)
         IN \/ ClassOf(p) = cls /\ ~(cls.role = "shell" /\ facts[p].binding.kind # "")
            \/ /\ cls.role = "shell" /\ facts[p].binding.kind # ""
               /\ ClassOf(p).role = "agent" /\ ClassOf(p).kind = facts[p].binding.kind
  BY Zenon DEF ClassOf, As

(* What was listed is what the multiplexer says where something ran. *)
LEMMA ListingIs ==
  ASSUME IInv, NEW f, NEW o \in Occupants, Listing(f, o)
  PROVE  Told(f.agent, f.status, f.talk, o)
<1>1. host.mux \in {"herdr", "tmux", "cmux"}
  BY HostIs DEF IInv
<1> QED  BY <1>1, EntriesAre DEF Listing

(* What classify makes of a pane of the roster whose processes were        *)
(* listed: o ran then, and listed when the session was listed.             *)
LEMMA Classified ==
  ASSUME IInv, NEW p \in DOMAIN roster, "info" \notin missed[p]
  PROVE  \E o, listed \in truth[p] :
           /\ ClassIs(Classify(facts[p].agent, facts[p].rows), facts[p].agent, o)
           /\ Listing(facts[p], listed)
           /\ o.prog \in Programs /\ listed.prog \in Programs
<1>1. p \in Pane /\ Answered(p) /\ facts[p].listed /\ SessionOf(p) \in done /\ truth[p] \in Histories
  BY RosterIs
<1>2. Asked(p, "info")
  BY <1>1 DEF Asked
<1>3. Heard(facts[p], truth[p]) /\ Ran(facts[p].rows, truth[p])
  BY <1>1, <1>2 DEF Answered
<1>4. PICK o \in truth[p] : facts[p].rows = Parsed(Foreground(o.prog))
  BY <1>3 DEF Ran
<1>5. PICK listed \in truth[p] : Listing(facts[p], listed)
  BY <1>3 DEF Heard
<1>6. o.prog \in Programs /\ listed.prog \in Programs
  BY <1>1 DEF Histories, Occupants, Occupant
<1>7. facts[p].agent \in {"", "claude", "codex"}
  BY RosterIs DEF Answers
<1>8. RowsAre(facts[p].rows, o)
  BY <1>4, <1>6, ForegroundIs
<1>9. ClassIs(Classify(facts[p].agent, facts[p].rows), facts[p].agent, o)
  BY <1>6, <1>7, <1>8, ClassifyIs
<1> QED  BY <1>5, <1>6, <1>9

(* Who is in the roster ran there, and is what was seen.                   *)
LEMMA IInvSeen == ASSUME IInv PROVE SeenAsItWas
<1>1. SUFFICES ASSUME NEW p \in DOMAIN roster, "info" \notin missed[p]
               PROVE  \E o \in truth[p] :
                        \/ roster[p].role = RoleOf(o) /\ roster[p].kind = KindOf(o)
                        \/ host.mux = "cmux" /\ roster[p].role = "agent" /\ roster[p].kind = o.hook.kind
  BY DEF SeenAsItWas
<1> DEFINE cls == Classify(facts[p].agent, facts[p].rows)
<1>2. PICK o \in truth[p], listed \in truth[p] :
        /\ ClassIs(cls, facts[p].agent, o) /\ Listing(facts[p], listed)
        /\ o.prog \in Programs /\ listed.prog \in Programs
  BY <1>1, Classified
<1>3. roster[p].role = ClassOf(p).role /\ roster[p].kind = ClassOf(p).kind
  BY <1>1, RosterIs, RecordIs
<1>4. Heard(facts[p], truth[p]) /\ facts[p].agent \in {"", "claude", "codex"} /\ truth[p] \in Histories
  BY <1>1, RosterIs DEF Answered, Answers
<1>5. CASE cls.role = "shell" /\ facts[p].binding.kind # ""
  <2>1. roster[p].role = "agent" /\ roster[p].kind = facts[p].binding.kind
    BY <1>3, <1>5, ClassOfIs
  <2>2. facts[p].binding # NoHook
    BY <1>5, NoHookIs
  <2>3. host.mux = "cmux" /\ \E bound \in truth[p] : facts[p].binding = bound.hook
    BY <1>4, <2>2 DEF Heard
  <2> QED  BY <2>1, <2>3
<1>6. CASE ~(cls.role = "shell" /\ facts[p].binding.kind # "")
  <2>1. roster[p].role = cls.role /\ roster[p].kind = cls.kind
    BY <1>3, <1>6, ClassOfIs
  <2> HIDE DEF cls
  <2>2. CASE o.prog = "bridge"
    <3>1. cls.role = "bridge" /\ cls.kind = ""
      BY <1>2, <2>2 DEF ClassIs
    <3>2. RoleOf(o) = "bridge" /\ KindOf(o) = ""
      BY <1>2, <2>2, Roles
    <3> QED  BY <2>1, <3>1, <3>2
  <2>3. CASE o.prog # "bridge" /\ facts[p].agent # ""
    <3>1. cls.role = "agent" /\ cls.kind = facts[p].agent
      BY <1>2, <2>3 DEF ClassIs
    <3>2. Told(facts[p].agent, facts[p].status, facts[p].talk, listed)
      BY <1>2, <1>4, ListingIs DEF Histories
    <3>3. CASE facts[p].agent = KindOf(listed)
      <4>1. RoleOf(listed) = "agent"
        BY <1>2, <2>3, <3>3, Roles
      <4> QED  BY <2>1, <3>1, <3>3, <4>1
    <3>4. CASE host.mux = "cmux" /\ facts[p].agent = listed.hook.kind
      BY <2>1, <3>1, <3>4
    <3> QED  BY <2>3, <3>2, <3>3, <3>4 DEF Told
  <2>4. CASE facts[p].agent = ""
    <3>1. cls.role = RoleOf(o) /\ cls.kind = KindOf(o)
      BY <1>2, <2>4 DEF ClassIs
    <3> QED  BY <2>1, <3>1
  <2> QED  BY <2>2, <2>3, <2>4
<1> QED  BY <1>5, <1>6

(* What the status of a pane of the roster comes from.                     *)
LEMMA IInvDialog == ASSUME IInv PROVE DialogIsNotIdle
<1>1. SUFFICES ASSUME NEW p \in DOMAIN roster, "screen" \notin missed[p], roster[p].status \in {"idle", "done"}
               PROVE  \E o \in truth[p] : Unmarked(o)
  BY DEF DialogIsNotIdle, Unmarked
<1>2. /\ Answered(p) /\ facts[p].listed /\ SessionOf(p) \in done /\ truth[p] \in Histories
      /\ roster[p].status = Status(ClassOf(p).role, facts[p])
  BY <1>1, RosterIs, RecordIs
<1>3. /\ facts[p].screen \in {"", "dialog", "text"} /\ host.mux \in {"herdr", "tmux", "cmux"}
  BY <1>1, RosterIs, HostIs DEF Answers, IInv
<1>4. Heard(facts[p], truth[p]) /\ (host.mux # "herdr" => facts[p].screen # "")
  BY <1>1, <1>2 DEF Answered, Asked
<1>5. PICK listed \in truth[p] : Listing(facts[p], listed)
  BY <1>4 DEF Heard
<1>6. Told(facts[p].agent, facts[p].status, facts[p].talk, listed)
  BY <1>2, <1>5, ListingIs DEF Histories
<1>7. \/ facts[p].status \in {"idle", "done"}
      \/ facts[p].screen = "text"
      \/ ~Native /\ facts[p].screen # "dialog"
  BY <1>1, <1>2 DEF Status
<1>8. CASE facts[p].status \in {"idle", "done"}
  BY <1>6, <1>8 DEF Told
<1>9. CASE facts[p].screen = "text"
  BY <1>4, <1>9 DEF Heard
<1>10. CASE ~Native /\ facts[p].screen # "dialog"
  BY <1>3, <1>4, <1>9, <1>10 DEF Native
<1> QED  BY <1>7, <1>8, <1>9, <1>10

(* A pane nothing changed in and nothing was missed of: what ran there is  *)
(* what every answer is about.                                             *)
LEMMA SteadyIs ==
  ASSUME IInv, NEW p \in DOMAIN roster, Steady(p), NEW o \in truth[p]
  PROVE  /\ truth[p] = {o} /\ o \in Occupants /\ facts[p].cwd = o.cwd
         /\ Told(facts[p].agent, facts[p].status, facts[p].talk, o)
         /\ facts[p].binding # NoHook => host.mux = "cmux"
         /\ ClassIs(Classify(facts[p].agent, facts[p].rows), facts[p].agent, o)
<1>1. Cardinality(truth[p]) = 1 /\ missed[p] = {}
  BY DEF Steady
<1>2. truth[p] \in Histories /\ Answered(p) /\ facts[p].listed
  BY RosterIs
<1>3. PICK x : truth[p] = {x}
  BY <1>1, <1>2, FS_Singleton DEF Histories
<1>4. truth[p] = {o}
  BY <1>3
<1>5. Heard(facts[p], {o})
  BY <1>2, <1>4 DEF Answered
<1>6. ClassIs(Classify(facts[p].agent, facts[p].rows), facts[p].agent, o)
  BY <1>1, <1>4, Classified
<1>7. o \in Occupants /\ Listing(facts[p], o)
  BY <1>2, <1>4, <1>5 DEF Heard, Histories
<1> QED  BY <1>4, <1>5, <1>6, <1>7, ListingIs DEF Heard

(* Two panes of a session that would continue the same: nobody does. *)
LEMMA ContinuesAlone ==
  ASSUME NEW p, NEW q, NEW kind, p # q, NPanes \in Nat,
         p \in SameCwdKind(p, kind), q \in SameCwdKind(p, kind)
  PROVE  Cardinality(SameCwdKind(p, kind)) # 1
<1> DEFINE S == SameCwdKind(p, kind)
<1>1. S \in SUBSET Pane
  BY DEF SameCwdKind, Kept
<1>2. IsFiniteSet(Pane)
  BY FS_Interval DEF Pane
<1> HIDE DEF S
<1>3. IsFiniteSet(S)
  BY <1>1, <1>2, FS_Subset
<1>4. Cardinality(S) = 1 => \E x : S = {x}
  BY <1>3, FS_Singleton
<1> QED  BY <1>4 DEF S

LEMMA IInvResumes == ASSUME IInv PROVE ResumesItself
<1>1. SUFFICES ASSUME NEW p \in DOMAIN roster, Steady(p), NEW o \in truth[p]
               PROVE  /\ Known(o) => roster[p].resume.talk = o.talk
                      /\ IsAgent(o) /\ ~Known(o) /\ host.mux = "herdr" => roster[p].resume.how = "none"
                      /\ IsAgent(o) /\ (host.mux = "cmux" => o.hook.kind \in {"", KindOf(o)}) =>
                           AgentOf(roster[p].argv) = KindOf(o)
                      /\ roster[p].resume.how = "continue" =>
                           \A q \in DOMAIN roster \ {p} :
                             Steady(q) /\ host.layout[p].session = host.layout[q].session =>
                               \A x \in truth[q] : KindOf(x) # KindOf(o) \/ x.cwd # o.cwd
  BY DEF ResumesItself
<1> DEFINE f == facts[p]
           cls == Classify(facts[p].agent, facts[p].rows)
<1>2. /\ o \in Occupants /\ Told(f.agent, f.status, f.talk, o) /\ f.cwd = o.cwd
      /\ (f.binding # NoHook => host.mux = "cmux")
      /\ ClassIs(cls, f.agent, o)
  BY <1>1, SteadyIs
<1>3. /\ p \in Kept /\ DOMAIN roster = Kept /\ roster[p].argv = ClassOf(p).argv
      /\ roster[p].resume = Resume(p, ClassOf(p)) /\ f \in Answers
  BY <1>1, RosterIs, RecordIs
<1>4. o.prog \in Programs /\ o.talk \in Nat
  BY <1>2 DEF Occupants, Occupant
<1>5. Known(o) \/ host.mux = "herdr" => f.agent = KindOf(o)
  BY <1>2 DEF Told
<1>6. f.agent \in {"", KindOf(o)} /\ IsAgent(o) => cls.role = "agent" /\ AgentOf(cls.argv) = KindOf(o)
  BY <1>2 DEF ClassIs
<1>7. cls.role = "agent" => ClassOf(p) = cls
  BY ClassOfIs
<1>8. ASSUME Known(o) PROVE roster[p].resume.talk = o.talk
  <2>1. Native /\ f.talk = o.talk
    BY <1>2, <1>8, Zenon DEF Known, Told
  <2>2. ClassOf(p).role = "agent"
    BY <1>5, <1>6, <1>7, <1>8 DEF Known
  <2>3. f.talk >= 0
    BY <1>4, <2>1
  <2> QED  BY <1>3, <2>1, <2>2, <2>3 DEF Resume
<1>9. ASSUME IsAgent(o), ~Known(o), host.mux = "herdr" PROVE roster[p].resume.how = "none"
  <2>1. Native /\ f.talk = -1 /\ f.binding = NoHook
    BY <1>2, <1>9 DEF Native, Told
  <2> QED  BY <1>3, <2>1 DEF Resume
<1>10. ASSUME IsAgent(o), host.mux = "cmux" => o.hook.kind \in {"", KindOf(o)}
       PROVE  AgentOf(roster[p].argv) = KindOf(o)
  <2>1. f.agent \in {"", KindOf(o)}
    BY <1>2, <1>10 DEF Told
  <2> QED  BY <1>3, <1>6, <1>7, <1>10, <2>1
<1>11. ASSUME roster[p].resume.how = "continue",
             NEW q \in DOMAIN roster \ {p}, Steady(q), host.layout[p].session = host.layout[q].session,
             NEW x \in truth[q], KindOf(x) = KindOf(o), x.cwd = o.cwd
      PROVE  FALSE
  <2>1. ~Native /\ Cardinality(SameCwdKind(p, ClassOf(p).kind)) = 1
    BY <1>3, <1>11 DEF Resume
  <2>2. /\ Told(facts[q].agent, facts[q].status, facts[q].talk, x) /\ facts[q].cwd = x.cwd
        /\ ClassIs(Classify(facts[q].agent, facts[q].rows), facts[q].agent, x)
    BY <1>11, SteadyIs
  <2>3. f.agent = "" /\ facts[q].agent = ""
    BY <1>2, <2>1, <2>2 DEF Told
  <2>4. cls.kind = KindOf(o) /\ Classify(facts[q].agent, facts[q].rows).kind = KindOf(o)
    BY <1>2, <1>11, <2>2, <2>3 DEF ClassIs
  <2>5. ClassOf(p).kind = KindOf(o)
    <3>1. facts[p].binding.kind = ""
      BY <1>2, <2>1, NoHookIs DEF Native
    <3> QED  BY <2>4, <3>1, ClassOfIs
  <2>6. p \in SameCwdKind(p, KindOf(o)) /\ q \in SameCwdKind(p, KindOf(o))
    BY <1>2, <1>3, <1>11, <2>2, <2>4 DEF SameCwdKind
  <2> QED  BY <2>1, <2>5, <2>6, ContinuesAlone, CollectBounds
<1> QED  BY <1>8, <1>11, <1>9, <1>10

LEMMA PlaceIs ==
  ASSUME IInv, NEW p \in Pane
  PROVE  /\ host.layout[p].ws \in Nat /\ host.layout[p].index \in Nat
         /\ host.layout[p].session \in 1..host.sessions
         /\ \A q \in Pane :
              p # q /\ host.layout[p].session = host.layout[q].session /\ host.layout[p].tab = host.layout[q].tab =>
                host.layout[p].index # host.layout[q].index
<1>1. host \in Hosts
  BY DEF IInv, Typed
<1>2. host.layout \in [Pane -> Places(host.sessions)]
  BY <1>1, HostsAreHosts
<1>3. host.layout[p] \in Places(host.sessions)
  BY <1>2
<1>4. \A q \in Pane :
        p # q /\ host.layout[p].session = host.layout[q].session /\ host.layout[p].tab = host.layout[q].tab =>
          host.layout[p].index # host.layout[q].index
  BY <1>1, HostsAreHosts
<1> QED  BY <1>3, <1>4 DEF Places

(* A label and a number that a number is not. *)
LEMMA Suffixes ==
  ASSUME NEW a \in Nat, NEW b \in Nat, NEW A \in BOOLEAN, NEW B \in BOOLEAN,
         (IF A THEN NoSuffix ELSE a) = (IF B THEN NoSuffix ELSE b)
  PROVE  (A /\ B) \/ (~A /\ ~B /\ a = b)
  BY DEF NoSuffix

(* Workspaces of a session have different labels. *)
LEMMA WsLabelsDiffer ==
  ASSUME IInv, NEW p \in Pane, NEW q \in Pane,
         host.layout[p].session = host.layout[q].session, WsLabel(p) = WsLabel(q)
  PROVE  host.layout[p].ws = host.layout[q].ws
<1> DEFINE Twins(r) == {host.layout[x].ws : x \in {y \in Pane : /\ host.layout[y].session = host.layout[r].session
                                                               /\ host.layout[y].wsLabel = host.layout[r].wsLabel}}
           l(r) == host.layout[r]
           First(r) == l(r).ws = Least(Twins(r))
           number(r) == IF First(r) THEN NoSuffix ELSE l(r).ws
<1>1. \A r : WsLabel(r) = <<l(r).wsLabel, number(r)>>
  BY DEF WsLabel
<1>2. l(p).ws \in Nat /\ l(q).ws \in Nat
  BY PlaceIs
<1> HIDE DEF number
<1>3. l(p).wsLabel = l(q).wsLabel /\ number(p) = number(q)
  BY <1>1
<1>4. Twins(p) = Twins(q)
  BY <1>3
<1> HIDE DEF Twins
<1>5. (First(p) /\ First(q)) \/ (~First(p) /\ ~First(q) /\ l(p).ws = l(q).ws)
  BY <1>2, <1>3, Suffixes DEF number
<1> QED  BY <1>4, <1>5

(* Panes of a tab have different labels. *)
LEMMA PaneLabelsDiffer ==
  ASSUME IInv, NEW p \in Pane, NEW q \in Pane, p # q,
         host.layout[p].session = host.layout[q].session, host.layout[p].tab = host.layout[q].tab,
         PaneLabel(p) = PaneLabel(q)
  PROVE  FALSE
<1> DEFINE Before(r) == {x \in Pane : /\ x < r /\ BaseName(x) = BaseName(r)
                                      /\ host.layout[x].session = host.layout[r].session
                                      /\ host.layout[x].tab = host.layout[r].tab}
           l(r) == host.layout[r]
           First(r) == Before(r) = {}
           number(r) == IF First(r) THEN NoSuffix ELSE l(r).index
<1>1. \A r : PaneLabel(r) = <<BaseName(r), number(r)>>
  BY DEF PaneLabel
<1>2. l(p).index \in Nat /\ l(q).index \in Nat /\ l(p).index # l(q).index
  BY PlaceIs
<1> HIDE DEF number
<1>3. BaseName(p) = BaseName(q) /\ number(p) = number(q)
  BY <1>1
<1>4. p < q \/ q < p
  BY CollectBounds DEF Pane
<1>5. ~First(p) \/ ~First(q)
  BY <1>3, <1>4
<1> HIDE DEF First
<1>6. (First(p) /\ First(q)) \/ (~First(p) /\ ~First(q) /\ l(p).index = l(q).index)
  <2>1. First(p) \in BOOLEAN /\ First(q) \in BOOLEAN
    BY DEF First
  <2> QED  BY <1>2, <1>3, <2>1, Suffixes DEF number
<1> QED  BY <1>2, <1>5, <1>6

LEMMA IInvOnce == ASSUME IInv PROVE EveryPaneOnce
<1>1. ASSUME at[1] = "built", up, missed[0] = {} PROVE DOMAIN roster = Pane
  <2>1. AllBefore /\ ~Running /\ roster = [p \in Kept |-> Record(p)]
    BY <1>1 DEF IInv, Gathered, Running, Written
  <2>2. \A s \in 1..host.sessions : s \in done
    BY <2>1 DEF AllBefore
  <2>3. ASSUME NEW p \in Pane PROVE p \in Kept
    <3>1. SessionOf(p) \in done /\ Answered(p)
      BY <2>2, HostIs DEF IInv, AllAnswered
    <3>2. facts[p].listed
      BY <3>1 DEF Answered, InRoll
    <3> QED  BY <3>1, <3>2 DEF Kept, SessionOf
  <2> QED  BY <2>1, <2>3 DEF Kept
<1>2. ASSUME NEW p \in DOMAIN roster, NEW q \in DOMAIN roster, p # q, roster[p].human = roster[q].human
      PROVE  host.layout[p].ws = host.layout[q].ws /\ host.layout[p].tab # host.layout[q].tab
  <2>1. p \in Pane /\ q \in Pane /\ HumanId(p) = HumanId(q)
    BY <1>2, RosterIs, RecordIs
  <2>2. /\ host.layout[p].session = host.layout[q].session
        /\ WsLabel(p) = WsLabel(q) /\ PaneLabel(p) = PaneLabel(q)
    BY <2>1 DEF HumanId
  <2>3. host.layout[p].ws = host.layout[q].ws
    BY <2>1, <2>2, WsLabelsDiffer
  <2>4. host.layout[p].tab # host.layout[q].tab
    BY <1>2, <2>1, <2>2, PaneLabelsDiffer
  <2> QED  BY <2>3, <2>4
<1> QED  BY <1>1, <1>2 DEF EveryPaneOnce

-----------------------------------------------------------------------------
(* The theorems *)

(* Of every host, whatever starts, exits or asks during the roll and       *)
(* whatever command fails: the role and the kind that build_roster gives a *)
(* pane are those of something that ran there since it was listed, if its  *)
(* processes were, or on cmux those of the agent its record is of.         *)
THEOREM SeenAsItWasHolds == Spec => []SeenAsItWas
<1>1. IInv => SeenAsItWas
  BY IInvSeen
<1> QED  BY <1>1, AlwaysIInv, PTL

(* No agent that asked a question the patterns know, all through the roll, *)
(* is reported as one to be parked, where the screen was read and, on      *)
(* cmux, the record is the agent's own.                                    *)
THEOREM DialogIsNotIdleHolds == Spec => []DialogIsNotIdle
<1>1. IInv => DialogIsNotIdle
  BY IInvDialog
<1> QED  BY <1>1, AlwaysIInv, PTL

(* The command a steady agent is to be resumed with is its own: its        *)
(* conversation where the multiplexer knows it, the flags of its own       *)
(* process unless cmux has a record of another kind, and a continue-form   *)
(* only where nobody of its kind shares the directory.                     *)
THEOREM ResumesItselfHolds == Spec => []ResumesItself
<1>1. IInv => ResumesItself
  BY IInvResumes
<1> QED  BY <1>1, AlwaysIInv, PTL

(* A host that counts as reachable and whose sessions were listed has all  *)
(* its panes in the roster, and human ids tell the panes of a tab, and     *)
(* those of two workspaces, apart.                                         *)
THEOREM EveryPaneOnceHolds == Spec => []EveryPaneOnce
<1>1. IInv => EveryPaneOnce
  BY IInvOnce
<1> QED  BY <1>1, AlwaysIInv, PTL

=============================================================================
