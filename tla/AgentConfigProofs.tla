-------------------------- MODULE AgentConfigProofs --------------------------
(***************************************************************************)
(* An agent comes back as it was, in its conversation, for command lines   *)
(* of every length and however often it is parked: what carried_flags      *)
(* keeps of a command line, its CLI reads as it read it in the whole.      *)
(***************************************************************************)
EXTENDS AgentConfig, SequenceLemmas

-----------------------------------------------------------------------------
(* The two readings of a command line, a token at a time. *)

Names ==
  {"", "--model", "--permission-mode", "--dangerously-skip-permissions", "--worktree", "--resume", "--continue",
   "--session-id", "-p", "--last", "--image", "-c"}

Values == {"", "task", "sonnet", "plan", "s0", "s1", "resume"}

Token == [flag : Names, val : Values, more : {<<>>}]

Pair == Names \X Values

CliState == [ok : BOOLEAN, ended : BOOLEAN, next : Names, opts : Seq(Pair), words : Seq(Values)]

LEMMA NoText == "" \in Names /\ "" \in Values
  BY DEF Names, Values

LEMMA AppendIn ==
  ASSUME NEW T, NEW q \in Seq(T), NEW x \in T
  PROVE  Append(q, x) \in Seq(T)
  OBVIOUS

LEMMA PendingIn ==
  ASSUME NEW s \in CliState
  PROVE  Pending(s) \in Seq(Pair)
<1>1. s.opts \in Seq(Pair) /\ s.next \in Names
  BY DEF CliState
<1>2. <<s.next, "">> \in Pair
  BY <1>1, NoText DEF Pair
<1>3. Append(s.opts, <<s.next, "">>) \in Seq(Pair)
  BY <1>1, <1>2, AppendIn, Zenon
<1> QED BY <1>1, <1>3, Zenon DEF Pending

LEMMA CliScanIn ==
  ASSUME NEW kind, NEW s \in CliState, NEW t \in Token
  PROVE  CliScan(kind, s, t) \in CliState
<1>1. Pending(s) \in Seq(Pair)
  BY PendingIn
<1>2. s.next \in Names /\ t.flag \in Names /\ t.val \in Values /\ s.opts \in Seq(Pair) /\ s.words \in Seq(Values)
  BY DEF CliState, Token
<1>3. <<s.next, t.val>> \in Pair /\ <<t.flag, t.val>> \in Pair
  BY <1>2 DEF Pair
<1>4. /\ Append(s.words, t.val) \in Seq(Values)
      /\ Append(s.opts, <<s.next, t.val>>) \in Seq(Pair)
      /\ Append(Pending(s), <<t.flag, t.val>>) \in Seq(Pair)
  BY <1>1, <1>2, <1>3
<1>5. [s EXCEPT !.words = Append(@, t.val)] \in CliState
  BY <1>4 DEF CliState
<1>6. [s EXCEPT !.opts = Append(@, <<s.next, t.val>>), !.next = ""] \in CliState
  BY <1>4, NoText DEF CliState
<1>7. [s EXCEPT !.ok = FALSE] \in CliState
  BY DEF CliState
<1>8. [s EXCEPT !.ended = TRUE, !.opts = Pending(s), !.next = ""] \in CliState
  BY <1>1, NoText DEF CliState
<1>9. [s EXCEPT !.opts = Pending(s), !.next = t.flag] \in CliState
  BY <1>1, <1>2 DEF CliState
<1>10. [s EXCEPT !.opts = Append(Pending(s), <<t.flag, t.val>>), !.next = ""] \in CliState
  BY <1>4, NoText DEF CliState
<1> QED BY <1>5, <1>6, <1>7, <1>8, <1>9, <1>10, Zenon DEF CliScan

CliStep(kind) == [p \in CliState \X Token |-> CliScan(kind, p[1], p[2])]

LEMMA CliStepIn ==
  ASSUME NEW kind
  PROVE  CliAtFirst \in CliState /\ CliStep(kind) \in [CliState \X Token -> CliState]
<1>1. <<>> \in Seq(Pair) /\ <<>> \in Seq(Values)
  BY EmptySeq, Zenon
<1>2. CliAtFirst \in CliState
  BY <1>1, NoText DEF CliAtFirst, CliState
<1>3. CliStep(kind) \in [CliState \X Token -> CliState]
  BY CliScanIn DEF CliStep
<1> QED BY <1>2, <1>3

LEMMA CliRecursion ==
  ASSUME NEW kind, NEW a \in Seq(Token)
  PROVE  \E f : FoldOf(f, CliState, CliAtFirst, CliStep(kind), a) /\ CliScanned(kind, a) = f[Len(a)]
<1> DEFINE Is(f) == f = [n \in 0..Len(a) |-> IF n = 0 THEN CliAtFirst ELSE CliScan(kind, f[n - 1], a[n])]
           g == CHOOSE f : Is(f)
<1>0. Len(a) \in Nat /\ \A i \in 1..Len(a) : a[i] \in Token
  BY LenProperties, ElementOfSeq
<1>1. CliScanned(kind, a) = g[Len(a)]
  BY Zenon DEF CliScanned
<1>2. CliAtFirst \in CliState /\ CliStep(kind) \in [CliState \X Token -> CliState]
  BY CliStepIn
<1>3. PICK f : FoldOf(f, CliState, CliAtFirst, CliStep(kind), a)
  BY <1>2, Recursion
<1>4. \A i \in 1..Len(a) : f[i] = CliScan(kind, f[i - 1], a[i])
  <2> SUFFICES ASSUME NEW i \in 1..Len(a) PROVE f[i] = CliScan(kind, f[i - 1], a[i])
    OBVIOUS
  <2>1. f[i - 1] \in CliState /\ a[i] \in Token
    BY <1>0, <1>3 DEF FoldOf
  <2>2. f[i] = CliStep(kind)[<<f[i - 1], a[i]>>]
    BY <1>3 DEF FoldOf
  <2> QED BY <2>1, <2>2 DEF CliStep
<1>5. Is(f)
  <2>1. \A n \in 0..Len(a) : f[n] = IF n = 0 THEN CliAtFirst ELSE CliScan(kind, f[n - 1], a[n])
    BY <1>0, <1>3, <1>4 DEF FoldOf
  <2> QED BY <2>1, <1>3 DEF FoldOf
<1>6. g = [n \in 0..Len(a) |-> IF n = 0 THEN CliAtFirst ELSE CliScan(kind, g[n - 1], a[n])]
  <2>1. Is(g)
    BY <1>5, Zenon
  <2> QED BY <2>1, Zenon
<1> HIDE DEF g
<1>7. DOMAIN g = 0..Len(a) /\ g = [i \in DOMAIN g |-> g[i]] /\ g[0] = CliAtFirst
  BY <1>0, <1>6
<1>8. \A i \in 1..Len(a) : g[i] = CliScan(kind, g[i - 1], a[i])
  BY <1>0, <1>6
<1> DEFINE M == {i \in 0..Len(a) : g[i] = f[i]}
<1>9. 0..Len(a) \subseteq M
  <2>1. 0 \in M /\ \A i \in 1..Len(a) : i - 1 \in M => i \in M
    BY <1>0, <1>3, <1>4, <1>7, <1>8 DEF FoldOf
  <2> HIDE DEF M
  <2> QED BY <1>0, <2>1, UpTo, Zenon
<1>10. CliScanned(kind, a) = f[Len(a)]
  BY <1>0, <1>1, <1>9
<1> QED BY <1>3, <1>10

LEMMA CliScannedAppend ==
  ASSUME NEW kind, NEW a \in Seq(Token), NEW t \in Token
  PROVE  /\ CliScanned(kind, a) \in CliState
         /\ CliScanned(kind, Append(a, t)) = CliScan(kind, CliScanned(kind, a), t)
<1>0. Append(a, t) \in Seq(Token)
  OBVIOUS
<1>1. PICK f : FoldOf(f, CliState, CliAtFirst, CliStep(kind), a) /\ CliScanned(kind, a) = f[Len(a)]
  BY CliRecursion
<1>2. PICK g : /\ FoldOf(g, CliState, CliAtFirst, CliStep(kind), Append(a, t))
               /\ CliScanned(kind, Append(a, t)) = g[Len(Append(a, t))]
  BY <1>0, CliRecursion
<1>3. CliAtFirst \in CliState /\ CliStep(kind) \in [CliState \X Token -> CliState]
  BY CliStepIn
<1>4. Extends(g, f, CliState, CliStep(kind), a, t)
  BY <1>1, <1>2, <1>3, FoldAppend
<1> QED BY <1>1, <1>2, <1>4 DEF CliStep, Extends

LEMMA CliScannedEmpty ==
  ASSUME NEW kind
  PROVE  CliScanned(kind, <<>>) = CliAtFirst
<1>1. <<>> \in Seq(Token) /\ Len(<<>>) = 0
  OBVIOUS
<1>2. PICK f : FoldOf(f, CliState, CliAtFirst, CliStep(kind), <<>>) /\ CliScanned(kind, <<>>) = f[Len(<<>>)]
  BY <1>1, CliRecursion
<1> QED BY <1>1, <1>2 DEF FoldOf

ScanState == [out : Seq(Token), next : {"", "keep word", "skip word", "skip"}]

LEMMA ScanIn ==
  ASSUME NEW kind, NEW s \in ScanState, NEW t \in Token
  PROVE  Scan(kind, s, t) \in ScanState
<1>1. s.out \in Seq(Token)
  BY DEF ScanState
<1>2. Append(s.out, t) \in Seq(Token)
  BY <1>1, AppendIn, Zenon
<1>3. [out |-> Append(s.out, t), next |-> ""] \in ScanState /\ [out |-> Append(s.out, t), next |-> "keep word"] \in ScanState
  BY <1>2 DEF ScanState
<1>4. /\ [s EXCEPT !.next = ""] \in ScanState /\ [s EXCEPT !.next = "skip"] \in ScanState
      /\ [s EXCEPT !.next = "skip word"] \in ScanState
  BY DEF ScanState
<1> QED BY <1>3, <1>4 DEF Scan

ScanAtFirst == [out |-> <<>>, next |-> ""]

ScanStep(kind) == [p \in ScanState \X Token |-> Scan(kind, p[1], p[2])]

LEMMA ScanStepIn ==
  ASSUME NEW kind
  PROVE  ScanAtFirst \in ScanState /\ ScanStep(kind) \in [ScanState \X Token -> ScanState]
<1>1. <<>> \in Seq(Token)
  BY EmptySeq, Zenon
<1>2. ScanAtFirst \in ScanState
  BY <1>1 DEF ScanAtFirst, ScanState
<1>3. ScanStep(kind) \in [ScanState \X Token -> ScanState]
  BY ScanIn DEF ScanStep
<1> QED BY <1>2, <1>3

LEMMA ScanRecursion ==
  ASSUME NEW kind, NEW a \in Seq(Token)
  PROVE  \E f : FoldOf(f, ScanState, ScanAtFirst, ScanStep(kind), a) /\ Scanned(kind, a) = f[Len(a)]
<1> DEFINE Is(f) == f = [n \in 0..Len(a) |-> IF n = 0 THEN ScanAtFirst ELSE Scan(kind, f[n - 1], a[n])]
           g == CHOOSE f : Is(f)
<1>0. Len(a) \in Nat /\ \A i \in 1..Len(a) : a[i] \in Token
  BY LenProperties, ElementOfSeq
<1>1. Scanned(kind, a) = g[Len(a)]
  BY Zenon DEF Scanned, ScanAtFirst
<1>2. ScanAtFirst \in ScanState /\ ScanStep(kind) \in [ScanState \X Token -> ScanState]
  BY ScanStepIn
<1>3. PICK f : FoldOf(f, ScanState, ScanAtFirst, ScanStep(kind), a)
  BY <1>2, Recursion
<1>4. \A i \in 1..Len(a) : f[i] = Scan(kind, f[i - 1], a[i])
  <2> SUFFICES ASSUME NEW i \in 1..Len(a) PROVE f[i] = Scan(kind, f[i - 1], a[i])
    OBVIOUS
  <2>1. f[i - 1] \in ScanState /\ a[i] \in Token
    BY <1>0, <1>3 DEF FoldOf
  <2>2. f[i] = ScanStep(kind)[<<f[i - 1], a[i]>>]
    BY <1>3 DEF FoldOf
  <2> QED BY <2>1, <2>2 DEF ScanStep
<1>5. Is(f)
  <2>1. \A n \in 0..Len(a) : f[n] = IF n = 0 THEN ScanAtFirst ELSE Scan(kind, f[n - 1], a[n])
    BY <1>0, <1>3, <1>4 DEF FoldOf
  <2> QED BY <2>1, <1>3 DEF FoldOf
<1>6. g = [n \in 0..Len(a) |-> IF n = 0 THEN ScanAtFirst ELSE Scan(kind, g[n - 1], a[n])]
  <2>1. Is(g)
    BY <1>5, Zenon
  <2> QED BY <2>1, Zenon
<1> HIDE DEF g
<1>7. DOMAIN g = 0..Len(a) /\ g = [i \in DOMAIN g |-> g[i]] /\ g[0] = ScanAtFirst
  BY <1>0, <1>6
<1>8. \A i \in 1..Len(a) : g[i] = Scan(kind, g[i - 1], a[i])
  BY <1>0, <1>6
<1> DEFINE M == {i \in 0..Len(a) : g[i] = f[i]}
<1>9. 0..Len(a) \subseteq M
  <2>1. 0 \in M /\ \A i \in 1..Len(a) : i - 1 \in M => i \in M
    BY <1>0, <1>3, <1>4, <1>7, <1>8 DEF FoldOf
  <2> HIDE DEF M
  <2> QED BY <1>0, <2>1, UpTo, Zenon
<1>10. Scanned(kind, a) = f[Len(a)]
  BY <1>0, <1>1, <1>9
<1> QED BY <1>3, <1>10

LEMMA ScannedAppend ==
  ASSUME NEW kind, NEW a \in Seq(Token), NEW t \in Token
  PROVE  /\ Scanned(kind, a) \in ScanState
         /\ Scanned(kind, Append(a, t)) = Scan(kind, Scanned(kind, a), t)
<1>0. Append(a, t) \in Seq(Token)
  OBVIOUS
<1>1. PICK f : FoldOf(f, ScanState, ScanAtFirst, ScanStep(kind), a) /\ Scanned(kind, a) = f[Len(a)]
  BY ScanRecursion
<1>2. PICK g : /\ FoldOf(g, ScanState, ScanAtFirst, ScanStep(kind), Append(a, t))
               /\ Scanned(kind, Append(a, t)) = g[Len(Append(a, t))]
  BY <1>0, ScanRecursion
<1>3. ScanAtFirst \in ScanState /\ ScanStep(kind) \in [ScanState \X Token -> ScanState]
  BY ScanStepIn
<1>4. Extends(g, f, ScanState, ScanStep(kind), a, t)
  BY <1>1, <1>2, <1>3, FoldAppend
<1> QED BY <1>1, <1>2, <1>4 DEF ScanStep, Extends

LEMMA ScannedEmpty ==
  ASSUME NEW kind
  PROVE  Scanned(kind, <<>>) = ScanAtFirst
<1>1. <<>> \in Seq(Token) /\ Len(<<>>) = 0
  OBVIOUS
<1>2. PICK f : FoldOf(f, ScanState, ScanAtFirst, ScanStep(kind), <<>>) /\ Scanned(kind, <<>>) = f[Len(<<>>)]
  BY <1>1, ScanRecursion
<1> QED BY <1>1, <1>2 DEF FoldOf

-----------------------------------------------------------------------------
(* What there is on a command line of each kind. *)

KnownFlags(kind) ==
  CASE kind = "claude" -> {"--model", "--permission-mode", "--dangerously-skip-permissions", "--worktree", "--resume",
                           "--continue", "--session-id", "-p"}
    [] kind = "grok" -> {"--model", "--permission-mode", "--worktree", "--resume", "--continue", "-p"}
    [] kind = "codex" -> {"--model", "-c", "--last", "--image"}
    [] OTHER -> {"--model", "--resume"}

Known(kind) ==
  {t \in Token : /\ t.flag \in KnownFlags(kind) \cup {""}
                 /\ t.flag = "" => t.val # ""
                 /\ t.flag \notin {"", "--model"} => t.val = ""}

(* The flags that select a conversation or prompt it. *)
Selecting == {"--resume", "--continue", "--session-id", "-p", "--last", "--image"}

Opts(q) == {q[n] : n \in DOMAIN q}

Kept(options) == {p \in options : p[1] \notin Selecting}

(* What both readings have in common at every token: c of the whole, d of  *)
(* what the scan s has kept of it.                                         *)
SimAt(kind, c, s, d) ==
  /\ d.ok /\ ~d.ended /\ d.words = <<>>
  /\ s.next = "keep word" => /\ c.next # "" /\ c.next \notin Selecting /\ d.next = c.next
                             /\ Opts(d.opts) = Kept(Opts(c.opts))
  /\ s.next # "keep word" => d.next \in {"", "--worktree"} /\ Opts(Pending(d)) = Kept(Opts(c.opts))
  /\ s.next = "" => c.next = ""
  /\ s.next = "skip" => c.next \in TakesValue(kind) \cap Selecting
  /\ s.next = "skip word" => c.next = "--resume"

Sim(kind, a) ==
  LET c == CliScanned(kind, a)
      s == Scanned(kind, a)
  IN ~c.ended /\ s.out \in Seq(Known(kind)) /\ (c.ok => SimAt(kind, c, s, CliScanned(kind, s.out)))

(* A command line that every agent has at every time. *)
Single(options) == \A p, q \in options : p[1] = q[1] => p = q

Fit(kind, argv) ==
  /\ argv \in Seq(Known(kind)) /\ Cli(kind, argv).ok
  /\ Single(Opts(Cli(kind, argv).opts))
  /\ \A p \in Opts(Cli(kind, argv).opts) : p[1] \in Selecting => p[2] \in {"", "s0", "s1", "task"}

AgentOn(kind, argv, env, settings, trusted) ==
  Effective(kind, argv, env,
            [settings |-> [x \in Dirs |-> settings], local |-> [x \in Dirs |-> ""], project |-> "",
             trusted |-> [x \in Dirs |-> trusted]])

Disk ==
  [exists : [Dirs -> BOOLEAN], settings : [Dirs -> {"a", "b"}], local : [Dirs -> {"", "b"}], project : {"", "b"},
   trusted : [Dirs -> BOOLEAN], version : {1, 2}, integration : BOOLEAN]

(* The settings in force, of the three in a record of the disk. *)
InRecord(d) == IF d.local # "" THEN d.local ELSE IF d.project # "" THEN d.project ELSE d.settings

AtRest == phase \in {"rolled", "parked", "checked"}

StatesFit ==
  /\ where \in [kind : Kinds, mux : {"herdr", "tmux"}, proc : BOOLEAN]
  /\ Fit(where.kind, cmd)
  /\ seat \in Seats /\ talk \in {"s0", "s1"} /\ disk \in Disk

RecordFits ==
  AtRest =>
    /\ record.resume = IF where.mux = "herdr" THEN ResumeArgv(where.kind, talk, cmd) ELSE ContinueArgv(where.kind, cmd)
    /\ record.flags = CarriedFlags(where.kind, cmd)
    /\ where.mux = "herdr" => record.id = talk
    /\ record.env \in Seats /\ record.dir = record.env.dir /\ (record.captured => record.env = seat)
    /\ record.disk.read \/ record.disk.version = 0
    /\ where.kind # "claude" => record.disk.local = "" /\ record.disk.project = ""

BeforeFits ==
  AtRest =>
    /\ before.options = KeptOptions(where.kind, cmd)
    /\ \E settings \in {"a", "b"}, trusted \in BOOLEAN :
         /\ before.agent = AgentOn(where.kind, cmd, seat, settings, trusted)
         /\ record.disk.read /\ record.dir = seat.dir /\ where.kind \in {"claude", "grok"} =>
              settings = InRecord(record.disk) /\ (where.kind = "claude" => trusted = record.disk.trusted)

DiskFits ==
  phase = "checked" /\ ~told /\ where.kind \in {"claude", "grok"} =>
    /\ record.disk.read /\ InForce(where.kind, record.dir, disk) = InRecord(record.disk)
    /\ where.kind = "claude" /\ record.disk.trusted => disk.trusted[record.dir]

IInv ==
  /\ StatesFit /\ RecordFits /\ BeforeFits /\ DiskFits
  /\ RecordIsTrue /\ ResumesItsConversation /\ SameAgentUnlessTold /\ FlagsRestored

-----------------------------------------------------------------------------
(* One token of either reading. *)

LEMMA OptsAppend ==
  ASSUME NEW q \in Seq(Pair), NEW p \in Pair
  PROVE  Opts(Append(q, p)) = Opts(q) \cup {p}
<1>1. Append(q, p) \in Seq(Pair) /\ Len(q) \in Nat /\ DOMAIN q = 1..Len(q) /\ DOMAIN Append(q, p) = 1..(Len(q) + 1)
      /\ Append(q, p)[Len(q) + 1] = p /\ \A n \in 1..Len(q) : Append(q, p)[n] = q[n]
  OBVIOUS
<1>2. 1..(Len(q) + 1) = (1..Len(q)) \cup {Len(q) + 1}
  BY <1>1
<1> QED BY <1>1, <1>2 DEF Opts

LEMMA OptsEmpty == Opts(<<>>) = {}
  BY DEF Opts

LEMMA OptsIn ==
  ASSUME NEW q \in Seq(Pair)
  PROVE  Opts(q) \subseteq Pair
  BY DEF Opts

LEMMA OptsPending ==
  ASSUME NEW s \in CliState
  PROVE  Opts(Pending(s)) = Opts(s.opts) \cup (IF s.next = "" THEN {} ELSE {<<s.next, "">>})
<1>1. s.opts \in Seq(Pair) /\ s.next \in Names
  BY DEF CliState
<1>2. <<s.next, "">> \in Pair
  BY <1>1, NoText DEF Pair
<1>3. Opts(Append(s.opts, <<s.next, "">>)) = Opts(s.opts) \cup {<<s.next, "">>}
  BY <1>1, <1>2, OptsAppend
<1> QED BY <1>3 DEF Pending

LEMMA KnownIs ==
  ASSUME NEW kind, NEW t \in Known(kind)
  PROVE  /\ t \in Token /\ t.flag \in Names /\ t.val \in Values
         /\ t.flag \in KnownFlags(kind) \cup {""} /\ t.flag # "--"
         /\ t.flag = "" => t.val # ""
         /\ t.flag \notin {"", "--model"} => t.val = ""
<1>1. t.flag # "--"
  BY DEF Known, KnownFlags, Token, Names
<1> QED BY <1>1 DEF Known, Token

LEMMA KnownTokens ==
  ASSUME NEW kind, NEW a \in Seq(Known(kind))
  PROVE  a \in Seq(Token)
  BY KnownIs, SeqMonotonic

(* A token of a command line that has no error so far. *)
AfterWord(s, t, r) ==
  /\ r \in CliState /\ ~r.ended /\ r.ok = s.ok /\ r.next = ""
  /\ s.next = "" => r.opts = s.opts /\ r.words = Append(s.words, t.val)
  /\ s.next # "" => Opts(r.opts) = Opts(s.opts) \cup {<<s.next, t.val>>} /\ r.words = s.words

Waits(kind, t) == t.val = "" /\ t.flag \in TakesValue(kind) \cup MayTakeValue

AfterFlag(kind, s, t, r) ==
  /\ r \in CliState /\ ~r.ended /\ r.words = s.words
  /\ s.next \in TakesValue(kind) => ~r.ok /\ r.opts = s.opts /\ r.next = s.next
  /\ s.next \notin TakesValue(kind) =>
       /\ r.ok = s.ok
       /\ r.next = IF Waits(kind, t) THEN t.flag ELSE ""
       /\ Opts(r.opts) = Opts(Pending(s)) \cup IF Waits(kind, t) THEN {} ELSE {<<t.flag, t.val>>}

LEMMA CliWord ==
  ASSUME NEW kind, NEW s \in CliState, ~s.ended, NEW t \in Known(kind), t.flag = ""
  PROVE  AfterWord(s, t, CliScan(kind, s, t))
<1> DEFINE r == CliScan(kind, s, t)
<1>1. t \in Token /\ t.val \in Values /\ ~IsFlag(t)
  BY KnownIs DEF IsFlag
<1>2. r \in CliState
  BY <1>1, CliScanIn
<1>3. CASE s.next = ""
  <2>1. r = [s EXCEPT !.words = Append(@, t.val)]
    BY <1>1, <1>3 DEF CliScan
  <2> QED BY <1>2, <1>3, <2>1 DEF CliState, AfterWord
<1>4. CASE s.next # ""
  <2>1. r = [s EXCEPT !.opts = Append(@, <<s.next, t.val>>), !.next = ""]
    BY <1>1, <1>4 DEF CliScan
  <2>2. s.opts \in Seq(Pair) /\ <<s.next, t.val>> \in Pair
    BY <1>1 DEF CliState, Pair
  <2>3. r.opts = Append(s.opts, <<s.next, t.val>>) /\ r.next = "" /\ r.ok = s.ok /\ ~r.ended /\ r.words = s.words
    BY <2>1 DEF CliState
  <2>4. Opts(r.opts) = Opts(s.opts) \cup {<<s.next, t.val>>}
    BY <2>2, <2>3, OptsAppend
  <2> QED BY <1>2, <1>4, <2>3, <2>4 DEF AfterWord
<1> QED BY <1>3, <1>4

LEMMA CliFlag ==
  ASSUME NEW kind, NEW s \in CliState, ~s.ended, NEW t \in Known(kind), t.flag # ""
  PROVE  AfterFlag(kind, s, t, CliScan(kind, s, t))
<1> DEFINE r == CliScan(kind, s, t)
<1>1. t \in Token /\ t.flag \in Names /\ t.val \in Values /\ IsFlag(t) /\ t.flag # "--"
  BY KnownIs DEF IsFlag
<1>2. r \in CliState
  BY <1>1, CliScanIn
<1>3. CASE s.next \in TakesValue(kind)
  <2>1. r = [s EXCEPT !.ok = FALSE]
    BY <1>1, <1>3 DEF CliScan
  <2> QED BY <1>2, <1>3, <2>1 DEF CliState, AfterFlag
<1>4. CASE s.next \notin TakesValue(kind) /\ Waits(kind, t)
  <2>1. r = [s EXCEPT !.opts = Pending(s), !.next = t.flag]
    BY <1>1, <1>4 DEF CliScan, Waits
  <2> QED BY <1>2, <1>4, <2>1 DEF CliState, AfterFlag
<1>5. CASE s.next \notin TakesValue(kind) /\ ~Waits(kind, t)
  <2>1. r = [s EXCEPT !.opts = Append(Pending(s), <<t.flag, t.val>>), !.next = ""]
    BY <1>1, <1>5 DEF CliScan, Waits
  <2>2. Pending(s) \in Seq(Pair) /\ <<t.flag, t.val>> \in Pair
    BY <1>1, PendingIn DEF Pair
  <2>3. r.opts = Append(Pending(s), <<t.flag, t.val>>) /\ r.next = "" /\ r.ok = s.ok /\ ~r.ended /\ r.words = s.words
    BY <2>1 DEF CliState
  <2>4. Opts(r.opts) = Opts(Pending(s)) \cup {<<t.flag, t.val>>}
    BY <2>2, <2>3, OptsAppend
  <2> QED BY <1>2, <1>5, <2>3, <2>4 DEF AfterFlag
<1> QED BY <1>3, <1>4, <1>5

(* An error stays. *)
LEMMA CliError ==
  ASSUME NEW kind, NEW s \in CliState, ~s.ok, ~s.ended, NEW t \in Known(kind)
  PROVE  ~CliScan(kind, s, t).ok
<1>1. CASE t.flag = ""
  BY <1>1, CliWord DEF AfterWord
<1>2. CASE t.flag # ""
  BY <1>2, CliFlag DEF AfterFlag
<1> QED BY <1>1, <1>2

(* What the CLI has read of a command line of its kind. *)
CliShape(kind, a) ==
  LET c == CliScanned(kind, a)
      waiting == TakesValue(kind) \cup MayTakeValue
  IN /\ c \in CliState /\ ~c.ended
     /\ c.next \in {""} \cup (KnownFlags(kind) \cap waiting)
     /\ \A p \in Opts(c.opts) :
          /\ p[1] \in KnownFlags(kind)
          /\ p[1] \notin waiting \cup {"--model"} => p[2] = ""
          /\ c.ok /\ p[1] \in TakesValue(kind) => p[2] # ""

LEMMA CliShapeStep ==
  ASSUME NEW kind, NEW a \in Seq(Known(kind)), NEW t \in Known(kind), CliShape(kind, a)
  PROVE  CliShape(kind, Append(a, t))
<1> DEFINE c == CliScanned(kind, a)
           r == CliScanned(kind, Append(a, t))
<1>1. t \in Token /\ t.flag \in KnownFlags(kind) \cup {""} /\ (t.flag = "" => t.val # "")
      /\ (t.flag \notin {"", "--model"} => t.val = "")
  BY KnownIs
<1>2. r = CliScan(kind, c, t)
  BY <1>1, KnownTokens, CliScannedAppend
<1>3. /\ c \in CliState /\ ~c.ended
      /\ c.next \in {""} \cup (KnownFlags(kind) \cap (TakesValue(kind) \cup MayTakeValue))
      /\ \A p \in Opts(c.opts) :
           /\ p[1] \in KnownFlags(kind)
           /\ p[1] \notin TakesValue(kind) \cup MayTakeValue \cup {"--model"} => p[2] = ""
           /\ c.ok /\ p[1] \in TakesValue(kind) => p[2] # ""
  BY DEF CliShape
<1> HIDE DEF c, r
<1>0. c \in CliState /\ ~c.ended
  BY <1>3
<1>4. CASE t.flag = "" /\ c.next = ""
  <2>1. r \in CliState /\ ~r.ended /\ r.next = "" /\ r.opts = c.opts /\ r.ok = c.ok
    BY <1>0, <1>2, <1>4, CliWord DEF AfterWord
  <2> QED BY <1>3, <2>1 DEF CliShape, r
<1>5. CASE t.flag = "" /\ c.next # ""
  <2>1. /\ r \in CliState /\ ~r.ended /\ r.next = "" /\ r.ok = c.ok
        /\ Opts(r.opts) = Opts(c.opts) \cup {<<c.next, t.val>>}
    <3>1. AfterWord(c, t, r)
      BY <1>0, <1>2, <1>5, CliWord
    <3> QED BY <3>1, <1>5 DEF AfterWord
  <2>2. ASSUME NEW p \in Opts(r.opts)
        PROVE  /\ p[1] \in KnownFlags(kind)
               /\ p[1] \notin TakesValue(kind) \cup MayTakeValue \cup {"--model"} => p[2] = ""
               /\ r.ok /\ p[1] \in TakesValue(kind) => p[2] # ""
    <3>1. CASE p \in Opts(c.opts)
      BY <1>3, <2>1, <3>1
    <3>2. CASE p = <<c.next, t.val>>
      BY <1>1, <1>3, <1>5, <3>2
    <3> QED BY <2>1, <2>2, <3>1, <3>2
  <2> QED BY <2>1, <2>2 DEF CliShape, r
<1>6. CASE t.flag # "" /\ c.next \in TakesValue(kind)
  <2>1. r \in CliState /\ ~r.ended /\ r.next = c.next /\ r.opts = c.opts /\ ~r.ok
    BY <1>0, <1>2, <1>6, CliFlag DEF AfterFlag
  <2> QED BY <1>3, <2>1 DEF CliShape, r
<1>7. CASE t.flag # "" /\ c.next \notin TakesValue(kind)
  <2>1. /\ r \in CliState /\ ~r.ended /\ r.ok = c.ok
        /\ r.next = (IF Waits(kind, t) THEN t.flag ELSE "")
        /\ Opts(r.opts) = Opts(Pending(c)) \cup IF Waits(kind, t) THEN {} ELSE {<<t.flag, t.val>>}
    <3>1. AfterFlag(kind, c, t, r)
      BY <1>0, <1>2, <1>7, CliFlag
    <3> QED BY <3>1, <1>7 DEF AfterFlag
  <2>2. Opts(Pending(c)) = Opts(c.opts) \cup (IF c.next = "" THEN {} ELSE {<<c.next, "">>})
    BY <1>3, OptsPending
  <2>3. r.next \in {""} \cup (KnownFlags(kind) \cap (TakesValue(kind) \cup MayTakeValue))
    BY <1>1, <1>7, <2>1 DEF Waits
  <2>4. ASSUME NEW p \in Opts(r.opts)
        PROVE  /\ p[1] \in KnownFlags(kind)
               /\ p[1] \notin TakesValue(kind) \cup MayTakeValue \cup {"--model"} => p[2] = ""
               /\ r.ok /\ p[1] \in TakesValue(kind) => p[2] # ""
    <3>1. CASE p \in Opts(c.opts)
      BY <1>3, <2>1, <3>1
    <3>2. CASE p = <<c.next, "">> /\ c.next # ""
      BY <1>3, <1>7, <3>2
    <3>3. CASE p = <<t.flag, t.val>> /\ ~Waits(kind, t)
      BY <1>1, <1>7, <3>3 DEF Waits
    <3> QED BY <2>1, <2>2, <2>4, <3>1, <3>2, <3>3
  <2> QED BY <2>1, <2>3, <2>4 DEF CliShape, r
<1> QED BY <1>4, <1>5, <1>6, <1>7

LEMMA CliShapeIs ==
  ASSUME NEW kind, NEW a \in Seq(Known(kind))
  PROVE  CliShape(kind, a)
<1> DEFINE P == {x \in Seq(Known(kind)) : CliShape(kind, x)}
<1>1. <<>> \in Seq(Known(kind))
  BY EmptySeq
<1>2. CliShape(kind, <<>>)
  <2>1. CliScanned(kind, <<>>) = CliAtFirst /\ CliAtFirst \in CliState
    BY CliScannedEmpty, CliStepIn
  <2>2. CliAtFirst.next = "" /\ CliAtFirst.opts = <<>> /\ ~CliAtFirst.ended
    BY DEF CliAtFirst
  <2>3. Opts(CliAtFirst.opts) = {}
    BY <2>2, OptsEmpty
  <2> QED BY <2>1, <2>2, <2>3 DEF CliShape
<1>3. \A x \in Seq(Known(kind)), t \in Known(kind) : x \in P => Append(x, t) \in P
  BY CliShapeStep, AppendIn
<1>4. <<>> \in P
  BY <1>1, <1>2
<1>5. Seq(Known(kind)) \subseteq P
  <2> HIDE DEF P
  <2> QED BY <1>3, <1>4, ByAppending, Zenon
<1> QED BY <1>5

(* One token of carried_flags. *)
Tables == {"claude", "grok", "codex"}

LEMMA TablesAre == \A kind : HasTable(kind) <=> kind \in Tables
  BY DEF HasTable, ValueFlags, Tables

LEMMA DropsAre ==
  ASSUME NEW kind \in Tables, NEW flag \in KnownFlags(kind)
  PROVE  LET drop == DropFlags[kind]
             waiting == TakesValue(kind) \cup MayTakeValue
         IN /\ flag \in drop.opt \cup drop.none \cup drop.req <=> flag \in Selecting
            /\ flag \in drop.none => flag \notin waiting
            /\ flag \in drop.req => flag \in TakesValue(kind) /\ flag \notin drop.none
            /\ flag \in drop.opt => flag = "--resume" /\ flag \notin drop.none \cup drop.req
            /\ flag \notin Selecting => (flag \in ValueFlags[kind] \cup OptionalValueFlags[kind] <=> flag \in waiting)
<1>1. CASE kind = "claude"
  BY <1>1 DEF KnownFlags, DropFlags, TakesValue, MayTakeValue, Selecting, ValueFlags, OptionalValueFlags
<1>2. CASE kind = "grok"
  BY <1>2 DEF KnownFlags, DropFlags, TakesValue, MayTakeValue, Selecting, ValueFlags, OptionalValueFlags
<1>3. CASE kind = "codex"
  BY <1>3 DEF KnownFlags, DropFlags, TakesValue, MayTakeValue, Selecting, ValueFlags, OptionalValueFlags
<1> QED BY <1>1, <1>2, <1>3 DEF Tables

LEMMA ScanWord ==
  ASSUME NEW kind \in Tables, NEW s \in ScanState, NEW t \in Known(kind), t.flag = ""
  PROVE  LET r == Scan(kind, s, t)
         IN /\ r.next = ""
            /\ r.out = IF s.next = "keep word" THEN Append(s.out, t) ELSE s.out
  BY DEF Scan, ScanState, IsFlag

LEMMA ScanSkipped ==
  ASSUME NEW kind \in Tables, NEW s \in ScanState, NEW t \in Known(kind), s.next = "skip"
  PROVE  Scan(kind, s, t).next = "" /\ Scan(kind, s, t).out = s.out
  BY DEF Scan, ScanState

FlagScanned(kind, s, t, r) ==
  IF t.flag \in Selecting
  THEN /\ r.out = s.out
       /\ \/ r.next = "" /\ ~Waits(kind, t)
          \/ r.next = "skip" /\ Waits(kind, t) /\ t.flag \in TakesValue(kind)
          \/ r.next = "skip word" /\ Waits(kind, t) /\ t.flag = "--resume"
  ELSE r.out = Append(s.out, t) /\ r.next = IF Waits(kind, t) THEN "keep word" ELSE ""

LEMMA ScanFlag ==
  ASSUME NEW kind \in Tables, NEW s \in ScanState, NEW t \in Known(kind), t.flag # "", s.next # "skip"
  PROVE  FlagScanned(kind, s, t, Scan(kind, s, t))
<1>1. t.flag \in KnownFlags(kind) /\ (t.flag # "--model" => t.val = "")
  BY KnownIs
<1>2. t.flag \in Selecting => t.val = "" /\ t.flag # "--model"
  BY <1>1 DEF Selecting
<1>3. CASE t.flag \in Selecting
  <2>1. t.flag \in DropFlags[kind].opt \cup DropFlags[kind].none \cup DropFlags[kind].req
    BY <1>1, <1>3, DropsAre
  <2>2. Scan(kind, s, t) = [s EXCEPT !.next = IF t.flag \in DropFlags[kind].none THEN ""
                                               ELSE IF t.flag \in DropFlags[kind].req THEN "skip" ELSE "skip word"]
    BY <1>2, <1>3, <2>1 DEF Scan, IsFlag
  <2>3. CASE t.flag \in DropFlags[kind].none
    <3>1. t.flag \notin TakesValue(kind) \cup MayTakeValue
      BY <1>1, <2>3, DropsAre
    <3>2. Scan(kind, s, t).next = "" /\ Scan(kind, s, t).out = s.out
      BY <2>2, <2>3 DEF ScanState
    <3> QED BY <1>3, <3>1, <3>2 DEF FlagScanned, Waits
  <2>4. CASE t.flag \in DropFlags[kind].req
    <3>1. t.flag \in TakesValue(kind) /\ t.flag \notin DropFlags[kind].none
      BY <1>1, <2>4, DropsAre
    <3>2. Scan(kind, s, t).next = "skip" /\ Scan(kind, s, t).out = s.out
      BY <2>2, <2>4, <3>1 DEF ScanState
    <3> QED BY <1>2, <1>3, <3>1, <3>2 DEF FlagScanned, Waits
  <2>5. CASE t.flag \in DropFlags[kind].opt
    <3>1. t.flag = "--resume" /\ t.flag \notin DropFlags[kind].none \cup DropFlags[kind].req
      BY <1>1, <2>5, DropsAre
    <3>2. Scan(kind, s, t).next = "skip word" /\ Scan(kind, s, t).out = s.out
      BY <2>2, <2>5, <3>1 DEF ScanState
    <3>3. t.flag \in MayTakeValue
      BY <3>1 DEF MayTakeValue
    <3> QED BY <1>2, <1>3, <3>1, <3>2, <3>3 DEF FlagScanned, Waits
  <2> QED BY <2>1, <2>3, <2>4, <2>5
<1>4. CASE t.flag \notin Selecting
  <2>1. t.flag \notin DropFlags[kind].opt \cup DropFlags[kind].none \cup DropFlags[kind].req
    BY <1>1, <1>4, DropsAre
  <2>2. t.flag \in ValueFlags[kind] \cup OptionalValueFlags[kind] <=> t.flag \in TakesValue(kind) \cup MayTakeValue
    BY <1>1, <1>4, DropsAre
  <2> QED BY <1>4, <2>1, <2>2 DEF Scan, IsFlag, FlagScanned, Waits
<1> QED BY <1>3, <1>4

-----------------------------------------------------------------------------
(* Both readings of a command line agree. *)

LEMMA KeptUnion ==
  ASSUME NEW A, NEW B
  PROVE  Kept(A \cup B) = Kept(A) \cup Kept(B)
  BY DEF Kept

LEMMA KeptNone == Kept({}) = {}
  BY DEF Kept

LEMMA KeptOne ==
  ASSUME NEW f, NEW v
  PROVE  Kept({<<f, v>>}) = IF f \in Selecting THEN {} ELSE {<<f, v>>}
<1>1. <<f, v>>[1] = f
  OBVIOUS
<1>2. \A p \in {<<f, v>>} : p[1] = f
  BY <1>1
<1> QED BY <1>2 DEF Kept

(* No value is waited for by what carried_flags has kept. *)
LEMMA SimWord ==
  ASSUME NEW kind \in Tables, NEW t \in Known(kind), t.flag = "",
         NEW c \in CliState, NEW s \in ScanState, NEW d \in CliState, SimAt(kind, c, s, d), c.ok, ~c.ended,
         NEW c1, AfterWord(c, t, c1), NEW s1 \in ScanState, NEW d1,
         \/ s.next # "keep word" /\ s1.next = "" /\ d1 = d
         \/ s.next = "keep word" /\ s1.next = "" /\ AfterWord(d, t, d1)
  PROVE  SimAt(kind, c1, s1, d1)
<1>0. c1.ok /\ c1.next = ""
  BY DEF AfterWord
<1>1. CASE s.next = "keep word"
  <2>1. c.next # "" /\ c.next \notin Selecting /\ d.next = c.next /\ Opts(d.opts) = Kept(Opts(c.opts)) /\ d.ok /\ d.words = <<>>
    BY <1>1 DEF SimAt
  <2>2. /\ d1 \in CliState /\ ~d1.ended /\ d1.ok /\ d1.next = "" /\ d1.words = <<>>
        /\ Opts(d1.opts) = Opts(d.opts) \cup {<<c.next, t.val>>}
    BY <1>1, <2>1 DEF AfterWord
  <2>3. Opts(c1.opts) = Opts(c.opts) \cup {<<c.next, t.val>>}
    BY <2>1 DEF AfterWord
  <2>4. Kept(Opts(c1.opts)) = Kept(Opts(c.opts)) \cup {<<c.next, t.val>>}
    <3>1. Kept({<<c.next, t.val>>}) = {<<c.next, t.val>>}
      BY <2>1, KeptOne
    <3>2. Kept(Opts(c.opts) \cup {<<c.next, t.val>>}) = Kept(Opts(c.opts)) \cup Kept({<<c.next, t.val>>})
      BY KeptUnion
    <3> QED BY <2>3, <3>1, <3>2
  <2>5. Opts(Pending(d1)) = Kept(Opts(c1.opts))
    BY <2>1, <2>2, <2>4 DEF Pending
  <2> QED BY <1>0, <1>1, <2>2, <2>5 DEF SimAt
<1>2. CASE s.next # "keep word"
  <2>1. /\ d.ok /\ ~d.ended /\ d.words = <<>> /\ d.next \in {"", "--worktree"}
        /\ Opts(Pending(d)) = Kept(Opts(c.opts)) /\ d1 = d /\ s1.next = ""
    BY <1>2 DEF SimAt
  <2>2. c.next \in Selecting \cup {""}
    BY <1>2 DEF SimAt, ScanState, Selecting
  <2>3. Kept(Opts(c1.opts)) = Kept(Opts(c.opts))
    <3>1. CASE c.next = ""
      BY <3>1 DEF AfterWord
    <3>2. CASE c.next # ""
      <4>1. Opts(c1.opts) = Opts(c.opts) \cup {<<c.next, t.val>>}
        BY <3>2 DEF AfterWord
      <4>2. Kept({<<c.next, t.val>>}) = {}
        BY <2>2, <3>2, KeptOne
      <4>3. Kept(Opts(c1.opts)) = Kept(Opts(c.opts)) \cup Kept({<<c.next, t.val>>})
        BY <4>1, KeptUnion
      <4> QED BY <4>2, <4>3
    <3> QED BY <3>1, <3>2
  <2> QED BY <1>0, <2>1, <2>3 DEF SimAt
<1> QED BY <1>1, <1>2

(* Where the CLI waits for no value, the scan has skipped what it skips. *)
LEMMA SimPending ==
  ASSUME NEW kind, NEW c \in CliState, NEW s \in ScanState, NEW d \in CliState, SimAt(kind, c, s, d),
         c.next \in {""} \cup (KnownFlags(kind) \cap (TakesValue(kind) \cup MayTakeValue)), c.next \notin TakesValue(kind)
  PROVE  d.next \in {"", "--worktree"} /\ Opts(Pending(d)) = Kept(Opts(Pending(c)))
<1>2. s.next # "skip"
  BY DEF SimAt
<1>3. d.next \in {"", "--worktree"} /\ d.next \notin TakesValue(kind)
  <2>1. CASE s.next = "keep word"
    <3>1. c.next # "" /\ c.next \notin Selecting /\ d.next = c.next
      BY <2>1 DEF SimAt
    <3>2. c.next \in MayTakeValue
      BY <3>1
    <3> QED BY <3>1, <3>2 DEF MayTakeValue, Selecting
  <2>2. CASE s.next # "keep word"
    BY <2>2 DEF SimAt, TakesValue
  <2> QED BY <2>1, <2>2
<1>4. Opts(Pending(d)) = Kept(Opts(Pending(c)))
  <2>0. /\ Opts(Pending(c)) = Opts(c.opts) \cup (IF c.next = "" THEN {} ELSE {<<c.next, "">>})
        /\ Opts(Pending(d)) = Opts(d.opts) \cup (IF d.next = "" THEN {} ELSE {<<d.next, "">>})
    BY OptsPending
  <2>1. CASE s.next = "keep word"
    <3>1. c.next # "" /\ c.next \notin Selecting /\ d.next = c.next /\ Opts(d.opts) = Kept(Opts(c.opts))
      BY <2>1 DEF SimAt
    <3>2. Kept({<<c.next, "">>}) = {<<c.next, "">>}
      BY <3>1, KeptOne
    <3>3. Kept(Opts(c.opts) \cup {<<c.next, "">>}) = Kept(Opts(c.opts)) \cup Kept({<<c.next, "">>})
      BY KeptUnion
    <3> QED BY <2>0, <3>1, <3>2, <3>3
  <2>2. CASE s.next # "keep word"
    <3>1. Opts(Pending(d)) = Kept(Opts(c.opts)) /\ c.next \in {"", "--resume"}
      BY <1>2, <2>2 DEF SimAt, ScanState
    <3>2. CASE c.next = ""
      BY <2>0, <3>1, <3>2
    <3>3. CASE c.next = "--resume"
      <4>1. Kept({<<c.next, "">>}) = {}
        BY <3>3, KeptOne DEF Selecting
      <4>2. Kept(Opts(c.opts) \cup {<<c.next, "">>}) = Kept(Opts(c.opts)) \cup Kept({<<c.next, "">>})
        BY KeptUnion
      <4>3. Opts(Pending(c)) = Opts(c.opts) \cup {<<c.next, "">>}
        BY <2>0, <3>3
      <4> QED BY <3>1, <4>1, <4>2, <4>3
    <3> QED BY <3>1, <3>2, <3>3
  <2> QED BY <2>1, <2>2
<1> QED BY <1>3, <1>4

LEMMA SimFlag ==
  ASSUME NEW kind \in Tables, NEW t \in Known(kind), t.flag # "",
         NEW c \in CliState, NEW s \in ScanState, NEW d \in CliState, SimAt(kind, c, s, d), c.ok, ~c.ended,
         c.next \in {""} \cup (KnownFlags(kind) \cap (TakesValue(kind) \cup MayTakeValue)),
         NEW c1, AfterFlag(kind, c, t, c1), c1.ok, NEW s1 \in ScanState, FlagScanned(kind, s, t, s1), NEW d1,
         IF t.flag \in Selecting THEN d1 = d ELSE AfterFlag(kind, d, t, d1)
  PROVE  SimAt(kind, c1, s1, d1)
<1>1. c.next \notin TakesValue(kind)
  BY DEF AfterFlag
<1>2. s.next # "skip"
  BY <1>1 DEF SimAt
<1>3. d.next \in {"", "--worktree"} /\ d.next \notin TakesValue(kind)
  BY <1>1, SimPending DEF TakesValue
<1>4. Opts(Pending(d)) = Kept(Opts(Pending(c)))
  BY <1>1, SimPending
<1>5. /\ c1.next = IF Waits(kind, t) THEN t.flag ELSE ""
      /\ Opts(c1.opts) = Opts(Pending(c)) \cup IF Waits(kind, t) THEN {} ELSE {<<t.flag, t.val>>}
  BY <1>1 DEF AfterFlag
<1>6. d.ok /\ ~d.ended /\ d.words = <<>>
  BY DEF SimAt
<1>7. CASE t.flag \in Selecting
  <2>1. Kept(Opts(c1.opts)) = Kept(Opts(Pending(c)))
    <3>1. Kept(IF Waits(kind, t) THEN {} ELSE {<<t.flag, t.val>>}) = {}
      BY <1>7, KeptOne, KeptNone
    <3>2. Kept(Opts(Pending(c)) \cup IF Waits(kind, t) THEN {} ELSE {<<t.flag, t.val>>})
          = Kept(Opts(Pending(c))) \cup Kept(IF Waits(kind, t) THEN {} ELSE {<<t.flag, t.val>>})
      BY KeptUnion
    <3> QED BY <1>5, <3>1, <3>2
  <2>2. d1 = d /\ Opts(Pending(d1)) = Kept(Opts(c1.opts))
    BY <1>4, <1>7, <2>1
  <2>3. \/ s1.next = "" /\ ~Waits(kind, t)
        \/ s1.next = "skip" /\ Waits(kind, t) /\ t.flag \in TakesValue(kind)
        \/ s1.next = "skip word" /\ Waits(kind, t) /\ t.flag = "--resume"
    BY <1>7 DEF FlagScanned
  <2>4. /\ s1.next # "keep word"
        /\ s1.next = "" => c1.next = ""
        /\ s1.next = "skip" => c1.next \in TakesValue(kind) \cap Selecting
        /\ s1.next = "skip word" => c1.next = "--resume"
    BY <1>5, <1>7, <2>3
  <2> QED BY <1>3, <1>6, <2>2, <2>4 DEF SimAt
<1>8. CASE t.flag \notin Selecting
  <2>1. AfterFlag(kind, d, t, d1)
    BY <1>8
  <2>2. /\ d1 \in CliState /\ ~d1.ended /\ d1.words = <<>> /\ d1.ok
        /\ d1.next = IF Waits(kind, t) THEN t.flag ELSE ""
        /\ Opts(d1.opts) = Opts(Pending(d)) \cup IF Waits(kind, t) THEN {} ELSE {<<t.flag, t.val>>}
    BY <1>3, <1>6, <2>1 DEF AfterFlag
  <2>3. Kept(Opts(c1.opts)) = Opts(d1.opts)
    <3>1. Kept(IF Waits(kind, t) THEN {} ELSE {<<t.flag, t.val>>}) = IF Waits(kind, t) THEN {} ELSE {<<t.flag, t.val>>}
      BY <1>8, KeptOne, KeptNone
    <3>2. Kept(Opts(Pending(c)) \cup IF Waits(kind, t) THEN {} ELSE {<<t.flag, t.val>>})
          = Kept(Opts(Pending(c))) \cup Kept(IF Waits(kind, t) THEN {} ELSE {<<t.flag, t.val>>})
      BY KeptUnion
    <3> QED BY <1>4, <1>5, <2>2, <3>1, <3>2
  <2>4. s1.next = IF Waits(kind, t) THEN "keep word" ELSE ""
    BY <1>8 DEF FlagScanned
  <2>5. CASE Waits(kind, t)
    <3>1. c1.next = t.flag /\ d1.next = t.flag /\ s1.next = "keep word"
      BY <1>5, <2>2, <2>4, <2>5
    <3> QED BY <1>8, <2>2, <2>3, <3>1 DEF SimAt
  <2>6. CASE ~Waits(kind, t)
    <3>1. c1.next = "" /\ d1.next = "" /\ s1.next = ""
      BY <1>5, <2>2, <2>4, <2>6
    <3>2. Pending(d1) = d1.opts
      BY <3>1 DEF Pending
    <3> QED BY <2>2, <2>3, <3>1, <3>2 DEF SimAt
  <2> QED BY <2>5, <2>6
<1> QED BY <1>7, <1>8

LEMMA SimStep ==
  ASSUME NEW kind \in Tables, NEW a \in Seq(Known(kind)), NEW t \in Known(kind), Sim(kind, a)
  PROVE  Sim(kind, Append(a, t))
<1> DEFINE c == CliScanned(kind, a)
           s == Scanned(kind, a)
           d == CliScanned(kind, s.out)
           c1 == CliScanned(kind, Append(a, t))
           s1 == Scanned(kind, Append(a, t))
           d1 == CliScanned(kind, s1.out)
<1>1. t \in Token /\ a \in Seq(Token) /\ Append(a, t) \in Seq(Known(kind))
  BY KnownIs, KnownTokens, AppendIn
<1>2. s.out \in Seq(Known(kind)) /\ (c.ok => SimAt(kind, c, s, d))
  BY DEF Sim
<1>3. s.out \in Seq(Token)
  BY <1>2, KnownTokens
<1>4. c1 = CliScan(kind, c, t) /\ s1 = Scan(kind, s, t)
  BY <1>1, CliScannedAppend, ScannedAppend
<1>5. c \in CliState /\ ~c.ended /\ d \in CliState /\ ~d.ended /\ ~c1.ended
      /\ c.next \in {""} \cup (KnownFlags(kind) \cap (TakesValue(kind) \cup MayTakeValue))
  BY <1>1, <1>2, CliShapeIs DEF CliShape
<1>6. s \in ScanState /\ s1 \in ScanState
  BY <1>1, <1>4, ScannedAppend, ScanIn
<1>7. CliScanned(kind, Append(s.out, t)) = CliScan(kind, d, t)
  BY <1>1, <1>3, CliScannedAppend
<1>8. Append(s.out, t) \in Seq(Known(kind))
  BY <1>2, AppendIn
<1>9. d1 = CliScanned(kind, s1.out)
  OBVIOUS
<1> HIDE DEF c, s, d, c1, s1, d1
<1>10. ASSUME c1.ok PROVE c.ok
  BY <1>4, <1>5, <1>10, CliError
<1>11. CASE t.flag = "" /\ s.next = "skip"
  <2>1. s1.next = "" /\ s1.out = s.out
    BY <1>4, <1>6, <1>11, ScanSkipped
  <2>2. d1 = d
    BY <1>9, <2>1 DEF d
  <2>3. AfterWord(c, t, c1)
    BY <1>4, <1>5, <1>11, CliWord
  <2>4. ASSUME c1.ok PROVE SimAt(kind, c1, s1, d1)
    BY <1>2, <1>5, <1>6, <1>10, <1>11, <2>1, <2>2, <2>3, <2>4, SimWord
  <2> QED BY <1>2, <1>5, <2>1, <2>4 DEF Sim, c1, s1, d1
<1>12. CASE t.flag = "" /\ s.next # "skip"
  <2>1. s1.next = "" /\ s1.out = (IF s.next = "keep word" THEN Append(s.out, t) ELSE s.out)
    BY <1>4, <1>6, <1>12, ScanWord
  <2>2. AfterWord(c, t, c1)
    BY <1>4, <1>5, <1>12, CliWord
  <2>3. \/ s.next # "keep word" /\ s1.next = "" /\ d1 = d
        \/ s.next = "keep word" /\ s1.next = "" /\ AfterWord(d, t, d1)
    <3>1. CASE s.next = "keep word"
      <4>1. d1 = CliScan(kind, d, t)
        BY <1>7, <1>9, <2>1, <3>1
      <4> QED BY <1>5, <1>12, <2>1, <3>1, <4>1, CliWord
    <3>2. CASE s.next # "keep word"
      BY <1>9, <2>1, <3>2 DEF d
    <3> QED BY <3>1, <3>2
  <2>4. ASSUME c1.ok PROVE SimAt(kind, c1, s1, d1)
    BY <1>2, <1>5, <1>6, <1>10, <1>12, <2>2, <2>3, <2>4, SimWord
  <2>5. s1.out \in Seq(Known(kind))
    BY <1>2, <1>8, <2>1
  <2> QED BY <1>5, <2>4, <2>5 DEF Sim, c1, s1, d1
<1>13. CASE t.flag # "" /\ s.next = "skip"
  <2>1. AfterFlag(kind, c, t, c1)
    BY <1>4, <1>5, <1>13, CliFlag
  <2>2. ~c1.ok
    <3> SUFFICES ASSUME c1.ok PROVE FALSE
      OBVIOUS
    <3>1. c.next \in TakesValue(kind)
      BY <1>2, <1>10, <1>13 DEF SimAt
    <3> QED BY <2>1, <3>1 DEF AfterFlag
  <2>3. s1.out = s.out
    BY <1>4, <1>6, <1>13, ScanSkipped
  <2> QED BY <1>2, <1>5, <2>2, <2>3 DEF Sim, c1, s1, d1
<1>14. CASE t.flag # "" /\ s.next # "skip"
  <2>1. AfterFlag(kind, c, t, c1)
    BY <1>4, <1>5, <1>14, CliFlag
  <2>2. FlagScanned(kind, s, t, s1)
    BY <1>4, <1>6, <1>14, ScanFlag
  <2>3. s1.out = IF t.flag \in Selecting THEN s.out ELSE Append(s.out, t)
    BY <2>2 DEF FlagScanned
  <2>4. IF t.flag \in Selecting THEN d1 = d ELSE AfterFlag(kind, d, t, d1)
    <3>1. CASE t.flag \in Selecting
      BY <1>9, <2>3, <3>1 DEF d
    <3>2. CASE t.flag \notin Selecting
      <4>1. d1 = CliScan(kind, d, t)
        BY <1>7, <1>9, <2>3, <3>2
      <4> QED BY <1>5, <1>14, <3>2, <4>1, CliFlag
    <3> QED BY <3>1, <3>2
  <2>5. ASSUME c1.ok PROVE SimAt(kind, c1, s1, d1)
    BY <1>2, <1>5, <1>6, <1>10, <1>14, <2>1, <2>2, <2>4, <2>5, SimFlag
  <2>6. s1.out \in Seq(Known(kind))
    BY <1>2, <1>8, <2>3
  <2> QED BY <1>5, <2>5, <2>6 DEF Sim, c1, s1, d1
<1> QED BY <1>11, <1>12, <1>13, <1>14

LEMMA SimIs ==
  ASSUME NEW kind \in Tables, NEW a \in Seq(Known(kind))
  PROVE  Sim(kind, a)
<1> DEFINE P == {x \in Seq(Known(kind)) : Sim(kind, x)}
<1>1. <<>> \in Seq(Known(kind))
  BY EmptySeq
<1>2. Sim(kind, <<>>)
  <2>1. CliScanned(kind, <<>>) = CliAtFirst /\ Scanned(kind, <<>>) = ScanAtFirst
    BY CliScannedEmpty, ScannedEmpty
  <2>2. ScanAtFirst.out = <<>> /\ ScanAtFirst.next = ""
    BY DEF ScanAtFirst
  <2>3. CliAtFirst.ok /\ ~CliAtFirst.ended /\ CliAtFirst.next = "" /\ CliAtFirst.opts = <<>> /\ CliAtFirst.words = <<>>
    BY DEF CliAtFirst
  <2>4. Pending(CliAtFirst) = <<>>
    BY <2>3 DEF Pending
  <2>5. SimAt(kind, CliAtFirst, ScanAtFirst, CliAtFirst)
    BY <2>2, <2>3, <2>4, OptsEmpty, KeptNone DEF SimAt
  <2> QED BY <1>1, <2>1, <2>2, <2>3, <2>5 DEF Sim
<1>3. \A x \in Seq(Known(kind)), t \in Known(kind) : x \in P => Append(x, t) \in P
  BY SimStep, AppendIn
<1>4. <<>> \in P
  BY <1>1, <1>2
<1>5. Seq(Known(kind)) \subseteq P
  <2> HIDE DEF P
  <2> QED BY <1>3, <1>4, ByAppending, Zenon
<1> QED BY <1>5

-----------------------------------------------------------------------------
(* The command lines that agents are resumed with. *)

LEMMA CliIs ==
  ASSUME NEW kind, NEW a \in Seq(Known(kind))
  PROVE  LET c == CliScanned(kind, a)
         IN /\ Cli(kind, a).ok <=> c.ok /\ c.next \notin TakesValue(kind)
            /\ Cli(kind, a).opts = Pending(c) /\ Cli(kind, a).words = c.words
            /\ c \in CliState /\ ~c.ended
            /\ c.next \in {""} \cup (KnownFlags(kind) \cap (TakesValue(kind) \cup MayTakeValue))
<1> DEFINE c == CliScanned(kind, a)
<1>1. /\ c \in CliState /\ ~c.ended
      /\ c.next \in {""} \cup (KnownFlags(kind) \cap (TakesValue(kind) \cup MayTakeValue))
  BY CliShapeIs DEF CliShape
<1>2. Cli(kind, a) = [c EXCEPT !.ok = c.ok /\ c.next \notin TakesValue(kind), !.opts = Pending(c)]
  BY DEF Cli
<1>3. (Cli(kind, a).ok <=> c.ok /\ c.next \notin TakesValue(kind)) /\ Cli(kind, a).opts = Pending(c) /\ Cli(kind, a).words = c.words
  BY <1>1, <1>2 DEF CliState
<1> QED BY <1>1, <1>3

(* What is carried of a command line, to be followed by more. *)
Carry(kind, a) == IF kind \in Tables THEN Kept(Opts(Cli(kind, a).opts)) ELSE {}

Clean(kind, e, options) ==
  /\ e \in CliState /\ e.ok /\ ~e.ended /\ e.words = <<>> /\ Opts(Pending(e)) = options
  /\ e.next \in {"", "--worktree"} /\ (kind = "codex" => e.next = "")

LEMMA CarriedFlagsAre ==
  ASSUME NEW kind \in Kinds, NEW a \in Seq(Known(kind)), Cli(kind, a).ok
  PROVE  /\ CarriedFlags(kind, a) \in Seq(Known(kind))
         /\ Clean(kind, CliScanned(kind, CarriedFlags(kind, a)), Carry(kind, a))
<1>1. CASE kind \in Tables
  <2> DEFINE c == CliScanned(kind, a)
             s == Scanned(kind, a)
             d == CliScanned(kind, s.out)
  <2>1. CarriedFlags(kind, a) = s.out
    BY <1>1, TablesAre DEF CarriedFlags
  <2>2. c.ok /\ c.next \notin TakesValue(kind) /\ Cli(kind, a).opts = Pending(c) /\ c \in CliState
        /\ c.next \in {""} \cup (KnownFlags(kind) \cap (TakesValue(kind) \cup MayTakeValue))
    BY CliIs
  <2>3. s.out \in Seq(Known(kind)) /\ SimAt(kind, c, s, d)
    BY <1>1, <2>2, SimIs DEF Sim
  <2>4. d \in CliState /\ ~d.ended
        /\ d.next \in {""} \cup (KnownFlags(kind) \cap (TakesValue(kind) \cup MayTakeValue))
    BY <2>3, CliIs
  <2>5. s \in ScanState
    <3>1. <<>> \in Seq(Known(kind)) /\ a \in Seq(Token)
      BY KnownTokens, EmptySeq
    <3>2. [flag |-> "", val |-> "task", more |-> <<>>] \in Token
      BY DEF Token, Names, Values
    <3> QED BY <3>1, <3>2, ScannedAppend
  <2> HIDE DEF c, s, d
  <2>6. d.next \in {"", "--worktree"} /\ Opts(Pending(d)) = Kept(Opts(Pending(c)))
    BY <2>2, <2>3, <2>4, <2>5, SimPending
  <2>7. d.ok /\ d.words = <<>>
    BY <2>3 DEF SimAt
  <2>8. kind = "codex" => d.next = ""
    BY <2>4, <2>6 DEF KnownFlags
  <2>9. Carry(kind, a) = Kept(Opts(Pending(c)))
    BY <1>1, <2>2 DEF Carry
  <2>10. Clean(kind, d, Carry(kind, a))
    BY <2>4, <2>6, <2>7, <2>8, <2>9 DEF Clean
  <2> QED BY <2>1, <2>3, <2>10 DEF d
<1>2. CASE kind \notin Tables
  <2>1. CarriedFlags(kind, a) = <<>> /\ Carry(kind, a) = {}
    BY <1>2, TablesAre DEF CarriedFlags, Carry
  <2>2. CliScanned(kind, <<>>) = CliAtFirst /\ CliAtFirst \in CliState
    BY CliScannedEmpty, CliStepIn
  <2>3. CliAtFirst.ok /\ ~CliAtFirst.ended /\ CliAtFirst.next = "" /\ CliAtFirst.opts = <<>> /\ CliAtFirst.words = <<>>
    BY DEF CliAtFirst
  <2>4. Pending(CliAtFirst) = <<>>
    BY <2>3 DEF Pending
  <2>5. Clean(kind, CliAtFirst, {})
    BY <2>2, <2>3, <2>4, OptsEmpty DEF Clean
  <2> QED BY <2>1, <2>2, <2>5, EmptySeq
<1> QED BY <1>1, <1>2

(* A command line as its CLI takes it. *)
Taken(kind, argv, options, words) ==
  /\ argv \in Seq(Known(kind))
  /\ Cli(kind, argv).ok /\ Cli(kind, argv).opts \in Seq(Pair)
  /\ Opts(Cli(kind, argv).opts) = options /\ Cli(kind, argv).words = words

LEMMA KnownTails ==
  ASSUME NEW kind \in Kinds, NEW id \in {"s0", "s1"}
  PROVE  /\ Word(id) \in Known(kind)
         /\ kind # "codex" => Flag("--resume") \in Known(kind)
         /\ kind \in {"claude", "grok"} => Flag("--continue") \in Known(kind)
         /\ kind = "codex" => Flag("--last") \in Known(kind) /\ Word("resume") \in Known(kind)
  BY DEF Kinds, Known, KnownFlags, Token, Names, Values, Word, Flag

LEMMA ConcatOne ==
  ASSUME NEW T, NEW q \in Seq(T), NEW x \in T
  PROVE  q \o <<x>> = Append(q, x)
  OBVIOUS

LEMMA AppendOne ==
  ASSUME NEW x, NEW y
  PROVE  Append(<<x>>, y) = <<x, y>>
<1>1. <<x>> \in Seq({x, y}) /\ <<x, y>> \in Seq({x, y}) /\ Len(<<x>>) = 1 /\ Len(<<x, y>>) = 2
  OBVIOUS
<1>2. Append(<<x>>, y) \in Seq({x, y}) /\ Len(Append(<<x>>, y)) = 2
  BY <1>1
<1>3. Append(<<x>>, y)[1] = x /\ Append(<<x>>, y)[2] = y
  BY <1>1
<1> DEFINE p == Append(<<x>>, y)
           r == <<x, y>>
<1>4. r[1] = x /\ r[2] = y
  OBVIOUS
<1>5. p \in Seq({x, y}) /\ r \in Seq({x, y}) /\ Len(p) = 2 /\ Len(r) = 2 /\ p[1] = r[1] /\ p[2] = r[2]
  BY <1>1, <1>2, <1>3, <1>4
<1> HIDE DEF p, r
<1>6. Len(p) = Len(r) /\ \A i \in 1..Len(p) : p[i] = r[i]
  BY <1>5
<1>7. p = r
  BY <1>5, <1>6, SeqEqual
<1> QED BY <1>7 DEF p, r

(* Two more at the end, one more before. *)
WithTwo(q, x, y) == q \o <<x, y>> = Append(Append(q, x), y)

Before(x, q, y) == <<x>> \o Append(q, y) = Append(<<x>> \o q, y)

LEMMA ConcatNone ==
  ASSUME NEW T, NEW x \in T
  PROVE  <<x>> \o <<>> = Append(<<>>, x)
<1>1. <<x>> \in Seq(T)
  OBVIOUS
<1>2. <<x>> \o <<>> = <<x>>
  BY <1>1, ConcatEmptySeq
<1>3. Append(<<>>, x) = <<x>>
  OBVIOUS
<1> QED BY <1>2, <1>3

LEMMA WithTwoIs ==
  ASSUME NEW kind, NEW q \in Seq(Known(kind)), NEW x \in Known(kind), NEW y \in Known(kind)
  PROVE  WithTwo(q, x, y)
  BY DEF WithTwo

LEMMA BeforeAppend ==
  ASSUME NEW kind, NEW x \in Known(kind), NEW q \in Seq(Known(kind)), NEW y \in Known(kind)
  PROVE  Before(x, q, y)
<1>1. <<x>> \in Seq(Known(kind)) /\ <<y>> \in Seq(Known(kind))
  OBVIOUS
<1>2. Append(q, y) = q \o <<y>>
  BY ConcatOne
<1>3. <<x>> \o (q \o <<y>>) = (<<x>> \o q) \o <<y>>
  BY <1>1, ConcatAssociative
<1>4. <<x>> \o q \in Seq(Known(kind))
  BY <1>1, ConcatProperties
<1>5. (<<x>> \o q) \o <<y>> = Append(<<x>> \o q, y)
  BY <1>4, ConcatOne
<1>6. <<x>> \o Append(q, y) = Append(<<x>> \o q, y)
  BY <1>2, <1>3, <1>5
<1> QED BY <1>6, Zenon DEF Before

LEMMA CliAppend ==
  ASSUME NEW kind, NEW a \in Seq(Known(kind)), NEW t \in Known(kind)
  PROVE  Append(a, t) \in Seq(Known(kind)) /\ CliScanned(kind, Append(a, t)) = CliScan(kind, CliScanned(kind, a), t)
  BY AppendIn, KnownIs, KnownTokens, CliScannedAppend

LEMMA ResumedById ==
  ASSUME NEW kind \in Kinds, kind # "codex", NEW q \in Seq(Known(kind)), NEW options,
         Clean(kind, CliScanned(kind, q), options), NEW id \in {"s0", "s1"}
  PROVE  Taken(kind, q \o <<Flag("--resume"), Word(id)>>, options \cup {<<"--resume", id>>}, <<>>)
<1> DEFINE f == Flag("--resume")
           w == Word(id)
           argv == Append(Append(q, f), w)
           e == CliScanned(kind, q)
           u == CliScan(kind, e, f)
           r == CliScan(kind, u, w)
<1>1. f \in Known(kind) /\ w \in Known(kind) /\ f.flag = "--resume" /\ f.val = "" /\ w.flag = "" /\ w.val = id
  BY KnownTails DEF Flag, Word
<1>2. q \o <<f, w>> = argv
  <2> HIDE DEF f, w
  <2>1. WithTwo(q, f, w)
    BY <1>1, WithTwoIs
  <2> QED BY <2>1, Zenon DEF WithTwo
<1>3. argv \in Seq(Known(kind)) /\ CliScanned(kind, argv) = r
  <2> HIDE DEF f, w
  <2>1. Append(q, f) \in Seq(Known(kind)) /\ CliScanned(kind, Append(q, f)) = u
    BY <1>1, CliAppend
  <2> QED BY <1>1, <2>1, CliAppend
<1>4. e \in CliState /\ ~e.ended /\ e.ok /\ e.words = <<>> /\ Opts(Pending(e)) = options /\ e.next \notin TakesValue(kind)
  BY DEF Clean, TakesValue
<1>5. AfterFlag(kind, e, f, u)
  BY <1>1, <1>4, CliFlag
<1>6. Waits(kind, f)
  BY <1>1 DEF Waits, MayTakeValue
<1>7. u \in CliState /\ ~u.ended /\ u.ok /\ u.words = <<>> /\ u.next = "--resume" /\ Opts(u.opts) = options
  BY <1>1, <1>4, <1>5, <1>6 DEF AfterFlag
<1>8. AfterWord(u, w, r)
  BY <1>1, <1>7, CliWord
<1>9. r \in CliState /\ r.ok /\ r.words = <<>> /\ r.next = "" /\ Opts(r.opts) = options \cup {<<"--resume", id>>}
  BY <1>1, <1>7, <1>8 DEF AfterWord
<1>10. "" \notin TakesValue(kind)
  BY DEF TakesValue
<1> HIDE DEF f, w, argv, e, u, r
<1>11. Cli(kind, argv).ok /\ Cli(kind, argv).opts = r.opts /\ Cli(kind, argv).words = <<>>
  BY <1>2, <1>3, <1>9, <1>10, CliIs DEF Pending
<1>12. r.opts \in Seq(Pair)
  BY <1>9 DEF CliState
<1>13. Taken(kind, argv, options \cup {<<"--resume", id>>}, <<>>)
  BY <1>3, <1>9, <1>11, <1>12 DEF Taken
<1> QED BY <1>2, <1>13 DEF f, w

LEMMA Continued ==
  ASSUME NEW kind \in {"claude", "grok"}, NEW q \in Seq(Known(kind)), NEW options,
         Clean(kind, CliScanned(kind, q), options)
  PROVE  Taken(kind, q \o <<Flag("--continue")>>, options \cup {<<"--continue", "">>}, <<>>)
<1> DEFINE f == Flag("--continue")
           argv == Append(q, f)
           e == CliScanned(kind, q)
           r == CliScan(kind, e, f)
<1>1. f \in Known(kind) /\ f.flag = "--continue" /\ f.val = ""
  BY KnownTails DEF Flag, Kinds
<1>2. q \o <<f>> = argv
  BY <1>1, ConcatOne
<1>3. argv \in Seq(Known(kind)) /\ CliScanned(kind, argv) = r
  BY <1>1, CliAppend
<1>4. e \in CliState /\ ~e.ended /\ e.ok /\ e.words = <<>> /\ Opts(Pending(e)) = options /\ e.next \notin TakesValue(kind)
  BY DEF Clean, TakesValue
<1>5. AfterFlag(kind, e, f, r)
  BY <1>1, <1>4, CliFlag
<1>6. ~Waits(kind, f)
  BY <1>1 DEF Waits, MayTakeValue, TakesValue
<1>7. r \in CliState /\ ~r.ended /\ r.ok /\ r.words = <<>> /\ r.next = "" /\ Opts(r.opts) = options \cup {<<"--continue", "">>}
  BY <1>1, <1>4, <1>5, <1>6 DEF AfterFlag
<1>8. "" \notin TakesValue(kind)
  BY DEF TakesValue
<1> HIDE DEF f, argv, e, r
<1>9. Cli(kind, argv).ok /\ Cli(kind, argv).opts = r.opts /\ Cli(kind, argv).words = <<>>
  BY <1>2, <1>3, <1>7, <1>8, CliIs DEF Pending
<1>10. r.opts \in Seq(Pair)
  BY <1>7 DEF CliState
<1>11. Taken(kind, argv, options \cup {<<"--continue", "">>}, <<>>)
  BY <1>3, <1>7, <1>9, <1>10 DEF Taken
<1> QED BY <1>2, <1>11 DEF f

(* A word before all others is the first word. *)
PrefixedAs(c, r) ==
  /\ r \in CliState /\ r.ok = c.ok /\ r.next = c.next /\ r.opts = c.opts /\ ~r.ended
  /\ c.words = <<>> => r.words = <<"resume">>

LEMMA PrefixStep ==
  ASSUME NEW kind, NEW t \in Known(kind), NEW c \in CliState, ~c.ended, NEW r, PrefixedAs(c, r)
  PROVE  PrefixedAs(CliScan(kind, c, t), CliScan(kind, r, t))
<1> DEFINE c1 == CliScan(kind, c, t)
           r1 == CliScan(kind, r, t)
<1>0. t \in Token /\ t.flag # "--" /\ t.val \in Values
  BY KnownIs
<1>1. r \in CliState /\ r.ok = c.ok /\ r.next = c.next /\ r.opts = c.opts /\ ~r.ended /\ (c.words = <<>> => r.words = <<"resume">>)
  BY DEF PrefixedAs
<1>2. c1 \in CliState /\ r1 \in CliState
  BY <1>0, <1>1, CliScanIn
<1>3. Pending(r) = Pending(c)
  BY <1>1 DEF Pending
<1>4. CASE t.flag = "" /\ c.next = ""
  <2>1. c1 = [c EXCEPT !.words = Append(@, t.val)] /\ r1 = [r EXCEPT !.words = Append(@, t.val)]
    BY <1>1, <1>4 DEF CliScan, IsFlag
  <2>2. c.words \in Seq(Values)
    BY DEF CliState
  <2>3. Append(c.words, t.val) # <<>>
    BY <1>0, <2>2
  <2>4. c1.words # <<>> /\ c1.ok = c.ok /\ c1.next = c.next /\ c1.opts = c.opts
    BY <2>1, <2>3 DEF CliState
  <2>5. r1.ok = r.ok /\ r1.next = r.next /\ r1.opts = r.opts /\ ~r1.ended
    BY <1>1, <2>1 DEF CliState
  <2> QED BY <1>1, <1>2, <2>4, <2>5 DEF PrefixedAs
<1>5. CASE t.flag = "" /\ c.next # ""
  <2>1. /\ c1 = [c EXCEPT !.opts = Append(@, <<c.next, t.val>>), !.next = ""]
        /\ r1 = [r EXCEPT !.opts = Append(@, <<r.next, t.val>>), !.next = ""]
    BY <1>1, <1>5 DEF CliScan, IsFlag
  <2>2. c1.words = c.words /\ c1.ok = c.ok /\ c1.next = "" /\ c1.opts = Append(c.opts, <<c.next, t.val>>)
    BY <2>1 DEF CliState
  <2>3. r1.words = r.words /\ r1.ok = r.ok /\ r1.next = "" /\ r1.opts = Append(r.opts, <<r.next, t.val>>) /\ ~r1.ended
    BY <1>1, <2>1 DEF CliState
  <2> QED BY <1>1, <1>2, <2>2, <2>3 DEF PrefixedAs
<1>6. CASE t.flag # "" /\ c.next \in TakesValue(kind)
  <2>1. c1 = [c EXCEPT !.ok = FALSE] /\ r1 = [r EXCEPT !.ok = FALSE]
    BY <1>1, <1>6 DEF CliScan, IsFlag
  <2>2. c1.words = c.words /\ ~c1.ok /\ c1.next = c.next /\ c1.opts = c.opts
    BY <2>1 DEF CliState
  <2>3. r1.words = r.words /\ ~r1.ok /\ r1.next = r.next /\ r1.opts = r.opts /\ ~r1.ended
    BY <1>1, <2>1 DEF CliState
  <2> QED BY <1>1, <1>2, <2>2, <2>3 DEF PrefixedAs, CliState
<1>7. CASE t.flag # "" /\ c.next \notin TakesValue(kind) /\ Waits(kind, t)
  <2>1. c1 = [c EXCEPT !.opts = Pending(c), !.next = t.flag] /\ r1 = [r EXCEPT !.opts = Pending(r), !.next = t.flag]
    BY <1>0, <1>1, <1>7 DEF CliScan, IsFlag, Waits
  <2>2. c1.words = c.words /\ c1.ok = c.ok /\ c1.next = t.flag /\ c1.opts = Pending(c)
    BY <2>1 DEF CliState
  <2>3. r1.words = r.words /\ r1.ok = r.ok /\ r1.next = t.flag /\ r1.opts = Pending(r) /\ ~r1.ended
    BY <1>1, <2>1 DEF CliState
  <2> QED BY <1>1, <1>2, <1>3, <2>2, <2>3 DEF PrefixedAs
<1>8. CASE t.flag # "" /\ c.next \notin TakesValue(kind) /\ ~Waits(kind, t)
  <2>1. /\ c1 = [c EXCEPT !.opts = Append(Pending(c), <<t.flag, t.val>>), !.next = ""]
        /\ r1 = [r EXCEPT !.opts = Append(Pending(r), <<t.flag, t.val>>), !.next = ""]
    BY <1>0, <1>1, <1>8 DEF CliScan, IsFlag, Waits
  <2>2. c1.words = c.words /\ c1.ok = c.ok /\ c1.next = "" /\ c1.opts = Append(Pending(c), <<t.flag, t.val>>)
    BY <2>1 DEF CliState
  <2>3. r1.words = r.words /\ r1.ok = r.ok /\ r1.next = "" /\ r1.opts = Append(Pending(r), <<t.flag, t.val>>) /\ ~r1.ended
    BY <1>1, <2>1 DEF CliState
  <2> QED BY <1>1, <1>2, <1>3, <2>2, <2>3 DEF PrefixedAs
<1> QED BY <1>4, <1>5, <1>6, <1>7, <1>8

LEMMA Prefixed ==
  ASSUME NEW q \in Seq(Known("codex"))
  PROVE  /\ <<Word("resume")>> \o q \in Seq(Known("codex"))
         /\ PrefixedAs(CliScanned("codex", q), CliScanned("codex", <<Word("resume")>> \o q))
<1> DEFINE w == Word("resume")
           Ok(x) == <<w>> \o x \in Seq(Known("codex")) /\ PrefixedAs(CliScanned("codex", x), CliScanned("codex", <<w>> \o x))
           P == {x \in Seq(Known("codex")) : Ok(x)}
<1>1. <<>> \in Seq(Known("codex")) /\ w \in Known("codex") /\ w.flag = "" /\ w.val = "resume"
  <2>1. w \in Known("codex")
    BY KnownTails DEF Kinds
  <2> QED BY <2>1, EmptySeq DEF Word
<1>2. <<>> \in P
  <2>1. <<w>> \o <<>> = Append(<<>>, w)
    BY <1>1, ConcatNone, Zenon
  <2>2. CliScanned("codex", <<>>) = CliAtFirst /\ CliAtFirst \in CliState
    BY CliScannedEmpty, CliStepIn
  <2>3. CliAtFirst.ok /\ ~CliAtFirst.ended /\ CliAtFirst.next = "" /\ CliAtFirst.opts = <<>> /\ CliAtFirst.words = <<>>
    BY DEF CliAtFirst
  <2>4. /\ Append(<<>>, w) \in Seq(Known("codex"))
        /\ CliScanned("codex", Append(<<>>, w)) = CliScan("codex", CliAtFirst, w)
    <3> HIDE DEF w
    <3> QED BY <1>1, <2>2, CliAppend
  <2>5. AfterWord(CliAtFirst, w, CliScan("codex", CliAtFirst, w))
    BY <1>1, <2>2, <2>3, CliWord
  <2>6. Append(<<>>, "resume") = <<"resume">>
    OBVIOUS
  <2>7. PrefixedAs(CliAtFirst, CliScan("codex", CliAtFirst, w))
    BY <1>1, <2>2, <2>3, <2>5, <2>6 DEF PrefixedAs, AfterWord
  <2> QED BY <1>1, <2>1, <2>2, <2>4, <2>7
<1>3. ASSUME NEW x \in Seq(Known("codex")), NEW t \in Known("codex"), x \in P PROVE Append(x, t) \in P
  <2> DEFINE y == <<w>> \o x
  <2>1. y \in Seq(Known("codex")) /\ PrefixedAs(CliScanned("codex", x), CliScanned("codex", y))
    BY <1>3
  <2>2. <<w>> \o Append(x, t) = Append(y, t)
    <3> HIDE DEF w
    <3>1. Before(w, x, t)
      BY <1>1, BeforeAppend
    <3> QED BY <3>1, Zenon DEF Before
  <2> HIDE DEF y
  <2>3. /\ Append(y, t) \in Seq(Known("codex")) /\ Append(x, t) \in Seq(Known("codex"))
        /\ CliScanned("codex", Append(y, t)) = CliScan("codex", CliScanned("codex", y), t)
        /\ CliScanned("codex", Append(x, t)) = CliScan("codex", CliScanned("codex", x), t)
    BY <2>1, CliAppend
  <2>4. CliScanned("codex", x) \in CliState /\ ~CliScanned("codex", x).ended
    BY CliIs
  <2>5. PrefixedAs(CliScanned("codex", Append(x, t)), CliScanned("codex", Append(y, t)))
    BY <2>1, <2>3, <2>4, PrefixStep
  <2>6. <<w>> \o Append(x, t) \in Seq(Known("codex"))
        /\ PrefixedAs(CliScanned("codex", Append(x, t)), CliScanned("codex", <<w>> \o Append(x, t)))
    BY <2>2, <2>3, <2>5
  <2> QED BY <2>3, <2>6
<1>4. Seq(Known("codex")) \subseteq P
  <2> HIDE DEF P
  <2>1. \A x \in Seq(Known("codex")), t \in Known("codex") : x \in P => Append(x, t) \in P
    BY <1>3
  <2> QED BY <1>2, <2>1, ByAppending, Zenon
<1> QED BY <1>4

LEMMA CodexById ==
  ASSUME NEW q \in Seq(Known("codex")), NEW options, Clean("codex", CliScanned("codex", q), options), NEW id \in {"s0", "s1"}
  PROVE  Taken("codex", <<Word("resume")>> \o q \o <<Word(id)>>, options, <<"resume", id>>)
<1> DEFINE w == Word(id)
           y == <<Word("resume")>> \o q
           e == CliScanned("codex", y)
           r == CliScan("codex", e, w)
<1>1. w \in Known("codex") /\ w.flag = "" /\ w.val = id
  BY KnownTails DEF Word, Kinds
<1>2. y \in Seq(Known("codex")) /\ PrefixedAs(CliScanned("codex", q), e)
  BY Prefixed
<1>3. e \in CliState /\ e.ok /\ ~e.ended /\ e.next = "" /\ Opts(e.opts) = options /\ e.words = <<"resume">>
  BY <1>2 DEF PrefixedAs, Clean, Pending
<1> HIDE DEF w, y, e
<1>4. y \o <<w>> = Append(y, w)
  BY <1>1, <1>2, ConcatOne
<1>5. Append(y, w) \in Seq(Known("codex")) /\ CliScanned("codex", Append(y, w)) = r
  BY <1>1, <1>2, CliAppend DEF e
<1>6. AfterWord(e, w, r)
  BY <1>1, <1>3, CliWord
<1>7. Append(<<"resume">>, id) = <<"resume", id>>
  BY AppendOne
<1>8. r \in CliState /\ r.ok /\ r.next = "" /\ r.opts = e.opts /\ r.words = <<"resume", id>>
  BY <1>1, <1>3, <1>6, <1>7 DEF AfterWord
<1>9. "" \notin TakesValue("codex")
  BY DEF TakesValue
<1> HIDE DEF r
<1>10. /\ Cli("codex", Append(y, w)).ok /\ Cli("codex", Append(y, w)).opts = r.opts
       /\ Cli("codex", Append(y, w)).words = <<"resume", id>>
  BY <1>5, <1>8, <1>9, CliIs DEF Pending
<1>11. r.opts \in Seq(Pair)
  BY <1>8 DEF CliState
<1>12. Taken("codex", Append(y, w), options, <<"resume", id>>)
  BY <1>3, <1>5, <1>8, <1>10, <1>11 DEF Taken
<1> QED BY <1>4, <1>12 DEF y, w

LEMMA CodexLast ==
  ASSUME NEW q \in Seq(Known("codex")), NEW options, Clean("codex", CliScanned("codex", q), options)
  PROVE  Taken("codex", <<Word("resume")>> \o q \o <<Flag("--last")>>, options \cup {<<"--last", "">>}, <<"resume">>)
<1> DEFINE f == Flag("--last")
           y == <<Word("resume")>> \o q
           e == CliScanned("codex", y)
           r == CliScan("codex", e, f)
<1>1. f \in Known("codex") /\ f.flag = "--last" /\ f.val = ""
  BY KnownTails DEF Flag, Kinds
<1>2. y \in Seq(Known("codex")) /\ PrefixedAs(CliScanned("codex", q), e)
  BY Prefixed
<1>3. /\ e \in CliState /\ e.ok /\ ~e.ended /\ e.next = "" /\ Opts(Pending(e)) = options /\ e.words = <<"resume">>
      /\ e.next \notin TakesValue("codex")
  BY <1>2 DEF PrefixedAs, Clean, Pending, TakesValue
<1> HIDE DEF f, y, e
<1>4. y \o <<f>> = Append(y, f)
  BY <1>1, <1>2, ConcatOne
<1>5. Append(y, f) \in Seq(Known("codex")) /\ CliScanned("codex", Append(y, f)) = r
  BY <1>1, <1>2, CliAppend DEF e
<1>6. AfterFlag("codex", e, f, r)
  BY <1>1, <1>3, CliFlag
<1>7. ~Waits("codex", f)
  BY <1>1 DEF Waits, MayTakeValue, TakesValue
<1>8. r \in CliState /\ r.ok /\ r.next = "" /\ Opts(r.opts) = options \cup {<<"--last", "">>} /\ r.words = <<"resume">>
  BY <1>1, <1>3, <1>6, <1>7 DEF AfterFlag
<1>9. "" \notin TakesValue("codex")
  BY DEF TakesValue
<1> HIDE DEF r
<1>10. /\ Cli("codex", Append(y, f)).ok /\ Cli("codex", Append(y, f)).opts = r.opts
       /\ Cli("codex", Append(y, f)).words = <<"resume">>
  BY <1>5, <1>8, <1>9, CliIs DEF Pending
<1>11. r.opts \in Seq(Pair)
  BY <1>8 DEF CliState
<1>12. Taken("codex", Append(y, f), options \cup {<<"--last", "">>}, <<"resume">>)
  BY <1>5, <1>8, <1>10, <1>11 DEF Taken
<1> QED BY <1>4, <1>12 DEF y, f

-----------------------------------------------------------------------------
(* What options there are says what agent it is. *)

LEMMA OptsOfCli ==
  ASSUME NEW kind, NEW a \in Seq(Known(kind))
  PROVE  Cli(kind, a).opts \in Seq(Pair)
BY CliIs, PendingIn

LEMMA GivenIs ==
  ASSUME NEW cli, NEW name
  PROVE  Given(cli, name) <=> \E p \in Opts(cli.opts) : p[1] = name
  BY DEF Given, Opts

LEMMA HighestIs ==
  ASSUME NEW N \in Nat, NEW S \in SUBSET (1..N), S # {}
  PROVE  \E m \in S : \A k \in S : k <= m
<1> DEFINE R == {N - k : k \in S}
<1>1. R \in SUBSET Nat /\ R # {}
  <2>1. \A k \in S : N - k \in Nat
    OBVIOUS
  <2>2. PICK k \in S : TRUE
    OBVIOUS
  <2>3. N - k \in R
    OBVIOUS
  <2> QED BY <2>1, <2>3
<1>2. Lowest(R) \in R /\ \A q \in R : Lowest(R) <= q
  <2> HIDE DEF R
  <2> QED BY <1>1, LowestIs
<1>3. PICK m \in S : N - m = Lowest(R)
  BY <1>2
<1>4. ASSUME NEW k \in S PROVE k <= m
  <2>1. N - k \in R
    OBVIOUS
  <2>2. N - m <= N - k
    BY <1>2, <1>3, <2>1
  <2> QED BY <2>2
<1> QED BY <1>4

(* Of several options of one name the last counts; there is one.           *)
LEMMA OptionIs ==
  ASSUME NEW cli, cli.opts \in Seq(Pair), Single(Opts(cli.opts)), NEW p \in Opts(cli.opts), NEW default
  PROVE  Option(cli, p[1], default) = p[2]
<1> DEFINE o == cli.opts
           At(m) == o[m][1] = p[1] /\ \A k \in DOMAIN o : o[k][1] = p[1] => k <= m
           n == CHOOSE m \in DOMAIN o : At(m)
<1>0. Len(o) \in Nat /\ DOMAIN o = 1..Len(o)
  BY LenProperties
<1>1. \E m \in DOMAIN o : At(m)
  <2> DEFINE S == {m \in DOMAIN o : o[m][1] = p[1]}
  <2>1. S \in SUBSET (1..Len(o)) /\ S # {}
    BY <1>0 DEF Opts
  <2>2. \E m \in S : \A k \in S : k <= m
    <3> HIDE DEF S
    <3> QED BY <1>0, <2>1, HighestIs
  <2> QED BY <2>2
<1>2. n \in DOMAIN o /\ o[n][1] = p[1]
  BY <1>1
<1>3. o[n] = p
  BY <1>2 DEF Opts, Single
<1>4. Given(cli, p[1])
  BY <1>2 DEF Given
<1>5. Option(cli, p[1], default) = o[n][2]
  BY <1>4, Zenon DEF Option
<1> QED BY <1>3, <1>5

Single1(cli) == cli.opts \in Seq(Pair) /\ Single(Opts(cli.opts))

(* Where the options that select no conversation are the same, what they   *)
(* say is.                                                                 *)
SameOption(cli, other, name, default) ==
  (Given(cli, name) <=> Given(other, name)) /\ Option(cli, name, default) = Option(other, name, default)

LEMMA SameOptionIs ==
  ASSUME NEW cli, Single1(cli), NEW other, Single1(other), Kept(Opts(cli.opts)) = Kept(Opts(other.opts)),
         NEW name, name \notin Selecting, NEW default
  PROVE  SameOption(cli, other, name, default)
<1>1. \A p : p[1] = name => (p \in Opts(cli.opts) <=> p \in Opts(other.opts))
  BY DEF Kept
<1>2. Given(cli, name) <=> Given(other, name)
  BY <1>1, GivenIs
<1>3. CASE ~Given(cli, name)
  BY <1>2, <1>3 DEF SameOption, Option
<1>4. CASE Given(cli, name)
  <2>1. PICK p \in Opts(cli.opts) : p[1] = name
    BY <1>4, GivenIs
  <2>2. p \in Opts(other.opts)
    BY <1>1, <2>1
  <2>3. Option(cli, name, default) = p[2] /\ Option(other, name, default) = p[2]
    BY <2>1, <2>2, OptionIs DEF Single1
  <2> QED BY <1>2, <2>3 DEF SameOption
<1> QED BY <1>3, <1>4

LEMMA EffectiveByKept ==
  ASSUME NEW kind, NEW a, NEW b, Single1(Cli(kind, a)), Single1(Cli(kind, b)),
         Kept(Opts(Cli(kind, a).opts)) = Kept(Opts(Cli(kind, b).opts)), NEW env, NEW d
  PROVE  Effective(kind, a, env, d) = Effective(kind, b, env, d)
<1> DEFINE ask == IF kind = "codex" THEN "-c" ELSE "--permission-mode"
           settings == Defaults[InForce(kind, env.dir, d)]
           model == IF kind = "claude" /\ env.model # "" THEN env.model ELSE settings.model
<1>1. /\ "--dangerously-skip-permissions" \notin Selecting /\ ask \notin Selecting /\ "--model" \notin Selecting
  BY DEF Selecting
<1> HIDE DEF ask, settings, model
<1>2. /\ SameOption(Cli(kind, a), Cli(kind, b), "--dangerously-skip-permissions", "")
      /\ SameOption(Cli(kind, a), Cli(kind, b), ask, settings.mode)
      /\ SameOption(Cli(kind, a), Cli(kind, b), "--model", model)
  BY <1>1, SameOptionIs
<1> QED BY <1>2 DEF SameOption, Effective, ask, settings, model

LEMMA KeptOptionsAre ==
  ASSUME NEW kind, NEW a, Fit(kind, a)
  PROVE  KeptOptions(kind, a) = Kept(Opts(Cli(kind, a).opts))
<1> DEFINE o == Opts(Cli(kind, a).opts)
<1>1. o \subseteq Pair
  BY OptsOfCli, OptsIn DEF Fit
<1> DEFINE seen == {"", "s0", "s1", "task"}
<1>2. \A p \in o : p[1] \in Selecting => p[2] \in seen
  BY DEF Fit
<1>3. KeptOptions(kind, a) = o \ (Selecting \X seen)
  BY DEF KeptOptions, Opts, Selecting
<1> HIDE DEF o, seen
<1>4. \A p \in o : p \in Selecting \X seen <=> p[1] \in Selecting
  BY <1>1, <1>2 DEF Pair
<1>5. o \ (Selecting \X seen) = Kept(o)
  BY <1>4 DEF Kept
<1> QED BY <1>3, <1>5 DEF o

-----------------------------------------------------------------------------
(* What a resumed agent is started with, and what it then opens. *)

ResumeOf(kind, mux, id, a) == IF mux = "herdr" THEN ResumeArgv(kind, id, a) ELSE ContinueArgv(kind, a)

StartOf(kind, mux, id, a) ==
  IF ResumeOf(kind, mux, id, a) = None THEN CarriedFlags(kind, a) ELSE ResumeOf(kind, mux, id, a)

Selects(kind, mux, id) ==
  IF kind = "codex" THEN IF mux = "herdr" THEN {} ELSE {<<"--last", "">>}
  ELSE IF mux = "herdr" THEN {<<"--resume", id>>} ELSE {<<"--continue", "">>}

Speaks(kind, mux, id) ==
  IF kind = "codex" THEN IF mux = "herdr" THEN <<"resume", id>> ELSE <<"resume">> ELSE <<>>

LEMMA NoneIsNoCommand ==
  ASSUME NEW kind
  PROVE  None \notin Seq(Known(kind))
<1> DEFINE w == Word("none")
<1>0. w.val = "none"
  BY DEF Word
<1>1. None[1].val = "none" /\ 1 \in 1..Len(None)
  <2>1. None = <<w>>
    BY DEF None
  <2> HIDE DEF w
  <2>2. <<w>>[1] = w /\ Len(<<w>>) = 1
    OBVIOUS
  <2> QED BY <1>0, <2>1, <2>2
<1>2. \A t \in Known(kind) : t.val # "none"
  BY KnownIs DEF Values
<1> SUFFICES ASSUME None \in Seq(Known(kind)) PROVE FALSE
  OBVIOUS
<1>3. None[1] \in Known(kind)
  BY <1>1, ElementOfSeq
<1> QED BY <1>1, <1>2, <1>3

LEMMA ResumeOfIs ==
  ASSUME NEW kind \in Kinds, NEW mux \in {"herdr", "tmux"}, NEW id \in {"s0", "s1"},
         NEW a \in Seq(Known(kind)), Cli(kind, a).ok, kind = "hermes" => mux = "herdr"
  PROVE  Taken(kind, ResumeOf(kind, mux, id, a), Carry(kind, a) \cup Selects(kind, mux, id), Speaks(kind, mux, id))
<1> DEFINE q == CarriedFlags(kind, a)
           carried == Carry(kind, a)
<1>1. q \in Seq(Known(kind)) /\ Clean(kind, CliScanned(kind, q), carried)
  BY CarriedFlagsAre
<1>2. CASE kind = "codex" /\ mux = "herdr"
  <2>1. ResumeOf(kind, mux, id, a) = <<Word("resume")>> \o q \o <<Word(id)>>
    BY <1>2 DEF ResumeOf, ResumeArgv
  <2>2. Selects(kind, mux, id) = {} /\ Speaks(kind, mux, id) = <<"resume", id>>
    BY <1>2 DEF Selects, Speaks
  <2>3. carried \cup {} = carried
    OBVIOUS
  <2> HIDE DEF q, carried
  <2>4. Taken(kind, <<Word("resume")>> \o q \o <<Word(id)>>, carried, <<"resume", id>>)
    BY <1>1, <1>2, CodexById
  <2> QED BY <2>1, <2>2, <2>3, <2>4 DEF carried
<1>3. CASE kind = "codex" /\ mux = "tmux"
  <2>1. ResumeOf(kind, mux, id, a) = <<Word("resume")>> \o q \o <<Flag("--last")>>
    BY <1>3 DEF ResumeOf, ContinueArgv
  <2>2. Selects(kind, mux, id) = {<<"--last", "">>} /\ Speaks(kind, mux, id) = <<"resume">>
    BY <1>3 DEF Selects, Speaks
  <2> HIDE DEF q, carried
  <2>3. Taken(kind, <<Word("resume")>> \o q \o <<Flag("--last")>>, carried \cup {<<"--last", "">>}, <<"resume">>)
    BY <1>1, <1>3, CodexLast
  <2> QED BY <2>1, <2>2, <2>3 DEF carried
<1>4. CASE kind # "codex" /\ mux = "herdr"
  <2>1. ResumeOf(kind, mux, id, a) = q \o <<Flag("--resume"), Word(id)>>
    BY <1>4 DEF ResumeOf, ResumeArgv
  <2>2. Selects(kind, mux, id) = {<<"--resume", id>>} /\ Speaks(kind, mux, id) = <<>>
    BY <1>4 DEF Selects, Speaks
  <2> HIDE DEF q, carried
  <2>3. Taken(kind, q \o <<Flag("--resume"), Word(id)>>, carried \cup {<<"--resume", id>>}, <<>>)
    BY <1>1, <1>4, ResumedById
  <2> QED BY <2>1, <2>2, <2>3 DEF carried
<1>5. CASE kind # "codex" /\ mux = "tmux"
  <2>0. kind \in {"claude", "grok"}
    BY <1>5 DEF Kinds
  <2>1. ResumeOf(kind, mux, id, a) = q \o <<Flag("--continue")>>
    BY <1>5, <2>0 DEF ResumeOf, ContinueArgv
  <2>2. Selects(kind, mux, id) = {<<"--continue", "">>} /\ Speaks(kind, mux, id) = <<>>
    BY <1>5 DEF Selects, Speaks
  <2> HIDE DEF q, carried
  <2>3. Taken(kind, q \o <<Flag("--continue")>>, carried \cup {<<"--continue", "">>}, <<>>)
    BY <1>1, <2>0, Continued
  <2> QED BY <2>1, <2>2, <2>3 DEF carried
<1> QED BY <1>2, <1>3, <1>4, <1>5

(* The conversations named on a command line. *)
ById(kind, cli) ==
  (IF Given(cli, "--resume") THEN {Option(cli, "--resume", "")} ELSE {})
  \cup (IF Given(cli, "--session-id") THEN {Option(cli, "--session-id", "")} ELSE {})
  \cup (IF Subcommand(kind, cli) /\ Len(cli.words) > 1 THEN {cli.words[2]} ELSE {})

Latest(cli) == IF Given(cli, "--continue") \/ Given(cli, "--last") THEN {"latest"} ELSE {}

LEMMA OpensOne ==
  ASSUME NEW kind, NEW cli, NEW s, ById(kind, cli) \cup Latest(cli) = {s}
  PROVE  Opens(kind, cli) = s
<1> DEFINE named == ById(kind, cli) \cup Latest(cli)
<1>1. Opens(kind, cli) = IF named = {} THEN IF Subcommand(kind, cli) THEN "ask" ELSE "new"
                         ELSE IF \E x \in named : named = {x} THEN CHOOSE x \in named : TRUE ELSE "odd"
  BY Zenon DEF Opens, ById, Latest
<1>2. named = {s}
  OBVIOUS
<1> HIDE DEF named
<1>3. (CHOOSE x \in named : TRUE) \in named /\ named # {} /\ \E x \in named : named = {x}
  BY <1>2
<1> QED BY <1>1, <1>2, <1>3

(* Nothing that is carried selects or prompts. *)
SelectsOnly(cli, selects) ==
  /\ \A name \in Selecting : Given(cli, name) <=> \E p \in selects : p[1] = name
  /\ \A p \in selects : Option(cli, p[1], "") = p[2]

LEMMA SelectsOnlyIs ==
  ASSUME NEW cli, Single1(cli), NEW carried, NEW selects, Kept(carried) = carried, Opts(cli.opts) = carried \cup selects
  PROVE  SelectsOnly(cli, selects)
<1>1. \A p \in carried : p[1] \notin Selecting
  BY DEF Kept
<1>2. \A name \in Selecting : Given(cli, name) <=> \E p \in selects : p[1] = name
  <2> SUFFICES ASSUME NEW name \in Selecting PROVE Given(cli, name) <=> \E p \in selects : p[1] = name
    OBVIOUS
  <2>1. Given(cli, name) <=> \E p \in Opts(cli.opts) : p[1] = name
    BY GivenIs
  <2> QED BY <1>1, <2>1
<1>3. ASSUME NEW p \in selects PROVE Option(cli, p[1], "") = p[2]
  <2>1. p \in Opts(cli.opts)
    BY <1>3
  <2> QED BY <2>1, OptionIs DEF Single1
<1> QED BY <1>2, <1>3 DEF SelectsOnly

SelectsOne(cli, name, value) ==
  Option(cli, name, "") = value /\ \A other \in Selecting : Given(cli, other) <=> other = name

LEMMA SelectsOneIs ==
  ASSUME NEW cli, NEW name, NEW value, SelectsOnly(cli, {<<name, value>>})
  PROVE  SelectsOne(cli, name, value)
<1> DEFINE p == <<name, value>>
<1>1. p[1] = name /\ p[2] = value
  OBVIOUS
<1> HIDE DEF p
<1>2. /\ \A other \in Selecting : Given(cli, other) <=> \E q \in {p} : q[1] = other
      /\ \A q \in {p} : Option(cli, q[1], "") = q[2]
  BY DEF SelectsOnly, p
<1>3. \A other \in Selecting : Given(cli, other) <=> other = name
  BY <1>1, <1>2
<1>4. Option(cli, name, "") = value
  BY <1>1, <1>2
<1> QED BY <1>3, <1>4 DEF SelectsOne

LEMMA OneWord ==
  ASSUME NEW x
  PROVE  Len(<<x>>) = 1 /\ DOMAIN <<x>> \ 1..2 = {} /\ Head(<<x>>) = x /\ <<x>> # <<>>
<1>1. Len(<<x>>) = 1 /\ DOMAIN <<x>> = 1..1 /\ <<x>>[1] = x
  OBVIOUS
<1>2. (1..1) \ 1..2 = {} /\ Len(<<>>) = 0 /\ Head(<<x>>) = x
  OBVIOUS
<1>3. <<x>> # <<>>
  OBVIOUS
<1> QED BY <1>1, <1>2, <1>3

LEMMA TwoWords ==
  ASSUME NEW x, NEW y
  PROVE  Len(<<x, y>>) = 2 /\ DOMAIN <<x, y>> \ 1..2 = {} /\ Head(<<x, y>>) = x /\ <<x, y>> # <<>> /\ <<x, y>>[2] = y
<1>1. Len(<<x, y>>) = 2 /\ DOMAIN <<x, y>> = 1..2 /\ <<x, y>>[1] = x /\ <<x, y>>[2] = y
  OBVIOUS
<1>2. Head(<<x, y>>) = x
  OBVIOUS
<1>3. <<x, y>> # <<>>
  OBVIOUS
<1> QED BY <1>1, <1>2, <1>3

Reached(kind, mux, id, cli) ==
  Opens(kind, cli) = (IF mux = "herdr" THEN id ELSE "latest") /\ Prompts(kind, cli) = {}

LEMMA ReachedIs ==
  ASSUME NEW kind \in Kinds, NEW mux \in {"herdr", "tmux"}, NEW id \in {"s0", "s1"}, NEW cli,
         SelectsOnly(cli, Selects(kind, mux, id)), cli.words = Speaks(kind, mux, id)
  PROVE  Reached(kind, mux, id, cli)
<1>0. {"--resume", "--session-id", "--continue", "--last", "-p"} \subseteq Selecting
  BY DEF Selecting
<1>1. CASE kind = "codex" /\ mux = "herdr"
  <2>1. Selects(kind, mux, id) = {} /\ cli.words = <<"resume", id>>
    BY <1>1 DEF Selects, Speaks
  <2>2. \A name \in Selecting : ~Given(cli, name)
    BY <2>1 DEF SelectsOnly
  <2>3. ~Given(cli, "--resume") /\ ~Given(cli, "--session-id") /\ ~Given(cli, "--continue") /\ ~Given(cli, "--last")
        /\ ~Given(cli, "-p")
    BY <1>0, <2>2
  <2>4. Subcommand(kind, cli) /\ Len(cli.words) = 2 /\ cli.words[2] = id /\ DOMAIN cli.words \ 1..2 = {}
    <3> DEFINE w == <<"resume", id>>
    <3>1. Len(w) = 2 /\ DOMAIN w \ 1..2 = {} /\ Head(w) = "resume" /\ w # <<>> /\ w[2] = id
      BY TwoWords
    <3>2. cli.words = w
      BY <2>1
    <3> HIDE DEF w
    <3> QED BY <1>1, <3>1, <3>2 DEF Subcommand
  <2>5. ById(kind, cli) \cup Latest(cli) = {id}
    BY <2>3, <2>4 DEF ById, Latest
  <2>6. Opens(kind, cli) = id
    BY <2>5, OpensOne
  <2>7. Prompts(kind, cli) = {}
    BY <2>3, <2>4 DEF Prompts
  <2> QED BY <1>1, <2>6, <2>7 DEF Reached
<1>2. CASE kind = "codex" /\ mux = "tmux"
  <2>1. Selects(kind, mux, id) = {<<"--last", "">>} /\ cli.words = <<"resume">>
    BY <1>2 DEF Selects, Speaks
  <2>2. \A name \in Selecting : Given(cli, name) <=> name = "--last"
    BY <2>1, SelectsOneIs DEF SelectsOne
  <2>3. ~Given(cli, "--resume") /\ ~Given(cli, "--session-id") /\ ~Given(cli, "--continue") /\ Given(cli, "--last")
        /\ ~Given(cli, "-p")
    BY <1>0, <2>2
  <2>4. Subcommand(kind, cli) /\ Len(cli.words) = 1 /\ DOMAIN cli.words \ 1..2 = {}
    <3> DEFINE w == <<"resume">>
    <3>1. Len(w) = 1 /\ DOMAIN w \ 1..2 = {} /\ Head(w) = "resume" /\ w # <<>>
      BY OneWord
    <3>2. cli.words = w
      BY <2>1
    <3> HIDE DEF w
    <3> QED BY <1>2, <3>1, <3>2 DEF Subcommand
  <2>5. ById(kind, cli) \cup Latest(cli) = {"latest"}
    BY <2>3, <2>4 DEF ById, Latest
  <2>6. Opens(kind, cli) = "latest"
    BY <2>5, OpensOne
  <2>7. Prompts(kind, cli) = {}
    BY <2>3, <2>4 DEF Prompts
  <2> QED BY <1>2, <2>6, <2>7 DEF Reached
<1>3. CASE kind # "codex"
  <2>1. cli.words = <<>> /\ ~Subcommand(kind, cli) /\ DOMAIN cli.words = {}
    BY <1>3 DEF Speaks, Subcommand
  <2>2. CASE mux = "herdr"
    <3>1. Selects(kind, mux, id) = {<<"--resume", id>>}
      BY <1>3, <2>2 DEF Selects
    <3>2. \A name \in Selecting : Given(cli, name) <=> name = "--resume"
      BY <3>1, SelectsOneIs DEF SelectsOne
    <3>3. Option(cli, "--resume", "") = id
      <4>1. SelectsOnly(cli, {<<"--resume", id>>})
        BY <3>1
      <4>2. SelectsOne(cli, "--resume", id)
        BY <4>1, SelectsOneIs
      <4> QED BY <4>2 DEF SelectsOne
    <3>4. Given(cli, "--resume") /\ ~Given(cli, "--session-id") /\ ~Given(cli, "--continue") /\ ~Given(cli, "--last")
          /\ ~Given(cli, "-p")
      BY <1>0, <3>2
    <3>5. ById(kind, cli) \cup Latest(cli) = {id}
      BY <2>1, <3>3, <3>4 DEF ById, Latest
    <3>6. Opens(kind, cli) = id
      BY <3>5, OpensOne
    <3>7. Prompts(kind, cli) = {}
      BY <2>1, <3>4 DEF Prompts
    <3> QED BY <2>2, <3>6, <3>7 DEF Reached
  <2>3. CASE mux = "tmux"
    <3>1. Selects(kind, mux, id) = {<<"--continue", "">>}
      BY <1>3, <2>3 DEF Selects
    <3>2. \A name \in Selecting : Given(cli, name) <=> name = "--continue"
      BY <3>1, SelectsOneIs DEF SelectsOne
    <3>4. ~Given(cli, "--resume") /\ ~Given(cli, "--session-id") /\ Given(cli, "--continue") /\ ~Given(cli, "--last")
          /\ ~Given(cli, "-p")
      BY <1>0, <3>2
    <3>5. ById(kind, cli) \cup Latest(cli) = {"latest"}
      BY <2>1, <3>4 DEF ById, Latest
    <3>6. Opens(kind, cli) = "latest"
      BY <3>5, OpensOne
    <3>7. Prompts(kind, cli) = {}
      BY <2>1, <3>4 DEF Prompts
    <3> QED BY <2>3, <3>6, <3>7 DEF Reached
  <2> QED BY <2>2, <2>3
<1> QED BY <1>1, <1>2, <1>3

LEMMA KeptTwice ==
  ASSUME NEW options
  PROVE  Kept(Kept(options)) = Kept(options)
  BY DEF Kept

LEMMA CarryIs ==
  ASSUME NEW kind, NEW a \in Seq(Known(kind)), Single(Opts(Cli(kind, a).opts))
  PROVE  Kept(Carry(kind, a)) = Carry(kind, a) /\ Single(Carry(kind, a)) /\ Carry(kind, a) \subseteq Pair
<1>1. Opts(Cli(kind, a).opts) \subseteq Pair
  BY OptsOfCli, OptsIn
<1>2. CASE kind \in Tables
  <2>1. Carry(kind, a) = Kept(Opts(Cli(kind, a).opts))
    BY <1>2 DEF Carry
  <2>2. Carry(kind, a) \subseteq Opts(Cli(kind, a).opts)
    BY <2>1 DEF Kept
  <2> QED BY <1>1, <2>1, <2>2, KeptTwice DEF Single
<1>3. CASE kind \notin Tables
  BY <1>3, KeptNone DEF Carry, Single
<1> QED BY <1>2, <1>3

(* What selects is one option at most, with a value of its kind.           *)
LEMMA SelectsIs ==
  ASSUME NEW kind, NEW mux, NEW id \in {"s0", "s1"}
  PROVE  /\ Kept(Selects(kind, mux, id)) = {}
         /\ \A p \in Selects(kind, mux, id) : p[1] \in Selecting /\ p[2] \in {"", "s0", "s1"}
         /\ \A p, q \in Selects(kind, mux, id) : p = q
<1> DEFINE S == Selects(kind, mux, id)
           options == {<<"--last", "">>, <<"--resume", id>>, <<"--continue", "">>}
<1>1. S = {} \/ \E p \in options : S = {p}
  BY DEF Selects
<1>2. \A p \in options : p[1] \in Selecting /\ p[2] \in {"", "s0", "s1"}
  <2> SUFFICES ASSUME NEW p \in options PROVE p[1] \in Selecting /\ p[2] \in {"", "s0", "s1"}
    OBVIOUS
  <2>1. CASE p = <<"--last", "">>
    <3>1. p[1] = "--last" /\ p[2] = ""
      BY <2>1
    <3> QED BY <3>1 DEF Selecting
  <2>2. CASE p = <<"--resume", id>>
    <3>1. p[1] = "--resume" /\ p[2] = id
      BY <2>2
    <3> QED BY <3>1 DEF Selecting
  <2>3. CASE p = <<"--continue", "">>
    <3>1. p[1] = "--continue" /\ p[2] = ""
      BY <2>3
    <3> QED BY <3>1 DEF Selecting
  <2> QED BY <2>1, <2>2, <2>3
<1> HIDE DEF S, options
<1>3. \A p \in S : p \in options
  BY <1>1
<1>4. \A p, q \in S : p = q
  BY <1>1
<1>5. Kept(S) = {}
  BY <1>2, <1>3 DEF Kept
<1> QED BY <1>2, <1>3, <1>4, <1>5 DEF S

StartsAs(kind, mux, id, a) ==
  LET s == StartOf(kind, mux, id, a)
  IN /\ Fit(kind, s) /\ Kept(Opts(Cli(kind, s).opts)) = Carry(kind, a)
     /\ ResumeOf(kind, mux, id, a) # None => Reached(kind, mux, id, Cli(kind, s))
     /\ Opened(kind, s, id) \in {"s0", "s1"} /\ (mux = "herdr" => Opened(kind, s, id) = id)

LEMMA TakenIsFit ==
  ASSUME NEW kind, NEW a, NEW carried, NEW selects, NEW words, Taken(kind, a, carried \cup selects, words),
         Kept(carried) = carried, Single(carried), Kept(selects) = {},
         \A p \in selects : p[1] \in Selecting /\ p[2] \in {"", "s0", "s1"}, \A p, q \in selects : p = q
  PROVE  Fit(kind, a) /\ Kept(Opts(Cli(kind, a).opts)) = carried
<1> DEFINE o == Opts(Cli(kind, a).opts)
<1>1. a \in Seq(Known(kind)) /\ Cli(kind, a).ok /\ o = carried \cup selects
  BY DEF Taken
<1> HIDE DEF o
<1>2. \A p \in carried : p[1] \notin Selecting
  BY DEF Kept
<1>3. Single(o)
  <2>1. \A p, q \in carried : p[1] = q[1] => p = q
    BY DEF Single
  <2> QED BY <1>1, <1>2, <2>1 DEF Single
<1>4. \A p \in o : p[1] \in Selecting => p[2] \in {"", "s0", "s1", "task"}
  BY <1>1, <1>2
<1>5. Kept(o) = carried
  <2>1. Kept(carried \cup selects) = Kept(carried) \cup Kept(selects)
    BY KeptUnion
  <2> QED BY <1>1, <2>1
<1> QED BY <1>1, <1>3, <1>4, <1>5 DEF Fit, o

LEMMA StartIs ==
  ASSUME NEW kind \in Kinds, NEW mux \in {"herdr", "tmux"}, NEW id \in {"s0", "s1"}, NEW a, Fit(kind, a)
  PROVE  StartsAs(kind, mux, id, a)
<1> DEFINE carried == Carry(kind, a)
           selects == Selects(kind, mux, id)
           words == Speaks(kind, mux, id)
           r == ResumeOf(kind, mux, id, a)
           s == StartOf(kind, mux, id, a)
           cli == Cli(kind, s)
<1>1. a \in Seq(Known(kind)) /\ Cli(kind, a).ok
  BY DEF Fit
<1>2. Kept(carried) = carried /\ Single(carried)
  BY <1>1, CarryIs DEF Fit
<1>3. CASE kind = "hermes" /\ mux = "tmux"
  <2>1. r = None
    BY <1>3 DEF ResumeOf, ContinueArgv
  <2>2. kind \notin Tables
    BY <1>3 DEF Tables
  <2>3. s = <<>> /\ carried = {}
    BY <2>1, <2>2, TablesAre DEF StartOf, CarriedFlags, Carry
  <2>4. CliScanned(kind, <<>>) = CliAtFirst
    BY CliScannedEmpty
  <2>5. CliAtFirst.ok /\ CliAtFirst.next = "" /\ CliAtFirst.opts = <<>> /\ CliAtFirst.words = <<>>
    BY DEF CliAtFirst
  <2>6. <<>> \in Seq(Known(kind)) /\ "" \notin TakesValue(kind)
    BY EmptySeq DEF TakesValue
  <2>7. cli.ok /\ cli.opts = <<>> /\ cli.words = <<>>
    BY <2>3, <2>4, <2>5, <2>6, CliIs DEF Pending
  <2>8. Opts(cli.opts) = {} /\ \A name : ~Given(cli, name)
    BY <2>7, OptsEmpty, GivenIs
  <2>9. Fit(kind, s) /\ Kept(Opts(cli.opts)) = carried
    BY <2>3, <2>6, <2>7, <2>8, KeptNone DEF Fit, Single
  <2>10. Opens(kind, cli) = "new"
    <3>1. ~Subcommand(kind, cli)
      BY <1>3 DEF Subcommand
    <3> HIDE DEF cli
    <3> QED BY <2>8, <3>1 DEF Opens
  <2>11. Opened(kind, s, id) = "s1"
    BY <2>10 DEF Opened
  <2> QED BY <1>3, <2>1, <2>9, <2>11 DEF StartsAs
<1>4. CASE ~(kind = "hermes" /\ mux = "tmux")
  <2> HIDE DEF carried, selects, words, r, s, cli
  <2>1. Taken(kind, r, carried \cup selects, words)
    BY <1>1, <1>4, ResumeOfIs DEF r, carried, selects, words
  <2>2. r \in Seq(Known(kind))
    BY <2>1 DEF Taken
  <2>3. s = r
    BY <2>2, NoneIsNoCommand DEF s, r, StartOf
  <2>4. /\ Kept(selects) = {} /\ (\A p \in selects : p[1] \in Selecting /\ p[2] \in {"", "s0", "s1"})
        /\ \A p, q \in selects : p = q
    BY SelectsIs DEF selects
  <2>5. Fit(kind, s) /\ Kept(Opts(cli.opts)) = carried
    BY <1>2, <2>1, <2>3, <2>4, TakenIsFit DEF cli
  <2>6. Single1(cli) /\ Opts(cli.opts) = carried \cup selects /\ cli.words = words
    <3>1. Single(Opts(cli.opts))
      BY <2>5 DEF Fit, cli
    <3> QED BY <2>1, <2>3, <3>1 DEF Single1, Taken, cli
  <2>7. SelectsOnly(cli, selects)
    BY <1>2, <2>6, SelectsOnlyIs
  <2>8. Reached(kind, mux, id, cli)
    BY <2>6, <2>7, ReachedIs DEF selects, words
  <2>9. Opens(kind, cli) = IF mux = "herdr" THEN id ELSE "latest"
    BY <2>8 DEF Reached
  <2>10. Opened(kind, s, id) = id
    BY <2>9 DEF Opened, cli
  <2> QED BY <2>5, <2>8, <2>10 DEF StartsAs, s, cli, carried
<1> QED BY <1>3, <1>4

-----------------------------------------------------------------------------
(* What the record says of mode and model: the values after the first flag *)
(* of a name are those the CLI takes.                                      *)

Bare(t, name) == t.flag = name /\ t.val = ""

EndsBare(q, name) == Len(q) > 0 /\ Bare(q[Len(q)], name)

Says(q, n, name, value) ==
  /\ q[n].flag = name
  /\ \/ q[n].val # "" /\ value = q[n].val
     \/ q[n].val = "" /\ n < Len(q) /\ q[n + 1].flag = "" /\ value = q[n + 1].val

Said(q, name, value) == \E n \in 1..Len(q) : Says(q, n, name, value)

SaidOnce(q, t, name, value) ==
  Said(Append(q, t), name, value) <=>
    \/ Said(q, name, value)
    \/ t.flag = name /\ t.val # "" /\ value = t.val
    \/ EndsBare(q, name) /\ t.flag = "" /\ value = t.val

LEMMA SaidAppend ==
  ASSUME NEW T, NEW q \in Seq(T), NEW t \in T, NEW name, NEW value
  PROVE  SaidOnce(q, t, name, value)
<1> DEFINE p == Append(q, t)
           N == Len(q)
<1>1. N \in Nat /\ Len(p) = N + 1 /\ p[N + 1] = t /\ \A n \in 1..N : p[n] = q[n]
  OBVIOUS
<1> HIDE DEF p, N
<1>2. ASSUME NEW n \in 1..N, n # N
      PROVE  Says(p, n, name, value) <=> Says(q, n, name, value)
  <2>1. n + 1 \in 1..N /\ p[n] = q[n] /\ p[n + 1] = q[n + 1] /\ n < N /\ n < N + 1
    BY <1>1, <1>2
  <2> QED BY <1>1, <2>1 DEF Says, N
<1>3. ASSUME N > 0
      PROVE  Says(p, N, name, value) <=> Says(q, N, name, value) \/ (EndsBare(q, name) /\ t.flag = "" /\ value = t.val)
  <2>1. p[N] = q[N] /\ p[N + 1] = t /\ N < N + 1 /\ ~(N < N)
    BY <1>1, <1>3
  <2> QED BY <1>1, <1>3, <2>1 DEF Says, EndsBare, Bare, N
<1>4. Says(p, N + 1, name, value) <=> t.flag = name /\ t.val # "" /\ value = t.val
  <2>1. p[N + 1] = t /\ ~(N + 1 < Len(p))
    BY <1>1
  <2> QED BY <2>1 DEF Says
<1>5. 1..(N + 1) = (1..N) \cup {N + 1}
  BY <1>1
<1>6. Said(p, name, value) <=> (\E n \in 1..N : Says(p, n, name, value)) \/ Says(p, N + 1, name, value)
  BY <1>1, <1>5 DEF Said
<1>7. CASE N = 0
  <2>1. ~EndsBare(q, name) /\ 1..N = {}
    BY <1>7 DEF EndsBare, N
  <2> QED BY <1>4, <1>6, <2>1 DEF SaidOnce, Said, p, N
<1>8. CASE N # 0
  <2>1. N > 0 /\ N \in 1..N
    BY <1>1, <1>8
  <2>2. (\E n \in 1..N : Says(p, n, name, value)) <=>
          (\E n \in 1..N : Says(q, n, name, value)) \/ (EndsBare(q, name) /\ t.flag = "" /\ value = t.val)
    BY <1>2, <1>3, <2>1
  <2> QED BY <1>4, <1>6, <2>2 DEF SaidOnce, Said, p, N
<1> QED BY <1>7, <1>8

(* The values of a flag that takes one, as far as the line is read.        *)
Reads(kind, q, name) ==
  LET c == CliScanned(kind, q)
  IN c.ok => /\ c.next = name <=> EndsBare(q, name)
             /\ \A value : Said(q, name, value) <=> <<name, value>> \in Opts(c.opts)

LEMMA ReadsStep ==
  ASSUME NEW kind, NEW name \in TakesValue(kind), NEW q \in Seq(Known(kind)), NEW t \in Known(kind), Reads(kind, q, name)
  PROVE  Reads(kind, Append(q, t), name)
<1> DEFINE c == CliScanned(kind, q)
           r == CliScanned(kind, Append(q, t))
<1>1. r = CliScan(kind, c, t)
  BY CliAppend
<1>2. c \in CliState /\ ~c.ended
  BY CliIs
<1>3. name # "" /\ name \notin MayTakeValue
  BY DEF TakesValue, MayTakeValue
<1>4. EndsBare(Append(q, t), name) <=> Bare(t, name)
  BY DEF EndsBare
<1>5. \A value : SaidOnce(q, t, name, value)
  BY SaidAppend
<1>6. t.flag = "" => t.val # ""
  BY KnownIs
<1> SUFFICES ASSUME r.ok
             PROVE  /\ r.next = name <=> Bare(t, name)
                    /\ \A value : Said(Append(q, t), name, value) <=> <<name, value>> \in Opts(r.opts)
  BY <1>4 DEF Reads
<1>7. c.ok
  BY <1>1, <1>2, CliError
<1>8. /\ c.next = name <=> EndsBare(q, name)
      /\ \A value : Said(q, name, value) <=> <<name, value>> \in Opts(c.opts)
  BY <1>7 DEF Reads
<1> HIDE DEF c, r
<1>9. CASE t.flag = ""
  <2>1. AfterWord(c, t, r)
    BY <1>1, <1>2, <1>9, CliWord
  <2>2. r.next = "" /\ ~Bare(t, name)
    BY <1>3, <1>9, <2>1 DEF AfterWord, Bare
  <2>3. \A value : <<name, value>> \in Opts(r.opts) <=>
                     <<name, value>> \in Opts(c.opts) \/ (c.next = name /\ value = t.val)
    <3>1. CASE c.next = ""
      <4>1. r.opts = c.opts
        BY <2>1, <3>1 DEF AfterWord
      <4> QED BY <1>3, <3>1, <4>1
    <3>2. CASE c.next # ""
      <4>1. Opts(r.opts) = Opts(c.opts) \cup {<<c.next, t.val>>}
        BY <2>1, <3>2 DEF AfterWord
      <4> QED BY <4>1
    <3> QED BY <3>1, <3>2
  <2> QED BY <1>3, <1>5, <1>8, <1>9, <2>2, <2>3 DEF SaidOnce
<1>10. CASE t.flag # ""
  <2>1. AfterFlag(kind, c, t, r)
    BY <1>1, <1>2, <1>10, CliFlag
  <2>2. c.next \notin TakesValue(kind)
    BY <2>1 DEF AfterFlag
  <2>3. c.next # name /\ ~EndsBare(q, name)
    BY <1>8, <2>2
  <2>4. Opts(Pending(c)) = Opts(c.opts) \cup (IF c.next = "" THEN {} ELSE {<<c.next, "">>})
    BY <1>2, OptsPending
  <2>5. /\ r.next = (IF Waits(kind, t) THEN t.flag ELSE "")
        /\ Opts(r.opts) = Opts(Pending(c)) \cup IF Waits(kind, t) THEN {} ELSE {<<t.flag, t.val>>}
    BY <2>1, <2>2 DEF AfterFlag
  <2>6. t.flag = name => (Waits(kind, t) <=> t.val = "")
    BY DEF Waits
  <2>7. r.next = name <=> Bare(t, name)
    BY <1>3, <2>5, <2>6 DEF Bare, Waits
  <2>8. \A value : <<name, value>> \in Opts(r.opts) <=>
                     <<name, value>> \in Opts(c.opts) \/ (t.flag = name /\ t.val # "" /\ value = t.val)
    BY <2>3, <2>4, <2>5, <2>6
  <2> QED BY <1>5, <1>8, <1>10, <2>3, <2>7, <2>8 DEF SaidOnce
<1> QED BY <1>9, <1>10

LEMMA ReadsIs ==
  ASSUME NEW kind, NEW name \in TakesValue(kind), NEW q \in Seq(Known(kind))
  PROVE  Reads(kind, q, name)
<1> DEFINE P == {x \in Seq(Known(kind)) : Reads(kind, x, name)}
<1>1. <<>> \in Seq(Known(kind)) /\ CliScanned(kind, <<>>) = CliAtFirst
  BY EmptySeq, CliScannedEmpty
<1>2. Reads(kind, <<>>, name)
  <2>1. CliAtFirst.next = "" /\ CliAtFirst.opts = <<>> /\ name # ""
    BY DEF CliAtFirst, TakesValue
  <2>2. Len(<<>>) = 0 /\ 1..0 = {}
    OBVIOUS
  <2>3. ~EndsBare(<<>>, name) /\ \A value : ~Said(<<>>, name, value)
    BY <2>2 DEF EndsBare, Said
  <2> QED BY <1>1, <2>1, <2>3, OptsEmpty DEF Reads
<1>3. \A x \in Seq(Known(kind)), t \in Known(kind) : x \in P => Append(x, t) \in P
  BY ReadsStep, AppendIn
<1>4. <<>> \in P
  BY <1>1, <1>2
<1>5. Seq(Known(kind)) \subseteq P
  <2> HIDE DEF P
  <2> QED BY <1>3, <1>4, ByAppending, Zenon
<1> QED BY <1>5

ValuedAt(q, name) ==
  {n \in DOMAIN q : q[n].flag = name /\ (q[n].val # "" \/ (n < Len(q) /\ ~IsFlag(q[n + 1])))}

FirstSaid(q, name) ==
  /\ (\E value : Said(q, name, value)) => Said(q, name, FlagValue(q, name))
  /\ (\A value : ~Said(q, name, value)) => FlagValue(q, name) = ""

LEMMA FlagValueIs ==
  ASSUME NEW T, NEW q \in Seq(T), NEW name
  PROVE  FirstSaid(q, name)
<1> DEFINE at == ValuedAt(q, name)
           n == Lowest(at)
<1>0. Len(q) \in Nat /\ DOMAIN q = 1..Len(q)
  BY LenProperties
<1>1. FlagValue(q, name) = IF at = {} THEN "" ELSE IF q[n].val # "" THEN q[n].val ELSE q[n + 1].val
  BY Zenon DEF FlagValue, ValuedAt, Lowest
<1>2. \A m \in 1..Len(q) : m \in at <=> \E value : Says(q, m, name, value)
  BY <1>0 DEF ValuedAt, Says, IsFlag
<1>3. at \subseteq 1..Len(q)
  BY <1>0 DEF ValuedAt
<1>4. CASE at = {}
  <2>1. \A value : ~Said(q, name, value)
    BY <1>2, <1>4 DEF Said
  <2> QED BY <1>1, <1>4, <2>1 DEF FirstSaid
<1>5. CASE at # {}
  <2>1. n \in at
    <3> HIDE DEF at
    <3>1. at \in SUBSET Nat
      BY <1>3
    <3> QED BY <1>5, <3>1, LowestIs
  <2>2. Says(q, n, name, IF q[n].val # "" THEN q[n].val ELSE q[n + 1].val)
    BY <2>1 DEF ValuedAt, Says, IsFlag
  <2>3. Said(q, name, FlagValue(q, name))
    BY <1>1, <1>3, <1>5, <2>1, <2>2 DEF Said
  <2> QED BY <2>3 DEF FirstSaid
<1> QED BY <1>4, <1>5

FlagSays(q, name, options) ==
  /\ \A p \in options : p[1] = name => FlagValue(q, name) = p[2] /\ p[2] # ""
  /\ (\A p \in options : p[1] # name) => FlagValue(q, name) = ""

LEMMA FlagSaysIs ==
  ASSUME NEW kind, NEW name \in TakesValue(kind), NEW q \in Seq(Known(kind)), NEW options,
         Clean(kind, CliScanned(kind, q), options), Single(options)
  PROVE  FlagSays(q, name, options)
<1> DEFINE c == CliScanned(kind, q)
<1>1. c \in CliState /\ c.ok /\ Opts(Pending(c)) = options /\ c.next \in {"", "--worktree"}
  BY DEF Clean
<1>2. \A p \in Opts(c.opts) : p[1] \in TakesValue(kind) => p[2] # ""
  BY <1>1, CliShapeIs DEF CliShape
<1>3. Reads(kind, q, name)
  BY ReadsIs
<1>4. \A value : Said(q, name, value) <=> <<name, value>> \in Opts(c.opts)
  BY <1>1, <1>3 DEF Reads
<1>5. FirstSaid(q, name)
  BY FlagValueIs
<1> HIDE DEF c
<1>6. Opts(Pending(c)) = Opts(c.opts) \cup (IF c.next = "" THEN {} ELSE {<<c.next, "">>})
  BY <1>1, OptsPending
<1>7. c.opts \in Seq(Pair)
  BY <1>1 DEF CliState
<1>8. name # "" /\ name # "--worktree"
  BY DEF TakesValue
<1>9. \A p : p \in options /\ p[1] = name <=> p \in Opts(c.opts) /\ p[1] = name
  <2>1. <<c.next, "">>[1] # name
    BY <1>1, <1>8
  <2>2. \A p : p \in options <=> p \in Opts(c.opts) \/ (c.next # "" /\ p = <<c.next, "">>)
    BY <1>1, <1>6
  <2> QED BY <2>1, <2>2
<1>10. \A p \in Opts(c.opts) : p = <<p[1], p[2]>>
  BY <1>7, OptsIn DEF Pair
<1>11. ASSUME NEW p \in options, p[1] = name PROVE FlagValue(q, name) = p[2] /\ p[2] # ""
  <2>1. p \in Opts(c.opts) /\ <<name, p[2]>> \in Opts(c.opts)
    BY <1>9, <1>10, <1>11
  <2>2. Said(q, name, FlagValue(q, name))
    BY <1>4, <1>5, <2>1 DEF FirstSaid
  <2> DEFINE r == <<name, FlagValue(q, name)>>
  <2>3. r \in Opts(c.opts) /\ r[1] = name /\ r[2] = FlagValue(q, name)
    BY <1>4, <2>2
  <2> HIDE DEF r
  <2>4. r \in options
    BY <1>9, <2>3
  <2>5. r = p
    BY <1>11, <2>3, <2>4 DEF Single
  <2> QED BY <1>2, <1>11, <2>1, <2>3, <2>5
<1>12. ASSUME \A p \in options : p[1] # name PROVE FlagValue(q, name) = ""
  <2>1. \A value : <<name, value>> \notin Opts(c.opts)
    <3> SUFFICES ASSUME NEW value, <<name, value>> \in Opts(c.opts) PROVE FALSE
      OBVIOUS
    <3>1. <<name, value>>[1] = name
      OBVIOUS
    <3> DEFINE r == <<name, value>>
    <3>2. r[1] = name /\ r \in Opts(c.opts)
      BY <3>1
    <3> HIDE DEF r
    <3> QED BY <1>9, <1>12, <3>2
  <2> QED BY <1>4, <1>5, <2>1 DEF FirstSaid
<1> QED BY <1>11, <1>12 DEF FlagSays

Has(options, name) == \E p \in options : p[1] = name

LEMMA HasOne ==
  ASSUME NEW options, NEW f, NEW v, NEW name
  PROVE  Has(options \cup {<<f, v>>}, name) <=> Has(options, name) \/ f = name
<1>1. <<f, v>>[1] = f
  OBVIOUS
<1>2. \A p : p \in options \cup {<<f, v>>} <=> p \in options \/ p = <<f, v>>
  OBVIOUS
<1> QED BY <1>1, <1>2 DEF Has

SkipsQuestions == "--dangerously-skip-permissions"

Skips(kind, q) ==
  LET c == CliScanned(kind, q)
  IN c.ok => (Bypass \in {q[n] : n \in DOMAIN q} <=> Has(Opts(c.opts), SkipsQuestions))

LEMMA SkipsStep ==
  ASSUME NEW kind, NEW q \in Seq(Known(kind)), NEW t \in Known(kind), Skips(kind, q)
  PROVE  Skips(kind, Append(q, t))
<1> DEFINE c == CliScanned(kind, q)
           r == CliScanned(kind, Append(q, t))
<1>1. r = CliScan(kind, c, t)
  BY CliAppend
<1>2. c \in CliState /\ ~c.ended /\ c.next \in {""} \cup (TakesValue(kind) \cup MayTakeValue)
  BY CliIs
<1>3. SkipsQuestions \notin TakesValue(kind) \cup MayTakeValue \cup {""}
  BY DEF TakesValue, MayTakeValue, SkipsQuestions
<1>4. Bypass = t <=> t.flag = SkipsQuestions
  <2>1. t \in Token /\ (t.flag = SkipsQuestions => t.val = "") /\ Bypass.flag = SkipsQuestions
    BY KnownIs DEF SkipsQuestions, Bypass, Flag
  <2> QED BY <2>1 DEF Token, Bypass, Flag, SkipsQuestions
<1>5. Bypass \in {Append(q, t)[n] : n \in DOMAIN Append(q, t)} <=> Bypass \in {q[n] : n \in DOMAIN q} \/ Bypass = t
  <2> DEFINE a == Append(q, t)
             N == Len(q)
  <2>1. N \in Nat /\ DOMAIN q = 1..N /\ DOMAIN a = 1..(N + 1) /\ a[N + 1] = t /\ \A n \in 1..N : a[n] = q[n]
    OBVIOUS
  <2> HIDE DEF a, N
  <2>2. 1..(N + 1) = (1..N) \cup {N + 1}
    BY <2>1
  <2>3. {a[n] : n \in DOMAIN a} = {q[n] : n \in DOMAIN q} \cup {t}
    BY <2>1, <2>2
  <2> QED BY <2>3 DEF a
<1> SUFFICES ASSUME r.ok
             PROVE  Bypass \in {q[n] : n \in DOMAIN q} \/ Bypass = t <=> Has(Opts(r.opts), SkipsQuestions)
  BY <1>5 DEF Skips
<1>6. c.ok
  BY <1>1, <1>2, CliError
<1>7. Bypass \in {q[n] : n \in DOMAIN q} <=> Has(Opts(c.opts), SkipsQuestions)
  BY <1>6 DEF Skips
<1> HIDE DEF c, r
<1>10. CASE t.flag = ""
  <2>1. AfterWord(c, t, r)
    BY <1>1, <1>2, <1>10, CliWord
  <2>2. Has(Opts(r.opts), SkipsQuestions) <=> Has(Opts(c.opts), SkipsQuestions)
    <3>1. CASE c.next = ""
      BY <2>1, <3>1 DEF AfterWord
    <3>2. CASE c.next # ""
      <4>1. Opts(r.opts) = Opts(c.opts) \cup {<<c.next, t.val>>}
        BY <2>1, <3>2 DEF AfterWord
      <4>2. c.next # SkipsQuestions
        BY <1>2, <1>3
      <4>3. Has(Opts(c.opts) \cup {<<c.next, t.val>>}, SkipsQuestions)
            <=> Has(Opts(c.opts), SkipsQuestions) \/ c.next = SkipsQuestions
        BY HasOne
      <4> QED BY <4>1, <4>2, <4>3
    <3> QED BY <3>1, <3>2
  <2>3. t.flag # SkipsQuestions
    BY <1>3, <1>10
  <2> QED BY <1>4, <1>7, <2>2, <2>3
<1>11. CASE t.flag # ""
  <2>1. AfterFlag(kind, c, t, r)
    BY <1>1, <1>2, <1>11, CliFlag
  <2>2. c.next \notin TakesValue(kind)
    BY <2>1 DEF AfterFlag
  <2>3. Opts(r.opts) = Opts(Pending(c)) \cup IF Waits(kind, t) THEN {} ELSE {<<t.flag, t.val>>}
    BY <2>1, <2>2 DEF AfterFlag
  <2>4. Has(Opts(Pending(c)), SkipsQuestions) <=> Has(Opts(c.opts), SkipsQuestions)
    <3>1. Opts(Pending(c)) = Opts(c.opts) \cup (IF c.next = "" THEN {} ELSE {<<c.next, "">>})
      BY <1>2, OptsPending
    <3>2. c.next # SkipsQuestions
      BY <1>2, <1>3
    <3>3. CASE c.next = ""
      <4>1. Opts(Pending(c)) = Opts(c.opts)
        BY <3>1, <3>3
      <4> QED BY <4>1
    <3>4. CASE c.next # ""
      <4>1. Opts(Pending(c)) = Opts(c.opts) \cup {<<c.next, "">>}
        BY <3>1, <3>4
      <4>2. Has(Opts(c.opts) \cup {<<c.next, "">>}, SkipsQuestions)
            <=> Has(Opts(c.opts), SkipsQuestions) \/ c.next = SkipsQuestions
        BY HasOne
      <4> QED BY <3>2, <4>1, <4>2
    <3> QED BY <3>3, <3>4
  <2>5. Has(Opts(r.opts), SkipsQuestions) <=> Has(Opts(c.opts), SkipsQuestions) \/ t.flag = SkipsQuestions
    <3>1. CASE Waits(kind, t)
      <4>1. t.flag # SkipsQuestions
        BY <1>3, <3>1 DEF Waits
      <4>2. Opts(r.opts) = Opts(Pending(c))
        BY <2>3, <3>1
      <4> QED BY <2>4, <4>1, <4>2
    <3>2. CASE ~Waits(kind, t)
      <4>1. Opts(r.opts) = Opts(Pending(c)) \cup {<<t.flag, t.val>>}
        BY <2>3, <3>2
      <4>2. Has(Opts(Pending(c)) \cup {<<t.flag, t.val>>}, SkipsQuestions)
            <=> Has(Opts(Pending(c)), SkipsQuestions) \/ t.flag = SkipsQuestions
        BY HasOne
      <4> QED BY <2>4, <4>1, <4>2
    <3> QED BY <3>1, <3>2
  <2> QED BY <1>4, <1>7, <2>5
<1> QED BY <1>10, <1>11

LEMMA SkipsIs ==
  ASSUME NEW kind, NEW q \in Seq(Known(kind))
  PROVE  Skips(kind, q)
<1> DEFINE P == {x \in Seq(Known(kind)) : Skips(kind, x)}
<1>1. <<>> \in Seq(Known(kind)) /\ CliScanned(kind, <<>>) = CliAtFirst
  BY EmptySeq, CliScannedEmpty
<1>2. Skips(kind, <<>>)
  <2>1. CliAtFirst.opts = <<>>
    BY DEF CliAtFirst
  <2>2. {<<>>[n] : n \in DOMAIN <<>>} = {} /\ ~Has({}, SkipsQuestions)
    BY DEF Has
  <2> QED BY <1>1, <2>1, <2>2, OptsEmpty DEF Skips
<1>3. \A x \in Seq(Known(kind)), t \in Known(kind) : x \in P => Append(x, t) \in P
  BY SkipsStep, AppendIn
<1>4. <<>> \in P
  BY <1>1, <1>2
<1>5. Seq(Known(kind)) \subseteq P
  <2> HIDE DEF P
  <2> QED BY <1>3, <1>4, ByAppending, Zenon
<1> QED BY <1>5

LEMMA OptionOfKept ==
  ASSUME NEW cli, Single1(cli), NEW name, name \notin Selecting, NEW default
  PROVE  /\ Given(cli, name) <=> Has(Kept(Opts(cli.opts)), name)
         /\ \A p \in Kept(Opts(cli.opts)) : p[1] = name => Option(cli, name, default) = p[2]
         /\ ~Has(Kept(Opts(cli.opts)), name) => Option(cli, name, default) = default
<1>1. Given(cli, name) <=> \E p \in Opts(cli.opts) : p[1] = name
  BY GivenIs
<1>2. Given(cli, name) <=> Has(Kept(Opts(cli.opts)), name)
  BY <1>1 DEF Has, Kept
<1>3. ASSUME NEW p \in Kept(Opts(cli.opts)), p[1] = name PROVE Option(cli, name, default) = p[2]
  <2>1. p \in Opts(cli.opts)
    BY DEF Kept
  <2> QED BY <1>3, <2>1, OptionIs DEF Single1
<1>4. ~Given(cli, name) => Option(cli, name, default) = default
  BY DEF Option
<1> QED BY <1>2, <1>3, <1>4

(* What a flag of the record says, the CLI takes it to say. *)
Tells(q, cli, name, default) ==
  Option(cli, name, default) = IF FlagValue(q, name) # "" THEN FlagValue(q, name) ELSE default

LEMMA FlagIsOption ==
  ASSUME NEW kind, NEW cli, Single1(cli), NEW name, name \notin Selecting, NEW default, NEW q,
         FlagSays(q, name, Kept(Opts(cli.opts)))
  PROVE  Tells(q, cli, name, default)
<1> DEFINE options == Kept(Opts(cli.opts))
<1>1. CASE Has(options, name)
  <2>1. PICK p \in options : p[1] = name
    BY <1>1 DEF Has
  <2>2. FlagValue(q, name) = p[2] /\ p[2] # ""
    BY <2>1 DEF FlagSays
  <2>3. Option(cli, name, default) = p[2]
    BY <2>1, OptionOfKept
  <2> QED BY <2>2, <2>3 DEF Tells
<1>2. CASE ~Has(options, name)
  <2>1. FlagValue(q, name) = ""
    BY <1>2 DEF FlagSays, Has
  <2>2. Option(cli, name, default) = default
    BY <1>2, OptionOfKept
  <2> QED BY <2>1, <2>2 DEF Tells
<1> QED BY <1>1, <1>2

LEMMA InForceIs ==
  ASSUME NEW kind, NEW dir, NEW d
  PROVE  InForce(kind, dir, d) = IF kind = "claude" /\ d.local[dir] # "" THEN d.local[dir]
                                 ELSE IF kind = "claude" /\ d.project # "" THEN d.project ELSE d.settings[dir]
  BY DEF InForce

LEMMA InForceIn ==
  ASSUME NEW kind, NEW dir \in Dirs, NEW d \in Disk
  PROVE  InForce(kind, dir, d) \in {"a", "b"}
<1>1. d.local[dir] \in {"", "b"} /\ d.project \in {"", "b"} /\ d.settings[dir] \in {"a", "b"}
  BY DEF Disk
<1> QED BY <1>1, InForceIs

(* Where only these settings are, they are in force.                       *)
AgentWith(kind, argv, env, settings, trusted) ==
  LET cli == Cli(kind, argv)
      model == IF kind = "claude" /\ env.model # "" THEN env.model ELSE Defaults[settings].model
  IN [mode |-> IF Given(cli, SkipsQuestions) THEN "bypassPermissions"
               ELSE Option(cli, IF kind = "codex" THEN "-c" ELSE "--permission-mode", Defaults[settings].mode),
      model |-> Option(cli, "--model", model), seat |-> env, asks |-> kind = "claude" /\ ~trusted]

LEMMA AgentOnHas ==
  ASSUME NEW kind, NEW argv, NEW env \in Seats, NEW settings, NEW trusted
  PROVE  AgentOn(kind, argv, env, settings, trusted) = AgentWith(kind, argv, env, settings, trusted)
<1> DEFINE e == [settings |-> [x \in Dirs |-> settings], local |-> [x \in Dirs |-> ""], project |-> "",
                 trusted |-> [x \in Dirs |-> trusted]]
<1>1. env.dir \in Dirs
  BY DEF Seats
<1>2. e.settings[env.dir] = settings /\ e.trusted[env.dir] = trusted /\ e.local[env.dir] = "" /\ e.project = ""
  BY <1>1
<1>3. AgentOn(kind, argv, env, settings, trusted) = Effective(kind, argv, env, e)
  BY DEF AgentOn
<1> HIDE DEF e
<1>4. InForce(kind, env.dir, e) = settings
  BY <1>2, InForceIs
<1> QED BY <1>2, <1>3, <1>4 DEF Effective, AgentWith, SkipsQuestions

(* A disk is as good as one with only the settings in force.               *)
LEMMA AgentOnIs ==
  ASSUME NEW kind, NEW argv, NEW env \in Seats, NEW d
  PROVE  Effective(kind, argv, env, d) = AgentOn(kind, argv, env, InForce(kind, env.dir, d), d.trusted[env.dir])
<1>1. AgentOn(kind, argv, env, InForce(kind, env.dir, d), d.trusted[env.dir])
        = AgentWith(kind, argv, env, InForce(kind, env.dir, d), d.trusted[env.dir])
  BY AgentOnHas
<1> QED BY <1>1 DEF Effective, AgentWith, SkipsQuestions

TrueRecord(argv, env, settings, trusted, d) ==
  LET flags == CarriedFlags("claude", argv)
      agent == AgentOn("claude", argv, env, settings, trusted)
  IN PermissionMode(flags, d) = agent.mode /\ (env.model = "" => Model(flags, d) = agent.model)

LEMMA TrueRecordIs ==
  ASSUME NEW argv, Fit("claude", argv), where.kind = "claude", NEW env \in Seats,
         NEW settings \in {"a", "b"}, NEW trusted, NEW d, d.read, d.settings = settings
  PROVE  TrueRecord(argv, env, settings, trusted, d)
<1> DEFINE flags == CarriedFlags("claude", argv)
           cli == Cli("claude", argv)
           options == Kept(Opts(cli.opts))
           e == CliScanned("claude", flags)
           agent == AgentOn("claude", argv, env, settings, trusted)
           default == Defaults[settings]
<1>1. argv \in Seq(Known("claude")) /\ cli.ok /\ Single1(cli)
  BY OptsOfCli DEF Fit, Single1
<1>2. Carry("claude", argv) = options /\ Single(options)
  <2>1. "claude" \in Tables
    BY DEF Tables
  <2> QED BY <1>1, <2>1, CarryIs DEF Carry, Single1
<1>3. flags \in Seq(Known("claude")) /\ Clean("claude", e, options)
  BY <1>1, <1>2, CarriedFlagsAre DEF Kinds
<1>4. "--model" \in TakesValue("claude") /\ "--permission-mode" \in TakesValue("claude")
  BY DEF TakesValue
<1> HIDE DEF flags, cli, options, default, e
<1>5. FlagSays(flags, "--model", options) /\ FlagSays(flags, "--permission-mode", options)
  BY <1>2, <1>3, <1>4, FlagSaysIs DEF e
<1>6. "--model" \notin Selecting /\ "--permission-mode" \notin Selecting /\ SkipsQuestions \notin Selecting
  BY DEF Selecting, SkipsQuestions
<1>7. Tells(flags, cli, "--model", default.model) /\ Tells(flags, cli, "--permission-mode", default.mode)
  BY <1>1, <1>5, <1>6, FlagIsOption DEF options
<1>8. Given(cli, SkipsQuestions) <=> Bypass \in {flags[n] : n \in DOMAIN flags}
  <2>1. Given(cli, SkipsQuestions) <=> Has(options, SkipsQuestions)
    BY <1>1, <1>6, OptionOfKept DEF options
  <2>2. e \in CliState /\ e.ok /\ e.next \in {"", "--worktree"} /\ Opts(Pending(e)) = options
    BY <1>3 DEF Clean
  <2>3. Opts(Pending(e)) = Opts(e.opts) \cup (IF e.next = "" THEN {} ELSE {<<e.next, "">>})
    BY <2>2, OptsPending
  <2>4. Has(options, SkipsQuestions) <=> Has(Opts(e.opts), SkipsQuestions)
    <3>1. CASE e.next = ""
      <4>1. options = Opts(e.opts)
        BY <2>2, <2>3, <3>1
      <4> QED BY <4>1
    <3>2. CASE e.next = "--worktree"
      <4>1. options = Opts(e.opts) \cup {<<"--worktree", "">>}
        BY <2>2, <2>3, <3>2
      <4>2. "--worktree" # SkipsQuestions
        BY DEF SkipsQuestions
      <4>3. Has(Opts(e.opts) \cup {<<"--worktree", "">>}, SkipsQuestions)
            <=> Has(Opts(e.opts), SkipsQuestions) \/ "--worktree" = SkipsQuestions
        BY HasOne
      <4> QED BY <4>1, <4>2, <4>3
    <3> QED BY <2>2, <3>1, <3>2
  <2>5. Skips("claude", flags)
    BY <1>3, SkipsIs
  <2> QED BY <2>1, <2>2, <2>4, <2>5 DEF Skips, e
<1>9. /\ agent.mode = IF Given(cli, SkipsQuestions) THEN "bypassPermissions"
                      ELSE Option(cli, "--permission-mode", default.mode)
      /\ env.model = "" => agent.model = Option(cli, "--model", default.model)
  <2>1. agent = AgentWith("claude", argv, env, settings, trusted)
    BY AgentOnHas
  <2> HIDE DEF agent
  <2> QED BY <2>1 DEF AgentWith, cli, default
<1>10. settings # "" /\ d.settings = settings /\ d.read /\ default = Defaults[d.settings]
  BY DEF default
<1> HIDE DEF agent
<1>11. PermissionMode(flags, d) = agent.mode
  BY <1>7, <1>8, <1>9, <1>10 DEF PermissionMode, Tells
<1>12. env.model = "" => Model(flags, d) = agent.model
  BY <1>7, <1>9, <1>10 DEF Model, Tells
<1> QED BY <1>11, <1>12 DEF TrueRecord, agent, flags

(* Without phrases `ps` and shlex give back what the arguments were.       *)
LEMMA SplitIs ==
  ASSUME NEW kind, NEW t \in Known(kind)
  PROVE  Split(t) = <<t>>
<1>1. t \in Token /\ t.more = <<>>
  <2>1. t \in Token
    BY KnownIs
  <2> QED BY <2>1 DEF Token
<1>2. [t EXCEPT !.more = <<>>] = t
  BY <1>1 DEF Token
<1>3. <<t>> \in Seq(Token)
  BY <1>1
<1>4. <<t>> \o <<>> = <<t>>
  BY <1>3, ConcatEmptySeq
<1> QED BY <1>1, <1>2, <1>4 DEF Split

LEMMA Flattened ==
  ASSUME NEW kind, NEW q \in Seq(Known(kind))
  PROVE  FlattenSeq([n \in DOMAIN q |-> <<q[n]>>]) = q
<1> DEFINE N == Len(q)
           sq == [n \in DOMAIN q |-> <<q[n]>>]
           Is(f) == f = [i \in 1..Len(sq) |-> IF i = 1 THEN sq[i] ELSE f[i - 1] \o sq[i]]
           g == CHOOSE f : Is(f)
           front == [i \in 1..N |-> SubSeq(q, 1, i)]
<1>1. N \in Nat /\ DOMAIN q = 1..N /\ \A i \in 1..N : q[i] \in Known(kind)
  BY LenProperties, ElementOfSeq
<1>2. Len(sq) = N
  BY <1>1
<1>3. \A i \in 1..N : sq[i] = <<q[i]>>
  BY <1>1
<1>4. FlattenSeq(sq) = IF Len(sq) = 0 THEN sq ELSE g[Len(sq)]
  <2> HIDE DEF sq, N
  <2> QED BY Zenon DEF FlattenSeq
<1> HIDE DEF sq
<1>5. CASE N = 0
  <2>1. sq = <<>> /\ q = <<>>
    BY <1>1, <1>5 DEF sq
  <2> QED BY <1>2, <1>4, <1>5, <2>1 DEF sq
<1>6. CASE N # 0
  <2>1. front[1] = sq[1]
    <3>1. 1 \in 1..N
      BY <1>1, <1>6
    <3>2. SubSeq(q, 1, 1) = <<q[1]>>
      <4>1. SubSeq(q, 1, 1) = Append(SubSeq(q, 1, 0), q[1])
        BY <1>1, <3>1
      <4>2. SubSeq(q, 1, 0) = <<>>
        BY SubSeqEmpty
      <4>3. Append(<<>>, q[1]) = <<q[1]>>
        OBVIOUS
      <4> QED BY <4>1, <4>2, <4>3, Zenon
    <3> QED BY <1>3, <3>1, <3>2
  <2>2. ASSUME NEW i \in 2..N PROVE front[i] = front[i - 1] \o sq[i]
    <3>1. SubSeq(q, 1, i - 1) \in Seq(Known(kind)) /\ i \in 1..N /\ i - 1 \in 1..N /\ q[i] \in Known(kind)
      BY <1>1, <2>2
    <3>2. SubSeq(q, 1, i) = Append(SubSeq(q, 1, i - 1), q[i])
      BY <1>1, <2>2
    <3>3. SubSeq(q, 1, i - 1) \o <<q[i]>> = Append(SubSeq(q, 1, i - 1), q[i])
      BY <3>1, ConcatOne
    <3> QED BY <1>3, <3>1, <3>2, <3>3
  <2>3. Is(front)
    <3>1. \A i \in 1..N : front[i] = IF i = 1 THEN sq[i] ELSE front[i - 1] \o sq[i]
      <4> SUFFICES ASSUME NEW i \in 1..N PROVE front[i] = IF i = 1 THEN sq[i] ELSE front[i - 1] \o sq[i]
        OBVIOUS
      <4> HIDE DEF front
      <4>1. CASE i = 1
        BY <2>1, <4>1
      <4>2. CASE i # 1
        <5>1. i \in 2..N
          BY <1>1, <4>2
        <5> QED BY <2>2, <4>2, <5>1
      <4> QED BY <4>1, <4>2
    <3>2. front = [i \in 1..N |-> front[i]]
      OBVIOUS
    <3> HIDE DEF front
    <3> QED BY <1>2, <3>1, <3>2
  <2>4. g = [i \in 1..Len(sq) |-> IF i = 1 THEN sq[i] ELSE g[i - 1] \o sq[i]]
    <3>1. Is(g)
      BY <2>3, Zenon
    <3> QED BY <3>1, Zenon
  <2> HIDE DEF g, front
  <2> DEFINE M == {i \in 0..N : i # 0 => g[i] = front[i]}
  <2>5. ASSUME NEW i \in 1..N, i - 1 \in M PROVE i \in M
    <3>1. g[i] = IF i = 1 THEN sq[i] ELSE g[i - 1] \o sq[i]
      BY <1>2, <2>4
    <3>2. CASE i = 1
      BY <1>1, <2>1, <3>1, <3>2
    <3>3. CASE i # 1
      <4>1. i \in 2..N /\ i - 1 # 0 /\ i \in 0..N
        BY <1>1, <3>3
      <4>2. g[i - 1] = front[i - 1]
        BY <2>5, <4>1
      <4>3. g[i] = front[i]
        BY <2>2, <3>1, <3>3, <4>1, <4>2
      <4> QED BY <4>1, <4>3
    <3> QED BY <3>2, <3>3
  <2>6. 0 \in M
    BY <1>1
  <2>7. g[N] = front[N]
    <3> HIDE DEF M
    <3>1. 0..N \subseteq M
      <4>1. \A i \in 1..N : i - 1 \in M => i \in M
        BY <2>5
      <4> QED BY <1>1, <4>1, <2>6, UpTo, Zenon
    <3> QED BY <1>1, <1>6, <3>1 DEF M
  <2>8. front[N] = q
    <3>1. N \in 1..N
      BY <1>1, <1>6
    <3> QED BY <1>1, <3>1, SubSeqFull DEF front
  <2> QED BY <1>2, <1>4, <1>6, <2>7, <2>8 DEF sq
<1> QED BY <1>5, <1>6

LEMMA SeenIs ==
  ASSUME NEW kind, cmd \in Seq(Known(kind))
  PROVE  SeenArgv = cmd
<1>1. \A n \in DOMAIN cmd : cmd[n] \in Known(kind)
  BY ElementOfSeq
<1>2. [n \in DOMAIN cmd |-> Split(cmd[n])] = [n \in DOMAIN cmd |-> <<cmd[n]>>]
  BY <1>1, SplitIs
<1>3. FlattenSeq([n \in DOMAIN cmd |-> <<cmd[n]>>]) = cmd
  BY Flattened
<1> QED BY <1>2, <1>3, Zenon DEF SeenArgv

-----------------------------------------------------------------------------
(* The agents there are at first are among those the invariant describes.  *)

LEMMA WordKnown ==
  ASSUME NEW kind, NEW w \in Values, w # ""
  PROVE  Word(w) \in Known(kind)
  BY NoText DEF Word, Known, Token

LEMMA FlagKnown ==
  ASSUME NEW kind, NEW f \in KnownFlags(kind)
  PROVE  Flag(f) \in Known(kind) /\ (f = "--model" => With(f, "sonnet") \in Known(kind))
<1>1. f \in Names /\ f # ""
  BY DEF KnownFlags, Names
<1>2. Flag(f) \in Known(kind)
  BY <1>1, NoText DEF Flag, Known, Token
<1>3. ASSUME f = "--model" PROVE With(f, "sonnet") \in Known(kind)
  <2>1. "sonnet" \in Values
    BY DEF Values
  <2> QED BY <1>1, <1>3, <2>1 DEF With, Known, Token
<1> QED BY <1>2, <1>3

LEMMA TokensKnown ==
  ASSUME NEW kind \in Kinds, ~Phrases
  PROVE  Tokens(kind) \subseteq Known(kind)
<1>1. {Word("task"), Word("sonnet"), Word("plan"), Word("s0"), Word("resume")} \subseteq Known(kind)
  <2>1. \A w \in {"task", "sonnet", "plan", "s0", "resume"} : w \in Values /\ w # ""
    BY DEF Values
  <2> QED BY <2>1, WordKnown
<1>2. \A f \in KnownFlags(kind) : Flag(f) \in Known(kind)
  BY FlagKnown
<1>3. "--model" \in KnownFlags(kind)
  BY DEF KnownFlags
<1>4. {Flag("--model"), With("--model", "sonnet")} \subseteq Known(kind)
  BY <1>3, FlagKnown
<1>5. CASE kind = "claude"
  <2>1. {"--permission-mode", "--dangerously-skip-permissions", "--worktree", "--resume", "--continue", "--session-id", "-p"}
        \subseteq KnownFlags(kind)
    BY <1>5 DEF KnownFlags
  <2>2. {Flag("--permission-mode"), Bypass, Flag("--worktree"), Flag("--resume"), Flag("--continue"),
         Flag("--session-id"), Flag("-p")} \subseteq Known(kind)
    BY <1>2, <2>1 DEF Bypass
  <2> QED BY <1>1, <1>4, <1>5, <2>2 DEF Tokens
<1>6. CASE kind = "grok"
  <2>1. {"--permission-mode", "--worktree", "--resume", "-p"} \subseteq KnownFlags(kind)
    BY <1>6 DEF KnownFlags
  <2>2. {Flag("--permission-mode"), Flag("--worktree"), Flag("--resume"), Flag("-p")} \subseteq Known(kind)
    BY <1>2, <2>1
  <2> QED BY <1>1, <1>4, <1>6, <2>2 DEF Tokens
<1>7. CASE kind = "codex"
  <2>1. {"--last", "-c", "--image"} \subseteq KnownFlags(kind)
    BY <1>7 DEF KnownFlags
  <2>2. {Flag("--last"), Flag("-c"), Flag("--image")} \subseteq Known(kind)
    BY <1>2, <2>1
  <2> QED BY <1>1, <1>4, <1>7, <2>2 DEF Tokens
<1>8. CASE kind = "hermes"
  BY <1>1, <1>4, <1>8 DEF Tokens
<1> QED BY <1>5, <1>6, <1>7, <1>8 DEF Kinds

LEMMA SoundIsFit ==
  ASSUME NEW kind \in Kinds, NEW argv \in Seq(Known(kind)), Sound(kind, argv)
  PROVE  Fit(kind, argv) /\ Opened(kind, argv, "s0") \in {"s0", "s1"}
<1> DEFINE cli == Cli(kind, argv)
           c == CliScanned(kind, argv)
           valued == TakesValue(kind) \cup {"--resume", "--worktree", "-p"}
           fits == [f \in valued |->
                      CASE f = "--model" -> {"sonnet"} [] f \in {"--permission-mode", "-c"} -> {"plan"}
                        [] f \in {"--resume", "--session-id"} -> {"s0"} [] OTHER -> {"task", ""}]
<1>1. /\ cli.ok /\ Opens(kind, cli) \in {"new", "s0", "latest"}
      /\ \A n \in DOMAIN cli.opts : cli.opts[n][1] \in DOMAIN fits => cli.opts[n][2] \in fits[cli.opts[n][1]]
      /\ \A n, m \in DOMAIN cli.opts : cli.opts[n][1] = cli.opts[m][1] => n = m
  BY DEF Sound
<1>2. DOMAIN fits = valued
  OBVIOUS
<1>3. Single(Opts(cli.opts))
  <2> HIDE DEF cli, fits
  <2> QED BY <1>1 DEF Opts, Single
<1>4. \A f \in Selecting \cap valued : fits[f] \subseteq {"", "s0", "task"}
  BY DEF Selecting
<1>5. \A p \in Opts(cli.opts) : p[1] \in valued => p[2] \in fits[p[1]]
  <2> HIDE DEF cli, fits, valued
  <2> QED BY <1>1, <1>2 DEF Opts
<1>6. cli.opts = Pending(c) /\ c \in CliState
  BY CliIs
<1>7. \A p \in Opts(c.opts) : p[1] \notin TakesValue(kind) \cup MayTakeValue \cup {"--model"} => p[2] = ""
  BY CliShapeIs DEF CliShape
<1>8. Opts(cli.opts) = Opts(c.opts) \cup (IF c.next = "" THEN {} ELSE {<<c.next, "">>})
  BY <1>6, OptsPending
<1>9. MayTakeValue \subseteq valued /\ TakesValue(kind) \subseteq valued /\ "--model" \in TakesValue(kind)
  BY DEF MayTakeValue, TakesValue
<1> HIDE DEF cli, c, valued, fits
<1>10. ASSUME NEW p \in Opts(cli.opts), p[1] \in Selecting PROVE p[2] \in {"", "s0", "s1", "task"}
  <2>1. CASE p[1] \in valued
    BY <1>4, <1>5, <1>10, <2>1
  <2>2. CASE p[1] \notin valued
    <3>1. p[1] \notin TakesValue(kind) \cup MayTakeValue \cup {"--model"}
      BY <1>9, <2>2
    <3>2. p \in Opts(c.opts) \/ p = <<c.next, "">>
      BY <1>8
    <3>3. <<c.next, "">>[2] = ""
      OBVIOUS
    <3> QED BY <1>7, <3>1, <3>2, <3>3
  <2> QED BY <2>1, <2>2
<1>11. Fit(kind, argv)
  BY <1>1, <1>3, <1>10 DEF Fit, cli
<1>12. Opened(kind, argv, "s0") \in {"s0", "s1"}
  BY <1>1 DEF Opened, cli
<1> QED BY <1>11, <1>12

LEMMA InitHolds ==
  ASSUME ~Phrases
  PROVE  Init => IInv
<1> SUFFICES ASSUME Init PROVE IInv
  OBVIOUS
<1>1. where \in [kind : Kinds, mux : {"herdr", "tmux"}, proc : BOOLEAN] /\ where.kind \in Kinds
  BY DEF Init
<1>2. phase = "up" /\ round = 0 /\ seat \in Seats
  BY DEF Init
<1>3. cmd \in Seq(Known(where.kind)) /\ Sound(where.kind, cmd)
  <2>1. cmd \in SeqOf(Tokens(where.kind), MaxArgs) /\ Sound(where.kind, cmd)
    BY DEF Init, Argvs
  <2>2. PICK m \in 0..MaxArgs : cmd \in [1..m -> Tokens(where.kind)]
    BY <2>1 DEF SeqOf
  <2>3. Tokens(where.kind) \subseteq Known(where.kind)
    BY <1>1, TokensKnown
  <2>4. cmd \in [1..m -> Known(where.kind)] /\ m \in Nat
    BY <2>2, <2>3, ConfigBounds
  <2>5. cmd \in Seq(Known(where.kind))
    BY <2>4 
  <2> QED BY <2>1, <2>5
<1>4. Fit(where.kind, cmd) /\ talk \in {"s0", "s1"}
  BY <1>1, <1>3, SoundIsFit DEF Init
<1>5. disk \in Disk
  BY DEF Init, Disk, Dirs
<1>6. StatesFit
  BY <1>1, <1>2, <1>4, <1>5 DEF StatesFit
<1>7. ~AtRest /\ ~Resumed
  BY <1>2 DEF AtRest, Resumed
<1>8. RecordFits /\ BeforeFits /\ DiskFits
  BY <1>2, <1>7 DEF RecordFits, BeforeFits, DiskFits
<1>9. RecordIsTrue /\ ResumesItsConversation /\ SameAgentUnlessTold /\ FlagsRestored
  BY <1>2, <1>7 DEF RecordIsTrue, ResumesItsConversation, SameAgentUnlessTold, FlagsRestored
<1> QED BY <1>6, <1>8, <1>9 DEF IInv

-----------------------------------------------------------------------------
(* Every step keeps it. *)

LEMMA ProbeIs ==
  ASSUME NEW dir, disk \in Disk, dir \in Dirs
  PROVE  /\ Probe(dir).settings = IF where.kind \in {"claude", "grok"} THEN disk.settings[dir] ELSE ""
         /\ Probe(dir).local = IF where.kind = "claude" THEN disk.local[dir] ELSE ""
         /\ Probe(dir).project = IF where.kind = "claude" THEN disk.project ELSE ""
         /\ Probe(dir).trusted \in BOOLEAN /\ (Probe(dir).trusted <=> where.kind = "claude" /\ disk.trusted[dir])
         /\ Probe(dir).version \in {1, 2} /\ Probe(dir).read
<1>1. disk.trusted[dir] \in BOOLEAN /\ disk.version \in {1, 2}
  BY DEF Disk
<1> QED BY <1>1 DEF Probe

LEMMA RollKeeps ==
  ASSUME IInv, Roll
  PROVE  IInv'
<1> DEFINE kind == where.kind
           settings == InForce(kind, seat.dir, disk)
           trusted == disk.trusted[seat.dir]
<1>1. /\ where \in [kind : Kinds, mux : {"herdr", "tmux"}, proc : BOOLEAN]
      /\ Fit(kind, cmd) /\ seat \in Seats /\ talk \in {"s0", "s1"} /\ disk \in Disk
  BY DEF IInv, StatesFit
<1>2. PICK captured \in {where.proc, FALSE}, read \in BOOLEAN :
        record' = Build(IF captured THEN seat ELSE NoSeat, captured,
                        IF read THEN Probe(ConfigDirFor(IF captured THEN seat ELSE NoSeat)) ELSE NoDisk)
  BY DEF Roll
<1> DEFINE env == IF captured THEN seat ELSE NoSeat
           d == IF read THEN Probe(env.dir) ELSE NoDisk
<1>3. /\ phase' = "rolled" /\ before' = Now
      /\ UNCHANGED <<where, cmd, seat, talk, disk, told, round>>
  BY DEF Roll
<1>4. captured \in BOOLEAN /\ env \in Seats /\ (captured => env = seat) /\ seat.dir \in Dirs
  BY <1>1 DEF Seats, Dirs, NoSeat
<1>5. SeenArgv = cmd
  BY <1>1, SeenIs DEF Fit
<1>6. record' = Build(env, captured, d)
  BY <1>2 DEF ConfigDirFor
<1>7. /\ record'.flags = CarriedFlags(kind, cmd) /\ record'.captured = captured /\ record'.env = env /\ record'.dir = env.dir
      /\ record'.mode = PermissionMode(CarriedFlags(kind, cmd), d) /\ record'.model = Model(CarriedFlags(kind, cmd), d)
      /\ record'.resume = IF where.mux = "herdr" THEN ResumeArgv(kind, talk, cmd) ELSE ContinueArgv(kind, cmd)
      /\ record'.id = (IF where.mux = "herdr" THEN talk ELSE "") /\ record'.disk = d
  <2> HIDE DEF d, env
  <2> QED BY <1>5, <1>6 DEF Build, ConfigDirFor
<1>8. (d.read \/ d.version = 0) /\ (kind # "claude" => d.local = "" /\ d.project = "")
  BY DEF Probe, NoDisk
<1>9. d.read /\ kind \in {"claude", "grok"} /\ env.dir = seat.dir =>
        settings = InRecord(d) /\ (kind = "claude" => trusted = d.trusted)
  <2> SUFFICES ASSUME d.read, kind \in {"claude", "grok"}, env.dir = seat.dir
               PROVE  settings = InRecord(d) /\ (kind = "claude" => trusted = d.trusted)
    OBVIOUS
  <2>1. d = Probe(seat.dir)
    BY DEF NoDisk
  <2>2. /\ d.settings = disk.settings[seat.dir]
        /\ d.local = (IF kind = "claude" THEN disk.local[seat.dir] ELSE "")
        /\ d.project = (IF kind = "claude" THEN disk.project ELSE "")
        /\ d.trusted \in BOOLEAN /\ (d.trusted <=> kind = "claude" /\ disk.trusted[seat.dir])
    <3> HIDE DEF d
    <3> QED BY <1>1, <1>4, <2>1, ProbeIs
  <2>3. disk.trusted[seat.dir] \in BOOLEAN
    BY <1>1, <1>4 DEF Disk
  <2> HIDE DEF d
  <2>4. settings = InRecord(d)
    BY <2>2, InForceIs DEF InRecord
  <2> QED BY <2>2, <2>3, <2>4
<1>10. settings \in {"a", "b"} /\ trusted \in BOOLEAN
  <2>1. trusted \in BOOLEAN
    BY <1>1, <1>4 DEF Disk
  <2> QED BY <1>1, <1>4, <2>1, InForceIn
<1>11. Now.agent = AgentOn(kind, cmd, seat, settings, trusted) /\ Now.options = KeptOptions(kind, cmd)
  BY <1>1, AgentOnIs DEF Now
<1> HIDE DEF d, env, settings, trusted
<1>12. StatesFit'
  BY <1>1, <1>3 DEF StatesFit
<1>13. RecordFits'
  BY <1>3, <1>4, <1>7, <1>8 DEF RecordFits
<1>14. BeforeFits'
  <2>1. /\ before'.options = KeptOptions(where'.kind, cmd')
        /\ before'.agent = AgentOn(where'.kind, cmd', seat', settings, trusted)
        /\ record'.disk.read /\ record'.dir = seat'.dir /\ where'.kind \in {"claude", "grok"} =>
             settings = InRecord(record'.disk) /\ (where'.kind = "claude" => trusted = record'.disk.trusted)
    BY <1>3, <1>7, <1>9, <1>11
  <2> QED BY <1>10, <2>1 DEF BeforeFits
<1>15. DiskFits'
  BY <1>3 DEF DiskFits
<1>16. RecordIsTrue'
  <2> SUFFICES ASSUME kind = "claude", d.read, env.dir = seat.dir, d.local = "", d.project = ""
               PROVE  /\ record'.mode = before'.agent.mode
                      /\ seat.model = "" => record'.model = before'.agent.model
    BY <1>3, <1>7 DEF RecordIsTrue
  <2>1. d.settings = settings
    BY <1>9 DEF InRecord
  <2>2. TrueRecord(cmd, seat, settings, trusted, d)
    BY <1>1, <1>10, <2>1, TrueRecordIs
  <2> QED BY <1>3, <1>7, <1>11, <2>2 DEF TrueRecord
<1>17. ~Resumed'
  BY <1>3 DEF Resumed
<1>18. ResumesItsConversation' /\ SameAgentUnlessTold' /\ FlagsRestored'
  BY <1>17 DEF ResumesItsConversation, SameAgentUnlessTold, FlagsRestored
<1> QED BY <1>12, <1>13, <1>14, <1>15, <1>16, <1>18 DEF IInv

LEMMA ParkKeeps ==
  ASSUME IInv, Park
  PROVE  IInv'
<1>1. /\ phase = "rolled" /\ phase' = "parked"
      /\ UNCHANGED <<where, cmd, seat, talk, disk, record, before, told, round, changes>>
  BY DEF Park
<1>2. StatesFit'
  BY <1>1 DEF IInv, StatesFit
<1>3. RecordFits' /\ BeforeFits'
  BY <1>1 DEF IInv, RecordFits, BeforeFits, AtRest
<1>4. DiskFits' /\ RecordIsTrue'
  BY <1>1 DEF DiskFits, RecordIsTrue
<1>5. ~Resumed'
  BY <1>1 DEF Resumed
<1>6. ResumesItsConversation' /\ SameAgentUnlessTold' /\ FlagsRestored'
  BY <1>5 DEF ResumesItsConversation, SameAgentUnlessTold, FlagsRestored
<1> QED BY <1>2, <1>3, <1>4, <1>6 DEF IInv

LEMMA ChangeKeeps ==
  ASSUME IInv, Change
  PROVE  IInv'
<1>1. phase \in {"rolled", "parked"} /\ UNCHANGED <<where, cmd, seat, talk, phase, record, before, told, round>>
  BY DEF Change
<1>2. disk \in Disk
  BY DEF IInv, StatesFit
<1>3. disk' \in Disk
  <2>1. CASE \E d \in Dirs : disk' = [disk EXCEPT !.settings[d] = IF @ = "a" THEN "b" ELSE "a"]
    <3>1. PICK d \in Dirs : disk' = [disk EXCEPT !.settings[d] = IF @ = "a" THEN "b" ELSE "a"]
      BY <2>1
    <3> DEFINE t == [disk.settings EXCEPT ![d] = IF @ = "a" THEN "b" ELSE "a"]
    <3>2. t \in [Dirs -> {"a", "b"}]
      BY <1>2 DEF Disk
    <3>3. disk' = [disk EXCEPT !.settings = t]
      BY <3>1
    <3> HIDE DEF t
    <3> QED BY <1>2, <3>2, <3>3 DEF Disk
  <2>2. CASE \E d \in Dirs : disk' = [disk EXCEPT !.trusted[d] = ~@]
    <3>1. PICK d \in Dirs : disk' = [disk EXCEPT !.trusted[d] = ~@]
      BY <2>2
    <3> DEFINE t == [disk.trusted EXCEPT ![d] = ~disk.trusted[d]]
    <3>2. t \in [Dirs -> BOOLEAN]
      BY <1>2 DEF Disk
    <3>3. disk' = [disk EXCEPT !.trusted = t]
      BY <3>1
    <3> HIDE DEF t
    <3> QED BY <1>2, <3>2, <3>3 DEF Disk
  <2>3. CASE \E d \in Dirs : disk' = [disk EXCEPT !.exists[d] = FALSE, !.trusted[d] = FALSE,
                                      !.settings[d] = "a", !.local[d] = ""]
    <3>1. PICK d \in Dirs : disk' = [disk EXCEPT !.exists[d] = FALSE, !.trusted[d] = FALSE,
                                         !.settings[d] = "a", !.local[d] = ""]
      BY <2>3
    <3> DEFINE x == [disk.exists EXCEPT ![d] = FALSE]
               t == [disk.trusted EXCEPT ![d] = FALSE]
               o == [disk.settings EXCEPT ![d] = "a"]
               l == [disk.local EXCEPT ![d] = ""]
    <3>2. x \in [Dirs -> BOOLEAN] /\ t \in [Dirs -> BOOLEAN] /\ o \in [Dirs -> {"a", "b"}]
          /\ l \in [Dirs -> {"", "b"}]
      BY <1>2 DEF Disk
    <3>3. disk' = [disk EXCEPT !.exists = x, !.trusted = t, !.settings = o, !.local = l]
      BY <1>2, <3>1 DEF Disk
    <3> HIDE DEF x, t, o, l
    <3> QED BY <1>2, <3>2, <3>3 DEF Disk
  <2>4. CASE disk' = [disk EXCEPT !.version = 3 - @]
    <3>1. disk.version \in {1, 2}
      BY <1>2 DEF Disk
    <3>2. 3 - disk.version \in {1, 2}
      BY <3>1
    <3> DEFINE t == 3 - disk.version
    <3>3. disk' = [disk EXCEPT !.version = t] /\ t \in {1, 2}
      BY <2>4, <3>2
    <3> HIDE DEF t
    <3> QED BY <1>2, <3>3 DEF Disk
  <2>5. CASE disk' = [disk EXCEPT !.integration = ~@]
    BY <1>2, <2>5 DEF Disk
  <2>6. CASE \E d \in Dirs : disk' = [disk EXCEPT !.local[d] = IF @ = "" THEN "b" ELSE ""]
    <3>1. PICK d \in Dirs : disk' = [disk EXCEPT !.local[d] = IF @ = "" THEN "b" ELSE ""]
      BY <2>6
    <3> DEFINE t == [disk.local EXCEPT ![d] = IF @ = "" THEN "b" ELSE ""]
    <3>2. t \in [Dirs -> {"", "b"}]
      BY <1>2 DEF Disk
    <3>3. disk' = [disk EXCEPT !.local = t]
      BY <3>1
    <3> HIDE DEF t
    <3> QED BY <1>2, <3>2, <3>3 DEF Disk
  <2>7. CASE disk' = [disk EXCEPT !.project = IF @ = "" THEN "b" ELSE ""]
    BY <1>2, <2>7 DEF Disk
  <2> QED BY <2>1, <2>2, <2>3, <2>4, <2>5, <2>6, <2>7 DEF Change
<1>4. StatesFit'
  BY <1>1, <1>3 DEF IInv, StatesFit
<1>5. RecordFits' /\ BeforeFits'
  BY <1>1 DEF IInv, RecordFits, BeforeFits, AtRest
<1>6. DiskFits' /\ RecordIsTrue'
  BY <1>1 DEF IInv, DiskFits, RecordIsTrue
<1>7. ~Resumed'
  BY <1>1 DEF Resumed
<1>8. ResumesItsConversation' /\ SameAgentUnlessTold' /\ FlagsRestored'
  BY <1>7 DEF ResumesItsConversation, SameAgentUnlessTold, FlagsRestored
<1> QED BY <1>4, <1>5, <1>6, <1>8 DEF IInv

LEMMA CheckKeeps ==
  ASSUME IInv, Check
  PROVE  IInv'
<1>1. /\ phase = "parked" /\ phase' \in {"stopped", "checked"}
      /\ UNCHANGED <<where, cmd, seat, talk, disk, record, before, round>>
  BY DEF Check
<1>2. PICK read \in BOOLEAN :
        LET cur == IF read THEN Probe(record.dir) ELSE NoDisk
        IN /\ told' = Notes(record.disk, cur)
           /\ phase' = IF Hard(record.disk, cur) THEN "stopped" ELSE "checked"
  BY DEF Check
<1> DEFINE cur == IF read THEN Probe(record.dir) ELSE NoDisk
<1>3. told' = Notes(record.disk, cur) /\ phase' = IF Hard(record.disk, cur) THEN "stopped" ELSE "checked"
  BY <1>2
<1>4. StatesFit'
  BY <1>1 DEF IInv, StatesFit
<1>5. RecordFits' /\ BeforeFits'
  BY <1>1 DEF IInv, RecordFits, BeforeFits, AtRest
<1>6. RecordIsTrue' /\ ~Resumed'
  BY <1>1 DEF RecordIsTrue, Resumed
<1>7. ResumesItsConversation' /\ SameAgentUnlessTold' /\ FlagsRestored'
  BY <1>6 DEF ResumesItsConversation, SameAgentUnlessTold, FlagsRestored
<1>8. DiskFits'
  <2> SUFFICES ASSUME phase' = "checked", ~told', where.kind \in {"claude", "grok"}
               PROVE  /\ record.disk.read /\ InForce(where.kind, record.dir, disk) = InRecord(record.disk)
                      /\ where.kind = "claude" /\ record.disk.trusted => disk.trusted[record.dir]
    BY <1>1 DEF DiskFits
  <2>1. /\ record.disk.read \/ record.disk.version = 0
        /\ where.kind # "claude" => record.disk.local = "" /\ record.disk.project = ""
        /\ disk \in Disk /\ record.dir \in Dirs
    BY <1>1 DEF IInv, RecordFits, StatesFit, AtRest, Seats
  <2>2. cur.read /\ record.disk.version = cur.version /\ record.disk.settings = cur.settings
        /\ record.disk.local = cur.local /\ record.disk.project = cur.project
    <3> HIDE DEF cur
    <3> QED BY <1>3 DEF Notes
  <2>3. cur = Probe(record.dir)
    BY <2>2 DEF NoDisk
  <2>4. /\ cur.settings = disk.settings[record.dir]
        /\ cur.local = (IF where.kind = "claude" THEN disk.local[record.dir] ELSE "")
        /\ cur.project = (IF where.kind = "claude" THEN disk.project ELSE "")
        /\ cur.trusted <=> where.kind = "claude" /\ disk.trusted[record.dir]
    <3> HIDE DEF cur
    <3> QED BY <2>1, <2>3, ProbeIs
  <2>5. record.disk.read
    <3> HIDE DEF cur
    <3>1. cur.version \in {1, 2}
      BY <2>1, <2>3, ProbeIs
    <3>2. record.disk.version # 0
      BY <2>2, <3>1
    <3> QED BY <2>1, <3>2
  <2>6. where.kind = "claude" /\ record.disk.trusted => cur.trusted
    <3> HIDE DEF cur
    <3> QED BY <1>3, <2>2 DEF Hard
  <2>7. InForce(where.kind, record.dir, disk) = InRecord(record.disk)
    <3> HIDE DEF cur
    <3> QED BY <2>2, <2>4, InForceIs DEF InRecord
  <2> QED BY <2>4, <2>5, <2>6, <2>7
<1> QED BY <1>4, <1>5, <1>6, <1>7, <1>8 DEF IInv

LEMMA StartKeeps ==
  ASSUME IInv, Start
  PROVE  IInv'
<1> DEFINE kind == where.kind
           mux == where.mux
           s == StartOf(kind, mux, talk, cmd)
           r == ResumeOf(kind, mux, talk, cmd)
           cli == Cli(kind, s)
           carried == Carry(kind, cmd)
           settings == InForce(kind, seat.dir, disk)
           trusted == disk.trusted[seat.dir]
<1>1. /\ where \in [kind : Kinds, mux : {"herdr", "tmux"}, proc : BOOLEAN] /\ kind \in Kinds /\ mux \in {"herdr", "tmux"}
      /\ Fit(kind, cmd) /\ seat \in Seats /\ talk \in {"s0", "s1"} /\ disk \in Disk
  BY DEF IInv, StatesFit
<1>2. /\ phase = "checked" /\ phase' = "up"
      /\ cmd' = StartCmd /\ seat' = record.env /\ talk' = Opened(kind, StartCmd, talk)
      /\ UNCHANGED <<where, disk, record, before, told>>
  BY DEF Start
<1>3. AtRest
  BY <1>2 DEF AtRest
<1>4. /\ record.resume = r /\ record.flags = CarriedFlags(kind, cmd) /\ (mux = "herdr" => record.id = talk)
      /\ record.env \in Seats /\ record.dir = record.env.dir /\ (record.captured => record.env = seat)
  BY <1>3 DEF IInv, RecordFits, ResumeOf
<1>5. StartCmd = s
  BY <1>4 DEF StartCmd, StartOf
<1>6. StartsAs(kind, mux, talk, cmd)
  BY <1>1, StartIs
<1>7. /\ Fit(kind, s) /\ Kept(Opts(cli.opts)) = carried /\ (r # None => Reached(kind, mux, talk, cli))
      /\ Opened(kind, s, talk) \in {"s0", "s1"}
  BY <1>6 DEF StartsAs
<1> HIDE DEF s, r, cli, carried, settings, trusted
<1>8. StatesFit'
  BY <1>1, <1>2, <1>4, <1>5, <1>7 DEF StatesFit
<1>9. RecordFits' /\ BeforeFits' /\ DiskFits' /\ RecordIsTrue'
  <2>1. ~AtRest'
    BY <1>2 DEF AtRest
  <2> QED BY <1>2, <2>1 DEF RecordFits, BeforeFits, DiskFits, RecordIsTrue
<1>10. ResumesItsConversation'
  <2> SUFFICES ASSUME r # None
               PROVE  /\ cli.ok /\ Opens(kind, cli) = (IF mux = "herdr" THEN record.id ELSE "latest")
                      /\ Prompts(kind, cli) = {}
    BY <1>2, <1>4, <1>5 DEF ResumesItsConversation, cli
  <2>1. Reached(kind, mux, talk, cli) /\ cli.ok
    BY <1>7 DEF Fit, cli
  <2> QED BY <1>4, <2>1 DEF Reached
<1>11. FlagsRestored'
  <2> SUFFICES ASSUME kind \in Tables
               PROVE  KeptOptions(kind, s) = before.options
    BY <1>2, <1>5, TablesAre DEF FlagsRestored, Now
  <2>1. KeptOptions(kind, s) = carried
    BY <1>7, KeptOptionsAre DEF cli
  <2>2. KeptOptions(kind, cmd) = carried
    BY <1>1, KeptOptionsAre DEF carried, Carry
  <2>3. before.options = KeptOptions(kind, cmd)
    BY <1>3 DEF IInv, BeforeFits
  <2> QED BY <2>1, <2>2, <2>3
<1>12. SameAgentUnlessTold'
  <2> DEFINE agent == AgentOn(kind, s, seat, settings, trusted)
  <2> SUFFICES ASSUME kind \in {"claude", "grok"}, record.captured, ~told
               PROVE  /\ Effective(kind, s, record.env, disk).asks => before.agent.asks
                      /\ Effective(kind, s, record.env, disk)
                           = [before.agent EXCEPT !.asks = Effective(kind, s, record.env, disk).asks]
    BY <1>2, <1>5 DEF SameAgentUnlessTold, Now
  <2>1. record.env = seat /\ record.dir = seat.dir
    BY <1>4
  <2>2. /\ record.disk.read /\ settings = InRecord(record.disk)
        /\ kind = "claude" /\ record.disk.trusted => trusted
    BY <1>2, <2>1 DEF IInv, DiskFits, settings, trusted
  <2>3. PICK settings0 \in {"a", "b"}, trusted0 \in BOOLEAN :
          /\ before.agent = AgentOn(kind, cmd, seat, settings0, trusted0)
          /\ settings0 = InRecord(record.disk) /\ (kind = "claude" => trusted0 = record.disk.trusted)
    BY <1>3, <2>1, <2>2 DEF IInv, BeforeFits
  <2>4. Single1(Cli(kind, cmd)) /\ Single1(cli)
    BY <1>1, <1>7, OptsOfCli DEF Fit, Single1, cli
  <2>5. Kept(Opts(Cli(kind, cmd).opts)) = Kept(Opts(cli.opts))
    <3>1. kind \in Tables
      BY DEF Tables
    <3> QED BY <1>7, <3>1 DEF carried, Carry
  <2>6. Effective(kind, s, seat, disk) = AgentOn(kind, cmd, seat, settings, trusted)
    <3>1. Effective(kind, s, seat, disk) = Effective(kind, cmd, seat, disk)
      BY <2>4, <2>5, EffectiveByKept DEF cli
    <3> QED BY <1>1, <3>1, AgentOnIs DEF settings, trusted
  <2>7. /\ AgentOn(kind, cmd, seat, settings, trusted)
             = [AgentOn(kind, cmd, seat, settings, trusted0) EXCEPT !.asks = kind = "claude" /\ ~trusted]
        /\ AgentOn(kind, cmd, seat, settings, trusted).asks = (kind = "claude" /\ ~trusted)
        /\ AgentOn(kind, cmd, seat, settings, trusted0).asks = (kind = "claude" /\ ~trusted0)
    <3>1. /\ AgentOn(kind, cmd, seat, settings, trusted) = AgentWith(kind, cmd, seat, settings, trusted)
          /\ AgentOn(kind, cmd, seat, settings, trusted0) = AgentWith(kind, cmd, seat, settings, trusted0)
      BY <1>1, AgentOnHas
    <3> DEFINE with == AgentWith(kind, cmd, seat, settings, trusted)
               m == with.mode
               n == with.model
               p == kind = "claude" /\ ~trusted
               q == kind = "claude" /\ ~trusted0
               before0 == AgentOn(kind, cmd, seat, settings, trusted0)
    <3>2. /\ with = [mode |-> m, model |-> n, seat |-> seat, asks |-> p]
          /\ before0 = [mode |-> m, model |-> n, seat |-> seat, asks |-> q]
      BY <3>1 DEF AgentWith
    <3> HIDE DEF m, n, p, q, before0, with
    <3>3. with.asks = p /\ before0.asks = q
      BY <3>2
    <3>4. with = [before0 EXCEPT !.asks = p]
      BY <3>2
    <3> QED BY <3>1, <3>3, <3>4 DEF p, q, before0, with
  <2>8. settings0 = settings
    BY <2>2, <2>3
  <2> QED BY <2>1, <2>2, <2>3, <2>6, <2>7, <2>8
<1> QED BY <1>8, <1>9, <1>10, <1>11, <1>12 DEF IInv

LEMMA StepKeeps == IInv /\ [Next]_vars => IInv'
<1> SUFFICES ASSUME IInv, [Next]_vars PROVE IInv'
  OBVIOUS
<1>1. CASE Roll
  BY <1>1, RollKeeps
<1>2. CASE Park
  BY <1>2, ParkKeeps
<1>3. CASE Change
  BY <1>3, ChangeKeeps
<1>4. CASE Check
  BY <1>4, CheckKeeps
<1>5. CASE Start
  BY <1>5, StartKeeps
<1>6. CASE UNCHANGED vars
  <2>1. UNCHANGED <<where, cmd, seat, talk, disk, phase, record, before, told, round>>
    BY <1>6 DEF vars
  <2>2. StatesFit' /\ RecordFits'
    BY <2>1 DEF IInv, StatesFit, RecordFits, AtRest
  <2>3. BeforeFits'
    BY <2>1 DEF IInv, BeforeFits, AtRest
  <2>4. DiskFits'
    BY <2>1 DEF IInv, DiskFits
  <2>5. RecordIsTrue' /\ ResumesItsConversation' /\ SameAgentUnlessTold' /\ FlagsRestored'
    BY <2>1 DEF IInv, RecordIsTrue, ResumesItsConversation, SameAgentUnlessTold, FlagsRestored, Resumed, Now
  <2> QED BY <2>2, <2>3, <2>4, <2>5 DEF IInv
<1> QED BY <1>1, <1>2, <1>3, <1>4, <1>5, <1>6 DEF Next

(* With phrases a flag that a prompt holds is carried and a `--` ends the  *)
(* options early (run words): the theorems are about command lines whose   *)
(* prompts are one word each.                                              *)
LEMMA IInvHolds ==
  ASSUME ~Phrases
  PROVE  Spec => []IInv
<1>1. Init => IInv
  BY InitHolds
<1>2. IInv /\ [Next]_vars => IInv'
  BY StepKeeps
<1> QED BY <1>1, <1>2, PTL DEF Spec

(* A resume command is one the agent's CLI takes; it opens the             *)
(* conversation the agent was parked in and prompts nothing, however long  *)
(* the command line it was started with and however often it was parked    *)
(* (resume.py: resume_argv, continue_argv, carried_flags).                 *)
THEOREM ResumesItsConversationHolds ==
  ASSUME ~Phrases
  PROVE  Spec => []ResumesItsConversation
<1>1. IInv => ResumesItsConversation
  BY DEF IInv
<1> QED BY <1>1, IInvHolds, PTL

(* Where settings are probed and the environment was read, an agent comes  *)
(* back with the permission mode, model and seat it was parked with, and   *)
(* no new trust dialog, or the operator is told, whatever changes on disk  *)
(* (agentconfig.build and diff, plan_set.py).                              *)
THEOREM SameAgentUnlessToldHolds ==
  ASSUME ~Phrases
  PROVE  Spec => []SameAgentUnlessTold
<1>1. IInv => SameAgentUnlessTold
  BY DEF IInv
<1> QED BY <1>1, IInvHolds, PTL

(* An agent of a kind with a flag table has the flags it had, with their   *)
(* values, and no others (resume.py: carried_flags).                       *)
THEOREM FlagsRestoredHolds ==
  ASSUME ~Phrases
  PROVE  Spec => []FlagsRestored
<1>1. IInv => FlagsRestored
  BY DEF IInv
<1> QED BY <1>1, IInvHolds, PTL

(* What the record says of permission mode and model is what the agent     *)
(* that was rolled runs with, where its flags and the user's settings      *)
(* decide (agentconfig.build).                                             *)
THEOREM RecordIsTrueHolds ==
  ASSUME ~Phrases
  PROVE  Spec => []RecordIsTrue
<1>1. IInv => RecordIsTrue
  BY DEF IInv
<1> QED BY <1>1, IInvHolds, PTL

=============================================================================
