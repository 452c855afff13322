------------------------------ MODULE MCWindow ------------------------------
(***************************************************************************)
(* Window on small fleets: a herdr host h1, a tmux host h2, a cmux host h3 *)
(* with one session each, and the cockpit, whose pane 1 Watchbill runs in. *)
(***************************************************************************)
EXTENDS Window, TLC

CONSTANTS h1, h2, h3, cockpit, s1, s2, s3, home, me, a, b, c, d, e, f

MCHost == {h1, h2, h3, cockpit}
MCSession == {s1, s2, s3, home}
MCSlot == {me, a, b, c, d, e, f}
MCHostOf == home :> cockpit @@ s1 :> h1 @@ s2 :> h2 @@ s3 :> h3
MCMux == cockpit :> "herdr" @@ h1 :> "herdr" @@ h2 :> "tmux" @@ h3 :> "cmux"
MCAttended == {h1}
MCLabel == {"", "watchbill", "home", "1", "work", "main", "one", "two", "logs"}

Plain == [guard |-> "none", config |-> FALSE, seat |-> FALSE, auto |-> FALSE, prompt |-> TRUE, relaunch |-> TRUE]

(* a has its configuration checked, d is the one of hosts.toml's globs. *)
TraitWith(guardOfD) ==
  [s \in MCSlot |->
     CASE s = a -> [Plain EXCEPT !.config = TRUE, !.seat = TRUE]
       [] s = d -> [Plain EXCEPT !.guard = guardOfD]
       [] s = e -> [Plain EXCEPT !.auto = TRUE]
       [] OTHER -> Plain]
TraitNone == TraitWith("none")
TraitExcluded == TraitWith("excluded")
TraitIgnored == TraitWith("ignored")

P(session, ws, wl, tab, tl, slot, runs) ==
  [session |-> session, ws |-> ws, wl |-> wl, tab |-> tab, tl |-> tl, slot |-> slot, runs |-> runs,
   who |-> IF runs = "agent" THEN slot ELSE NoSlot, status |-> IF runs = "agent" THEN "idle" ELSE "none",
   typed |-> IF runs = "agent" THEN "draft" ELSE "", whose |-> NoSlot]

MyPane == P(home, 1, "home", 1, "1", me, "shell")
Fleet(panes) == [panes |-> <<MyPane>> \o panes, up |-> {panes[i].session : i \in DOMAIN panes} \cup {home}]

(* On herdr two tabs of one name, an agent in each and a watcher; on tmux  *)
(* an agent in each of two tabs; on cmux two in one tab.                   *)
Herdr == << P(s1, 2, "work", 2, "main", a, "agent"), P(s1, 2, "work", 3, "main", b, "agent"),
            P(s1, 2, "work", 3, "main", c, "watcher") >>
Tmux == << P(s2, 2, "work", 2, "one", a, "agent"), P(s2, 2, "work", 3, "two", b, "agent") >>
Cmux == << P(s3, 2, "work", 2, "one", a, "agent"), P(s3, 2, "work", 2, "one", e, "agent") >>
(* The hosts of a rolling window; the same with d behind an agent, and a   *)
(* cmux host beside them.                                                  *)
Both == Herdr \o << P(s2, 5, "work", 5, "one", f, "agent") >>
Guarded == << P(s1, 2, "work", 2, "one", a, "agent"), P(s1, 2, "work", 2, "one", d, "agent"),
              P(s1, 4, "logs", 4, "one", b, "agent"), P(s2, 5, "work", 5, "one", f, "agent"),
              P(s3, 6, "logs", 6, "one", e, "agent") >>
(* d alone on its host. *)
Alone == << P(s1, 2, "work", 2, "one", d, "shell") >>
(* Two agents in one tab; an agent alone. *)
Together == << P(s1, 2, "work", 2, "one", a, "agent"), P(s1, 2, "work", 2, "one", b, "agent") >>
One == << P(s1, 2, "work", 2, "one", a, "agent") >>

WorldsStop == {Fleet(Herdr), Fleet(Tmux), Fleet(Cmux), Fleet(Alone)}
WorldsVerbs == {Fleet(Both), Fleet(Guarded)}
WorldsTogether == {Fleet(Together)}
WorldsOne == {Fleet(One)}

SecureOf(mode, targets) ==
  [verb |-> "secure", resume |-> FALSE,
   opts |-> [mode |-> mode, targets |-> targets, hosts |-> MCHost, local |-> FALSE, force |-> FALSE, approved |-> TRUE]]

SetIn == [verb |-> "set", resume |-> FALSE,
          opts |-> [targets |-> {}, hosts |-> MCHost, local |-> FALSE, running |-> {}, noPrompt |-> FALSE, approved |-> TRUE]]

Relieve(action, hosts) ==
  [verb |-> "relieve", resume |-> FALSE,
   opts |-> [action |-> action, hosts |-> hosts, live |-> FALSE, done |-> {}, local |-> FALSE, probed |-> MCHost,
             unavailable |-> {}, reboot |-> FALSE, allowReboot |-> FALSE, handoff |-> {}, force |-> FALSE,
             noPrompt |-> FALSE, kinds |-> MCSlot, park |-> {}, stop |-> FALSE, expected |-> TRUE, approved |-> TRUE]]

Resume(q) == [q EXCEPT !.resume = TRUE]

Secures == {SecureOf(m, {}) : m \in {"park", "fold", "dismiss", "host"}} \cup {SecureOf("fold", {b})}
Rolling == {Relieve(action, <<h1, h2>>) : action \in {"upgrade-agents", "upgrade-mux"}}
Verbs == Secures \cup Rolling \cup {SetIn}
StopEach == {Relieve("upgrade-mux", <<h>>) : h \in {h1, h2, h3}}
UpgradeAgents == {Relieve("upgrade-agents", <<h1>>)}
Bounce ==
  LET q == [Relieve("restart-harness", <<h1>>) EXCEPT !.opts.noPrompt = TRUE] IN {q, Resume(q)}

NoFaults == {}
StartFaults == {"agent"}

MCPlans ==
  LET from(w, q) == CASE q.verb = "secure" -> PlanSecure(Roll(w), q.opts)
                      [] q.verb = "set" -> PlanSet(Roll(w), q.opts)
                      [] q.verb = "relieve" -> PlanRelieve(Roll(w), q.opts)
  IN {from(w, q) : w \in Worlds, q \in Requests}

MCStep == UNION {{p.steps[k] : k \in DOMAIN p.steps} : p \in MCPlans}
=============================================================================
