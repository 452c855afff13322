----------------------------- MODULE MCCollect ------------------------------
(***************************************************************************)
(* A roll of a host with two panes, by how the panes lie to each other.    *)
(***************************************************************************)
EXTENDS Collect

MCDefaultName == [index \in 0..2 |-> IF index = 2 THEN "p2" ELSE IF index = 1 THEN "p1" ELSE "p0"]

Place(session, ws, wsLabel, tab, name, index) ==
  [session |-> session, ws |-> ws, wsLabel |-> wsLabel, tab |-> tab, name |-> name, index |-> index]

(* Two panes of one tab; in two workspaces of one name; in two sessions;   *)
(* in two tabs of one name; named alike; named like the other's default.   *)
(* tmux counts the panes of a window from 0.                               *)
Layouts(mux) ==
  LET one == IF mux = "tmux" THEN 0 ELSE 1
  IN { <<Place(1, 1, "Work", 1, "", one), Place(1, 1, "Work", 1, "", one + 1)>>,
       <<Place(1, 1, "Work", 1, "", one), Place(1, 2, "Work", 2, "", one)>>,
       <<Place(1, 1, "Work", 1, "", one), Place(2, 1, "Work", 1, "", one)>>,
       <<Place(1, 1, "Work", 1, "", one), Place(1, 1, "Work", 2, "", one)>> }
     \cup (IF mux = "herdr" THEN { <<Place(1, 1, "Work", 1, "claude", 1), Place(1, 1, "Work", 1, "claude", 2)>>,
                                   <<Place(1, 1, "Work", 1, "p2", 1), Place(1, 1, "Work", 1, "", 2)>> }
           ELSE {})

MCHosts ==
  UNION { { [mux |-> mux, sessions |-> layout[2].session, layout |-> layout] : layout \in Layouts(mux) } :
          mux \in {"herdr", "tmux", "cmux"} }

(* Keeps the instance small: what a shell does is in w1; the second pane   *)
(* begins in w1 as a claude, that the multiplexer knows or not, or a       *)
(* shell; what is in w2 is a claude; a record that cmux keeps of an agent  *)
(* before is of a claude, where a claude, a codex or a shell is now, or of *)
(* a codex where a claude or a shell is; panes told apart by more than     *)
(* their place in a tab or a session begin as claudes that are known.      *)
Plain(o) == o.prog = "claude" /\ o.cwd = "w1" /\ o.doing = "idle" /\ (Native => Known(o))

MCInit ==
  /\ Init
  /\ \A p \in Pane : /\ world[p].doing \in {"idle", "dialog"}
                     /\ world[p].prog = "claude" \/ world[p].cwd = "w1"
  /\ world[2].prog \in {"claude", "shell"} /\ world[2].cwd = "w1"
  /\ world[2].hook = NoHook \/ Known(world[2])
  /\ \/ world[1].hook = NoHook \/ Known(world[1])
     \/ /\ world[1].hook.talk = 0 /\ world[1].cwd = "w1"
        /\ \/ world[1].prog \in {"claude", "shell"}
           \/ world[1].prog = "codex" /\ world[1].hook.kind = "claude"
  /\ LET first == host.layout[1]
         second == host.layout[2]
     IN \/ first.session # second.session
        \/ first.tab = second.tab /\ first.name = ""
        \/ Plain(world[1]) /\ Plain(world[2])

MCSpec == MCInit /\ [][Next]_vars
=============================================================================
