---------------------------- MODULE MCPaneUpdates ----------------------------
(* What the daemon knows of its panes. Their rows, which it gets from      *)
(* tmux's events: two panes in two windows of two sessions, one of them    *)
(* with its status read from the screen. Or that status, and how old it    *)
(* gets: a pane whose agent sets a title beside one with only a screen.    *)
(* The two share the run loop but no state, and one run checks both.       *)
EXTENDS EventBatch, StatusPolling

CONSTANTS p1, p2
VARIABLE subject

MCPanes == {"p1", "p2"}
MCWindows == {"w1", "w2"}
MCSessions == {"s1", "s2"}
MCHomeWindow == [p \in MCPanes |-> IF p = "p1" THEN "w1" ELSE "w2"]
MCHomeSession == [w \in MCWindows |-> IF w = "w1" THEN "s1" ELSE "s2"]
MCCandidates == {"p1"}

TitledAndNot == {[p \in {p1, p2} |-> IF p = p1 THEN "Claude" ELSE "Hermes"]}

MCInit ==
  /\ Init /\ PollingInit
  /\ subject \in {"rows", "statuses"}

MCNext ==
  \/ subject = "rows" /\ Next /\ UNCHANGED <<subject, pollingVars>>
  \/ subject = "statuses" /\ PollingNext /\ UNCHANGED <<subject, vars>>

MCSpec == MCInit /\ [][MCNext]_<<subject, vars, pollingVars>>
=============================================================================
