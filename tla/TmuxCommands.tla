----------------------------- MODULE TmuxCommands -----------------------------
(***************************************************************************)
(* The tmux commands a process runs, from several threads: how a command   *)
(* finds a tmux that the server talks to, and the calls built from them    *)
(* (focus a pane, show a message, list sessions, look at the clients).     *)
(*                                                                         *)
(* A server drops a client of another version in the handshake.  A command *)
(* dropped so looks for an install that the server takes, under a lock,    *)
(* leaves it in a cache that the whole process uses, and tries once more.  *)
(* Meanwhile the server may end and start from another install, panes      *)
(* close and clients come, go and get busy.  A step is one command of      *)
(* tmux, or one use of the cache.                                          *)
(***************************************************************************)
EXTENDS Naturals, Sequences

CONSTANTS
  Threads, Panes, Ttys,
  Installs,      \* tmux binaries
  PathInstall,   \* the one that the name `tmux` runs
  WellKnown,     \* where package managers put it, in the order they are tried
  Versions,      \* the installs that the versions of a server talk to
  Pins,          \* what AGENTSCAN_TMUX_BIN may name
  OwnTty,        \* the client this process is in, if it is in one
  PathTmux, NoInstall, NoTty, NoThread,
  MaxCalls, MaxMoves, MaxTurns   \* bounds: calls, moves of the server, other changes

ASSUME TmuxAssumption ==
  /\ PathInstall \in Installs /\ WellKnown \in Seq(Installs) /\ OwnTty \in Ttys
  /\ Versions \subseteq SUBSET Installs /\ Pins \subseteq Installs /\ Panes # {}
  /\ PathTmux \notin Installs /\ NoInstall \notin Installs /\ PathTmux # NoInstall
  /\ NoTty \notin Ttys /\ NoThread \notin Threads
  /\ MaxCalls \in Nat /\ MaxMoves \in Nat /\ MaxTurns \in Nat

VARIABLES
  up, speaks,         \* whether a server runs, and the installs it talks to
  panes, clients,     \* its panes, and its clients, the last active at the end
  pin, inside,        \* AGENTSCAN_TMUX_BIN, and whether TMUX is set
  cache, cache_lock,  \* COMPATIBLE_TMUX, and the thread that sweeps with its lock held
  tpc, call,          \* per thread: where it is, and its call
  spent               \* against the bounds

machine == <<up, speaks, panes, clients>>
tmuxVars == <<machine, pin, inside, cache, cache_lock, tpc, call, spent>>

Ops == {"focus", "notify", "attach", "sessions", "clients"}
Stages == {"tty", "clients", "zoom", "plain", "notify", "own", "sessions"}

Calls ==
  [op : Ops \cup {"none"}, pane : Panes, tty : Ttys \cup {NoTty}, stage : Stages,
   used : Installs \cup {PathTmux}, moved : BOOLEAN, retried : BOOLEAN, sweep : Nat \ {0},
   outcome : {"ok", "noserver", "dropped", "missing", "noclient"}, found : Ttys \cup {NoTty},
   answer : {"none", "done", "none_there", "missing", "failed"}]

NoCall == [op |-> "none", pane |-> CHOOSE p \in Panes : TRUE, tty |-> NoTty, stage |-> "sessions",
           used |-> PathTmux, moved |-> FALSE, retried |-> FALSE, sweep |-> 1,
           outcome |-> "ok", found |-> NoTty, answer |-> "none"]

-----------------------------------------------------------------------------
(* What a command comes to. *)

Ran(program) == IF program = PathTmux THEN PathInstall ELSE program
Speaks(program) == up /\ Ran(program) \in speaks
Attached(tty) == \E i \in DOMAIN clients : clients[i] = tty

\* select_best_client_tty: the client that was active last.
BestClient == IF clients = <<>> THEN NoTty ELSE clients[Len(clients)]

\* switch-client with -Z may fail where it does not without.
Results(c) ==
  IF ~up THEN {"noserver"}
  ELSE IF ~Speaks(c.used) THEN {"dropped"}
  ELSE IF c.stage \notin {"zoom", "plain", "notify"} THEN {"ok"}
  ELSE IF c.stage # "notify" /\ c.pane \notin panes THEN {"missing"}
  ELSE IF c.tty # NoTty /\ ~Attached(c.tty) THEN {"noclient"}
  ELSE IF c.stage = "zoom" THEN {"ok", "noclient"} ELSE {"ok"}

Found(c) ==
  CASE c.stage = "tty" -> IF Attached(OwnTty) THEN OwnTty ELSE NoTty
    [] c.stage = "clients" -> BestClient
    [] OTHER -> NoTty

-----------------------------------------------------------------------------
(* One command: run_tmux_output. *)

At(t, label) == tpc[t] = label
Turn(t, label) == tpc' = [tpc EXCEPT ![t] = label]
CacheIsFree == cache_lock = NoThread
Unpinned == pin = NoInstall

\* The program: the user's pin, the install that was found to work, PATH's.
Selected == IF ~Unpinned THEN pin ELSE IF cache # NoInstall THEN cache ELSE PathTmux

SelectProgram(t) ==
  /\ At(t, "select")
  /\ Unpinned => CacheIsFree
  /\ Turn(t, "run")
  /\ call' = [call EXCEPT ![t].used = Selected,
                          ![t].moved = call[t].retried /\ call[t].moved]
  /\ UNCHANGED <<machine, pin, inside, cache, cache_lock, spent>>

\* Only a first, unpinned attempt that was dropped looks for another install.
RunCommand(t) ==
  /\ At(t, "run")
  /\ \E result \in Results(call[t]) :
       /\ Turn(t, IF result = "dropped" /\ ~call[t].retried /\ Unpinned THEN "refresh" ELSE "got")
       /\ call' = [call EXCEPT ![t].outcome = result,
                               ![t].found = IF result = "ok" THEN Found(call[t]) ELSE NoTty]
  /\ UNCHANGED <<machine, pin, inside, cache, cache_lock, spent>>

\* The retry selects again; the same install is not tried twice.
Resolved(t, install) ==
  LET again == install # NoInstall /\ install # call[t].used
  IN /\ Turn(t, IF again THEN "select" ELSE "got")
     /\ call' = [call EXCEPT ![t].retried = again]

\* Mutant: what the cache holds is taken for good.
RefreshOnce(t) ==
  /\ At(t, "refresh") /\ CacheIsFree
  /\ IF cache # NoInstall
       THEN Resolved(t, cache) /\ UNCHANGED cache_lock
       ELSE /\ Turn(t, "sweep") /\ cache_lock' = t
            /\ call' = [call EXCEPT ![t].sweep = 1]
  /\ UNCHANGED <<machine, pin, inside, cache, spent>>

\* refresh_compatible_tmux: what another thread has found since is used as it is.
Refresh(t) ==
  /\ At(t, "refresh") /\ CacheIsFree
  /\ IF cache # NoInstall /\ cache # call[t].used
       THEN Resolved(t, cache) /\ UNCHANGED cache_lock
       ELSE /\ Turn(t, "sweep") /\ cache_lock' = t
            /\ call' = [call EXCEPT ![t].sweep = 1]
  /\ UNCHANGED <<machine, pin, inside, cache, spent>>

\* candidate_speaks_to_server, for one install after the other.
Probe(t) ==
  /\ At(t, "sweep")
  /\ IF call[t].sweep > Len(WellKnown)
       THEN /\ cache' = NoInstall /\ cache_lock' = NoThread
            /\ Resolved(t, NoInstall)
     ELSE IF Speaks(WellKnown[call[t].sweep])
       THEN /\ cache' = WellKnown[call[t].sweep] /\ cache_lock' = NoThread
            /\ Resolved(t, WellKnown[call[t].sweep])
       ELSE /\ call' = [call EXCEPT ![t].sweep = @ + 1]
            /\ UNCHANGED <<tpc, cache, cache_lock>>
  /\ UNCHANGED <<machine, pin, inside, spent>>

-----------------------------------------------------------------------------
(* The calls. *)

\* resolve_focus_client_tty and default_session_target: whose client this is,
\* then who is attached, then what is there.
FirstStage(op, tty) ==
  CASE op \in {"focus", "notify"} /\ tty # NoTty -> IF op = "focus" THEN "zoom" ELSE "notify"
    [] op \in {"focus", "notify"} /\ tty = NoTty -> IF inside THEN "tty" ELSE "clients"
    [] op = "attach" -> IF inside THEN "own" ELSE "sessions"
    [] OTHER -> op

BeginCall(t) ==
  /\ At(t, "idle") /\ spent.calls < MaxCalls
  /\ \E op \in Ops, pane \in Panes, tty \in Ttys \cup {NoTty} :
       /\ op = "focus" \/ pane = NoCall.pane
       /\ op \in {"focus", "notify"} \/ tty = NoTty
       /\ call' = [call EXCEPT ![t] = [NoCall EXCEPT !.op = op, !.pane = pane, !.tty = tty,
                                                     !.stage = FirstStage(op, tty)]]
  /\ Turn(t, "select")
  /\ spent' = [spent EXCEPT !.calls = @ + 1]
  /\ UNCHANGED <<machine, pin, inside, cache, cache_lock>>

\* What comes after a stage: another one, or the answer.
Stage(c, stage) == [c EXCEPT !.stage = stage, !.retried = FALSE]
Final(c, answer) == [NoCall EXCEPT !.op = c.op, !.pane = c.pane, !.answer = answer]
Target(c) == IF c.op = "focus" THEN "zoom" ELSE "notify"
WithTty(c) == Stage([c EXCEPT !.tty = c.found], Target(c))

After(c) ==
  CASE c.stage = "tty" -> IF c.found # NoTty THEN WithTty(c) ELSE Stage(c, "clients")
    [] c.stage = "clients" -> IF c.op = "clients" THEN Final(c, "done") ELSE WithTty(c)
    [] c.stage = "own" -> IF c.outcome = "ok" THEN Final(c, "done") ELSE Stage(c, "sessions")
    [] c.stage = "sessions" ->
         Final(c, CASE c.outcome = "ok" -> "done"
                    [] c.outcome = "noserver" /\ c.op = "sessions" -> "none_there"
                    [] OTHER -> "failed")
    [] c.stage = "zoom" /\ c.outcome \notin {"ok", "missing"} -> Stage(c, "plain")
    [] OTHER -> Final(c, CASE c.outcome = "ok" -> "done"
                           [] c.outcome = "missing" -> "missing"
                           [] OTHER -> "failed")

Continues(t) ==
  /\ At(t, "got")
  /\ call' = [call EXCEPT ![t] = After(call[t])]
  /\ Turn(t, IF After(call[t]).answer = "none" THEN "select" ELSE "idle")
  /\ UNCHANGED <<machine, pin, inside, cache, cache_lock, spent>>

-----------------------------------------------------------------------------
(* The server, and those who use it. *)

\* It ends, starts, or has become another version's, while the threads run.
ServerMoves ==
  /\ spent.moves < MaxMoves
  /\ up' \in BOOLEAN /\ speaks' \in Versions
  /\ call' = [t \in Threads |-> [call[t] EXCEPT !.moved = TRUE]]
  /\ spent' = [spent EXCEPT !.moves = @ + 1]
  /\ UNCHANGED <<panes, clients, pin, inside, cache, cache_lock, tpc>>

\* Ids of panes are not used again.
PaneCloses ==
  /\ spent.turns < MaxTurns
  /\ \E p \in panes : panes' = panes \ {p}
  /\ spent' = [spent EXCEPT !.turns = @ + 1]
  /\ UNCHANGED <<up, speaks, clients, pin, inside, cache, cache_lock, tpc, call>>

\* A client goes, or is active again; another comes.
ClientsChange ==
  /\ spent.turns < MaxTurns
  /\ \/ \E i \in DOMAIN clients :
          LET others == SubSeq(clients, 1, i - 1) \o SubSeq(clients, i + 1, Len(clients))
          IN clients' \in {others, Append(others, clients[i])} \ {clients}
     \/ \E tty \in Ttys : ~Attached(tty) /\ clients' = Append(clients, tty)
  /\ spent' = [spent EXCEPT !.turns = @ + 1]
  /\ UNCHANGED <<up, speaks, panes, pin, inside, cache, cache_lock, tpc, call>>

TmuxInit ==
  /\ up = TRUE /\ speaks \in Versions
  /\ panes = Panes /\ clients = <<OwnTty>>
  /\ pin \in Pins \cup {NoInstall} /\ inside \in BOOLEAN
  /\ cache = NoInstall /\ cache_lock = NoThread
  /\ tpc = [t \in Threads |-> "idle"] /\ call = [t \in Threads |-> NoCall]
  /\ spent = [calls |-> 0, moves |-> 0, turns |-> 0]

TmuxNext ==
  \/ \E t \in Threads :
       BeginCall(t) \/ SelectProgram(t) \/ RunCommand(t) \/ Refresh(t) \/ Probe(t) \/ Continues(t)
  \/ ServerMoves \/ PaneCloses \/ ClientsChange

TmuxSpec == TmuxInit /\ [][TmuxNext]_tmuxVars

-----------------------------------------------------------------------------

TmuxTypeOK ==
  /\ up \in BOOLEAN /\ speaks \in Versions /\ panes \subseteq Panes /\ clients \in Seq(Ttys)
  /\ pin \in Pins \cup {NoInstall} /\ inside \in BOOLEAN
  /\ cache \in {NoInstall} \cup {WellKnown[i] : i \in DOMAIN WellKnown}
  /\ cache_lock \in Threads \cup {NoThread}
  /\ tpc \in [Threads -> {"idle", "select", "run", "refresh", "sweep", "got"}]
  /\ call \in [Threads -> Calls]
  /\ spent \in [calls : 0..MaxCalls, moves : 0..MaxMoves, turns : 0..MaxTurns]

\* A command ends with a dropped client only when there is no help: the user
\* pinned the install, the server moved meanwhile, or it takes none of the
\* installs there are.  What another thread finds or gives up while this one
\* waits, sweeps or tries again changes nothing of that.
DropsAreHealed ==
  \A t \in Threads :
    At(t, "got") /\ call[t].outcome = "dropped" /\ Unpinned /\ ~call[t].moved
      => \A i \in DOMAIN WellKnown : ~Speaks(WellKnown[i])

\* A pane said to be missing is gone: neither a client that left nor a server
\* that would not talk is taken for it, and the caller may drop its row.
MissingIsGone ==
  \A t \in Threads : call[t].answer = "missing" => call[t].pane \notin panes

TmuxAnswersAreTrue == DropsAreHealed /\ MissingIsGone
=============================================================================
