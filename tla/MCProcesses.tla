------------------------------ MODULE MCProcesses ------------------------------
(* What single processes do to live beside others. The daemons of one      *)
(* socket path. Or how two processes find that path. Or the commands by    *)
(* which a process asks tmux: two threads, two installs and three versions *)
(* of the server. Or the calls that the desktop host makes, one at a time. *)
(* Or the process of the picker, and how it ends. What one leaves to       *)
(* another is whether there is an answer, which each leaves open: no step  *)
(* of one changes another, so one run checks all, each from initial states *)
(* of its own.                                                             *)
EXTENDS DaemonLifecycle, SocketPath, TmuxCommands, CommandRunner, TuiProcess, TLC

CONSTANTS d1, d2, d3, i1, i2

VARIABLE subject

\* The threads of a process are alike.
Alike == Permutations(Threads)

NoServer == speaks = {} /\ pin = NoInstall /\ inside = FALSE

\* Which install is asked and whose client it is asked of do not depend on each
\* other: the calls from inside tmux start with PATH's install, which is the server's.
InsideIsPlain == inside => pin = NoInstall /\ speaks = {PathInstall}

MCWellKnown == <<i1, i2>>
MCVersions == {{i1}, {i2}, {}}

Profile(ssh, configured, flaw, installed, remote) ==
  [ssh |-> ssh, configured |-> configured, flaw |-> flaw, installed |-> installed, remote |-> remote]

MCProfiles ==
  { Profile(FALSE, "none", "none", {"shims"}, "nowhere"), Profile(FALSE, "gone", "pane", {}, "nowhere"),
    Profile(TRUE, "none", "none", {}, "login_only"), Profile(TRUE, "none", "tty", {}, "on_path") }
MCMessages == {{"auth"}, {"not_found", "binary"}, {"tmux", "not_found"}, {"stale_pane"}}

NoDirectory == environment = {} /\ platform = "unix"

MCInit ==
  /\ Init /\ SocketInit /\ TmuxInit /\ RunnerInit /\ TuiInit
  /\ subject \in {"daemons", "socket", "commands", "calls", "picker"}
  /\ (subject # "socket" => NoDirectory)
  /\ (subject # "commands" => NoServer) /\ InsideIsPlain
  /\ (subject # "calls" => ~runner.ssh /\ runner.configured = "none")

MCNext ==
  \/ subject = "daemons" /\ Next /\ UNCHANGED <<subject, socketVars, tmuxVars, runnerVars, tuiVars>>
  \/ subject = "socket" /\ SocketNext /\ UNCHANGED <<subject, vars, tmuxVars, runnerVars, tuiVars>>
  \/ subject = "commands" /\ TmuxNext /\ UNCHANGED <<subject, vars, socketVars, runnerVars, tuiVars>>
  \/ subject = "calls" /\ RunnerNext /\ UNCHANGED <<subject, vars, socketVars, tmuxVars, tuiVars>>
  \/ subject = "picker" /\ TuiNext /\ UNCHANGED <<subject, vars, socketVars, tmuxVars, runnerVars>>

MCSpec == MCInit /\ [][MCNext]_<<subject, vars, socketVars, tmuxVars, runnerVars, tuiVars>>
=============================================================================
