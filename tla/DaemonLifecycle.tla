--------------------------- MODULE DaemonLifecycle ---------------------------
(***************************************************************************)
(* Starting and stopping daemons on one socket path.  Several processes    *)
(* share four files: the socket, the lifecycle lock (held by a daemon from *)
(* its start to its end), the start lock (held by a consumer that starts a *)
(* daemon) and the identity sidecar.                                       *)
(*                                                                         *)
(* Daemons are process incarnations: pids are not reused.  Launchers are   *)
(* consumers that auto-start (and `daemon start`), Stoppers are `daemon    *)
(* stop`; `daemon restart` is a stopper whose success starts a launcher.   *)
(* A step is one system call on the shared files, or one answer of the     *)
(* daemon.  A connection between bind and listen is refused, like one to   *)
(* a socket file whose process is dead.                                    *)
(***************************************************************************)
EXTENDS Naturals, FiniteSets

CONSTANTS
  Daemons,
  Foreground,     \* those that a shell or a service manager runs
  OldDaemons,     \* those that speak another protocol version
  Launchers,
  Stoppers,
  NoDaemon, NoLauncher,
  MaxCrashes,     \* bound: daemons that die by themselves
  MaxInterrupts   \* bound: launchers interrupted while they start a daemon

ASSUME LifecycleAssumption ==
  /\ OldDaemons \subseteq Foreground /\ Foreground \subseteq Daemons
  /\ NoDaemon \notin Daemons /\ NoLauncher \notin Launchers
  /\ Launchers \cap Stoppers = {}
  /\ MaxCrashes \in Nat /\ MaxInterrupts \in Nat

VARIABLES
  socket_file,  \* whose socket the path names, NoDaemon if there is no file
  listening,    \* daemons whose listener takes connections
  daemon_lock,  \* who holds the lifecycle lock
  start_lock,   \* who holds the start lock
  sidecar,      \* whom the identity sidecar names
  dpc,          \* per daemon: where it is
  terminated,   \* daemons that were sent SIGTERM
  lpc, child,   \* per launcher: where it is, and the daemon it spawned
  spc, target,  \* per stopper: where it is, and the daemon it stops
  asked,        \* per launcher and stopper: the daemon a status query waits for
  crashes, interrupts

files == <<socket_file, daemon_lock, sidecar>>
launchers == <<lpc, child, start_lock, interrupts>>
stoppers == <<spc, target>>
process == <<dpc, listening, terminated, crashes>>
vars == <<files, process, launchers, stoppers, asked>>

-----------------------------------------------------------------------------
(* Processes *)

\* A dead process is a zombie until its parent waits for it or is gone itself.
Executing(d) == dpc[d] \notin {"unborn", "zombie", "reaped"}
Live(d) == dpc[d] \notin {"unborn", "reaped"}
Dead(d) == IF \E l \in Launchers : child[l] = d /\ lpc[l] # "gone" THEN "zombie" ELSE "reaped"

Goto(d, from, to) == dpc[d] = from /\ dpc' = [dpc EXCEPT ![d] = to]

\* The process ends, whatever it was doing: its listener and its lock go with it.
Ends(d) ==
  /\ dpc' = [dpc EXCEPT ![d] = Dead(d)]
  /\ listening' = listening \ {d}
  /\ daemon_lock' = IF daemon_lock = d THEN NoDaemon ELSE daemon_lock

-----------------------------------------------------------------------------
(* remove_stale_socket_if_present: probe by connecting, then unlink.  What is *)
(* unlinked is what the path names by then.                                   *)

Reachable(d) == socket_file = d /\ d \in listening
NobodyAnswers == \A d \in Daemons : ~Reachable(d)

ProbeFindsNothing == socket_file = NoDaemon
ProbeIsRefused == socket_file # NoDaemon /\ NobodyAnswers

-----------------------------------------------------------------------------
(* The daemon *)

\* `daemon run`
RunForeground(d) ==
  /\ d \in Foreground
  /\ Goto(d, "unborn", "probe")
  /\ UNCHANGED <<files, listening, terminated, crashes, launchers, stoppers, asked>>

DaemonProbes(d) ==
  /\ \/ ProbeFindsNothing /\ Goto(d, "probe", "lock")
     \/ ProbeIsRefused /\ Goto(d, "probe", "unlink")
     \/ ~NobodyAnswers /\ Goto(d, "probe", "exit")
  /\ UNCHANGED <<files, listening, terminated, crashes, launchers, stoppers, asked>>

DaemonUnlinks(d) ==
  /\ Goto(d, "unlink", IF socket_file = NoDaemon THEN "exit" ELSE "lock")
  /\ socket_file' = NoDaemon
  /\ UNCHANGED <<daemon_lock, sidecar, listening, terminated, crashes, launchers, stoppers,
                 asked>>

\* Mutant: the lock is taken whoever holds it.
LockIsFreeAlways == TRUE
LockIsFree == daemon_lock = NoDaemon

\* DaemonLifecycleGuard::acquire does not wait for the lock.
DaemonLocks(d) ==
  /\ \/ LockIsFree /\ Goto(d, "lock", "sidecar") /\ daemon_lock' = d
     \/ ~LockIsFree /\ Goto(d, "lock", "exit") /\ UNCHANGED daemon_lock
  /\ UNCHANGED <<socket_file, sidecar, listening, terminated, crashes, launchers, stoppers,
                 asked>>

WriteSidecar(d) ==
  /\ Goto(d, "sidecar", "bind")
  /\ sidecar' = d
  /\ UNCHANGED <<socket_file, daemon_lock, listening, terminated, crashes, launchers,
                 stoppers, asked>>

\* bind fails if the path exists.
Bind(d) ==
  /\ \/ socket_file = NoDaemon /\ Goto(d, "bind", "listen") /\ socket_file' = d
     \/ socket_file # NoDaemon /\ Goto(d, "bind", "unlock") /\ UNCHANGED socket_file
  /\ UNCHANGED <<daemon_lock, sidecar, listening, terminated, crashes, launchers, stoppers,
                 asked>>

\* listen, and the stat that remembers the socket's inode: it fails if the
\* file is gone already.
Listen(d) ==
  /\ \/ /\ socket_file # NoDaemon /\ Goto(d, "listen", "initializing")
        /\ listening' = listening \cup {d}
     \/ socket_file = NoDaemon /\ Goto(d, "listen", "unlock") /\ UNCHANGED listening
  /\ UNCHANGED <<files, terminated, crashes, launchers, stoppers, asked>>

\* The first snapshot and the control-mode client succeed, or do not; an option
\* that cannot be resolved ends the daemon without a word.
FinishStartup(d) ==
  /\ \E to \in {"ready", "startup_failed", "leaving"} : Goto(d, "initializing", to)
  /\ UNCHANGED <<files, listening, terminated, crashes, launchers, stoppers, asked>>

\* The run loop notices SIGTERM, a socket path that is not its own any more, or
\* the end of tmux.  (Mutant: a missing file is not a mismatch.)
MismatchIfReplaced(d) == socket_file \notin {d, NoDaemon}
Mismatch(d) == socket_file # d
SocketMismatch(d) ==
  /\ Mismatch(d) /\ Goto(d, "ready", "closing")
  /\ UNCHANGED <<files, listening, terminated, crashes, launchers, stoppers, asked>>

Terminated(d) ==
  /\ d \in terminated /\ Goto(d, "ready", "closing")
  /\ UNCHANGED <<files, listening, terminated, crashes, launchers, stoppers, asked>>

TmuxEnds(d) ==
  /\ crashes < MaxCrashes /\ crashes' = crashes + 1
  /\ Goto(d, "ready", "closing")
  /\ UNCHANGED <<files, listening, terminated, launchers, stoppers, asked>>

\* Teardown, then the acceptor is stopped (drop of the server handle).
StopAcceptor(d) ==
  /\ \E from \in {"closing", "startup_failed", "leaving"} : Goto(d, from, "unbind")
  /\ listening' = listening \ {d}
  /\ UNCHANGED <<files, terminated, crashes, launchers, stoppers, asked>>

\* (Only the holder of the lock binds, so the check of the inode and the removal
\* are one step.)
Unbind(d) ==
  /\ Goto(d, "unbind", "unlock")
  /\ socket_file' = IF socket_file = d THEN NoDaemon ELSE socket_file
  /\ UNCHANGED <<daemon_lock, sidecar, listening, terminated, crashes, launchers, stoppers,
                 asked>>

\* Drop of the lifecycle guard.  (Only the holder of the lock writes the
\* sidecar, so its check, removal and unlock are one step.)
Unlock(d) ==
  /\ Goto(d, "unlock", "exit")
  /\ sidecar' = IF sidecar = d THEN NoDaemon ELSE sidecar
  /\ daemon_lock' = NoDaemon
  /\ UNCHANGED <<socket_file, listening, terminated, crashes, launchers, stoppers, asked>>

Exit(d) ==
  /\ dpc[d] = "exit" /\ Ends(d)
  /\ UNCHANGED <<socket_file, sidecar, terminated, crashes, launchers, stoppers, asked>>

\* Killed from outside, or crashed.
Crash(d) ==
  /\ Executing(d) /\ crashes < MaxCrashes /\ crashes' = crashes + 1
  /\ Ends(d)
  /\ UNCHANGED <<socket_file, sidecar, terminated, launchers, stoppers, asked>>

-----------------------------------------------------------------------------
(* A status query: connect, then read what that daemon says.                 *)

Connect(x) ==
  /\ asked[x] = NoDaemon
  /\ \E d \in Daemons : Reachable(d) /\ asked' = [asked EXCEPT ![x] = d]

\* A daemon that has stopped its acceptor meanwhile was not running.
Answer(d) ==
  IF d \notin listening THEN "not_running"
  ELSE IF d \in OldDaemons THEN "incompatible"
  ELSE IF dpc[d] = "leaving" THEN "initializing" ELSE dpc[d]

\* "no_answer" is a connection closed too early, or a read that timed out.
Answers(x) ==
  IF asked[x] # NoDaemon THEN {Answer(asked[x]), "no_answer"}
  ELSE IF NobodyAnswers THEN {"not_running"} ELSE {}

Answered(x) == asked' = [asked EXCEPT ![x] = NoDaemon]

-----------------------------------------------------------------------------
(* start_daemon_from_request *)

Checking == {"check", "recheck"}
Waiting == {"wait", "wait_locked", "wait_child"}

\* Where a launcher goes; the start lock is dropped when it returns.
LaunchGoto(l, to) ==
  /\ lpc' = [lpc EXCEPT ![l] = to]
  /\ start_lock' = IF start_lock = l /\ to \in {"ok", "failed", "gone"}
                   THEN NoLauncher ELSE start_lock

LauncherConnects(l) ==
  /\ lpc[l] \in Checking \cup Waiting /\ Connect(l)
  /\ UNCHANGED <<files, process, launchers, stoppers>>

\* daemon_start_existing_status, without and then with the start lock.
Check(l) ==
  /\ lpc[l] \in Checking
  /\ \E a \in Answers(l) :
       LaunchGoto(l, CASE a = "not_running" -> IF lpc[l] = "check" THEN "lock" ELSE "probe"
                       [] a = "ready" -> "ok"
                       [] a = "initializing" -> IF lpc[l] = "check" THEN "wait" ELSE "wait_locked"
                       [] OTHER -> "failed")
  /\ Answered(l)
  /\ UNCHANGED <<files, process, child, interrupts, stoppers>>

\* Mutant: the lock does not exclude anybody.
StartLockIsFreeAlways == TRUE
StartLockIsFree == start_lock = NoLauncher

AcquireStartLock(l) ==
  /\ lpc[l] = "lock" /\ StartLockIsFree
  /\ start_lock' = l
  /\ lpc' = [lpc EXCEPT ![l] = "recheck"]
  /\ UNCHANGED <<files, process, child, interrupts, stoppers, asked>>

LauncherProbes(l) ==
  /\ lpc[l] = "probe"
  /\ LaunchGoto(l, IF ProbeFindsNothing THEN "spawn"
                   ELSE IF ProbeIsRefused THEN "unlink" ELSE "failed")
  /\ UNCHANGED <<files, process, child, interrupts, stoppers, asked>>

LauncherUnlinks(l) ==
  /\ lpc[l] = "unlink"
  /\ LaunchGoto(l, IF socket_file = NoDaemon THEN "failed" ELSE "spawn")
  /\ socket_file' = NoDaemon
  /\ UNCHANGED <<daemon_lock, sidecar, process, child, interrupts, stoppers, asked>>

\* A launcher spawns its own executable, so a daemon of its own version.
Spawn(l) ==
  /\ lpc[l] = "spawn"
  /\ \E d \in Daemons \ Foreground :
       Goto(d, "unborn", "probe") /\ child' = [child EXCEPT ![l] = d]
  /\ LaunchGoto(l, "wait_child")
  /\ UNCHANGED <<files, listening, terminated, crashes, interrupts, stoppers, asked>>

GivesUp(l) == IF lpc[l] = "wait_child" THEN "term_child" ELSE "failed"

\* One round of wait_for_daemon_readiness: the answer, then the child.
WaitRound(l) ==
  /\ lpc[l] \in Waiting
  /\ \E a \in Answers(l) :
       \/ a = "ready" /\ LaunchGoto(l, "ok") /\ UNCHANGED dpc
       \/ /\ a \in {"startup_failed", "incompatible", "no_answer"}
          /\ LaunchGoto(l, GivesUp(l)) /\ UNCHANGED dpc
       \/ /\ a \in {"not_running", "initializing", "closing"}
          /\ IF lpc[l] = "wait_child" /\ dpc[child[l]] = "zombie"
             THEN Goto(child[l], "zombie", "reaped") /\ LaunchGoto(l, "failed")
             ELSE UNCHANGED <<dpc, lpc, start_lock>>
  /\ Answered(l)
  /\ UNCHANGED <<files, listening, terminated, crashes, child, interrupts, stoppers>>

Deadline(l) ==
  /\ lpc[l] \in Waiting /\ asked[l] = NoDaemon
  /\ LaunchGoto(l, GivesUp(l))
  /\ UNCHANGED <<files, process, child, interrupts, stoppers, asked>>

\* cleanup_detached_daemon_child: SIGTERM, SIGKILL a second later, wait.  A child
\* that is just starting resets its shutdown flag, and may so miss the signal.
TermChild(l) ==
  /\ lpc[l] = "term_child"
  /\ \/ Executing(child[l]) /\ terminated' = terminated \cup {child[l]}
     \/ (~Executing(child[l]) \/ dpc[child[l]] = "probe") /\ UNCHANGED terminated
  /\ LaunchGoto(l, "reap_child")
  /\ UNCHANGED <<files, dpc, listening, crashes, child, interrupts, stoppers, asked>>

KillChild(l) ==
  /\ lpc[l] = "reap_child" /\ Executing(child[l])
  /\ Ends(child[l])
  /\ UNCHANGED <<socket_file, sidecar, terminated, crashes, launchers, stoppers, asked>>

ReapChild(l) ==
  /\ lpc[l] = "reap_child" /\ Goto(child[l], "zombie", "reaped")
  /\ LaunchGoto(l, "failed")
  /\ UNCHANGED <<files, listening, terminated, crashes, child, interrupts, stoppers, asked>>

\* The consumer ends, perhaps long after it started the daemon, or is
\* interrupted meanwhile.  Its daemon lives on; a zombie is inherited and reaped.
LauncherExits(l) ==
  /\ \/ lpc[l] \in {"ok", "failed"} /\ UNCHANGED interrupts
     \/ /\ lpc[l] \notin {"ok", "failed", "gone"}
        /\ interrupts < MaxInterrupts /\ interrupts' = interrupts + 1
  /\ LaunchGoto(l, "gone")
  /\ dpc' = [d \in Daemons |-> IF child[l] = d /\ dpc[d] = "zombie" THEN "reaped" ELSE dpc[d]]
  /\ Answered(l)
  /\ UNCHANGED <<files, listening, terminated, crashes, child, stoppers>>

-----------------------------------------------------------------------------
(* daemon_stop *)

StopGoto(s, to) == spc' = [spc EXCEPT ![s] = to]

StopperConnects(s) ==
  /\ spc[s] \in {"ask", "reask"} /\ Connect(s)
  /\ UNCHANGED <<files, process, launchers, stoppers>>

\* Whom to stop.  A daemon of another version is known by its sidecar, which
\* must name the process that answered, and by the lifecycle lock being held.
Ask(s) ==
  /\ spc[s] = "ask"
  /\ \E a \in Answers(s) :
       \/ a = "not_running" /\ StopGoto(s, "probe") /\ UNCHANGED target
       \/ a = "no_answer" /\ StopGoto(s, "failed") /\ UNCHANGED target
       \/ /\ a = "incompatible"
          /\ IF sidecar = asked[s] /\ Live(asked[s]) /\ ~LockIsFree
             THEN StopGoto(s, "term") /\ target' = [target EXCEPT ![s] = asked[s]]
             ELSE StopGoto(s, "failed") /\ UNCHANGED target
       \/ /\ a \notin {"not_running", "no_answer", "incompatible"}
          /\ StopGoto(s, "term") /\ target' = [target EXCEPT ![s] = asked[s]]
  /\ Answered(s)
  /\ UNCHANGED <<files, process, launchers>>

SendTerm(s) ==
  /\ spc[s] = "term"
  /\ StopGoto(s, IF Live(target[s]) THEN "wait_term" ELSE "failed")
  /\ terminated' = IF Executing(target[s]) THEN terminated \cup {target[s]} ELSE terminated
  /\ UNCHANGED <<files, dpc, listening, crashes, launchers, target, asked>>

\* wait_for_process_exit asks whether the pid exists: a zombie does.
ExitSeen(s) ==
  /\ spc[s] \in {"wait_term", "wait_kill"} /\ ~Live(target[s])
  /\ StopGoto(s, "probe")
  /\ UNCHANGED <<files, process, launchers, target, asked>>

\* Three seconds have passed.  A compatible daemon is asked once more who it is.
TermTimesOut(s) ==
  /\ spc[s] = "wait_term" /\ Live(target[s])
  /\ StopGoto(s, IF target[s] \in OldDaemons THEN "kill" ELSE "reask")
  /\ UNCHANGED <<files, process, launchers, target, asked>>

\* matching_live_status
AskAgain(s) ==
  /\ spc[s] = "reask"
  /\ \E a \in Answers(s) :
       StopGoto(s, IF asked[s] = target[s] /\ a \notin {"not_running", "no_answer"}
                   THEN "kill" ELSE "failed")
  /\ Answered(s)
  /\ UNCHANGED <<files, process, launchers, target>>

SendKill(s) ==
  /\ spc[s] = "kill"
  /\ StopGoto(s, IF Live(target[s]) THEN "wait_kill" ELSE "failed")
  /\ IF Executing(target[s]) THEN Ends(target[s]) ELSE UNCHANGED <<dpc, listening, daemon_lock>>
  /\ UNCHANGED <<socket_file, sidecar, terminated, crashes, launchers, target, asked>>

KillTimesOut(s) ==
  /\ spc[s] = "wait_kill" /\ Live(target[s])
  /\ StopGoto(s, "failed")
  /\ UNCHANGED <<files, process, launchers, target, asked>>

\* finish_daemon_stop, and the clean-up of a stop that found nothing running.
AfterSocket(s) == IF target[s] = NoDaemon THEN "ok" ELSE "read_sidecar"

StopperProbes(s) ==
  /\ spc[s] = "probe"
  /\ StopGoto(s, IF ProbeFindsNothing THEN AfterSocket(s)
                 ELSE IF ProbeIsRefused THEN "unlink" ELSE "failed")
  /\ UNCHANGED <<files, process, launchers, target, asked>>

StopperUnlinks(s) ==
  /\ spc[s] = "unlink"
  /\ StopGoto(s, IF socket_file = NoDaemon THEN "failed" ELSE AfterSocket(s))
  /\ socket_file' = NoDaemon
  /\ UNCHANGED <<daemon_lock, sidecar, process, launchers, target, asked>>

\* Mutant: the sidecar of the stopped daemon is left behind.
SidecarIsStaleNever(s) == FALSE
SidecarIsStale(s) == sidecar = target[s]

\* remove_matching_identity: read and compare, then remove.
StopperReadsSidecar(s) ==
  /\ spc[s] = "read_sidecar"
  /\ StopGoto(s, IF SidecarIsStale(s) THEN "remove_sidecar" ELSE "ok")
  /\ UNCHANGED <<files, process, launchers, target, asked>>

StopperRemovesSidecar(s) ==
  /\ spc[s] = "remove_sidecar"
  /\ sidecar' = NoDaemon
  /\ StopGoto(s, "ok")
  /\ UNCHANGED <<socket_file, daemon_lock, process, launchers, target, asked>>

-----------------------------------------------------------------------------
Init ==
  /\ socket_file = NoDaemon
  /\ listening = {}
  /\ daemon_lock = NoDaemon
  /\ start_lock = NoLauncher
  /\ sidecar = NoDaemon
  /\ dpc = [d \in Daemons |-> "unborn"]
  /\ terminated = {}
  /\ lpc = [l \in Launchers |-> "check"]
  /\ child = [l \in Launchers |-> NoDaemon]
  /\ spc = [s \in Stoppers |-> "ask"]
  /\ target = [s \in Stoppers |-> NoDaemon]
  /\ asked = [x \in Launchers \cup Stoppers |-> NoDaemon]
  /\ crashes = 0
  /\ interrupts = 0

DaemonStarts(d) ==
  \/ DaemonProbes(d) \/ DaemonUnlinks(d) \/ DaemonLocks(d) \/ WriteSidecar(d) \/ Bind(d)
  \/ Listen(d) \/ FinishStartup(d)
DaemonLeaves(d) ==
  \/ SocketMismatch(d) \/ Terminated(d) \/ StopAcceptor(d) \/ Unbind(d) \/ Unlock(d)
  \/ Exit(d)
Daemon(d) == DaemonStarts(d) \/ DaemonLeaves(d)

Launcher(l) ==
  \/ Check(l) \/ AcquireStartLock(l) \/ LauncherProbes(l) \/ LauncherUnlinks(l)
  \/ Spawn(l) \/ WaitRound(l) \/ TermChild(l) \/ KillChild(l) \/ ReapChild(l)
  \/ LauncherConnects(l)

Stopper(s) ==
  \/ StopperConnects(s) \/ Ask(s) \/ SendTerm(s) \/ ExitSeen(s) \/ TermTimesOut(s)
  \/ AskAgain(s) \/ SendKill(s) \/ KillTimesOut(s) \/ StopperProbes(s) \/ StopperUnlinks(s)
  \/ StopperReadsSidecar(s) \/ StopperRemovesSidecar(s)

Next ==
  \/ \E d \in Daemons : Daemon(d) \/ RunForeground(d) \/ TmuxEnds(d) \/ Crash(d)
  \/ \E l \in Launchers : Launcher(l) \/ Deadline(l) \/ LauncherExits(l)
  \/ \E s \in Stoppers : Stopper(s)

Spec == Init /\ [][Next]_vars

\* Every process goes on, and a wait ends.  Teardown of the control-mode clients
\* is taken to end too.  Nothing obliges a daemon to crash, tmux to end, a user to
\* run a daemon, or a consumer to exit.
Fairness ==
  /\ \A d \in Daemons : WF_vars(Daemon(d))
  /\ \A l \in Launchers : WF_vars(Launcher(l)) /\ SF_vars(Deadline(l))
  /\ \A s \in Stoppers : WF_vars(Stopper(s))

FairSpec == Spec /\ Fairness

-----------------------------------------------------------------------------
(* Properties *)

DaemonStates ==
  {"unborn", "probe", "unlink", "lock", "sidecar", "bind", "listen", "initializing",
   "ready", "startup_failed", "leaving", "closing", "unbind", "unlock", "exit", "zombie",
   "reaped"}
LauncherStates ==
  {"check", "wait", "lock", "recheck", "wait_locked", "probe", "unlink", "spawn",
   "wait_child", "term_child", "reap_child", "ok", "failed", "gone"}
StopperStates ==
  {"ask", "term", "wait_term", "reask", "kill", "wait_kill", "probe", "unlink",
   "read_sidecar", "remove_sidecar", "ok", "failed"}

Stopping ==
  {"term", "wait_term", "reask", "kill", "wait_kill", "read_sidecar", "remove_sidecar"}

TypeOK ==
  /\ socket_file \in Daemons \cup {NoDaemon}
  /\ listening \subseteq Daemons
  /\ daemon_lock \in Daemons \cup {NoDaemon}
  /\ start_lock \in Launchers \cup {NoLauncher}
  /\ sidecar \in Daemons \cup {NoDaemon}
  /\ dpc \in [Daemons -> DaemonStates]
  /\ terminated \subseteq Daemons
  /\ lpc \in [Launchers -> LauncherStates]
  /\ child \in [Launchers -> Daemons \cup {NoDaemon}]
  /\ \A l \in Launchers :
       lpc[l] \in {"wait_child", "term_child", "reap_child"} => child[l] \in Daemons
  /\ spc \in [Stoppers -> StopperStates]
  /\ target \in [Stoppers -> Daemons \cup {NoDaemon}]
  /\ \A s \in Stoppers :
       spc[s] \in Stopping => target[s] \in Daemons
  /\ asked \in [Launchers \cup Stoppers -> Daemons \cup {NoDaemon}]
  /\ crashes \in 0 .. MaxCrashes
  /\ interrupts \in 0 .. MaxInterrupts

\* The lifecycle lock's purpose: whatever starters, stoppers and crashes do, at
\* most one daemon takes connections on the path.
OneListener == \A d, e \in listening : d = e

\* While a daemon takes connections the path leads to nobody else, and the
\* sidecar, by which a daemon of another version is signalled, names nobody else.
FilesNameListener ==
  \A d \in listening : socket_file \in {d, NoDaemon} /\ sidecar \in {d, NoDaemon}

\* One daemon at a time has the name: it alone takes connections, and what names a
\* daemon names no other.
OneNamedListener == OneListener /\ FilesNameListener

\* finish_daemon_stop: after a stop that reports success its daemon runs no more,
\* and neither the socket path nor the sidecar leads to it.
StoppedIsGone ==
  \A s \in Stoppers : spc[s] = "ok" /\ target[s] # NoDaemon =>
    ~Executing(target[s]) /\ socket_file # target[s] /\ sidecar # target[s]

\* "concurrent_start_uses_single_daemon" (daemon_integration.rs): consumers that
\* start at the same time do not spawn a daemon beside one that starts or serves, as
\* long as nobody stops one.
SpawnsOnlyWhenNeeded ==
  [][\A l \in Launchers : lpc[l] = "spawn" /\ lpc'[l] = "wait_child"
       /\ (\A s \in Stoppers : spc[s] = "ask") =>
       \A d \in Daemons : ~Executing(d) \/ dpc[d] \in {"closing", "unbind", "unlock", "exit"}]_vars

\* The socket-identity check heals what the probe-then-unlink race breaks: a
\* daemon nobody can reach any more ends, and its locks with it.
DeafDaemonsEnd ==
  \A d \in Daemons : dpc[d] = "ready" /\ socket_file # d ~> ~Executing(d)

\* A consumer that has to start a daemon comes to an end: nobody keeps the start lock.
LaunchesEnd == \A l \in Launchers : <>(lpc[l] \in {"ok", "failed", "gone"})

\* Nobody is left behind: neither a daemon that cannot be reached nor a consumer that waits.
NobodyIsLeftBehind == DeafDaemonsEnd /\ LaunchesEnd
=============================================================================
