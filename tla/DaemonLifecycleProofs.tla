----------------------- MODULE DaemonLifecycleProofs -----------------------
(***************************************************************************)
(* Proofs about the processes around the daemon, for every value of the    *)
(* constants: DaemonLifecycle, whatever number of daemons, launchers and   *)
(* stoppers there is, then SocketPath, TuiProcess, CommandRunner and       *)
(* TmuxCommands.                                                           *)
(***************************************************************************)
EXTENDS DaemonLifecycle, SocketPath, TmuxCommands, CommandRunner, TuiProcess, TLAPS

-----------------------------------------------------------------------------
(* Type correctness *)

LEMMA InitType == Init => TypeOK
BY LifecycleAssumption
DEF Init, TypeOK, DaemonStates, LauncherStates, StopperStates, Stopping

LEMMA TypeStep == TypeOK /\ [Next]_vars => TypeOK'
<1> SUFFICES ASSUME TypeOK, [Next]_vars PROVE TypeOK'
  OBVIOUS
<1>1. CASE UNCHANGED vars
  BY <1>1 DEF TypeOK, vars, files, process, launchers, stoppers
<1>2. ASSUME NEW d \in Daemons, Daemon(d) \/ RunForeground(d) \/ TmuxEnds(d) \/ Crash(d)
      PROVE  TypeOK'
  <2>1. CASE DaemonProbes(d)
    BY <2>1 DEF TypeOK, DaemonProbes, Goto, DaemonStates, files, launchers, stoppers
  <2>2. CASE DaemonUnlinks(d)
    BY <2>2 DEF TypeOK, DaemonUnlinks, Goto, DaemonStates, launchers, stoppers
  <2>3. CASE DaemonLocks(d)
    BY <2>3 DEF TypeOK, DaemonLocks, Goto, DaemonStates, launchers, stoppers
  <2>4. CASE WriteSidecar(d)
    BY <2>4 DEF TypeOK, WriteSidecar, Goto, DaemonStates, launchers, stoppers
  <2>5. CASE Bind(d)
    BY <2>5 DEF TypeOK, Bind, Goto, DaemonStates, launchers, stoppers
  <2>6. CASE Listen(d)
    BY <2>6 DEF TypeOK, Listen, Goto, DaemonStates, files, launchers, stoppers
  <2>7. CASE FinishStartup(d)
    BY <2>7 DEF TypeOK, FinishStartup, Goto, DaemonStates, files, launchers, stoppers
  <2>8. CASE SocketMismatch(d)
    BY <2>8 DEF TypeOK, SocketMismatch, Goto, DaemonStates, files, launchers, stoppers
  <2>9. CASE Terminated(d)
    BY <2>9 DEF TypeOK, Terminated, Goto, DaemonStates, files, launchers, stoppers
  <2>10. CASE StopAcceptor(d)
    BY <2>10 DEF TypeOK, StopAcceptor, Goto, DaemonStates, files, launchers, stoppers
  <2>11. CASE Unbind(d)
    BY <2>11 DEF TypeOK, Unbind, Goto, DaemonStates, launchers, stoppers
  <2>12. CASE Unlock(d)
    BY <2>12 DEF TypeOK, Unlock, Goto, DaemonStates, launchers, stoppers
  <2>13. CASE Exit(d)
    BY <2>13 DEF TypeOK, Exit, Ends, Dead, DaemonStates, launchers, stoppers
  <2>14. CASE RunForeground(d)
    BY <2>14, LifecycleAssumption
    DEF TypeOK, RunForeground, Goto, DaemonStates, files, launchers, stoppers
  <2>15. CASE TmuxEnds(d)
    BY <2>15, LifecycleAssumption
    DEF TypeOK, TmuxEnds, Goto, DaemonStates, files, launchers, stoppers
  <2>16. CASE Crash(d)
    BY <2>16, LifecycleAssumption
    DEF TypeOK, Crash, Ends, Dead, DaemonStates, launchers, stoppers
  <2> QED
    BY <1>2, <2>1, <2>2, <2>3, <2>4, <2>5, <2>6, <2>7, <2>8, <2>9, <2>10, <2>11, <2>12, <2>13, <2>14, <2>15, <2>16
    DEF Daemon, DaemonStarts, DaemonLeaves
<1>3. ASSUME NEW l \in Launchers, Launcher(l) \/ Deadline(l) \/ LauncherExits(l)
      PROVE  TypeOK'
  <2>1. CASE Check(l)
    BY <2>1
    DEF TypeOK, Check, LaunchGoto, Answered, Answers, LauncherStates, files, process,
        stoppers
  <2>2. CASE AcquireStartLock(l)
    BY <2>2 DEF TypeOK, AcquireStartLock, LauncherStates, files, process, stoppers
  <2>3. CASE LauncherProbes(l)
    BY <2>3
    DEF TypeOK, LauncherProbes, LaunchGoto, LauncherStates, files, process, stoppers
  <2>4. CASE LauncherUnlinks(l)
    BY <2>4 DEF TypeOK, LauncherUnlinks, LaunchGoto, LauncherStates, process, stoppers
  <2>5. CASE Spawn(l)
    BY <2>5
    DEF TypeOK, Spawn, Goto, LaunchGoto, DaemonStates, LauncherStates, files,
        stoppers
  <2>6. CASE WaitRound(l)
    BY <2>6, LifecycleAssumption
    DEF TypeOK, WaitRound, Goto, LaunchGoto, Answered, Answers, GivesUp,
        DaemonStates, LauncherStates, files, stoppers
  <2>7. CASE TermChild(l)
    BY <2>7 DEF TypeOK, TermChild, LaunchGoto, LauncherStates, files, stoppers
  <2>8. CASE KillChild(l)
    BY <2>8
    DEF TypeOK, KillChild, Ends, Dead, DaemonStates, LauncherStates, launchers,
        stoppers
  <2>9. CASE ReapChild(l)
    BY <2>9
    DEF TypeOK, ReapChild, Goto, LaunchGoto, DaemonStates, LauncherStates, files,
        stoppers
  <2>10. CASE LauncherConnects(l)
    BY <2>10
    DEF TypeOK, LauncherConnects, Connect, LauncherStates, files, process, launchers,
        stoppers
  <2>11. CASE Deadline(l)
    BY <2>11
    DEF TypeOK, Deadline, LaunchGoto, GivesUp, LauncherStates, files, process,
        stoppers
  <2>12. CASE LauncherExits(l)
    BY <2>12, LifecycleAssumption
    DEF TypeOK, LauncherExits, LaunchGoto, Answered, DaemonStates, LauncherStates,
        files, stoppers
  <2> QED
    BY <1>3, <2>1, <2>2, <2>3, <2>4, <2>5, <2>6, <2>7, <2>8, <2>9, <2>10, <2>11, <2>12 DEF Launcher
<1>4. ASSUME NEW s \in Stoppers, Stopper(s)
      PROVE  TypeOK'
  <2>1. CASE StopperConnects(s)
    BY <2>1
    DEF TypeOK, StopperConnects, Connect, StopperStates, Stopping, files, process,
        launchers, stoppers
  <2>2. CASE Ask(s)
    BY <2>2, LifecycleAssumption
    DEF TypeOK, Ask, StopGoto, Answered, Answers, StopperStates, Stopping, files,
        process, launchers
  <2>3. CASE SendTerm(s)
    BY <2>3 DEF TypeOK, SendTerm, StopGoto, StopperStates, Stopping, files, launchers
  <2>4. CASE ExitSeen(s)
    BY <2>4
    DEF TypeOK, ExitSeen, StopGoto, StopperStates, Stopping, files, process,
        launchers
  <2>5. CASE TermTimesOut(s)
    BY <2>5
    DEF TypeOK, TermTimesOut, StopGoto, StopperStates, Stopping, files, process,
        launchers
  <2>6. CASE AskAgain(s)
    BY <2>6
    DEF TypeOK, AskAgain, StopGoto, Answered, Answers, StopperStates, Stopping,
        files, process, launchers
  <2>7. CASE SendKill(s)
    BY <2>7
    DEF TypeOK, SendKill, Ends, Dead, StopGoto, DaemonStates, StopperStates,
        Stopping, launchers
  <2>8. CASE KillTimesOut(s)
    BY <2>8
    DEF TypeOK, KillTimesOut, StopGoto, StopperStates, Stopping, files, process,
        launchers
  <2>9. CASE StopperProbes(s)
    BY <2>9
    DEF TypeOK, StopperProbes, StopGoto, AfterSocket, StopperStates, Stopping, files,
        process, launchers
  <2>10. CASE StopperUnlinks(s)
    BY <2>10
    DEF TypeOK, StopperUnlinks, StopGoto, AfterSocket, StopperStates, Stopping,
        process, launchers
  <2>11. CASE StopperReadsSidecar(s)
    BY <2>11
    DEF TypeOK, StopperReadsSidecar, StopGoto, StopperStates, Stopping, files,
        process, launchers
  <2>12. CASE StopperRemovesSidecar(s)
    BY <2>12
    DEF TypeOK, StopperRemovesSidecar, StopGoto, StopperStates, Stopping, process,
        launchers
  <2> QED
    BY <1>4, <2>1, <2>2, <2>3, <2>4, <2>5, <2>6, <2>7, <2>8, <2>9, <2>10, <2>11, <2>12 DEF Stopper
<1> QED
  BY <1>1, <1>2, <1>3, <1>4 DEF Next

-----------------------------------------------------------------------------
(* What the holder of the lifecycle lock owns.  A daemon listens only while  *)
(* it holds the lock, and only a holder binds the path or writes the sidecar: *)
(* what others can do to its files is remove them.                            *)

Serving == {"initializing", "ready", "startup_failed", "leaving", "closing"}
Holding == {"sidecar", "bind", "listen"} \cup Serving \cup {"unbind", "unlock"}

Owns(d) ==
  /\ dpc[d] \in Holding => daemon_lock = d
  /\ d \in listening => dpc[d] \in Serving
  /\ dpc[d] \in Serving \cup {"listen"} => socket_file \in {d, NoDaemon}
  /\ dpc[d] \in Holding \ {"sidecar"} => sidecar \in {d, NoDaemon}

OwnsAll == \A d \in Daemons : Owns(d)

LEMMA InitOwns == Init => OwnsAll
BY DEF Init, OwnsAll, Owns, Holding, Serving

LEMMA OwnsStep == TypeOK /\ OwnsAll /\ [Next]_vars => OwnsAll'
<1> SUFFICES ASSUME TypeOK, OwnsAll, [Next]_vars PROVE OwnsAll'
  OBVIOUS
<1>1. CASE UNCHANGED vars
  BY <1>1 DEF OwnsAll, Owns, Holding, Serving, vars, files, process
<1>2. ASSUME NEW d \in Daemons, Daemon(d) \/ RunForeground(d) \/ TmuxEnds(d) \/ Crash(d)
      PROVE  OwnsAll'
  <2>1. CASE DaemonProbes(d)
    BY <2>1, LifecycleAssumption
    DEF TypeOK, OwnsAll, Owns, Holding, Serving, DaemonProbes, Goto, files,
        launchers, stoppers
  <2>2. CASE DaemonUnlinks(d)
    BY <2>2, LifecycleAssumption
    DEF TypeOK, OwnsAll, Owns, Holding, Serving, DaemonUnlinks, Goto, launchers,
        stoppers
  <2>3. CASE DaemonLocks(d)
    BY <2>3, LifecycleAssumption
    DEF TypeOK, OwnsAll, Owns, Holding, Serving, DaemonLocks, Goto, LockIsFree,
        launchers, stoppers
  <2>4. CASE WriteSidecar(d)
    BY <2>4, LifecycleAssumption
    DEF TypeOK, OwnsAll, Owns, Holding, Serving, WriteSidecar, Goto, launchers,
        stoppers
  <2>5. CASE Bind(d)
    BY <2>5, LifecycleAssumption
    DEF TypeOK, OwnsAll, Owns, Holding, Serving, Bind, Goto, launchers, stoppers
  <2>6. CASE Listen(d)
    BY <2>6, LifecycleAssumption
    DEF TypeOK, OwnsAll, Owns, Holding, Serving, Listen, Goto, files, launchers,
        stoppers
  <2>7. CASE FinishStartup(d)
    BY <2>7, LifecycleAssumption
    DEF TypeOK, OwnsAll, Owns, Holding, Serving, FinishStartup, Goto, files,
        launchers, stoppers
  <2>8. CASE SocketMismatch(d)
    BY <2>8, LifecycleAssumption
    DEF TypeOK, OwnsAll, Owns, Holding, Serving, SocketMismatch, Goto, files,
        launchers, stoppers
  <2>9. CASE Terminated(d)
    BY <2>9, LifecycleAssumption
    DEF TypeOK, OwnsAll, Owns, Holding, Serving, Terminated, Goto, files, launchers,
        stoppers
  <2>10. CASE StopAcceptor(d)
    BY <2>10, LifecycleAssumption
    DEF TypeOK, OwnsAll, Owns, Holding, Serving, StopAcceptor, Goto, files,
        launchers, stoppers
  <2>11. CASE Unbind(d)
    BY <2>11, LifecycleAssumption
    DEF TypeOK, OwnsAll, Owns, Holding, Serving, Unbind, Goto, launchers, stoppers
  <2>12. CASE Unlock(d)
    BY <2>12, LifecycleAssumption
    DEF TypeOK, OwnsAll, Owns, Holding, Serving, Unlock, Goto, launchers, stoppers
  <2>13. CASE Exit(d)
    BY <2>13, LifecycleAssumption
    DEF TypeOK, OwnsAll, Owns, Holding, Serving, Exit, Ends, Dead, launchers,
        stoppers
  <2>14. CASE RunForeground(d)
    BY <2>14, LifecycleAssumption
    DEF TypeOK, OwnsAll, Owns, Holding, Serving, RunForeground, Goto, files,
        launchers, stoppers
  <2>15. CASE TmuxEnds(d)
    BY <2>15, LifecycleAssumption
    DEF TypeOK, OwnsAll, Owns, Holding, Serving, TmuxEnds, Goto, files, launchers,
        stoppers
  <2>16. CASE Crash(d)
    BY <2>16, LifecycleAssumption
    DEF TypeOK, OwnsAll, Owns, Holding, Serving, Crash, Ends, Dead, Executing,
        launchers, stoppers
  <2> QED
    BY <1>2, <2>1, <2>2, <2>3, <2>4, <2>5, <2>6, <2>7, <2>8, <2>9, <2>10, <2>11, <2>12, <2>13, <2>14, <2>15, <2>16
    DEF Daemon, DaemonStarts, DaemonLeaves
<1>3. ASSUME NEW l \in Launchers, Launcher(l) \/ Deadline(l) \/ LauncherExits(l)
      PROVE  OwnsAll'
  <2>1. CASE Check(l)
    BY <2>1, LifecycleAssumption
    DEF TypeOK, OwnsAll, Owns, Holding, Serving, Check, files, process, stoppers
  <2>2. CASE AcquireStartLock(l)
    BY <2>2, LifecycleAssumption
    DEF TypeOK, OwnsAll, Owns, Holding, Serving, AcquireStartLock, files, process,
        stoppers
  <2>3. CASE LauncherProbes(l)
    BY <2>3, LifecycleAssumption
    DEF TypeOK, OwnsAll, Owns, Holding, Serving, LauncherProbes, files, process,
        stoppers
  <2>4. CASE LauncherUnlinks(l)
    BY <2>4, LifecycleAssumption
    DEF TypeOK, OwnsAll, Owns, Holding, Serving, LauncherUnlinks, process, stoppers
  <2>5. CASE Spawn(l)
    BY <2>5, LifecycleAssumption
    DEF TypeOK, OwnsAll, Owns, Holding, Serving, Spawn, Goto, files, stoppers
  <2>6. CASE WaitRound(l)
    BY <2>6, LifecycleAssumption
    DEF TypeOK, OwnsAll, Owns, Holding, Serving, WaitRound, Goto, files, stoppers
  <2>7. CASE TermChild(l)
    BY <2>7, LifecycleAssumption
    DEF TypeOK, OwnsAll, Owns, Holding, Serving, TermChild, files, stoppers
  <2>8. CASE KillChild(l)
    BY <2>8, LifecycleAssumption
    DEF TypeOK, OwnsAll, Owns, Holding, Serving, KillChild, Ends, Dead, Executing,
        launchers, stoppers
  <2>9. CASE ReapChild(l)
    BY <2>9, LifecycleAssumption
    DEF TypeOK, OwnsAll, Owns, Holding, Serving, ReapChild, Goto, files, stoppers
  <2>10. CASE LauncherConnects(l)
    BY <2>10, LifecycleAssumption
    DEF TypeOK, OwnsAll, Owns, Holding, Serving, LauncherConnects, files, process,
        launchers, stoppers
  <2>11. CASE Deadline(l)
    BY <2>11, LifecycleAssumption
    DEF TypeOK, OwnsAll, Owns, Holding, Serving, Deadline, files, process, stoppers
  <2>12. CASE LauncherExits(l)
    BY <2>12, LifecycleAssumption
    DEF TypeOK, OwnsAll, Owns, Holding, Serving, LauncherExits, files, stoppers
  <2> QED
    BY <1>3, <2>1, <2>2, <2>3, <2>4, <2>5, <2>6, <2>7, <2>8, <2>9, <2>10, <2>11, <2>12 DEF Launcher
<1>4. ASSUME NEW s \in Stoppers, Stopper(s)
      PROVE  OwnsAll'
  <2>1. CASE StopperConnects(s)
    BY <2>1, LifecycleAssumption
    DEF TypeOK, OwnsAll, Owns, Holding, Serving, StopperConnects, files, process,
        launchers, stoppers
  <2>2. CASE Ask(s)
    BY <2>2, LifecycleAssumption
    DEF TypeOK, OwnsAll, Owns, Holding, Serving, Ask, files, process, launchers
  <2>3. CASE SendTerm(s)
    BY <2>3, LifecycleAssumption
    DEF TypeOK, OwnsAll, Owns, Holding, Serving, SendTerm, files, launchers
  <2>4. CASE ExitSeen(s)
    BY <2>4, LifecycleAssumption
    DEF TypeOK, OwnsAll, Owns, Holding, Serving, ExitSeen, files, process, launchers
  <2>5. CASE TermTimesOut(s)
    BY <2>5, LifecycleAssumption
    DEF TypeOK, OwnsAll, Owns, Holding, Serving, TermTimesOut, files, process,
        launchers
  <2>6. CASE AskAgain(s)
    BY <2>6, LifecycleAssumption
    DEF TypeOK, OwnsAll, Owns, Holding, Serving, AskAgain, files, process, launchers
  <2>7. CASE SendKill(s)
    BY <2>7, LifecycleAssumption
    DEF TypeOK, OwnsAll, Owns, Holding, Serving, SendKill, Ends, Dead, Executing,
        launchers
  <2>8. CASE KillTimesOut(s)
    BY <2>8, LifecycleAssumption
    DEF TypeOK, OwnsAll, Owns, Holding, Serving, KillTimesOut, files, process,
        launchers
  <2>9. CASE StopperProbes(s)
    BY <2>9, LifecycleAssumption
    DEF TypeOK, OwnsAll, Owns, Holding, Serving, StopperProbes, files, process,
        launchers
  <2>10. CASE StopperUnlinks(s)
    BY <2>10, LifecycleAssumption
    DEF TypeOK, OwnsAll, Owns, Holding, Serving, StopperUnlinks, process, launchers
  <2>11. CASE StopperReadsSidecar(s)
    BY <2>11, LifecycleAssumption
    DEF TypeOK, OwnsAll, Owns, Holding, Serving, StopperReadsSidecar, files, process,
        launchers
  <2>12. CASE StopperRemovesSidecar(s)
    BY <2>12, LifecycleAssumption
    DEF TypeOK, OwnsAll, Owns, Holding, Serving, StopperRemovesSidecar, process,
        launchers
  <2> QED
    BY <1>4, <2>1, <2>2, <2>3, <2>4, <2>5, <2>6, <2>7, <2>8, <2>9, <2>10, <2>11, <2>12 DEF Stopper
<1> QED
  BY <1>1, <1>2, <1>3, <1>4 DEF Next

-----------------------------------------------------------------------------
(* What a stop knows of its daemon.  A daemon that was asked or is stopped    *)
(* has been started, so once it is reaped nothing brings it back: its files   *)
(* can only be removed.                                                       *)

Cleaning == {"read_sidecar", "remove_sidecar", "ok"}

Gone(s) ==
  /\ spc[s] = "ask" => target[s] = NoDaemon
  /\ target[s] # NoDaemon =>
       /\ dpc[target[s]] # "unborn"
       /\ spc[s] \in Cleaning \cup {"probe", "unlink"} => dpc[target[s]] = "reaped"
       /\ spc[s] \in Cleaning => socket_file # target[s]
       /\ spc[s] = "ok" => sidecar # target[s]

GoneAll ==
  /\ \A x \in Launchers \cup Stoppers : asked[x] # NoDaemon => dpc[asked[x]] # "unborn"
  /\ \A s \in Stoppers : Gone(s)

LEMMA InitGone == Init => GoneAll
BY LifecycleAssumption DEF Init, GoneAll, Gone

LEMMA GoneStep == TypeOK /\ OwnsAll /\ GoneAll /\ [Next]_vars => GoneAll'
<1> SUFFICES ASSUME TypeOK, OwnsAll, GoneAll, [Next]_vars PROVE GoneAll'
  OBVIOUS
<1>1. CASE UNCHANGED vars
  BY <1>1 DEF GoneAll, Gone, Cleaning, vars, files, process, stoppers
<1>2. ASSUME NEW d \in Daemons, Daemon(d) \/ RunForeground(d) \/ TmuxEnds(d) \/ Crash(d)
      PROVE  GoneAll'
  <2>1. CASE DaemonProbes(d)
    BY <2>1, LifecycleAssumption
    DEF TypeOK, OwnsAll, Owns, Holding, Serving, GoneAll, Gone, Cleaning, Live,
        DaemonProbes, Goto, files, launchers, stoppers
  <2>2. CASE DaemonUnlinks(d)
    BY <2>2, LifecycleAssumption
    DEF TypeOK, OwnsAll, Owns, Holding, Serving, GoneAll, Gone, Cleaning, Live,
        DaemonUnlinks, Goto, launchers, stoppers
  <2>3. CASE DaemonLocks(d)
    BY <2>3, LifecycleAssumption
    DEF TypeOK, OwnsAll, Owns, Holding, Serving, GoneAll, Gone, Cleaning, Live,
        DaemonLocks, Goto, launchers, stoppers
  <2>4. CASE WriteSidecar(d)
    BY <2>4, LifecycleAssumption
    DEF TypeOK, OwnsAll, Owns, Holding, Serving, GoneAll, Gone, Cleaning, Live,
        WriteSidecar, Goto, launchers, stoppers
  <2>5. CASE Bind(d)
    BY <2>5, LifecycleAssumption
    DEF TypeOK, OwnsAll, Owns, Holding, Serving, GoneAll, Gone, Cleaning, Live, Bind,
        Goto, launchers, stoppers
  <2>6. CASE Listen(d)
    BY <2>6, LifecycleAssumption
    DEF TypeOK, OwnsAll, Owns, Holding, Serving, GoneAll, Gone, Cleaning, Live,
        Listen, Goto, files, launchers, stoppers
  <2>7. CASE FinishStartup(d)
    BY <2>7, LifecycleAssumption
    DEF TypeOK, OwnsAll, Owns, Holding, Serving, GoneAll, Gone, Cleaning, Live,
        FinishStartup, Goto, files, launchers, stoppers
  <2>8. CASE SocketMismatch(d)
    BY <2>8, LifecycleAssumption
    DEF TypeOK, OwnsAll, Owns, Holding, Serving, GoneAll, Gone, Cleaning, Live,
        SocketMismatch, Goto, files, launchers, stoppers
  <2>9. CASE Terminated(d)
    BY <2>9, LifecycleAssumption
    DEF TypeOK, OwnsAll, Owns, Holding, Serving, GoneAll, Gone, Cleaning, Live,
        Terminated, Goto, files, launchers, stoppers
  <2>10. CASE StopAcceptor(d)
    BY <2>10, LifecycleAssumption
    DEF TypeOK, OwnsAll, Owns, Holding, Serving, GoneAll, Gone, Cleaning, Live,
        StopAcceptor, Goto, files, launchers, stoppers
  <2>11. CASE Unbind(d)
    BY <2>11, LifecycleAssumption
    DEF TypeOK, OwnsAll, Owns, Holding, Serving, GoneAll, Gone, Cleaning, Live,
        Unbind, Goto, launchers, stoppers
  <2>12. CASE Unlock(d)
    BY <2>12, LifecycleAssumption
    DEF TypeOK, OwnsAll, Owns, Holding, Serving, GoneAll, Gone, Cleaning, Live,
        Unlock, Goto, launchers, stoppers
  <2>13. CASE Exit(d)
    BY <2>13, LifecycleAssumption
    DEF TypeOK, OwnsAll, Owns, Holding, Serving, GoneAll, Gone, Cleaning, Live, Exit,
        Ends, Dead, launchers, stoppers
  <2>14. CASE RunForeground(d)
    BY <2>14, LifecycleAssumption
    DEF TypeOK, OwnsAll, Owns, Holding, Serving, GoneAll, Gone, Cleaning, Live,
        RunForeground, Goto, files, launchers, stoppers
  <2>15. CASE TmuxEnds(d)
    BY <2>15, LifecycleAssumption
    DEF TypeOK, OwnsAll, Owns, Holding, Serving, GoneAll, Gone, Cleaning, Live,
        TmuxEnds, Goto, files, launchers, stoppers
  <2>16. CASE Crash(d)
    BY <2>16, LifecycleAssumption
    DEF TypeOK, OwnsAll, Owns, Holding, Serving, GoneAll, Gone, Cleaning, Live,
        Crash, Ends, Dead, Executing, launchers, stoppers
  <2> QED
    BY <1>2, <2>1, <2>2, <2>3, <2>4, <2>5, <2>6, <2>7, <2>8, <2>9, <2>10, <2>11, <2>12, <2>13, <2>14, <2>15, <2>16
    DEF Daemon, DaemonStarts, DaemonLeaves
<1>3. ASSUME NEW l \in Launchers, Launcher(l) \/ Deadline(l) \/ LauncherExits(l)
      PROVE  GoneAll'
  <2>1. CASE Check(l)
    BY <2>1, LifecycleAssumption
    DEF TypeOK, OwnsAll, Owns, Holding, Serving, GoneAll, Gone, Cleaning, Live,
        Check, Answered, files, process, stoppers
  <2>2. CASE AcquireStartLock(l)
    BY <2>2, LifecycleAssumption
    DEF TypeOK, OwnsAll, Owns, Holding, Serving, GoneAll, Gone, Cleaning, Live,
        AcquireStartLock, files, process, stoppers
  <2>3. CASE LauncherProbes(l)
    BY <2>3, LifecycleAssumption
    DEF TypeOK, OwnsAll, Owns, Holding, Serving, GoneAll, Gone, Cleaning, Live,
        LauncherProbes, files, process, stoppers
  <2>4. CASE LauncherUnlinks(l)
    BY <2>4, LifecycleAssumption
    DEF TypeOK, OwnsAll, Owns, Holding, Serving, GoneAll, Gone, Cleaning, Live,
        LauncherUnlinks, process, stoppers
  <2>5. CASE Spawn(l)
    BY <2>5, LifecycleAssumption
    DEF TypeOK, OwnsAll, Owns, Holding, Serving, GoneAll, Gone, Cleaning, Live,
        Spawn, Goto, files, stoppers
  <2>6. CASE WaitRound(l)
    BY <2>6, LifecycleAssumption
    DEF TypeOK, OwnsAll, Owns, Holding, Serving, GoneAll, Gone, Cleaning, Live,
        WaitRound, Goto, Answered, files, stoppers
  <2>7. CASE TermChild(l)
    BY <2>7, LifecycleAssumption
    DEF TypeOK, OwnsAll, Owns, Holding, Serving, GoneAll, Gone, Cleaning, Live,
        TermChild, files, stoppers
  <2>8. CASE KillChild(l)
    BY <2>8, LifecycleAssumption
    DEF TypeOK, OwnsAll, Owns, Holding, Serving, GoneAll, Gone, Cleaning, Live,
        KillChild, Ends, Dead, Executing, launchers, stoppers
  <2>9. CASE ReapChild(l)
    BY <2>9, LifecycleAssumption
    DEF TypeOK, OwnsAll, Owns, Holding, Serving, GoneAll, Gone, Cleaning, Live,
        ReapChild, Goto, files, stoppers
  <2>10. CASE LauncherConnects(l)
    BY <2>10, LifecycleAssumption
    DEF TypeOK, OwnsAll, Owns, Holding, Serving, GoneAll, Gone, Cleaning, Live,
        LauncherConnects, Connect, Reachable, files, process, launchers, stoppers
  <2>11. CASE Deadline(l)
    BY <2>11, LifecycleAssumption
    DEF TypeOK, OwnsAll, Owns, Holding, Serving, GoneAll, Gone, Cleaning, Live,
        Deadline, files, process, stoppers
  <2>12. CASE LauncherExits(l)
    BY <2>12, LifecycleAssumption
    DEF TypeOK, OwnsAll, Owns, Holding, Serving, GoneAll, Gone, Cleaning, Live,
        LauncherExits, Answered, files, stoppers
  <2> QED
    BY <1>3, <2>1, <2>2, <2>3, <2>4, <2>5, <2>6, <2>7, <2>8, <2>9, <2>10, <2>11, <2>12 DEF Launcher
<1>4. ASSUME NEW s \in Stoppers, Stopper(s)
      PROVE  GoneAll'
  <2>1. CASE StopperConnects(s)
    BY <2>1, LifecycleAssumption
    DEF TypeOK, OwnsAll, Owns, Holding, Serving, GoneAll, Gone, Cleaning, Live,
        StopperConnects, Connect, Reachable, files, process, launchers, stoppers
  <2>2. CASE Ask(s)
    BY <2>2, LifecycleAssumption
    DEF TypeOK, OwnsAll, Owns, Holding, Serving, GoneAll, Gone, Cleaning, Live, Ask,
        StopGoto, Answered, Answers, files, process, launchers
  <2>3. CASE SendTerm(s)
    BY <2>3, LifecycleAssumption
    DEF TypeOK, OwnsAll, Owns, Holding, Serving, GoneAll, Gone, Cleaning, Live,
        SendTerm, StopGoto, files, launchers
  <2>4. CASE ExitSeen(s)
    BY <2>4, LifecycleAssumption
    DEF TypeOK, OwnsAll, Owns, Holding, Serving, GoneAll, Gone, Cleaning, Live,
        ExitSeen, StopGoto, files, process, launchers
  <2>5. CASE TermTimesOut(s)
    BY <2>5, LifecycleAssumption
    DEF TypeOK, OwnsAll, Owns, Holding, Serving, GoneAll, Gone, Cleaning, Live,
        TermTimesOut, StopGoto, files, process, launchers
  <2>6. CASE AskAgain(s)
    BY <2>6, LifecycleAssumption
    DEF TypeOK, OwnsAll, Owns, Holding, Serving, GoneAll, Gone, Cleaning, Live,
        AskAgain, StopGoto, Answered, Answers, files, process, launchers
  <2>7. CASE SendKill(s)
    BY <2>7, LifecycleAssumption
    DEF TypeOK, OwnsAll, Owns, Holding, Serving, GoneAll, Gone, Cleaning, Live,
        SendKill, Ends, Dead, Executing, StopGoto, launchers
  <2>8. CASE KillTimesOut(s)
    BY <2>8, LifecycleAssumption
    DEF TypeOK, OwnsAll, Owns, Holding, Serving, GoneAll, Gone, Cleaning, Live,
        KillTimesOut, StopGoto, files, process, launchers
  <2>9. CASE StopperProbes(s)
    BY <2>9, LifecycleAssumption
    DEF TypeOK, OwnsAll, Owns, Holding, Serving, GoneAll, Gone, Cleaning, Live,
        StopperProbes, StopGoto, AfterSocket, ProbeFindsNothing, files, process,
        launchers
  <2>10. CASE StopperUnlinks(s)
    BY <2>10, LifecycleAssumption
    DEF TypeOK, OwnsAll, Owns, Holding, Serving, GoneAll, Gone, Cleaning, Live,
        StopperUnlinks, StopGoto, AfterSocket, ProbeFindsNothing, process, launchers
  <2>11. CASE StopperReadsSidecar(s)
    BY <2>11, LifecycleAssumption
    DEF TypeOK, OwnsAll, Owns, Holding, Serving, GoneAll, Gone, Cleaning, Live,
        StopperReadsSidecar, StopGoto, SidecarIsStale, files, process, launchers
  <2>12. CASE StopperRemovesSidecar(s)
    BY <2>12, LifecycleAssumption
    DEF TypeOK, OwnsAll, Owns, Holding, Serving, GoneAll, Gone, Cleaning, Live,
        StopperRemovesSidecar, StopGoto, process, launchers
  <2> QED
    BY <1>4, <2>1, <2>2, <2>3, <2>4, <2>5, <2>6, <2>7, <2>8, <2>9, <2>10, <2>11, <2>12 DEF Stopper
<1> QED
  BY <1>1, <1>2, <1>3, <1>4 DEF Next

-----------------------------------------------------------------------------
(* Under the start lock.  While nobody stops daemons, a daemon that starts is *)
(* the child of the launcher that holds the lock, and one that serves is to   *)
(* be reached on the path: a launcher that reached nobody is alone.           *)

Locked ==
  {"recheck", "wait_locked", "probe", "unlink", "spawn", "wait_child", "term_child",
   "reap_child"}
LockedAll == \A l \in Launchers : lpc[l] \in Locked => start_lock = l

Raising == {"wait_child", "term_child", "reap_child"}
NobodyStops == \A s \in Stoppers : spc[s] = "ask"
Busy(d) == Executing(d) /\ dpc[d] \notin {"closing", "unbind", "unlock", "exit"}

Tended(d) ==
  /\ Busy(d) => \/ dpc[d] = "ready"
                \/ \E l \in Launchers : child[l] = d /\ lpc[l] \in Raising
  /\ dpc[d] \in {"listen", "initializing", "ready"} => socket_file = d
  /\ dpc[d] \in {"initializing", "ready"} => d \in listening

Alone ==
  /\ \A d \in Daemons : Tended(d)
  /\ \A d, e \in Daemons : Busy(d) /\ Busy(e) => d = e
  /\ \A l \in Launchers : lpc[l] \in {"unlink", "spawn"} => \A d \in Daemons : ~Busy(d)

AloneWhileNobodyStops == NobodyStops => Alone

LEMMA InitLocked == Init => LockedAll
BY DEF Init, LockedAll, Locked

LEMMA LockedStep == TypeOK /\ LockedAll /\ [Next]_vars => LockedAll'
<1> SUFFICES ASSUME TypeOK, LockedAll, [Next]_vars PROVE LockedAll'
  OBVIOUS
<1>1. CASE UNCHANGED <<lpc, start_lock>>
  BY <1>1 DEF LockedAll
<1>2. ASSUME NEW l \in Launchers, Launcher(l) \/ Deadline(l) \/ LauncherExits(l)
      PROVE  LockedAll'
  <2>1. CASE Check(l)
    BY <2>1, LifecycleAssumption
    DEF TypeOK, LockedAll, Locked, Check, LaunchGoto, Checking
  <2>2. CASE AcquireStartLock(l)
    BY <2>2, LifecycleAssumption
    DEF TypeOK, LockedAll, Locked, AcquireStartLock, StartLockIsFree
  <2>3. CASE LauncherProbes(l)
    BY <2>3, LifecycleAssumption
    DEF TypeOK, LockedAll, Locked, LauncherProbes, LaunchGoto
  <2>4. CASE LauncherUnlinks(l)
    BY <2>4, LifecycleAssumption
    DEF TypeOK, LockedAll, Locked, LauncherUnlinks, LaunchGoto
  <2>5. CASE Spawn(l)
    BY <2>5, LifecycleAssumption DEF TypeOK, LockedAll, Locked, Spawn, LaunchGoto
  <2>6. CASE WaitRound(l)
    BY <2>6, LifecycleAssumption
    DEF TypeOK, LockedAll, Locked, WaitRound, LaunchGoto, GivesUp, Waiting, Goto
  <2>7. CASE TermChild(l)
    BY <2>7, LifecycleAssumption DEF TypeOK, LockedAll, Locked, TermChild, LaunchGoto
  <2>8. CASE KillChild(l)
    BY <2>8, LifecycleAssumption DEF TypeOK, LockedAll, Locked, KillChild, launchers
  <2>9. CASE ReapChild(l)
    BY <2>9, LifecycleAssumption DEF TypeOK, LockedAll, Locked, ReapChild, LaunchGoto
  <2>10. CASE LauncherConnects(l)
    BY <2>10, LifecycleAssumption
    DEF TypeOK, LockedAll, Locked, LauncherConnects, launchers
  <2>11. CASE Deadline(l)
    BY <2>11, LifecycleAssumption
    DEF TypeOK, LockedAll, Locked, Deadline, LaunchGoto, GivesUp, Waiting
  <2>12. CASE LauncherExits(l)
    BY <2>12, LifecycleAssumption
    DEF TypeOK, LockedAll, Locked, LauncherExits, LaunchGoto
  <2> QED
    BY <1>2, <2>1, <2>2, <2>3, <2>4, <2>5, <2>6, <2>7, <2>8, <2>9, <2>10, <2>11, <2>12
    DEF Launcher
<1>3. ASSUME NEW d \in Daemons, Daemon(d) \/ RunForeground(d) \/ TmuxEnds(d) \/ Crash(d)
      PROVE  UNCHANGED <<lpc, start_lock>>
  BY <1>3
  DEF Daemon, DaemonStarts, DaemonLeaves, launchers, DaemonProbes, DaemonUnlinks,
      DaemonLocks, WriteSidecar, Bind, Listen, FinishStartup, SocketMismatch,
      Terminated, StopAcceptor, Unbind, Unlock, Exit, RunForeground, TmuxEnds, Crash
<1>4. ASSUME NEW s \in Stoppers, Stopper(s)
      PROVE  UNCHANGED <<lpc, start_lock>>
  BY <1>4
  DEF Stopper, launchers, StopperConnects, Ask, SendTerm, ExitSeen, TermTimesOut,
      AskAgain, SendKill, KillTimesOut, StopperProbes, StopperUnlinks,
      StopperReadsSidecar, StopperRemovesSidecar
<1> QED
  BY <1>1, <1>2, <1>3, <1>4 DEF Next, vars, launchers

LEMMA InitAlone == Init => AloneWhileNobodyStops
BY DEF Init, AloneWhileNobodyStops, Alone, Tended, Busy, Executing

LEMMA AloneStep ==
  ASSUME Foreground = {}, MaxInterrupts = 0
  PROVE  TypeOK /\ LockedAll /\ AloneWhileNobodyStops /\ [Next]_vars
           => AloneWhileNobodyStops'
<1> SUFFICES ASSUME TypeOK, LockedAll, AloneWhileNobodyStops, [Next]_vars, NobodyStops'
             PROVE  Alone'
  BY DEF AloneWhileNobodyStops
<1>1. CASE UNCHANGED vars
  BY <1>1
  DEF AloneWhileNobodyStops, NobodyStops, Alone, Tended, Busy, Executing, Raising, vars,
      files, process, launchers, stoppers
<1>2. ASSUME NEW d \in Daemons, Daemon(d) \/ RunForeground(d) \/ TmuxEnds(d) \/ Crash(d)
      PROVE  Alone'
  <2> Alone
    BY <1>2
    DEF AloneWhileNobodyStops, NobodyStops, Daemon, DaemonStarts, DaemonLeaves, stoppers,
        DaemonProbes, DaemonUnlinks, DaemonLocks, WriteSidecar, Bind, Listen, FinishStartup,
        SocketMismatch, Terminated, StopAcceptor, Unbind, Unlock, Exit, RunForeground, TmuxEnds, Crash
  <2>1. CASE DaemonProbes(d)
    BY <2>1, LifecycleAssumption
    DEF TypeOK, Alone, Tended, Busy, Executing, Raising, DaemonProbes, Goto, files,
        launchers, stoppers
  <2>2. CASE DaemonUnlinks(d)
    BY <2>2, LifecycleAssumption
    DEF TypeOK, Alone, Tended, Busy, Executing, Raising, DaemonUnlinks, Goto,
        launchers, stoppers
  <2>3. CASE DaemonLocks(d)
    BY <2>3, LifecycleAssumption
    DEF TypeOK, Alone, Tended, Busy, Executing, Raising, DaemonLocks, Goto,
        launchers, stoppers
  <2>4. CASE WriteSidecar(d)
    BY <2>4, LifecycleAssumption
    DEF TypeOK, Alone, Tended, Busy, Executing, Raising, WriteSidecar, Goto,
        launchers, stoppers
  <2>5. CASE Bind(d)
    BY <2>5, LifecycleAssumption
    DEF TypeOK, Alone, Tended, Busy, Executing, Raising, Bind, Goto, launchers,
        stoppers
  <2>6. CASE Listen(d)
    BY <2>6, LifecycleAssumption
    DEF TypeOK, Alone, Tended, Busy, Executing, Raising, Listen, Goto, files,
        launchers, stoppers
  <2>7. CASE FinishStartup(d)
    BY <2>7, LifecycleAssumption
    DEF TypeOK, Alone, Tended, Busy, Executing, Raising, FinishStartup, Goto, files,
        launchers, stoppers
  <2>8. CASE SocketMismatch(d)
    BY <2>8, LifecycleAssumption
    DEF TypeOK, Alone, Tended, Busy, Executing, Raising, SocketMismatch, Goto,
        files, launchers, stoppers
  <2>9. CASE Terminated(d)
    BY <2>9, LifecycleAssumption
    DEF TypeOK, Alone, Tended, Busy, Executing, Raising, Terminated, Goto, files,
        launchers, stoppers
  <2>10. CASE StopAcceptor(d)
    BY <2>10, LifecycleAssumption
    DEF TypeOK, Alone, Tended, Busy, Executing, Raising, StopAcceptor, Goto, files,
        launchers, stoppers
  <2>11. CASE Unbind(d)
    BY <2>11, LifecycleAssumption
    DEF TypeOK, Alone, Tended, Busy, Executing, Raising, Unbind, Goto, launchers,
        stoppers
  <2>12. CASE Unlock(d)
    BY <2>12, LifecycleAssumption
    DEF TypeOK, Alone, Tended, Busy, Executing, Raising, Unlock, Goto, launchers,
        stoppers
  <2>13. CASE Exit(d)
    BY <2>13, LifecycleAssumption
    DEF TypeOK, Alone, Tended, Busy, Executing, Raising, Exit, Ends, Dead,
        launchers, stoppers
  <2>14. CASE RunForeground(d)
    BY <2>14 DEF RunForeground
  <2>15. CASE TmuxEnds(d)
    BY <2>15, LifecycleAssumption
    DEF TypeOK, Alone, Tended, Busy, Executing, Raising, TmuxEnds, Goto, files,
        launchers, stoppers
  <2>16. CASE Crash(d)
    BY <2>16, LifecycleAssumption
    DEF TypeOK, Alone, Tended, Busy, Executing, Raising, Crash, Ends, Dead,
        launchers, stoppers
  <2> QED
    BY <1>2, <2>1, <2>2, <2>3, <2>4, <2>5, <2>6, <2>7, <2>8,
       <2>9, <2>10, <2>11, <2>12, <2>13, <2>14, <2>15, <2>16
    DEF Daemon, DaemonStarts, DaemonLeaves
<1>3. ASSUME NEW l \in Launchers, Launcher(l) \/ Deadline(l) \/ LauncherExits(l)
      PROVE  Alone'
  <2> Alone
    BY <1>3
    DEF AloneWhileNobodyStops, NobodyStops, Launcher, stoppers,
        Check, AcquireStartLock, LauncherProbes, LauncherUnlinks, Spawn, WaitRound,
        TermChild, KillChild, ReapChild, LauncherConnects, Deadline, LauncherExits
  <2>1. CASE Check(l)
    BY <2>1, LifecycleAssumption
    DEF TypeOK, Alone, Tended, Busy, Executing, Raising, Check, LaunchGoto,
        Answered, Answers, Checking, files, process, stoppers
  <2>2. CASE AcquireStartLock(l)
    BY <2>2, LifecycleAssumption
    DEF TypeOK, Alone, Tended, Busy, Executing, Raising, AcquireStartLock,
        StartLockIsFree, files, process, stoppers
  <2>3. CASE LauncherProbes(l)
    <3>1. ASSUME ProbeFindsNothing \/ ProbeIsRefused, NEW d \in Daemons, Busy(d)
          PROVE  FALSE
      <4>1. \A m \in Launchers : lpc[m] \notin Raising
        BY <2>3 DEF LockedAll, Locked, Raising, LauncherProbes
      <4>2. dpc[d] = "ready"
        BY <3>1, <4>1 DEF Alone, Tended
      <4>3. socket_file = d /\ d \in listening
        BY <4>2 DEF Alone, Tended
      <4> QED
        BY <3>1, <4>3, LifecycleAssumption
        DEF ProbeFindsNothing, ProbeIsRefused, NobodyAnswers, Reachable
    <3> QED
      BY <2>3, <3>1, LifecycleAssumption
      DEF TypeOK, Alone, Tended, Busy, Executing, Raising, LauncherProbes, LaunchGoto,
          files, process, stoppers
  <2>4. CASE LauncherUnlinks(l)
    BY <2>4, LifecycleAssumption
    DEF TypeOK, Alone, Tended, Busy, Executing, Raising, LauncherUnlinks,
        LaunchGoto, process, stoppers
  <2>5. CASE Spawn(l)
    <3>1. PICK d \in Daemons :
            /\ Goto(d, "unborn", "probe") /\ child' = [child EXCEPT ![l] = d]
      BY <2>5 DEF Spawn
    <3>2. \A e \in Daemons : Busy(e)' => e = d
      BY <2>5, <3>1 DEF TypeOK, Alone, Busy, Executing, Spawn, Goto
    <3>3. \A m \in Launchers : lpc'[m] \notin {"unlink", "spawn"}
      BY <2>5 DEF TypeOK, LockedAll, Locked, Spawn, LaunchGoto
    <3>4. child'[l] = d /\ lpc'[l] = "wait_child"
      BY <2>5, <3>1 DEF TypeOK, Spawn, LaunchGoto
    <3>5. \A e \in Daemons : Tended(e)'
      BY <2>5, <3>1, <3>2, <3>4
      DEF TypeOK, Alone, Tended, Busy, Executing, Raising, Spawn, Goto, files
    <3> QED
      BY <3>2, <3>3, <3>5 DEF Alone, Tended
  <2>6. CASE WaitRound(l)
    <3>1. ASSUME "ready" \in Answers(l)
          PROVE  /\ asked[l] \in Daemons /\ dpc[asked[l]] = "ready"
                 /\ \A d \in Daemons : Busy(d) => d = asked[l]
      <4>1. asked[l] \in Daemons /\ dpc[asked[l]] = "ready"
        BY <3>1 DEF TypeOK, Answers, Answer
      <4> QED
        BY <4>1 DEF Alone, Busy, Executing
    <3>2. CASE "ready" \in Answers(l) /\ LaunchGoto(l, "ok") /\ UNCHANGED dpc
      BY <2>6, <3>1, <3>2
      DEF TypeOK, Alone, Tended, Busy, Executing, Raising, WaitRound, LaunchGoto,
          Waiting, files
    <3>3. CASE LaunchGoto(l, GivesUp(l)) /\ UNCHANGED dpc
      BY <2>6, <3>3
      DEF TypeOK, Alone, Tended, Busy, Executing, Raising, WaitRound, LaunchGoto,
          GivesUp, Waiting, files
    <3>4. CASE /\ lpc[l] = "wait_child" /\ Goto(child[l], "zombie", "reaped")
               /\ LaunchGoto(l, "failed")
      BY <2>6, <3>4
      DEF TypeOK, Alone, Tended, Busy, Executing, Raising, WaitRound, LaunchGoto, Goto,
          files
    <3>5. CASE UNCHANGED <<dpc, lpc, start_lock>>
      BY <2>6, <3>5 DEF TypeOK, Alone, Tended, Busy, Executing, Raising, WaitRound, files
    <3> QED
      BY <2>6, <3>2, <3>3, <3>4, <3>5 DEF WaitRound
  <2>7. CASE TermChild(l)
    BY <2>7, LifecycleAssumption
    DEF TypeOK, Alone, Tended, Busy, Executing, Raising, TermChild, LaunchGoto,
        files, stoppers
  <2>8. CASE KillChild(l)
    BY <2>8, LifecycleAssumption
    DEF TypeOK, Alone, Tended, Busy, Executing, Raising, KillChild, Ends, Dead,
        launchers, stoppers
  <2>9. CASE ReapChild(l)
    BY <2>9, LifecycleAssumption
    DEF TypeOK, Alone, Tended, Busy, Executing, Raising, ReapChild, Goto,
        LaunchGoto, files, stoppers
  <2>10. CASE LauncherConnects(l)
    BY <2>10, LifecycleAssumption
    DEF TypeOK, Alone, Tended, Busy, Executing, Raising, LauncherConnects, Connect,
        files, process, launchers, stoppers
  <2>11. CASE Deadline(l)
    BY <2>11, LifecycleAssumption
    DEF TypeOK, Alone, Tended, Busy, Executing, Raising, Deadline, LaunchGoto,
        GivesUp, Waiting, files, process, stoppers
  <2>12. CASE LauncherExits(l)
    BY <2>12, LifecycleAssumption
    DEF TypeOK, Alone, Tended, Busy, Executing, Raising, LauncherExits, LaunchGoto,
        Answered, files, stoppers
  <2> QED
    BY <1>3, <2>1, <2>2, <2>3, <2>4, <2>5, <2>6, <2>7, <2>8,
       <2>9, <2>10, <2>11, <2>12 DEF Launcher
<1>4. ASSUME NEW s \in Stoppers, Stopper(s)
      PROVE  Alone'
  <2>1. CASE StopperConnects(s)
    BY <2>1
    DEF AloneWhileNobodyStops, NobodyStops, Alone, Tended, Busy, Executing, Raising,
        StopperConnects, files, process, launchers, stoppers
  <2>2. CASE ~StopperConnects(s)
    \* The stopper no longer stands where it was to ask.
    <3>1. spc'[s] # "ask"
      BY <1>4, <2>2
      DEF TypeOK, Stopper, StopGoto, AfterSocket, SidecarIsStale,
          Ask, SendTerm, ExitSeen, TermTimesOut, AskAgain, SendKill,
          KillTimesOut, StopperProbes, StopperUnlinks, StopperReadsSidecar, StopperRemovesSidecar
    <3> QED
      BY <3>1 DEF NobodyStops
  <2> QED
    BY <2>1, <2>2
<1> QED
  BY <1>1, <1>2, <1>3, <1>4 DEF Next

-----------------------------------------------------------------------------
(* Theorems *)

IInv == TypeOK /\ OwnsAll /\ GoneAll

\* The inductive invariant: whoever stands between taking and dropping the
\* lifecycle lock owns the files, and a stop that has seen its daemon exit will
\* never meet it again (guard.rs).
THEOREM Invariance == Spec => []IInv
<1>1. Init => IInv
  BY InitType, InitOwns, InitGone DEF IInv
<1>2. IInv /\ [Next]_vars => IInv'
  BY TypeStep, OwnsStep, GoneStep DEF IInv
<1> QED
  BY <1>1, <1>2, PTL DEF Spec

\* Every variable keeps its type, for every number of processes.
THEOREM TypeCorrect == Spec => []TypeOK
<1>1. IInv => TypeOK
  BY DEF IInv
<1> QED
  BY <1>1, Invariance, PTL

\* However many daemons, starters and stoppers race on one socket path and
\* whatever crashes, at most one daemon takes connections (the lifecycle lock of
\* guard.rs and the order lock, bind, ..., unbind, unlock of daemon.rs).
THEOREM SingleListener == Spec => []OneListener
<1>1. IInv => OneListener
  <2> SUFFICES ASSUME IInv, NEW d \in listening, NEW e \in listening
               PROVE  d = e
    BY DEF OneListener
  <2>1. d \in Daemons /\ e \in Daemons
    BY DEF IInv, TypeOK
  <2>2. daemon_lock = d /\ daemon_lock = e
    BY <2>1 DEF IInv, OwnsAll, Owns, Holding
  <2> QED
    BY <2>2
<1> QED
  BY <1>1, Invariance, PTL

\* While a daemon takes connections neither the path nor the sidecar leads to
\* another one (guard.rs, socket_server.rs).
THEOREM FilesNameTheListener == Spec => []FilesNameListener
<1>1. IInv => FilesNameListener
  <2> SUFFICES ASSUME IInv, NEW d \in listening
               PROVE  socket_file \in {d, NoDaemon} /\ sidecar \in {d, NoDaemon}
    BY DEF FilesNameListener
  <2>1. d \in Daemons
    BY DEF IInv, TypeOK
  <2>2. dpc[d] \in Serving
    BY <2>1 DEF IInv, OwnsAll, Owns
  <2> QED
    BY <2>1, <2>2 DEF IInv, OwnsAll, Owns, Holding, Serving
<1> QED
  BY <1>1, Invariance, PTL

\* Both together: one daemon at a time has the name.
THEOREM OneDaemonHasTheName == Spec => []OneNamedListener
<1>1. OneListener /\ FilesNameListener => OneNamedListener
  BY DEF OneNamedListener
<1> QED
  BY <1>1, SingleListener, FilesNameTheListener, PTL

\* A stop that reports success has stopped its daemon for good: it runs no more
\* and neither file leads to it (finish_daemon_stop).
THEOREM StopIsFinal == Spec => []StoppedIsGone
<1>1. IInv => StoppedIsGone
  <2> SUFFICES ASSUME IInv, NEW s \in Stoppers, spc[s] = "ok", target[s] # NoDaemon
               PROVE  /\ ~Executing(target[s])
                      /\ socket_file # target[s] /\ sidecar # target[s]
    BY DEF StoppedIsGone
  <2>1. Gone(s)
    BY DEF IInv, GoneAll
  <2> QED
    BY <2>1 DEF Gone, Cleaning, Executing
<1> QED
  BY <1>1, Invariance, PTL

\* Consumers that start a daemon at the same time spawn at most one: while nobody
\* stops daemons, none is spawned beside one that starts or serves, however many
\* consumers race and whatever crashes (start_daemon_from_request and its start
\* lock, src/app/daemon/lifecycle/mod.rs).  It takes that no daemon is run by hand
\* and that no consumer is interrupted while it waits: the daemons that these leave
\* behind start without anybody holding the start lock.
THEOREM OneSpawnAtATime ==
  ASSUME Foreground = {}, MaxInterrupts = 0
  PROVE  Spec => SpawnsOnlyWhenNeeded
<1> DEFINE Inv == TypeOK /\ LockedAll /\ AloneWhileNobodyStops
           spawn ==
             \A l \in Launchers : lpc[l] = "spawn" /\ lpc'[l] = "wait_child"
               /\ (\A s \in Stoppers : spc[s] = "ask") =>
               \A d \in Daemons :
                 ~Executing(d) \/ dpc[d] \in {"closing", "unbind", "unlock", "exit"}
<1>1. Init => Inv
  BY InitType, InitLocked, InitAlone
<1>2. Inv /\ [Next]_vars => Inv'
  BY TypeStep, LockedStep, AloneStep
<1>3. Inv /\ [Next]_vars => [spawn]_vars
  <2> SUFFICES ASSUME Inv, NEW l \in Launchers, lpc[l] = "spawn", NobodyStops,
                      NEW d \in Daemons
               PROVE  ~Executing(d) \/ dpc[d] \in {"closing", "unbind", "unlock", "exit"}
    BY DEF NobodyStops
  <2> QED
    BY DEF AloneWhileNobodyStops, Alone, Busy
<1>4. Spec => [][spawn]_vars
  BY <1>1, <1>2, <1>3, PTL DEF Spec
<1> QED
  BY <1>4 DEF SpawnsOnlyWhenNeeded

-----------------------------------------------------------------------------
(* SocketPath: one socket for all *)

Default == {"RuntimeDir", "MacosTemp", "MacosCache", "XdgState", "UnixState"}

\* The path that the user names is the only candidate, or none of them.
LEMMA CandidatesShape ==
  Candidates = <<"Explicit">> \/ (Candidates \in Seq(Default) /\ "Explicit" \notin Default)
<1>1. \A v, s : s \in Default => If(v, s) \in Seq(Default)
  BY DEF If
<1>2. If("TMPDIR", "MacosTemp") \o If("HOME", "MacosCache") \in Seq(Default)
  BY <1>1 DEF Default
<1>3. UnixStateHome \in Seq(Default)
  <2>1. <<"XdgState">> \in Seq(Default)
    BY DEF Default
  <2>2. If("HOME", "UnixState") \in Seq(Default)
    BY <1>1 DEF Default
  <2> QED
    BY <2>1, <2>2 DEF UnixStateHome
<1>4. If("XDG_RUNTIME_DIR", "RuntimeDir") \in Seq(Default)
  BY <1>1 DEF Default
<1>5. Candidates = <<"Explicit">>
      \/ Candidates = If("XDG_RUNTIME_DIR", "RuntimeDir") \o
                        (If("TMPDIR", "MacosTemp") \o If("HOME", "MacosCache"))
      \/ Candidates = If("XDG_RUNTIME_DIR", "RuntimeDir") \o UnixStateHome
  BY DEF Candidates
<1>6. \A s, r \in Seq(Default) : s \o r \in Seq(Default)
  OBVIOUS
<1>7. "Explicit" \notin Default
  BY DEF Default
<1> QED
  BY <1>2, <1>3, <1>4, <1>5, <1>6, <1>7

LEMMA ExplicitIsAlone ==
  /\ Len(Candidates) \in Nat /\ CandidatePlaces = 1..Len(Candidates)
  /\ \A i \in CandidatePlaces : Candidates[i] = "Explicit" => Len(Candidates) = 1
  /\ Candidates # <<>> => 1 \in CandidatePlaces
<1>1. CASE Candidates = <<"Explicit">>
  BY <1>1 DEF CandidatePlaces
<1>2. CASE Candidates \in Seq(Default) /\ "Explicit" \notin Default
  <2>1. \A i \in 1..Len(Candidates) : Candidates[i] \in Default
    BY <1>2
  <2> QED
    BY <1>2, <2>1 DEF CandidatePlaces
<1> QED
  BY <1>1, <1>2, CandidatesShape

\* The candidates are worked out from what no step changes.
LEMMA SameCandidates ==
  ASSUME UNCHANGED <<platform, environment>>
  PROVE  Candidates' = Candidates
BY DEF Candidates, If, UnixStateHome

\* What one resolver knows of the candidates that it has passed, and of the one
\* that it tries.
Place(p) ==
  /\ candidate[p] \in Nat \ {0}
  /\ \A i \in CandidatePlaces : i < candidate[p] => ~Usable(Candidates[i])
  /\ rpc[p] \in {"prepare", "inspect", "tighten", "resolved"} => candidate[p] \in CandidatePlaces
  /\ rpc[p] = "start" => candidate[p] = 1
  /\ rpc[p] = "inspect" /\ Tried(p) # "Explicit" => disk[Tried(p)] \notin {"long", "blocked", "absent"}
  /\ rpc[p] = "tighten" => Tried(p) # "Explicit" /\ disk[Tried(p)] \in {"open", "sealed", "private"}
  /\ rpc[p] = "resolved" => disk[Tried(p)] = "private"
  /\ rpc[p] = "failed" => \A i \in CandidatePlaces : ~Usable(Candidates[i])

AllPlaced == \A p \in Resolvers : Place(p)

LEMMA InitSocket == SocketInit => SocketTypeOK /\ AllPlaced
<1> SUFFICES ASSUME SocketInit PROVE SocketTypeOK /\ AllPlaced
  OBVIOUS
<1>1. SocketTypeOK
  BY DEF SocketInit, SocketTypeOK
<1>2. ASSUME NEW p \in Resolvers PROVE Place(p)
  BY <1>2, ExplicitIsAlone DEF SocketInit, Place
<1> QED
  BY <1>1, <1>2 DEF AllPlaced

\* How a directory may change: it comes to be, or is made the user's alone,
\* where it could be that already.
Improves(old, new, c) ==
  \/ new[c] = old[c]
  \/ c # "Explicit" /\ old[c] = "absent" /\ new[c] \in {"open", "private"}
  \/ c # "Explicit" /\ old[c] \in {"open", "private"} /\ new[c] = "private"

\* What a resolver does not do changes nothing of what it knows.
LEMMA OthersStay ==
  ASSUME NEW p \in Resolvers, Place(p), UNCHANGED <<platform, environment>>,
         rpc'[p] = rpc[p], candidate'[p] = candidate[p],
         \A i \in CandidatePlaces : Improves(disk, disk', Candidates[i])
  PROVE  Place(p)'
<1>1. Candidates' = Candidates /\ CandidatePlaces' = CandidatePlaces /\ Tried(p)' = Tried(p)
  BY SameCandidates DEF CandidatePlaces, Tried
<1>2. \A i \in CandidatePlaces : ~Usable(Candidates[i]) => ~Usable(Candidates[i])'
  BY <1>1 DEF Improves, Usable
<1>3. candidate[p] \in CandidatePlaces => Improves(disk, disk', Tried(p))
  BY DEF Tried
<1> QED
  BY <1>1, <1>2, <1>3 DEF Place, Improves

\* The next candidate is tried only when this one can be nobody's place.
LEMMA SkipStep ==
  ASSUME NEW p \in Resolvers, SocketTypeOK, Place(p), candidate[p] \in CandidatePlaces,
         ~Usable(Tried(p)), Skip(p), UNCHANGED disk
  PROVE  Place(p)'
<1>1. Candidates' = Candidates /\ CandidatePlaces' = CandidatePlaces
  BY SameCandidates DEF CandidatePlaces, Skip
<1>2. \A i \in CandidatePlaces : Usable(Candidates[i])' <=> Usable(Candidates[i])
  BY <1>1 DEF Usable
<1>3. CASE Tried(p) # "Explicit" /\ candidate[p] < Len(Candidates)
  <2>1. candidate'[p] = candidate[p] + 1 /\ rpc'[p] = "prepare"
    BY <1>3 DEF Skip, SocketTypeOK
  <2>2. candidate[p] \in Nat \ {0} /\ candidate[p] + 1 \in CandidatePlaces
    BY <1>3, ExplicitIsAlone DEF Place
  <2>3. \A i \in CandidatePlaces : i < candidate[p] + 1 => ~Usable(Candidates[i])
    BY <2>2, ExplicitIsAlone DEF Place, Tried
  <2> QED
    BY <1>1, <1>2, <2>1, <2>2, <2>3 DEF Place
<1>4. CASE ~(Tried(p) # "Explicit" /\ candidate[p] < Len(Candidates))
  <2>1. candidate'[p] = candidate[p] /\ rpc'[p] = "failed"
    BY <1>4 DEF Skip, SocketTypeOK
  <2>2. candidate[p] = Len(Candidates)
    <3>1. candidate[p] \in 1..Len(Candidates) /\ Len(Candidates) \in Nat
      BY ExplicitIsAlone
    <3>2. CASE Tried(p) = "Explicit"
      <4>1. Candidates[candidate[p]] = "Explicit"
        BY <3>2 DEF Tried
      <4>2. Len(Candidates) = 1
        BY <4>1, ExplicitIsAlone
      <4> QED
        BY <3>1, <4>2
    <3>3. CASE ~(candidate[p] < Len(Candidates))
      BY <3>1, <3>3
    <3> QED
      BY <1>4, <3>2, <3>3
  <2>3. \A i \in CandidatePlaces : ~Usable(Candidates[i])
    BY <2>2, ExplicitIsAlone DEF Place, Tried
  <2> QED
    BY <1>1, <1>2, <2>1, <2>3 DEF Place
<1> QED
  BY <1>3, <1>4

LEMMA SocketStep ==
  SocketTypeOK /\ AllPlaced /\ [SocketNext]_socketVars => (SocketTypeOK /\ AllPlaced)'
<1> SUFFICES ASSUME SocketTypeOK, AllPlaced, [SocketNext]_socketVars
             PROVE  (SocketTypeOK /\ AllPlaced)'
  OBVIOUS
<1> USE DEF ResolverAt
<1>1. CASE UNCHANGED socketVars
  <2>1. Candidates' = Candidates
    BY <1>1, SameCandidates DEF socketVars
  <2>2. SocketTypeOK'
    BY <1>1, <2>1 DEF SocketTypeOK, CandidatePlaces, socketVars
  <2> QED
    BY <1>1, <2>2, OthersStay DEF AllPlaced, Improves, socketVars
<1>2. ASSUME NEW p \in Resolvers,
             BeginResolve(p) \/ MakeParent(p) \/ InspectParent(p) \/ TightenParent(p)
      PROVE  (SocketTypeOK /\ AllPlaced)'
  <2>a. UNCHANGED <<platform, environment>>
    BY <1>2 DEF BeginResolve, MakeParent, InspectParent, TightenParent, ResolverGoes, Skip
  <2>b. Candidates' = Candidates /\ CandidatePlaces' = CandidatePlaces
    BY <2>a, SameCandidates DEF CandidatePlaces
  <2>c. Place(p) /\ rpc[p] # "resolved"
    BY <1>2 DEF AllPlaced, BeginResolve, MakeParent, InspectParent, TightenParent
  <2>d. Tried(p) \in {Candidates[i] : i \in CandidatePlaces} \/ rpc[p] = "start"
    BY <1>2, <2>c DEF Place, Tried, BeginResolve, MakeParent, InspectParent, TightenParent
  <2>e. ASSUME NEW label \in {"prepare", "inspect", "tighten", "resolved", "failed"}, ResolverGoes(p, label)
        PROVE  /\ rpc'[p] = label /\ candidate'[p] = candidate[p] /\ Tried(p)' = Tried(p)
               /\ rpc' \in [Resolvers -> {"start", "prepare", "inspect", "tighten", "resolved", "failed"}]
               /\ candidate' \in [Resolvers -> Nat \ {0}]
    BY <2>b, <2>e DEF ResolverGoes, SocketTypeOK, Tried
  <2>f. Skip(p) => /\ rpc' \in [Resolvers -> {"start", "prepare", "inspect", "tighten", "resolved", "failed"}]
                   /\ candidate' \in [Resolvers -> Nat \ {0}]
    BY DEF Skip, SocketTypeOK
  <2>1. /\ \A i \in CandidatePlaces : Improves(disk, disk', Candidates[i])
        /\ disk' \in [{Candidates[i] : i \in CandidatePlaces} -> Kinds]
    <3>1. CASE UNCHANGED disk
      BY <3>1 DEF Improves, SocketTypeOK
    <3>2. CASE MakeParent(p) /\ disk' # disk
      BY <3>2, <2>d DEF MakeParent, Improves, SocketTypeOK, Kinds
    <3>3. CASE TightenParent(p) /\ disk' # disk
      <4>1. Tried(p) # "Explicit" /\ disk[Tried(p)] \in {"open", "private"}
        BY <3>3, <2>c DEF TightenParent, Place
      <4> QED
        BY <3>3, <2>d, <4>1 DEF TightenParent, Improves, SocketTypeOK, Kinds
    <3> QED
      BY <1>2, <3>1, <3>2, <3>3 DEF BeginResolve, InspectParent
  <2>2. /\ rpc' \in [Resolvers -> {"start", "prepare", "inspect", "tighten", "resolved", "failed"}]
        /\ candidate' \in [Resolvers -> Nat \ {0}]
    BY <1>2, <2>e, <2>f DEF BeginResolve, MakeParent, InspectParent, TightenParent
  <2>3. SocketTypeOK'
    BY <2>1, <2>2, <2>a, <2>b DEF SocketTypeOK
  <2>4. ASSUME NEW q \in Resolvers, q # p PROVE Place(q)'
    <3>1. rpc'[q] = rpc[q] /\ candidate'[q] = candidate[q]
      BY <1>2, <2>4 DEF BeginResolve, MakeParent, InspectParent, TightenParent, ResolverGoes, Skip, SocketTypeOK
    <3> QED
      BY <2>1, <2>a, <3>1, OthersStay DEF AllPlaced
  <2>5. Place(p)'
    <3>1. CASE BeginResolve(p)
      <4>1. rpc'[p] = IF Candidates = <<>> THEN "failed" ELSE "prepare"
        BY <3>1, <2>e DEF BeginResolve
      <4>2. candidate'[p] = candidate[p] /\ candidate[p] = 1 /\ UNCHANGED disk
        BY <3>1, <2>c, <2>e DEF BeginResolve, Place
      <4>3. Candidates = <<>> => CandidatePlaces = {}
        BY DEF CandidatePlaces
      <4> QED
        BY <4>1, <4>2, <4>3, <2>b, ExplicitIsAlone DEF Place
    <3>2. CASE MakeParent(p)
      <4>1. CASE Skip(p) /\ UNCHANGED disk /\ (disk[Tried(p)] = "long" \/ (Tried(p) # "Explicit" /\ disk[Tried(p)] = "blocked"))
        <5>1. ~Usable(Tried(p)) /\ candidate[p] \in CandidatePlaces
          BY <4>1, <3>2, <2>c DEF Usable, Place, MakeParent
        <5> QED
          BY <4>1, <5>1, <2>c, SkipStep
      <4>2. CASE ResolverGoes(p, "inspect") /\ UNCHANGED disk /\ (Tried(p) = "Explicit" \/ disk[Tried(p)] \notin {"long", "blocked", "absent"})
        BY <4>2, <3>2, <2>b, <2>c, <2>e DEF Place, MakeParent, Usable
      <4>3. CASE /\ ResolverGoes(p, "inspect") /\ Tried(p) # "Explicit" /\ disk[Tried(p)] = "absent"
                 /\ \E mode \in {"open", "private"} : disk' = [disk EXCEPT ![Tried(p)] = mode]
        <5>1. disk'[Tried(p)] \in {"open", "private"}
          BY <4>3, <3>2, <2>d DEF SocketTypeOK, MakeParent
        <5>2. \A i \in CandidatePlaces : ~Usable(Candidates[i]) => ~Usable(Candidates[i])'
          BY <2>1, <2>b DEF Improves, Usable
        <5>3. rpc'[p] = "inspect" /\ candidate'[p] = candidate[p] /\ Tried(p)' = Tried(p) /\ candidate[p] \in CandidatePlaces
          BY <4>3, <3>2, <2>c, <2>e DEF Place, MakeParent
        <5> QED
          BY <5>1, <5>2, <5>3, <2>b, <2>c DEF Place
      <4> QED
        BY <3>2, <4>1, <4>2, <4>3 DEF MakeParent
    <3>3. CASE InspectParent(p)
      <4>0. candidate[p] \in CandidatePlaces /\ UNCHANGED disk
        BY <3>3, <2>c DEF InspectParent, Place
      <4>00. \A i \in CandidatePlaces : Usable(Candidates[i])' <=> Usable(Candidates[i])
        BY <4>0, <2>b DEF Usable
      <4>1. CASE disk[Tried(p)] = "private"
        <5>1. ResolverGoes(p, "resolved")
          BY <3>3, <4>1 DEF InspectParent
        <5> QED
          BY <4>0, <4>00, <4>1, <5>1, <2>b, <2>c, <2>e DEF Place
      <4>2. CASE disk[Tried(p)] \in {"open", "sealed"} /\ Tried(p) # "Explicit"
        <5>1. ResolverGoes(p, "tighten")
          BY <3>3, <4>2 DEF InspectParent
        <5> QED
          BY <4>0, <4>00, <4>2, <5>1, <2>b, <2>c, <2>e DEF Place
      <4>3. CASE disk[Tried(p)] # "private" /\ ~(disk[Tried(p)] \in {"open", "sealed"} /\ Tried(p) # "Explicit")
        <5>1. Skip(p)
          BY <3>3, <4>3 DEF InspectParent
        <5>2. ~Usable(Tried(p))
          BY <3>3, <4>3, <2>c DEF InspectParent, Usable, Place
        <5> QED
          BY <4>0, <5>1, <5>2, <2>c, SkipStep
      <4> QED
        BY <4>1, <4>2, <4>3
    <3>4. CASE TightenParent(p)
      <4>0. candidate[p] \in CandidatePlaces /\ Tried(p) # "Explicit" /\ disk[Tried(p)] \in {"open", "sealed", "private"}
        BY <3>4, <2>c DEF TightenParent, Place
      <4>1. CASE disk[Tried(p)] = "sealed"
        BY <3>4, <4>0, <4>1, <2>c, SkipStep DEF TightenParent, Usable
      <4>2. CASE disk[Tried(p)] # "sealed"
        <5>1. ResolverGoes(p, "resolved") /\ disk'[Tried(p)] = "private"
          BY <3>4, <4>2, <2>d DEF TightenParent, SocketTypeOK
        <5>2. \A i \in CandidatePlaces : ~Usable(Candidates[i]) => ~Usable(Candidates[i])'
          BY <2>1, <2>b DEF Improves, Usable
        <5> QED
          BY <4>0, <5>1, <5>2, <2>b, <2>c, <2>e DEF Place
      <4> QED
        BY <4>1, <4>2
    <3> QED
      BY <1>2, <3>1, <3>2, <3>3, <3>4
  <2> QED
    BY <2>3, <2>4, <2>5 DEF AllPlaced
<1> QED
  BY <1>1, <1>2 DEF SocketNext

\* Daemon and clients meet: whatever the environment, the directories and the
\* steps of any number of processes, those that come to a socket come to the
\* same one, in a directory that is the user's alone, and none of them fails.
THEOREM SocketIsOne == SocketSpec => []OneSocketForAll
<1>1. SocketTypeOK /\ AllPlaced => OneSocketForAll
  <2> SUFFICES ASSUME SocketTypeOK, AllPlaced PROVE OneSocketForAll
    OBVIOUS
  <2> USE DEF ResolverAt
  <2>1. ASSUME NEW p \in Resolvers, rpc[p] = "resolved"
        PROVE  candidate[p] \in CandidatePlaces /\ disk[Tried(p)] = "private" /\ Usable(Candidates[candidate[p]])
    BY <2>1 DEF AllPlaced, Place, Usable, Tried
  <2>2. ASSUME NEW p \in Resolvers, NEW q \in Resolvers, rpc[p] = "resolved", rpc[q] = "resolved"
        PROVE  candidate[p] = candidate[q]
    <3>1. ~(candidate[p] < candidate[q]) /\ ~(candidate[q] < candidate[p])
      BY <2>1, <2>2 DEF AllPlaced, Place
    <3> QED
      BY <2>2, <3>1 DEF AllPlaced, Place
  <2>3. ASSUME NEW p \in Resolvers, NEW q \in Resolvers, rpc[p] = "resolved" PROVE rpc[q] # "failed"
    BY <2>1, <2>3 DEF AllPlaced, Place
  <2> QED
    BY <2>1, <2>2, <2>3 DEF OneSocketForAll, Tried
<1> QED
  BY <1>1, InitSocket, SocketStep, PTL DEF SocketSpec

-----------------------------------------------------------------------------
(* TuiProcess: the terminal is given back *)

Clean == ~raw /\ ~alternate
Restoring(t) == at[t] = "hook_restoring"
Unwinding == InHook("main") \/ at["main"] \in {"drop_claim", "drop_restoring", "leaving", "exited"}

\* Where the threads are.
Threaded ==
  /\ at["main"] \in MainStates /\ \A w \in Workers : at[w] \in WorkerStates
  /\ at["main"] \in {"start", "enter", "hook_up"} =>
       ~restored /\ ~session_hook /\ \A w \in Workers : at[w] = "unborn"
  /\ MainAt("start") => Clean
  /\ MainAt("enter") => ~alternate
  /\ \A w \in Workers : at[w] = "cut_off" => MainAt("exited")

\* Who restores once the restoring is claimed.
Claimed ==
  restored => \/ Clean
              \/ MainAt("drop_restoring") \/ Restoring("main")
              \/ \E w \in Workers : Restoring(w) \/ at[w] = "cut_off"

\* Only a worker that restores can be left behind by the main thread.
Leaving ==
  at["main"] \in {"leaving", "exited"} =>
    \/ Clean
    \/ \E w \in Workers : at[w] = IF MainAt("exited") THEN "cut_off" ELSE "hook_restoring"

\* What the panics so far are: the main thread waits for the hook of a worker
\* unless it panics itself.
Counted ==
  /\ \A w \in Workers : InHook(w) \/ at[w] = "cut_off" => panics >= 1
  /\ InHook("main") => panics >= 1
  /\ Unwinding /\ session_hook => panics >= 1
  /\ \A w \in Workers : at[w] \in {"hook", "hook_restoring", "cut_off"} /\ Unwinding => panics >= 2

TuiInv == TuiTypeOK /\ Threaded /\ Claimed /\ Leaving /\ Counted

LEMMA InitTui == TuiInit => TuiInv
<1> SUFFICES ASSUME TuiInit PROVE TuiInv
  OBVIOUS
<1>1. TuiTypeOK
  <2>1. at \in [Everyone -> MainStates \cup WorkerStates]
    BY DEF TuiInit, MainStates, WorkerStates
  <2>2. events \in Seq({"close", "redraw", "nothing", "fatal"}) /\ Len(events) <= MaxEvents
    BY TuiAssumption DEF TuiInit
  <2>3. panics \in 0..MaxPanics
    BY TuiAssumption DEF TuiInit
  <2>4. {raw, alternate, session_hook, restored, cancel, failed} \subseteq {TRUE, FALSE}
    BY Zenon DEF TuiInit
  <2> QED
    BY <2>1, <2>2, <2>3, <2>4 DEF TuiTypeOK
<1>2. at["main"] = "start" /\ \A w \in Workers : at[w] = "unborn"
  BY DEF TuiInit, Everyone, Workers
<1>3. ~restored /\ ~session_hook /\ ~raw /\ ~alternate
  BY DEF TuiInit
<1>4. Threaded
  BY <1>2, <1>3 DEF Threaded, MainAt, Clean, MainStates, WorkerStates
<1>5. Claimed /\ Leaving
  BY <1>2, <1>3 DEF Claimed, Leaving
<1>6. Counted
  BY <1>2, <1>3 DEF Counted, Unwinding, InHook, HookStates
<1> QED
  BY <1>1, <1>4, <1>5, <1>6 DEF TuiInv

\* A step of one thread leaves the others where they are.
LEMMA GoesOne ==
  ASSUME TuiTypeOK, NEW t \in Everyone, NEW label \in MainStates \cup WorkerStates, Goes(t, label)
  PROVE  /\ at' \in [Everyone -> MainStates \cup WorkerStates]
         /\ at'[t] = label /\ \A u \in Everyone : u # t => at'[u] = at[u]
BY DEF TuiTypeOK, Goes

LEMMA TuiTypes == TuiTypeOK /\ [TuiNext]_tuiVars => TuiTypeOK'
<1> SUFFICES ASSUME TuiTypeOK, [TuiNext]_tuiVars PROVE TuiTypeOK'
  OBVIOUS
<1> DEFINE TuiLabels == MainStates \cup WorkerStates
           EventKinds == {"close", "redraw", "nothing", "fatal"}
<1> USE TuiAssumption
<1>a. {"main", "input", "bridge", "subscription"} \subseteq Everyone
  BY DEF Everyone, Workers
<1>b. MainStates \subseteq TuiLabels /\ WorkerStates \subseteq TuiLabels
  OBVIOUS
<1>1. CASE EnableRawMode \/ EnterAlternateScreen \/ SetHook \/ DropTakesHook \/ LoopEnds \/ SubscriptionEnds
  BY <1>1, <1>a DEF TuiTypeOK, EnableRawMode, EnterAlternateScreen, SetHook, DropTakesHook, LoopEnds,
     SubscriptionEnds, Goes, MainStates, WorkerStates, HookStates
<1>2. CASE DrawFrame
  BY <1>2, <1>a DEF TuiTypeOK, DrawFrame, Goes, MainStates, WorkerStates, HookStates
<1>3. CASE HandleEvent
  <2>1. events' \in Seq(EventKinds) /\ Len(events') <= MaxEvents
    BY <1>3 DEF HandleEvent, TuiTypeOK
  <2>2. at' \in [Everyone -> TuiLabels] /\ {cancel', failed'} \subseteq BOOLEAN
    <3>1. CASE Head(events) = "close"
      BY <1>3, <3>1, <1>a DEF TuiTypeOK, HandleEvent, Goes, MainStates
    <3>2. CASE Head(events) = "fatal"
      BY <1>3, <3>2, <1>a DEF TuiTypeOK, HandleEvent, Goes, MainStates
    <3>3. CASE Head(events) = "redraw"
      BY <1>3, <3>3, <1>a DEF TuiTypeOK, HandleEvent, Goes, MainStates
    <3>4. CASE Head(events) \notin {"close", "fatal", "redraw"}
      BY <1>3, <3>4 DEF TuiTypeOK, HandleEvent
    <3> QED
      BY <3>1, <3>2, <3>3, <3>4
  <2> QED
    BY <1>3, <2>1, <2>2 DEF TuiTypeOK, HandleEvent
<1>4. CASE ReadInput \/ PassOn
  <2>1. events' \in Seq(EventKinds) /\ Len(events') <= MaxEvents
    <3>1. \/ UNCHANGED events
          \/ Len(events) < MaxEvents /\ \E event \in EventKinds : events' = Append(events, event)
      BY <1>4 DEF ReadInput, PassOn
    <3>2. ASSUME NEW event \in EventKinds, Len(events) < MaxEvents, events' = Append(events, event)
          PROVE  events' \in Seq(EventKinds) /\ Len(events') <= MaxEvents
      <4>1. events \in Seq(EventKinds) /\ Len(events) \in Nat
        BY DEF TuiTypeOK
      <4>2. Len(events') = Len(events) + 1 /\ events' \in Seq(EventKinds)
        BY <3>2, <4>1
      <4> QED
        BY <3>2, <4>1, <4>2
    <3> QED
      BY <3>1, <3>2 DEF TuiTypeOK
  <2>2. at' \in [Everyone -> TuiLabels]
    BY <1>4, <1>a DEF ReadInput, PassOn, TuiTypeOK, Goes, WorkerStates
  <2> QED
    BY <1>4, <2>1, <2>2 DEF TuiTypeOK, ReadInput, PassOn
<1>5. ASSUME NEW t \in Everyone, Panic(t) PROVE TuiTypeOK'
  BY <1>5 DEF TuiTypeOK, Panic, Goes, MainStates, WorkerStates, HookStates
<1>6. ASSUME NEW t \in Everyone, HookClaims(t) \/ HookRestores(t) PROVE TuiTypeOK'
  BY <1>6 DEF TuiTypeOK, HookClaims, HookRestores, Claim, Restore, Goes, MainStates, HookStates
<1>7. ASSUME NEW t \in Everyone, HookReturns(t) PROVE TuiTypeOK'
  <2>1. at' \in [Everyone -> TuiLabels]
    BY <1>7 DEF TuiTypeOK, HookReturns, Goes, MainStates, WorkerStates
  <2> QED
    BY <1>7, <2>1 DEF TuiTypeOK, HookReturns
<1>8. CASE DropClaims \/ DropRestores
  BY <1>8, <1>a DEF TuiTypeOK, DropClaims, DropRestores, Claim, Restore, Goes, MainStates
<1>9. CASE ExitProcess
  BY <1>9 DEF TuiTypeOK, ExitProcess, MainStates, WorkerStates
<1>10. CASE UNCHANGED tuiVars
  BY <1>10 DEF TuiTypeOK, tuiVars
<1> QED
  BY <1>1, <1>2, <1>3, <1>4, <1>5, <1>6, <1>7, <1>8, <1>9, <1>10 DEF TuiNext

\* A step that only moves a worker between states that nobody looks at, or
\* only changes what waits, changes nothing of the account.
LEMMA TuiStep == TuiInv /\ [TuiNext]_tuiVars => TuiInv'
<1> SUFFICES ASSUME TuiInv, [TuiNext]_tuiVars PROVE (Threaded /\ Claimed /\ Leaving /\ Counted)'
  BY TuiTypes DEF TuiInv
<1> USE DEF TuiInv
<1> DEFINE Account == Threaded /\ Claimed /\ Leaving /\ Counted
<1>m. "main" \in Everyone /\ "main" \notin Workers /\ Workers \subseteq Everyone
      /\ {"input", "bridge", "subscription"} \subseteq Workers
      /\ \A t \in Everyone : t = "main" \/ t \in Workers
  BY DEF Everyone, Workers
<1>p. panics \in Nat
  BY DEF TuiTypeOK
<1>0. ASSUME UNCHANGED <<raw, alternate, session_hook, restored, panics>>, UNCHANGED at PROVE Account'
  BY <1>0 DEF Threaded, Claimed, Leaving, Counted, MainAt, Clean, Unwinding, InHook, Restoring
\* The main thread starts, works and ends the loop.
<1>1. CASE EnableRawMode \/ EnterAlternateScreen \/ SetHook
  <2>1. /\ at'["main"] \in {"enter", "hook_up", "draw", "leaving"}
        /\ \A w \in Workers : at'[w] = at[w] /\ at[w] = "unborn"
        /\ ~restored /\ ~restored' /\ panics' = panics
    BY <1>1, <1>m DEF EnableRawMode, EnterAlternateScreen, SetHook, Goes, TuiTypeOK, Threaded, MainAt
  <2>2. /\ at'["main"] = "enter" => ~alternate'
        /\ at'["main"] = "leaving" => Clean'
        /\ at'["main"] # "draw" => ~session_hook'
    BY <1>1, <1>m DEF EnableRawMode, EnterAlternateScreen, SetHook, Goes, TuiTypeOK, Threaded, MainAt, Clean
  <2> QED
    BY <2>1, <2>2 DEF Threaded, Claimed, Leaving, Counted, MainAt, Unwinding, InHook, HookStates,
       Restoring, MainStates, WorkerStates
<1>2. CASE DrawFrame \/ HandleEvent \/ LoopEnds
  <2>1. /\ at["main"] \in {"draw", "loop"} /\ at'["main"] \in {"draw", "loop", "drop"}
        /\ \A w \in Workers : at'[w] = at[w] \/ (at[w] = "unborn" /\ at'[w] = "running")
    <3>1. CASE DrawFrame \/ LoopEnds
      BY <3>1, <1>m DEF DrawFrame, LoopEnds, Goes, TuiTypeOK, MainAt, Everyone
    <3>2. CASE HandleEvent
      <4>1. UNCHANGED at \/ Goes("main", "drop") \/ Goes("main", "draw")
        BY <3>2 DEF HandleEvent
      <4> QED
        BY <3>2, <4>1, <1>m DEF HandleEvent, Goes, TuiTypeOK, MainAt
    <3> QED
      BY <1>2, <3>1, <3>2
  <2>2. UNCHANGED <<raw, alternate, session_hook, restored, panics>>
    BY <1>2 DEF DrawFrame, HandleEvent, LoopEnds
  <2> QED
    BY <2>1, <2>2 DEF Threaded, Claimed, Leaving, Counted, MainAt, Clean, Unwinding, InHook, HookStates,
       Restoring, MainStates, WorkerStates
\* The workers work and end.
<1>3. CASE ReadInput \/ PassOn \/ SubscriptionEnds
  <2>1. /\ at'["main"] = at["main"]
        /\ \A w \in Workers : at'[w] = at[w] \/ (at[w] = "running" /\ at'[w] = "ended")
    BY <1>3, <1>m DEF ReadInput, PassOn, SubscriptionEnds, Goes, TuiTypeOK
  <2>2. UNCHANGED <<raw, alternate, session_hook, restored, panics>>
    BY <1>3 DEF ReadInput, PassOn, SubscriptionEnds
  <2> QED
    BY <2>1, <2>2 DEF Threaded, Claimed, Leaving, Counted, MainAt, Clean, Unwinding, InHook, HookStates,
       Restoring, MainStates, WorkerStates
\* Panics: the count goes up with each thread that comes to its hook.
<1>4. ASSUME NEW t \in Everyone, Panic(t) PROVE Account'
  <2>1. /\ panics' = panics + 1 /\ UNCHANGED <<raw, alternate, session_hook, restored>>
        /\ at[t] \in {"running", "draw", "loop"} /\ at'[t] \in {"hook", "hook_printing"}
        /\ at'[t] = "hook" => session_hook
        /\ \A u \in Everyone : u # t => at'[u] = at[u]
    BY <1>4 DEF Panic, Goes, TuiTypeOK, Handing
  <2>2. CASE t = "main"
    <3>1. at["main"] \in {"draw", "loop"} /\ \A w \in Workers : at'[w] = at[w]
      BY <2>1, <2>2, <1>m DEF Threaded, MainStates, HookStates
    <3> QED
      BY <2>1, <2>2, <3>1, <1>p, <1>m DEF Threaded, Claimed, Leaving, Counted, MainAt, Clean, Unwinding,
         InHook, HookStates, Restoring, MainStates, WorkerStates
  <2>3. CASE t \in Workers
    <3>1. at'["main"] = at["main"] /\ \A w \in Workers : w # t => at'[w] = at[w]
      BY <2>1, <2>3, <1>m
    <3>2. at[t] = "running"
      BY <2>1, <2>3 DEF Threaded, WorkerStates, HookStates
    <3>3. Threaded' /\ Claimed' /\ Leaving'
      BY <2>1, <2>3, <3>1, <3>2 DEF Threaded, Claimed, Leaving, MainAt, Clean, Restoring, WorkerStates, HookStates
    <3>4. Counted'
      BY <2>1, <2>3, <3>1, <3>2, <1>p DEF Counted, Unwinding, InHook, HookStates
    <3> QED
      BY <3>3, <3>4
  <2> QED
    BY <2>2, <2>3, <1>m
<1>5. ASSUME NEW t \in Everyone, HookClaims(t) PROVE Account'
  <2>1. /\ restored' = TRUE /\ UNCHANGED <<raw, alternate, session_hook, panics>>
        /\ at[t] = "hook" /\ at'[t] = IF restored THEN "hook_printing" ELSE "hook_restoring"
        /\ \A u \in Everyone : u # t => at'[u] = at[u]
    BY <1>5 DEF HookClaims, Claim, Goes, TuiTypeOK
  <2>2. at["main"] \notin {"start", "enter", "hook_up"}
    BY <2>1, <1>m DEF Threaded
  <2>3. CASE t = "main"
    <3>1. \A w \in Workers : at'[w] = at[w]
      BY <2>1, <2>3, <1>m
    <3> QED
      BY <2>1, <2>2, <2>3, <3>1 DEF Threaded, Claimed, Leaving, Counted, MainAt, Clean, Unwinding,
         InHook, HookStates, Restoring, MainStates, WorkerStates
  <2>4. CASE t \in Workers
    <3>1. at'["main"] = at["main"] /\ \A w \in Workers : w # t => at'[w] = at[w]
      BY <2>1, <2>4, <1>m
    <3>2. Threaded' /\ Counted'
      BY <2>1, <2>2, <2>4, <3>1 DEF Threaded, Counted, MainAt, Clean, Unwinding, InHook, HookStates, WorkerStates
    <3>3. Claimed' /\ Leaving'
      BY <2>1, <2>4, <3>1 DEF Claimed, Leaving, MainAt, Clean, Restoring
    <3> QED
      BY <3>2, <3>3
  <2> QED
    BY <2>3, <2>4, <1>m
<1>6. ASSUME NEW t \in Everyone, HookRestores(t) PROVE Account'
  <2>1. /\ Clean' /\ UNCHANGED <<restored, session_hook, panics>>
        /\ at[t] = "hook_restoring" /\ at'[t] = "hook_printing"
        /\ \A u \in Everyone : u # t => at'[u] = at[u]
    BY <1>6 DEF HookRestores, Restore, Goes, TuiTypeOK, Clean
  <2>2. at["main"] \notin {"start", "enter", "hook_up"}
    BY <2>1, <1>m DEF Threaded
  <2>3. CASE t = "main"
    <3>1. \A w \in Workers : at'[w] = at[w]
      BY <2>1, <2>3, <1>m
    <3> QED
      BY <2>1, <2>2, <2>3, <3>1 DEF Threaded, Claimed, Leaving, Counted, MainAt, Unwinding,
         InHook, HookStates, MainStates, WorkerStates
  <2>4. CASE t \in Workers
    <3>1. at'["main"] = at["main"] /\ \A w \in Workers : w # t => at'[w] = at[w]
      BY <2>1, <2>4, <1>m
    <3> QED
      BY <2>1, <2>2, <2>4, <3>1 DEF Threaded, Claimed, Leaving, Counted, MainAt, Unwinding,
         InHook, HookStates, WorkerStates
  <2> QED
    BY <2>3, <2>4, <1>m
<1>7. ASSUME NEW t \in Everyone, HookReturns(t) PROVE Account'
  <2>1. /\ UNCHANGED <<raw, alternate, restored, session_hook, panics>>
        /\ at[t] = "hook_printing" /\ at'[t] = IF t = "main" THEN "drop_claim" ELSE "ended"
        /\ \A u \in Everyone : u # t => at'[u] = at[u]
    BY <1>7 DEF HookReturns, Goes, TuiTypeOK
  <2>3. CASE t = "main"
    <3>1. \A w \in Workers : at'[w] = at[w]
      BY <2>1, <2>3, <1>m
    <3> QED
      BY <2>1, <2>3, <3>1 DEF Threaded, Claimed, Leaving, Counted, MainAt, Clean, Unwinding,
         InHook, HookStates, Restoring, MainStates, WorkerStates
  <2>4. CASE t \in Workers
    <3>1. at'["main"] = at["main"] /\ (\A w \in Workers : w # t => at'[w] = at[w]) /\ at'[t] = "ended"
      BY <2>1, <2>4, <1>m
    <3> QED
      BY <2>1, <2>4, <3>1 DEF Threaded, Claimed, Leaving, Counted, MainAt, Clean, Unwinding,
         InHook, HookStates, Restoring, WorkerStates
  <2> QED
    BY <2>3, <2>4, <1>m
\* Drop, with the hook taken or left, and the end of the process.
<1>8. CASE DropTakesHook \/ DropClaims \/ DropRestores
  <2>1. /\ \A w \in Workers : at'[w] = at[w]
        /\ at["main"] \in {"drop", "drop_claim", "drop_restoring"} /\ panics' = panics
    BY <1>8, <1>m DEF DropTakesHook, DropClaims, DropRestores, Claim, Restore, Goes, TuiTypeOK, MainAt
  <2>2. CASE DropTakesHook
    <3>1. /\ at'["main"] = "drop_claim" /\ ~session_hook' /\ UNCHANGED <<raw, alternate, restored>>
          /\ MainAt("drop") /\ \A w \in Workers : ~InHook(w) /\ at[w] # "cut_off"
      BY <2>2, <1>m DEF DropTakesHook, Goes, TuiTypeOK, MainAt, Threaded
    <3> QED
      BY <2>1, <3>1 DEF Threaded, Claimed, Leaving, Counted, MainAt, Clean, Unwinding, InHook, HookStates,
         Restoring, MainStates, WorkerStates
  <2>3. CASE DropClaims
    <3>1. /\ MainAt("drop_claim") /\ at'["main"] = IF restored THEN "leaving" ELSE "drop_restoring"
          /\ restored' /\ UNCHANGED <<raw, alternate, session_hook>>
      BY <2>3, <1>m DEF DropClaims, Claim, Goes, TuiTypeOK, MainAt
    <3>2. Threaded' /\ Counted'
      BY <2>1, <3>1 DEF Threaded, Counted, MainAt, Clean, Unwinding, InHook, HookStates, MainStates, WorkerStates
    <3>3. \A w \in Workers : at[w] # "cut_off"
      BY <3>1 DEF Threaded, MainAt
    <3>4. Claimed' /\ Leaving'
      BY <2>1, <3>1, <3>3 DEF Claimed, Leaving, MainAt, Clean, Restoring
    <3> QED
      BY <3>2, <3>4
  <2>4. CASE DropRestores
    <3>1. /\ MainAt("drop_restoring") /\ at'["main"] = "leaving"
          /\ Clean' /\ UNCHANGED <<restored, session_hook>>
      BY <2>4, <1>m DEF DropRestores, Restore, Goes, TuiTypeOK, MainAt, Clean
    <3> QED
      BY <2>1, <3>1 DEF Threaded, Claimed, Leaving, Counted, MainAt, Unwinding, InHook, HookStates,
         MainStates, WorkerStates
  <2> QED
    BY <1>8, <2>2, <2>3, <2>4
<1>9. CASE ExitProcess
  <2>1. /\ MainAt("leaving") /\ at'["main"] = "exited"
        /\ UNCHANGED <<raw, alternate, restored, session_hook, panics>>
        /\ \A w \in Workers : at'[w] = IF at[w] = "hook_restoring" THEN "cut_off" ELSE "ended"
    BY <1>9, <1>m DEF ExitProcess, TuiTypeOK
  <2> QED
    BY <2>1 DEF Threaded, Claimed, Leaving, Counted, MainAt, Clean, Unwinding, InHook, HookStates,
       Restoring, MainStates, WorkerStates
<1>10. CASE UNCHANGED tuiVars
  BY <1>0, <1>10 DEF tuiVars
<1> QED
  BY <1>1, <1>2, <1>3, <1>4, <1>5, <1>6, <1>7, <1>8, <1>9, <1>10 DEF TuiNext

\* However the picker ends, and however many of its threads panic, the shell
\* gets its terminal back, but for a worker cut off by a second panic.
THEOREM TerminalComesBack == TuiSpec => []TerminalIsGivenBack
<1>1. TuiInv => TerminalIsGivenBack
  <2> SUFFICES ASSUME TuiInv, MainAt("exited"), ~Clean
               PROVE  panics > 1 /\ \E w \in Workers : at[w] = "cut_off"
    BY DEF TerminalIsGivenBack, Clean
  <2>1. PICK w \in Workers : at[w] = "cut_off"
    BY DEF TuiInv, Leaving, MainAt
  <2>2. panics >= 2 /\ panics \in Nat
    BY <2>1 DEF TuiInv, Counted, Unwinding, MainAt, TuiTypeOK
  <2> QED
    BY <2>1, <2>2
<1> QED
  BY <1>1, InitTui, TuiStep, PTL DEF TuiSpec

-----------------------------------------------------------------------------
(* CommandRunner: answers are whole, in time, and suggest what is wanted *)

\* The child, by where the call is.
ChildAt ==
  /\ InCall("idle") => spawned \in {"none", "reaped"}
  /\ InCall("poll") => spawned \in {"running", "zombie"}
  /\ shot.at \in {"timed_out", "stdout", "stderr", "collected"} => spawned = "reaped"

\* What the child wrote is in a tick after the call began to wait for a pipe.
WholeAt ==
  /\ InCall("stdout") /\ waited >= 1 => ChildsOutputIsIn("stdout")
  /\ shot.at \in {"stderr", "collected"} => ChildsOutputIsIn("stdout")
  /\ InCall("stderr") /\ waited >= 1 => ChildsOutputIsIn("stderr")
  /\ InCall("collected") => ChildsOutputIsIn("stderr")

\* How late it is.
TimedAt ==
  /\ waited <= LIVE_CHILD_EXIT_GRACE
  /\ shot.at \in {"poll", "timed_out"} => elapsed <= LimitOf(shot.op)
  /\ InCall("stdout") => elapsed <= LimitOf(shot.op) + waited
  /\ InCall("stderr") => elapsed <= LimitOf(shot.op) + LIVE_CHILD_EXIT_GRACE + waited
  /\ InCall("collected") => elapsed <= LimitOf(shot.op) + 2 * LIVE_CHILD_EXIT_GRACE

\* A probe goes with the failure that it may add to.
ProbeAt ==
  /\ DOMAIN reply = {"kind", "class", "suggested"}
  /\ SuggestionIsWanted
  /\ shot.op = "probe" /\ ~InCall("idle") => runner.ssh /\ reply.kind = "error" /\ ~reply.suggested
  /\ shot.op = "probe" /\ ((InCall("poll") /\ spawned = "zombie") \/ shot.at \in {"stdout", "stderr", "collected"})
       /\ exit.ok => exit.content = runner.remote

RunnerInv == RunnerTypeOK /\ ChildAt /\ WholeAt /\ TimedAt /\ ProbeAt

ReplyKinds == {"ok", "rows", "reachable", "unreachable", "error"}

LEMMA AnswerIs ==
  /\ \A op, m : /\ Failure(op, m).kind = "error" /\ Failure(op, m).suggested = FALSE
                /\ DOMAIN Failure(op, m) = {"kind", "class", "suggested"}
  /\ \A op, c : /\ OfOutput(op, c).kind \in ReplyKinds /\ OfOutput(op, c).suggested = FALSE
                /\ DOMAIN OfOutput(op, c) = {"kind", "class", "suggested"}
<1>1. \A op, m : /\ Failure(op, m).kind = "error" /\ Failure(op, m).suggested = FALSE
                 /\ DOMAIN Failure(op, m) = {"kind", "class", "suggested"}
  BY DEF Failure
<1>2. \A k \in ReplyKinds : /\ Success(k).kind = k /\ Success(k).suggested = FALSE
                         /\ DOMAIN Success(k) = {"kind", "class", "suggested"}
  BY DEF Success
<1>3. ASSUME NEW op, NEW c
      PROVE  \/ \E k \in ReplyKinds : OfOutput(op, c) = Success(k)
             \/ OfOutput(op, c) = Failure(op, {"bad_json"})
             \/ OfOutput(op, c) = Failure(op, {"no_rows", "bad_json"})
             \/ OfOutput(op, c) = Failure(op, {"incompatible"})
  BY DEF OfOutput, RowsOf, ReplyKinds
<1> QED
  <2>1. ASSUME NEW op, NEW c
        PROVE  /\ OfOutput(op, c).kind \in ReplyKinds /\ OfOutput(op, c).suggested = FALSE
               /\ DOMAIN OfOutput(op, c) = {"kind", "class", "suggested"}
    BY <1>1, <1>2, <1>3 DEF ReplyKinds
  <2> QED
    BY <1>1, <2>1

LEMMA InitRunner == RunnerInit => RunnerInv
<1> SUFFICES ASSUME RunnerInit PROVE RunnerInv
  OBVIOUS
<1>1. reply = Success("ok") /\ InCall("idle") /\ shot.op = "status"
  BY DEF RunnerInit, InCall
<1>2. reply.kind = "ok" /\ ~reply.suggested /\ DOMAIN reply = {"kind", "class", "suggested"}
  BY <1>1 DEF Success
<1>3. RunnerTypeOK
  <2>1. \A p \in Pipes : pipe[p] = <<>> /\ drained[p] = 0
    BY DEF RunnerInit
  <2>2. pipe \in [Pipes -> Seq({"child", "heir"})] /\ drained \in [Pipes -> Nat]
    BY DEF RunnerInit
  <2>3. \A p \in Pipes : drained[p] <= Len(pipe[p]) /\ Len(pipe[p]) <= MaxChunks
    BY <2>1, RunnerAssumption
  <2>4. /\ runner \in RunnerSettings /\ spawned \in {"none", "running", "zombie", "reaped"} /\ heir \in BOOLEAN
        /\ exit.ok \in BOOLEAN /\ exit.message \subseteq Phrases /\ elapsed \in Nat /\ waited \in Nat
        /\ shot \in [op : OneShots \cup {"probe"},
                    at : {"idle", "poll", "timed_out", "stdout", "stderr", "collected"}]
    BY RunnerAssumption DEF RunnerInit, OneShots
  <2>5. reply.kind \in ReplyKinds /\ reply.suggested \in BOOLEAN
    BY <1>1, AnswerIs DEF Success, ReplyKinds
  <2> QED
    BY <2>2, <2>3, <2>4, <2>5 DEF RunnerTypeOK, ReplyKinds
<1>4. waited = 0 /\ spawned = "none"
  BY DEF RunnerInit
<1> QED
  BY <1>1, <1>2, <1>3, <1>4, RunnerAssumption
  DEF RunnerInv, ChildAt, WholeAt, TimedAt, ProbeAt, InCall, SuggestionIsWanted

LEMMA LimitIs == \A op : LimitOf(op) \in Nat
BY RunnerAssumption DEF LimitOf

\* A chunk more in a pipe, and what it does to the child's output being in.
LEMMA PipesGrow ==
  ASSUME RunnerTypeOK, NEW p \in Pipes, NEW who \in {"child", "heir"}, Writes(who, p)
  PROVE  /\ RunnerTypeOK'
         /\ who = "heir" => \A q \in Pipes : ChildsOutputIsIn(q) => ChildsOutputIsIn(q)'
<1>1. pipe[p] \in Seq({"child", "heir"}) /\ pipe'[p] = Append(pipe[p], who)
  BY DEF RunnerTypeOK, Writes
<1>2. /\ pipe'[p] \in Seq({"child", "heir"}) /\ Len(pipe'[p]) = Len(pipe[p]) + 1
      /\ \A i \in 1..Len(pipe'[p]) : pipe'[p][i] = IF i = Len(pipe[p]) + 1 THEN who ELSE pipe[p][i]
      /\ Len(pipe[p]) \in Nat /\ DOMAIN pipe[p] = 1..Len(pipe[p]) /\ DOMAIN pipe'[p] = 1..Len(pipe'[p])
  BY <1>1
<1>3. \A q \in Pipes : q # p => pipe'[q] = pipe[q]
  BY DEF RunnerTypeOK, Writes
<1>4. Len(pipe'[p]) <= MaxChunks /\ drained[p] <= Len(pipe'[p])
  BY <1>2, RunnerAssumption DEF Writes, RunnerTypeOK
<1>5. pipe' \in [Pipes -> Seq({"child", "heir"})]
  BY <1>2 DEF Writes, RunnerTypeOK
<1>6. RunnerTypeOK'
  BY <1>3, <1>4, <1>5 DEF Writes, RunnerTypeOK
<1>7. ASSUME who = "heir", ChildsOutputIsIn(p) PROVE ChildsOutputIsIn(p)'
  BY <1>2, <1>7 DEF ChildsOutputIsIn, Writes
<1>8. ASSUME NEW q \in Pipes, q # p, ChildsOutputIsIn(q) PROVE ChildsOutputIsIn(q)'
  BY <1>3, <1>8 DEF ChildsOutputIsIn, Writes
<1> QED
  BY <1>6, <1>7, <1>8

\* A new child, with pipes of its own, and nothing in them.
LEMMA SpawnStep ==
  ASSUME RunnerTypeOK, NEW op \in OneShots \cup {"probe"}, SpawnAs(op), runner' \in RunnerSettings,
         exit' = exit, DOMAIN reply' = {"kind", "class", "suggested"},
         reply'.kind \in ReplyKinds, reply'.suggested \in BOOLEAN,
         op = "probe" => runner'.ssh /\ reply'.kind = "error" /\ ~reply'.suggested
  PROVE  RunnerInv'
<1>1. /\ shot'.op = op /\ shot'.at = "poll" /\ spawned' = "running" /\ heir' = FALSE
      /\ elapsed' = 0 /\ waited' = 0
      /\ shot' \in [op : OneShots \cup {"probe"},
                   at : {"idle", "poll", "timed_out", "stdout", "stderr", "collected"}]
  BY DEF SpawnAs
<1>2. pipe' \in [Pipes -> Seq({"child", "heir"})] /\ drained' \in [Pipes -> Nat]
  BY DEF SpawnAs
<1>3. \A p \in Pipes : pipe'[p] = <<>> /\ drained'[p] = 0
  BY DEF SpawnAs
<1>4. \A p \in Pipes : drained'[p] <= Len(pipe'[p]) /\ Len(pipe'[p]) <= MaxChunks
  BY <1>3, RunnerAssumption
<1>5. RunnerTypeOK'
  BY <1>1, <1>2, <1>4 DEF RunnerTypeOK, ReplyKinds
<1>6. TimedAt'
  BY <1>1, LimitIs, RunnerAssumption DEF TimedAt, InCall
<1> QED
  BY <1>1, <1>5, <1>6 DEF RunnerInv, ChildAt, WholeAt, ProbeAt, InCall, SuggestionIsWanted

\* An answer, when the child is gone or was none.
LEMMA ReplyStep ==
  ASSUME RunnerTypeOK, spawned \in {"none", "reaped"}, UNCHANGED childVars, runner' \in RunnerSettings,
         shot'.at = "idle", shot' \in [op : OneShots \cup {"probe"}, at : {"idle"}],
         waited' = waited, waited <= LIVE_CHILD_EXIT_GRACE,
         DOMAIN reply' = {"kind", "class", "suggested"},
         reply'.kind \in ReplyKinds, reply'.suggested \in BOOLEAN, SuggestionIsWanted'
  PROVE  RunnerInv'
<1>1. RunnerTypeOK'
  BY DEF RunnerTypeOK, ReplyKinds, childVars
<1>2. ChildAt' /\ WholeAt' /\ TimedAt' /\ ProbeAt'
  BY DEF ChildAt, WholeAt, TimedAt, ProbeAt, InCall, childVars
<1> QED
  BY <1>1, <1>2 DEF RunnerInv

LEMMA FailureStep ==
  ASSUME RunnerInv, NEW m, AfterFailure(m), ~InCall("idle"), spawned = "reaped"
  PROVE  RunnerInv'
<1> USE DEF RunnerInv
<1>1. CASE shot.op = "preflight" /\ runner.ssh /\ LooksLikeBinaryNotFound(m)
  <2>1. SpawnAs("probe") /\ reply' = Failure("preflight", m) /\ UNCHANGED <<runner, exit>>
    BY <1>1 DEF AfterFailure
  <2>2. /\ reply'.kind = "error" /\ reply'.suggested = FALSE
        /\ DOMAIN reply' = {"kind", "class", "suggested"} /\ "error" \in ReplyKinds
    BY <2>1, AnswerIs DEF ReplyKinds
  <2> QED
    BY <1>1, <2>1, <2>2, SpawnStep DEF RunnerTypeOK
<1>2. CASE ~(shot.op = "preflight" /\ runner.ssh /\ LooksLikeBinaryNotFound(m))
  <2>1. /\ UNCHANGED <<runner, waited, childVars>>
        /\ IF shot.op = "probe" THEN Replies(reply) ELSE Replies(Failure(shot.op, m))
    BY <1>2 DEF AfterFailure, childVars
  <2>2. shot'.at = "idle" /\ shot' \in [op : OneShots \cup {"probe"}, at : {"idle"}]
    BY <2>1 DEF Replies, RunnerTypeOK
  <2>3. /\ DOMAIN reply' = {"kind", "class", "suggested"} /\ reply'.kind = "error" /\ reply'.suggested = FALSE
    <3>1. CASE shot.op = "probe"
      BY <2>1, <3>1 DEF Replies, ProbeAt, RunnerTypeOK
    <3>2. CASE shot.op # "probe"
      BY <2>1, <3>2, AnswerIs DEF Replies
    <3> QED
      BY <3>1, <3>2
  <2>4. SuggestionIsWanted'
    BY <2>3 DEF SuggestionIsWanted
  <2> QED
    BY <2>1, <2>2, <2>3, <2>4, ReplyStep DEF RunnerTypeOK, TimedAt, ReplyKinds
<1> QED
  BY <1>1, <1>2

LEMMA RunnerStep == RunnerInv /\ [RunnerNext]_runnerVars => RunnerInv'
<1> SUFFICES ASSUME RunnerInv, [RunnerNext]_runnerVars PROVE RunnerInv'
  OBVIOUS
<1> USE DEF RunnerInv
<1>t. RunnerTypeOK
  OBVIOUS
\* The child, its heir, and those who read.
<1>1. CASE ChildWrites
  <2>1. PICK p \in Pipes : spawned = "running" /\ Writes("child", p)
    BY <1>1 DEF ChildWrites
  <2>2. UNCHANGED <<runner, shot, spawned, exit, heir, drained, elapsed, waited, reply>>
    BY <2>1 DEF Writes
  <2>3. RunnerTypeOK'
    BY <2>1, PipesGrow
  <2>4. shot.at \in {"idle", "poll"} => WholeAt'
    BY <2>2 DEF WholeAt, InCall
  <2>5. shot.at = "poll"
    BY <2>1 DEF RunnerTypeOK, ChildAt, InCall
  <2> QED
    BY <2>2, <2>3, <2>4, <2>5 DEF ChildAt, TimedAt, ProbeAt, InCall, SuggestionIsWanted
<1>2. CASE HeirWrites
  <2>1. PICK p \in Pipes : Writes("heir", p)
    BY <1>2 DEF HeirWrites
  <2>2. UNCHANGED <<runner, shot, spawned, exit, heir, drained, elapsed, waited, reply>>
    BY <2>1 DEF Writes
  <2>3. RunnerTypeOK' /\ \A q \in Pipes : ChildsOutputIsIn(q) => ChildsOutputIsIn(q)'
    BY <2>1, PipesGrow
  <2>4. WholeAt'
    BY <2>2, <2>3 DEF WholeAt, InCall, Pipes
  <2> QED
    BY <2>2, <2>3, <2>4 DEF ChildAt, TimedAt, ProbeAt, InCall, SuggestionIsWanted
<1>3. CASE HeirIsBorn \/ HeirEnds
  <2>1. UNCHANGED <<runner, shot, spawned, exit, pipe, drained, elapsed, waited, reply>> /\ heir' \in BOOLEAN
    BY <1>3 DEF HeirIsBorn, HeirEnds
  <2> QED
    BY <2>1 DEF RunnerTypeOK, ChildAt, WholeAt, TimedAt, ProbeAt, InCall, SuggestionIsWanted, ChildsOutputIsIn
<1>4. CASE ChildExits
  <2>1. /\ spawned = "running" /\ spawned' = "zombie" /\ exit' \in Endings
        /\ UNCHANGED <<runner, shot, heir, pipe, drained, elapsed, waited, reply>>
    BY <1>4 DEF ChildExits
  <2>2. shot.at = "poll"
    BY <2>1 DEF RunnerTypeOK, ChildAt, InCall
  <2>3. /\ exit'.ok \in BOOLEAN /\ exit'.message \subseteq Phrases
        /\ shot.op = "probe" /\ exit'.ok => exit'.content = runner.remote
    <3>1. CASE shot.op = "probe"
      <4>1. exit' = [ok |-> TRUE, content |-> runner.remote, message |-> {}]
            \/ exit' = [ok |-> FALSE, content |-> "garbled", message |-> {"unreachable"}]
        BY <2>1, <3>1 DEF Endings
      <4>2. {"unreachable"} \subseteq Phrases /\ {} \subseteq Phrases
        BY DEF Phrases
      <4>3. exit'.ok \in BOOLEAN
        <5>1. CASE exit' = [ok |-> TRUE, content |-> runner.remote, message |-> {}]
          BY <5>1
        <5>2. CASE exit' = [ok |-> FALSE, content |-> "garbled", message |-> {"unreachable"}]
          BY <5>2
        <5> QED
          BY <4>1, <5>1, <5>2
      <4>5. exit'.message \in {{}, {"unreachable"}}
        BY <4>1
      <4>4. exit'.ok => exit'.content = runner.remote
        BY <4>1
      <4> QED
        BY <4>2, <4>3, <4>4, <4>5
    <3>2. CASE shot.op # "probe"
      <4>1. exit' \in [ok : {FALSE}, content : {"garbled"}, message : Messages]
            \/ exit' \in [ok : {TRUE}, content : Printed, message : {{}}]
            \/ exit' = [ok |-> FALSE, content |-> "garbled", message |-> {"not_found", "binary"}]
        BY <2>1, <3>2 DEF Endings
      <4>2. exit'.ok \in BOOLEAN /\ exit'.message \subseteq Phrases
        <5>1. {"not_found", "binary"} \subseteq Phrases
          BY DEF Phrases
        <5>3. Messages \subseteq SUBSET Phrases
          BY RunnerAssumption
        <5>2. CASE exit' \in [ok : {FALSE}, content : {"garbled"}, message : Messages]
          BY <5>2, <5>3
        <5>4. CASE exit' \in [ok : {TRUE}, content : Printed, message : {{}}]
          BY <5>4
        <5>5. CASE exit' = [ok |-> FALSE, content |-> "garbled", message |-> {"not_found", "binary"}]
          BY <5>1, <5>5
        <5> QED
          BY <4>1, <5>2, <5>4, <5>5
      <4> QED
        BY <3>2, <4>2
    <3> QED
      BY <3>1, <3>2
  <2>4. RunnerTypeOK'
    BY <2>1, <2>3 DEF RunnerTypeOK
  <2> QED
    BY <2>1, <2>2, <2>3, <2>4 DEF ChildAt, WholeAt, TimedAt, ProbeAt, InCall, SuggestionIsWanted
<1>5. ASSUME NEW p \in Pipes, Drain(p) PROVE RunnerInv'
  <2>1. /\ drained[p] < Len(pipe[p]) /\ drained' = [drained EXCEPT ![p] = drained[p] + 1]
        /\ UNCHANGED <<runner, shot, spawned, exit, heir, pipe, elapsed, waited, reply>>
    BY <1>5 DEF Drain
  <2>2. \A q \in Pipes : /\ drained'[q] = IF q = p THEN drained[p] + 1 ELSE drained[q]
                         /\ Len(pipe[q]) \in Nat /\ drained[q] \in Nat
                         /\ DOMAIN pipe[q] = 1..Len(pipe[q])
    BY <2>1 DEF RunnerTypeOK
  <2>3. drained' \in [Pipes -> Nat] /\ \A q \in Pipes : drained'[q] <= Len(pipe'[q])
    BY <2>1, <2>2 DEF RunnerTypeOK
  <2>4. RunnerTypeOK'
    BY <2>1, <2>3 DEF RunnerTypeOK
  <2>5. \A q \in Pipes : ChildsOutputIsIn(q) => ChildsOutputIsIn(q)'
    BY <2>1, <2>2 DEF ChildsOutputIsIn
  <2> QED
    BY <2>1, <2>4, <2>5 DEF ChildAt, WholeAt, TimedAt, ProbeAt, InCall, SuggestionIsWanted, Pipes
\* The call begins: refused, with no binary, or with a child.
<1>6. ASSUME NEW op \in OneShots, NEW r \in Profiles, BeginOneShot(op, r) PROVE RunnerInv'
  <2>1. InCall("idle") /\ runner' = r /\ exit' = exit /\ r \in RunnerSettings /\ spawned \in {"none", "reaped"}
    BY <1>6, RunnerAssumption DEF BeginOneShot, ChildAt
  <2>2. CASE SpawnAs(op) /\ UNCHANGED reply
    <3>1. op # "probe" /\ op \in OneShots \cup {"probe"}
      BY DEF OneShots
    <3> QED
      BY <2>1, <2>2, <3>1, SpawnStep DEF RunnerTypeOK, ProbeAt, ReplyKinds
  <2>3. CASE \E c : /\ reply' = [kind |-> "error", suggested |-> FALSE, class |-> c]
                    /\ UNCHANGED <<shot, spawned, heir, pipe, drained, elapsed, waited>>
    <3>1. /\ reply'.kind = "error" /\ reply'.suggested = FALSE
          /\ DOMAIN reply' = {"kind", "class", "suggested"}
      BY <2>3
    <3>2. shot'.at = "idle" /\ shot' \in [op : OneShots \cup {"probe"}, at : {"idle"}]
      BY <2>1, <2>3 DEF RunnerTypeOK, InCall
    <3> QED
      BY <2>1, <2>3, <3>1, <3>2, ReplyStep DEF TimedAt, ReplyKinds, childVars, SuggestionIsWanted
  <2> QED
    BY <1>6, <2>2, <2>3 DEF BeginOneShot
\* The child is seen to be gone, or is killed.
<1>7. CASE SeeExit
  <2>1. /\ InCall("poll") /\ spawned = "zombie" /\ spawned' = "reaped" /\ waited' = 0
        /\ shot'.at = "stdout" /\ shot'.op = shot.op
        /\ shot' \in [op : OneShots \cup {"probe"},
                     at : {"idle", "poll", "timed_out", "stdout", "stderr", "collected"}]
        /\ UNCHANGED <<runner, exit, heir, pipe, drained, elapsed, reply>>
    BY <1>7 DEF SeeExit, CallGoes, RunnerTypeOK
  <2>2. RunnerTypeOK'
    BY <2>1 DEF RunnerTypeOK
  <2>3. TimedAt'
    BY <2>1, LimitIs, RunnerAssumption DEF TimedAt, InCall, RunnerTypeOK
  <2> QED
    BY <2>1, <2>2, <2>3 DEF ChildAt, WholeAt, ProbeAt, InCall, SuggestionIsWanted
<1>8. CASE TimeOut
  <2>1. /\ InCall("poll") /\ spawned' = "reaped"
        /\ shot'.at = "timed_out" /\ shot'.op = shot.op
        /\ shot' \in [op : OneShots \cup {"probe"},
                     at : {"idle", "poll", "timed_out", "stdout", "stderr", "collected"}]
        /\ UNCHANGED <<runner, exit, heir, pipe, drained, elapsed, waited, reply>>
    BY <1>8 DEF TimeOut, CallGoes, RunnerTypeOK
  <2>2. RunnerTypeOK'
    BY <2>1 DEF RunnerTypeOK
  <2> QED
    BY <2>1, <2>2 DEF ChildAt, WholeAt, TimedAt, ProbeAt, InCall, SuggestionIsWanted
<1>9. CASE ReportTimeout
  <2>1. InCall("timed_out") /\ AfterFailure({"timed_out"})
    BY <1>9 DEF ReportTimeout
  <2>2. ~InCall("idle") /\ spawned = "reaped"
    BY <2>1 DEF ChildAt, InCall
  <2> QED
    BY <2>1, <2>2, FailureStep
\* The pipes are read: what the child wrote is in at the end, or after a tick.
<1>10. CASE CollectStdout
  <2>1. /\ InCall("stdout") /\ Collected("stdout") /\ waited' = 0
        /\ shot'.at = "stderr" /\ shot'.op = shot.op
        /\ shot' \in [op : OneShots \cup {"probe"},
                     at : {"idle", "poll", "timed_out", "stdout", "stderr", "collected"}]
        /\ UNCHANGED <<runner, childVars, reply>>
    BY <1>10 DEF CollectStdout, RunnerTypeOK
  <2>2. RunnerTypeOK'
    BY <2>1 DEF RunnerTypeOK, childVars
  <2>3. ChildsOutputIsIn("stdout")
    <3>1. CASE AtEnd("stdout")
      BY <3>1 DEF AtEnd, ChildsOutputIsIn, RunnerTypeOK, Pipes
    <3>2. CASE waited >= LIVE_CHILD_EXIT_GRACE
      BY <2>1, <3>2, RunnerAssumption DEF WholeAt, RunnerTypeOK
    <3> QED
      BY <2>1, <3>1, <3>2 DEF Collected
  <2>4. TimedAt'
    <3>1. elapsed <= LimitOf(shot.op) + LIVE_CHILD_EXIT_GRACE
      BY <2>1, LimitIs, RunnerAssumption DEF TimedAt, RunnerTypeOK
    <3> QED
      BY <2>1, <3>1, LimitIs, RunnerAssumption DEF TimedAt, InCall, RunnerTypeOK, childVars
  <2>5. ChildAt' /\ ProbeAt'
    BY <2>1 DEF ChildAt, ProbeAt, InCall, SuggestionIsWanted, childVars
  <2>6. WholeAt'
    BY <2>1, <2>3 DEF WholeAt, InCall, ChildsOutputIsIn, childVars
  <2> QED
    BY <2>2, <2>4, <2>5, <2>6
<1>11. CASE CollectStderr
  <2>1. /\ InCall("stderr") /\ Collected("stderr") /\ waited' = waited
        /\ shot'.at = "collected" /\ shot'.op = shot.op
        /\ shot' \in [op : OneShots \cup {"probe"},
                     at : {"idle", "poll", "timed_out", "stdout", "stderr", "collected"}]
        /\ UNCHANGED <<runner, childVars, reply>>
    BY <1>11 DEF CollectStderr, CallGoes, RunnerTypeOK
  <2>2. RunnerTypeOK'
    BY <2>1 DEF RunnerTypeOK, childVars
  <2>3. ChildsOutputIsIn("stderr") /\ ChildsOutputIsIn("stdout")
    <3>1. CASE AtEnd("stderr")
      BY <2>1, <3>1 DEF AtEnd, ChildsOutputIsIn, RunnerTypeOK, Pipes, WholeAt, InCall
    <3>2. CASE waited >= LIVE_CHILD_EXIT_GRACE
      BY <2>1, <3>2, RunnerAssumption DEF WholeAt, RunnerTypeOK, InCall
    <3> QED
      BY <2>1, <3>1, <3>2 DEF Collected
  <2>4. TimedAt'
    <3>1. elapsed <= LimitOf(shot.op) + 2 * LIVE_CHILD_EXIT_GRACE
      BY <2>1, LimitIs, RunnerAssumption DEF TimedAt, RunnerTypeOK
    <3> QED
      BY <2>1, <3>1, LimitIs, RunnerAssumption DEF TimedAt, InCall, RunnerTypeOK, childVars
  <2>5. ChildAt' /\ ProbeAt'
    BY <2>1 DEF ChildAt, ProbeAt, InCall, SuggestionIsWanted, childVars
  <2>6. WholeAt'
    BY <2>1, <2>3 DEF WholeAt, InCall, ChildsOutputIsIn, childVars
  <2> QED
    BY <2>2, <2>4, <2>5, <2>6
<1>12. CASE ReportOutput
  <2>0. InCall("collected") /\ ~InCall("idle") /\ spawned = "reaped"
    BY <1>12 DEF ReportOutput, ChildAt, InCall
  <2>1. CASE ~exit.ok
    <3>1. AfterFailure(exit.message)
      BY <1>12, <2>1 DEF ReportOutput
    <3> QED
      BY <2>0, <3>1, FailureStep
  <2>2. CASE exit.ok /\ shot.op = "probe"
    <3>1. /\ Replies([reply EXCEPT !.suggested = exit.content = "login_only"])
          /\ UNCHANGED <<runner, childVars, waited>>
      BY <1>12, <2>2 DEF ReportOutput
    <3>2. /\ DOMAIN reply' = {"kind", "class", "suggested"} /\ reply'.kind = "error"
          /\ reply'.suggested = (exit.content = "login_only")
      BY <2>0, <2>2, <3>1 DEF Replies, ProbeAt
    <3>3. exit.content = runner.remote /\ runner.ssh
      BY <2>0, <2>2 DEF ProbeAt, InCall
    <3>4. shot'.at = "idle" /\ shot' \in [op : OneShots \cup {"probe"}, at : {"idle"}]
      BY <3>1 DEF Replies, RunnerTypeOK
    <3>5. SuggestionIsWanted'
      BY <3>1, <3>2, <3>3 DEF SuggestionIsWanted
    <3> QED
      BY <2>0, <3>1, <3>2, <3>4, <3>5, ReplyStep DEF RunnerTypeOK, TimedAt, ReplyKinds
  <2>3. CASE exit.ok /\ shot.op # "probe"
    <3>1. Replies(OfOutput(shot.op, Content)) /\ UNCHANGED <<runner, childVars, waited>>
      BY <1>12, <2>3 DEF ReportOutput
    <3>2. /\ DOMAIN reply' = {"kind", "class", "suggested"} /\ reply'.kind \in ReplyKinds
          /\ reply'.suggested = FALSE
      BY <3>1, AnswerIs DEF Replies
    <3>3. shot'.at = "idle" /\ shot' \in [op : OneShots \cup {"probe"}, at : {"idle"}]
      BY <3>1 DEF Replies, RunnerTypeOK
    <3>4. SuggestionIsWanted'
      BY <3>2 DEF SuggestionIsWanted
    <3> QED
      BY <2>0, <3>1, <3>2, <3>3, <3>4, ReplyStep DEF RunnerTypeOK, TimedAt
  <2> QED
    BY <2>1, <2>2, <2>3
\* A tick: all that was written by then has been read.
<1>13. CASE TimePasses
  <2>1. /\ AllRead /\ elapsed' = elapsed + 1
        /\ waited' = IF InCall("poll") THEN 0 ELSE waited + 1
        /\ UNCHANGED <<runner, shot, spawned, exit, heir, pipe, drained, reply>>
    BY <1>13 DEF TimePasses
  <2>2. \/ InCall("poll") /\ elapsed < LimitOf(shot.op)
        \/ (InCall("stdout") \/ InCall("stderr")) /\ waited < LIVE_CHILD_EXIT_GRACE
    BY <1>13, RunnerAssumption DEF TimePasses, Collected, RunnerTypeOK
  <2>3. RunnerTypeOK'
    BY <2>1 DEF RunnerTypeOK
  <2>4. \A p \in Pipes : ChildsOutputIsIn(p)'
    BY <2>1 DEF AllRead, ChildsOutputIsIn, RunnerTypeOK
  <2>5. WholeAt'
    BY <2>4 DEF WholeAt, Pipes
  <2>6. TimedAt'
    BY <2>1, <2>2, LimitIs, RunnerAssumption DEF TimedAt, InCall, RunnerTypeOK
  <2> QED
    BY <2>1, <2>3, <2>5, <2>6 DEF ChildAt, ProbeAt, InCall, SuggestionIsWanted
<1>14. CASE UNCHANGED runnerVars
  BY <1>14 DEF runnerVars, childVars, RunnerTypeOK, ChildAt, WholeAt, TimedAt, ProbeAt, InCall,
     SuggestionIsWanted, ChildsOutputIsIn
<1> QED
  BY <1>1, <1>2, <1>3, <1>4, <1>5, <1>6, <1>7, <1>8, <1>9, <1>10, <1>11, <1>12, <1>13, <1>14 DEF RunnerNext

\* For every profile, timeout and message, and whatever a descendant of the
\* child does with its pipes: an answer has all of the child's output, no call
\* outlasts its timeout by more than two graces, and a path is suggested only
\* where it is wanted.
THEOREM OneShotsSound == RunnerSpec => []OneShotsAreSound
<1>1. RunnerInv => OneShotsAreSound
  <2> SUFFICES ASSUME RunnerInv PROVE OneShotsAreSound
    OBVIOUS
  <2>1. /\ InCall("collected") => spawned = "reaped" /\ \A p \in Pipes : ChildsOutputIsIn(p)
        /\ InCall("idle") => spawned \in {"none", "reaped"}
    BY DEF RunnerInv, ChildAt, WholeAt, InCall, Pipes
  <2>2. ~InCall("idle") => elapsed <= LimitOf(shot.op) + 2 * LIVE_CHILD_EXIT_GRACE
    BY LimitIs, RunnerAssumption DEF RunnerInv, TimedAt, InCall, RunnerTypeOK
  <2> QED
    BY <2>1, <2>2 DEF OneShotsAreSound, AnswersAreWholeAndInTime, RunnerInv, ProbeAt
<1> QED
  BY <1>1, InitRunner, RunnerStep, PTL DEF RunnerSpec

-----------------------------------------------------------------------------
(* TmuxCommands: dropped commands are healed, and a pane said to be missing *)
(* is gone                                                                  *)

Labels == {"idle", "select", "run", "refresh", "sweep", "got"}
Outcomes == {"ok", "noserver", "dropped", "missing", "noclient"}

InCommand(t) == tpc[t] \in {"run", "refresh", "sweep"} \/ (At(t, "select") /\ call[t].retried)
Unmoved(t) == Unpinned /\ ~call[t].moved

\* Who sweeps has the lock, and has passed only installs that the server
\* would not take.
SweepAt(u) ==
  /\ cache_lock = u <=> At(u, "sweep")
  /\ At(u, "refresh") \/ At(u, "sweep") => call[u].outcome = "dropped" /\ ~call[u].retried /\ Unpinned

NonePassed(u) ==
  \A j \in DOMAIN WellKnown : j < call[u].sweep => ~Speaks(WellKnown[j])

\* What holds of a command that the server has not moved under.
CommandAt(t) ==
  /\ InCommand(t) /\ Unmoved(t) =>
       \A u \in Threads : cache_lock = u => NonePassed(u)
  /\ (At(t, "run") /\ ~call[t].retried) \/ At(t, "refresh") =>
       (Unmoved(t) => cache \in {NoInstall, call[t].used} \/ Speaks(cache))
  /\ At(t, "select") /\ call[t].retried /\ Unmoved(t) => cache # NoInstall /\ Speaks(cache)
  /\ At(t, "run") /\ call[t].retried /\ Unmoved(t) => Speaks(call[t].used)
  /\ (At(t, "refresh") \/ At(t, "sweep")) /\ Unmoved(t) => ~Speaks(call[t].used)
  /\ At(t, "got") /\ call[t].outcome = "dropped" /\ Unmoved(t) =>
       \A i \in DOMAIN WellKnown : ~Speaks(WellKnown[i])

MissingAt(t) ==
  /\ At(t, "got") /\ call[t].outcome = "missing" => call[t].pane \notin panes
  /\ call[t].answer = "missing" => call[t].pane \notin panes

TmuxInv == TmuxTypeOK /\ \A t \in Threads : SweepAt(t) /\ CommandAt(t) /\ MissingAt(t)

LEMMA NoCallIs == NoCall \in Calls
<1>1. (CHOOSE p \in Panes : TRUE) \in Panes
  BY TmuxAssumption
<1> QED
  BY <1>1 DEF NoCall, Calls, Stages

LEMMA InitTmux == TmuxInit => TmuxInv
<1> SUFFICES ASSUME TmuxInit PROVE TmuxInv
  OBVIOUS
<1>1. TmuxTypeOK
  <2>1. clients \in Seq(Ttys)
    BY TmuxAssumption DEF TmuxInit
  <2>2. tpc \in [Threads -> Labels] /\ call \in [Threads -> Calls]
    BY NoCallIs DEF TmuxInit, Labels
  <2>3. spent \in [calls : 0..MaxCalls, moves : 0..MaxMoves, turns : 0..MaxTurns]
    BY TmuxAssumption DEF TmuxInit
  <2> QED
    BY <2>1, <2>2, <2>3 DEF TmuxInit, TmuxTypeOK, Labels
<1>2. ASSUME NEW t \in Threads PROVE SweepAt(t) /\ CommandAt(t) /\ MissingAt(t)
  <2>1. tpc[t] = "idle" /\ call[t] = NoCall /\ cache_lock = NoThread
    BY DEF TmuxInit
  <2>2. NoCall.answer = "none" /\ NoThread # t
    BY TmuxAssumption DEF NoCall
  <2> QED
    BY <2>1, <2>2 DEF SweepAt, CommandAt, MissingAt, At, InCommand
<1> QED
  BY <1>1, <1>2 DEF TmuxInv

\* One thread's call and place change; the others' stay.
LEMMA CallChanges ==
  ASSUME TmuxTypeOK, NEW t \in Threads, NEW c \in Calls, NEW label \in Labels,
         call' = [call EXCEPT ![t] = c], tpc' = [tpc EXCEPT ![t] = label]
  PROVE  /\ call' \in [Threads -> Calls] /\ tpc' \in [Threads -> Labels]
         /\ call'[t] = c /\ tpc'[t] = label
         /\ \A u \in Threads : u # t => call'[u] = call[u] /\ tpc'[u] = tpc[u]
BY DEF TmuxTypeOK, Labels

\* The install of a list is not PATH's name, and means itself.
LEMMA WellKnownIs ==
  \A i \in DOMAIN WellKnown : /\ WellKnown[i] \in Installs /\ Ran(WellKnown[i]) = WellKnown[i]
                              /\ WellKnown[i] # NoInstall
BY TmuxAssumption DEF Ran

\* The types of what the calls come to.
LEMMA ResultsIs == \A c : Results(c) \subseteq Outcomes
BY DEF Results, Outcomes

LEMMA FoundIs == ASSUME TmuxTypeOK, NEW c PROVE Found(c) \in Ttys \cup {NoTty}
<1>1. BestClient \in Ttys \cup {NoTty}
  <2>1. CASE clients = <<>>
    BY <2>1 DEF BestClient
  <2>2. CASE clients # <<>>
    BY <2>2 DEF BestClient, TmuxTypeOK
  <2> QED
    BY <2>1, <2>2
<1> QED
  BY <1>1, TmuxAssumption DEF Found

LEMMA AfterIs ==
  ASSUME NEW c \in Calls
  PROVE  /\ After(c) \in Calls
         /\ After(c).answer # "missing" \/ (c.outcome = "missing" /\ After(c).pane = c.pane)
                                        \/ (c.answer = "missing" /\ After(c).pane = c.pane)
         /\ After(c).answer = "none" => ~After(c).retried
<1>1. ASSUME NEW s \in Stages
      PROVE  /\ Stage(c, s) \in Calls /\ Stage(c, s).answer = c.answer /\ Stage(c, s).pane = c.pane
             /\ ~Stage(c, s).retried
  BY DEF Stage, Calls
<1>2. ASSUME NEW a \in {"none", "done", "none_there", "missing", "failed"}
      PROVE  /\ Final(c, a) \in Calls /\ Final(c, a).answer = a /\ Final(c, a).pane = c.pane
  <2> DEFINE n == NoCall
  <2>1. n \in Calls /\ Final(c, a) = [n EXCEPT !.op = c.op, !.pane = c.pane, !.answer = a]
    BY NoCallIs DEF Final
  <2> HIDE DEF n
  <2>2. c.op \in Ops \cup {"none"} /\ c.pane \in Panes
    BY DEF Calls
  <2>3. Final(c, a) \in Calls
    BY <2>1, <2>2 DEF Calls
  <2>4. Final(c, a).answer = a /\ Final(c, a).pane = c.pane
    BY <2>1 DEF Calls
  <2> QED
    BY <2>3, <2>4
<1>3. Target(c) \in Stages
  BY DEF Target, Stages
<1>4. /\ WithTty(c) \in Calls /\ WithTty(c).answer = c.answer /\ WithTty(c).pane = c.pane
      /\ ~WithTty(c).retried
  BY <1>3 DEF WithTty, Stage, Calls
<1> USE DEF Stages
<1>5. CASE c.stage = "tty"
  BY <1>1, <1>4, <1>5 DEF After
<1>6. CASE c.stage = "clients"
  BY <1>1, <1>2, <1>4, <1>6 DEF After
<1>7. CASE c.stage = "own"
  BY <1>1, <1>2, <1>7 DEF After
<1>8. CASE c.stage = "sessions"
  <2>1. \E a \in {"done", "none_there", "failed"} : After(c) = Final(c, a)
    BY <1>8 DEF After
  <2> QED
    BY <1>2, <2>1
<1>9. CASE c.stage = "zoom" /\ c.outcome \notin {"ok", "missing"}
  BY <1>1, <1>9 DEF After
<1>10. CASE /\ c.stage \notin {"tty", "clients", "own", "sessions"}
            /\ ~(c.stage = "zoom" /\ c.outcome \notin {"ok", "missing"})
  <2>1. \/ \E a \in {"done", "failed"} : After(c) = Final(c, a)
        \/ c.outcome = "missing" /\ After(c) = Final(c, "missing")
    BY <1>10 DEF After
  <2> QED
    BY <1>2, <2>1
<1> QED
  BY <1>5, <1>6, <1>7, <1>8, <1>9, <1>10

\* What a thread does leaves alone what holds of another one: the cache gets an
\* install that the server takes, or is given up when there is none.
LEMMA OthersKeep ==
  ASSUME TmuxTypeOK, NEW u \in Threads, SweepAt(u), CommandAt(u), MissingAt(u),
         UNCHANGED <<up, speaks, pin>>, panes' \subseteq panes,
         call'[u] = call[u], tpc'[u] = tpc[u], (cache_lock' = u) <=> (cache_lock = u),
         \/ cache' = cache
         \/ cache' # NoInstall /\ Speaks(cache')
         \/ /\ cache' = NoInstall
            /\ InCommand(u) /\ Unmoved(u) => \A i \in DOMAIN WellKnown : ~Speaks(WellKnown[i]),
         InCommand(u) /\ Unmoved(u) => \A v \in Threads : (cache_lock' = v) => NonePassed(v)'
  PROVE  SweepAt(u)' /\ CommandAt(u)' /\ MissingAt(u)'
<1>1. /\ InCommand(u)' <=> InCommand(u)
      /\ Unmoved(u)' <=> Unmoved(u)
      /\ \A l : At(u, l)' <=> At(u, l)
      /\ \A i : Speaks(i)' <=> Speaks(i)
  BY DEF InCommand, Unmoved, At, Unpinned, Speaks, Ran
<1>2. SweepAt(u)' /\ MissingAt(u)'
  BY <1>1 DEF SweepAt, MissingAt, Unpinned
<1>3. At(u, "select") /\ call[u].retried /\ Unmoved(u) => cache' # NoInstall /\ Speaks(cache')
  <2> SUFFICES ASSUME At(u, "select"), call[u].retried, Unmoved(u)
               PROVE  cache' # NoInstall /\ Speaks(cache')
    OBVIOUS
  <2>1. cache # NoInstall /\ Speaks(cache) /\ InCommand(u)
    BY DEF CommandAt, InCommand
  <2>2. \E i \in DOMAIN WellKnown : cache = WellKnown[i]
    BY <2>1 DEF TmuxTypeOK
  <2> QED
    BY <2>1, <2>2
<1>4. At(u, "run") \/ At(u, "refresh") \/ At(u, "sweep") => InCommand(u)
  BY DEF InCommand, At
<1>5. (At(u, "run") /\ ~call[u].retried) \/ At(u, "refresh") =>
        (Unmoved(u) => cache' \in {NoInstall, call[u].used} \/ Speaks(cache'))
  BY DEF CommandAt
<1> QED
  BY <1>1, <1>2, <1>3, <1>4, <1>5 DEF CommandAt

\* The call of a thread that has no lock says nothing of a sweep.
LEMMA PassedStays ==
  ASSUME NEW v \in Threads, UNCHANGED <<up, speaks>>, call'[v].sweep = call[v].sweep, NonePassed(v)
  PROVE  NonePassed(v)'
BY DEF NonePassed, Speaks, Ran

LEMMA BeginCallStep ==
  ASSUME TmuxInv, NEW t \in Threads, BeginCall(t) PROVE TmuxInv'
<1> USE DEF TmuxInv
<1>1. /\ At(t, "idle") /\ tpc' = [tpc EXCEPT ![t] = "select"]
      /\ spent.calls < MaxCalls /\ spent' = [spent EXCEPT !.calls = spent.calls + 1]
      /\ UNCHANGED <<up, speaks, panes, clients, pin, inside, cache, cache_lock>>
  BY DEF BeginCall, Turn, machine
<1>2. PICK op \in Ops, pane \in Panes, tty \in Ttys \cup {NoTty} :
        call' = [call EXCEPT ![t] = [NoCall EXCEPT !.op = op, !.pane = pane, !.tty = tty,
                                                   !.stage = FirstStage(op, tty)]]
  BY DEF BeginCall
<1>3. FirstStage(op, tty) \in Stages
  <2>1. CASE op \in {"focus", "notify"} /\ tty # NoTty
    BY <2>1 DEF FirstStage, Stages
  <2>2. CASE op \in {"focus", "notify"} /\ tty = NoTty
    BY <2>2 DEF FirstStage, Stages
  <2>3. CASE op = "attach"
    BY <2>3 DEF FirstStage, Stages
  <2>4. CASE op \in {"sessions", "clients"}
    BY <2>4 DEF FirstStage, Stages
  <2> QED
    BY <2>1, <2>2, <2>3, <2>4 DEF Ops
<1> DEFINE n == NoCall
           c == [n EXCEPT !.op = op, !.pane = pane, !.tty = tty, !.stage = FirstStage(op, tty)]
<1>4. n \in Calls /\ n.answer = "none" /\ n.outcome = "ok" /\ ~n.retried
  BY NoCallIs DEF NoCall
<1> HIDE DEF n
<1>5. c \in Calls /\ c.answer = "none" /\ c.outcome = "ok" /\ ~c.retried
  BY <1>3, <1>4 DEF Calls
<1>6. call' = [call EXCEPT ![t] = c]
  BY <1>2 DEF n
<1> HIDE DEF c
<1>7. /\ call' \in [Threads -> Calls] /\ tpc' \in [Threads -> Labels]
      /\ call'[t] = c /\ tpc'[t] = "select"
      /\ \A u \in Threads : u # t => call'[u] = call[u] /\ tpc'[u] = tpc[u]
  BY <1>1, <1>5, <1>6, CallChanges DEF Labels
<1>8. spent' \in [calls : 0..MaxCalls, moves : 0..MaxMoves, turns : 0..MaxTurns]
  BY <1>1, TmuxAssumption DEF TmuxTypeOK
<1>9. TmuxTypeOK'
  BY <1>1, <1>7, <1>8 DEF TmuxTypeOK, Labels
<1>10. cache_lock # t
  BY <1>1 DEF SweepAt, At
<1>11. SweepAt(t)' /\ CommandAt(t)' /\ MissingAt(t)'
  BY <1>1, <1>5, <1>7, <1>10 DEF SweepAt, CommandAt, MissingAt, At, InCommand
<1>12. ASSUME NEW u \in Threads, u # t PROVE SweepAt(u)' /\ CommandAt(u)' /\ MissingAt(u)'
  <2>1. ASSUME NEW v \in Threads, cache_lock' = v, NonePassed(v) PROVE NonePassed(v)'
    BY <1>1, <1>7, <1>10, <2>1, PassedStays
  <2>2. InCommand(u) /\ Unmoved(u) => \A v \in Threads : (cache_lock' = v) => NonePassed(v)'
    BY <1>1, <2>1 DEF CommandAt
  <2> QED
    BY <1>1, <1>7, <1>12, <2>2, OthersKeep
<1> QED
  BY <1>9, <1>11, <1>12

LEMMA SelectStep ==
  ASSUME TmuxInv, NEW t \in Threads, SelectProgram(t) PROVE TmuxInv'
<1> USE DEF TmuxInv
<1>1. /\ At(t, "select") /\ tpc' = [tpc EXCEPT ![t] = "run"]
      /\ Unpinned => cache_lock = NoThread
      /\ UNCHANGED <<up, speaks, panes, clients, pin, inside, cache, cache_lock, spent>>
  BY DEF SelectProgram, Turn, machine, CacheIsFree
<1> DEFINE old == call[t]
           c == [old EXCEPT !.used = Selected, !.moved = old.retried /\ old.moved]
<1>2. call' = [call EXCEPT ![t] = c]
  BY DEF SelectProgram, TmuxTypeOK
<1>3. Selected \in Installs \cup {PathTmux}
  BY TmuxAssumption DEF Selected, TmuxTypeOK, Unpinned
<1>4. old \in Calls
  BY DEF TmuxTypeOK
<1> HIDE DEF old
<1>5. /\ c \in Calls /\ c.used = Selected /\ c.answer = old.answer /\ c.outcome = old.outcome
      /\ c.pane = old.pane /\ c.sweep = old.sweep
  BY <1>3, <1>4 DEF Calls
<1>5a. (c.retried <=> old.retried) /\ (c.moved <=> old.retried /\ old.moved)
  BY <1>4 DEF Calls
<1> HIDE DEF c
<1>6. old = call[t]
  BY DEF old
<1>7. /\ call' \in [Threads -> Calls] /\ tpc' \in [Threads -> Labels]
      /\ call'[t] = c /\ tpc'[t] = "run"
      /\ \A u \in Threads : u # t => call'[u] = call[u] /\ tpc'[u] = tpc[u]
  BY <1>1, <1>2, <1>5, CallChanges DEF Labels
<1>8. TmuxTypeOK'
  BY <1>1, <1>7 DEF TmuxTypeOK, Labels
<1>9. cache_lock # t
  BY <1>1 DEF SweepAt, At
<1>10. Unpinned => \A v \in Threads : cache_lock # v
  BY <1>1, TmuxAssumption
<1>11. SweepAt(t)' /\ MissingAt(t)'
  BY <1>1, <1>5, <1>6, <1>7, <1>9 DEF SweepAt, MissingAt, At
<1>12. CommandAt(t)'
  <2>1. (Unpinned' <=> Unpinned) /\ (Unmoved(t)' => Unpinned)
    BY <1>1 DEF Unmoved, Unpinned
  <2>2. ~c.retried /\ Unpinned => cache \in {NoInstall, c.used}
    BY <1>5 DEF Selected
  <2>3. c.retried /\ Unmoved(t)' => Speaks(c.used)
    <3> SUFFICES ASSUME c.retried, Unmoved(t)' PROVE Speaks(c.used)
      OBVIOUS
    <3>1. Unmoved(t) /\ old.retried
      BY <1>5a, <1>6, <1>7, <2>1 DEF Unmoved
    <3>2. cache # NoInstall /\ Speaks(cache)
      BY <1>1, <1>6, <3>1 DEF CommandAt
    <3>3. c.used = cache
      BY <1>5, <2>1, <3>2 DEF Selected
    <3> QED
      BY <3>2, <3>3
  <2>4. \A i : Speaks(i)' <=> Speaks(i)
    BY <1>1 DEF Speaks, Ran
  <2> QED
    BY <1>1, <1>7, <1>10, <2>1, <2>2, <2>3, <2>4 DEF CommandAt, At
<1>13. ASSUME NEW u \in Threads, u # t PROVE SweepAt(u)' /\ CommandAt(u)' /\ MissingAt(u)'
  <2>1. ASSUME NEW v \in Threads, cache_lock' = v, NonePassed(v) PROVE NonePassed(v)'
    BY <1>1, <1>7, <1>9, <2>1, PassedStays
  <2>2. InCommand(u) /\ Unmoved(u) => \A v \in Threads : (cache_lock' = v) => NonePassed(v)'
    BY <1>1, <2>1 DEF CommandAt
  <2> QED
    BY <1>1, <1>7, <1>13, <2>2, OthersKeep
<1> QED
  BY <1>8, <1>11, <1>12, <1>13

LEMMA RunStep ==
  ASSUME TmuxInv, NEW t \in Threads, RunCommand(t) PROVE TmuxInv'
<1> USE DEF TmuxInv
<1> DEFINE old == call[t]
<1>1. PICK result \in Results(old) :
        /\ Turn(t, IF result = "dropped" /\ ~old.retried /\ Unpinned THEN "refresh" ELSE "got")
        /\ call' = [call EXCEPT ![t].outcome = result,
                                ![t].found = IF result = "ok" THEN Found(old) ELSE NoTty]
  BY DEF RunCommand
<1> DEFINE c == [old EXCEPT !.outcome = result, !.found = IF result = "ok" THEN Found(old) ELSE NoTty]
           label == IF result = "dropped" /\ ~old.retried /\ Unpinned THEN "refresh" ELSE "got"
<1>2. /\ At(t, "run") /\ tpc' = [tpc EXCEPT ![t] = label]
      /\ UNCHANGED <<up, speaks, panes, clients, pin, inside, cache, cache_lock, spent>>
  BY <1>1 DEF RunCommand, Turn, machine
<1>3. call' = [call EXCEPT ![t] = c]
  BY <1>1 DEF TmuxTypeOK
<1>4. old \in Calls
  BY DEF TmuxTypeOK
<1>5. result \in Outcomes /\ Found(old) \in Ttys \cup {NoTty}
  BY ResultsIs, FoundIs
<1>6. result = "dropped" => ~Speaks(old.used)
  BY <1>1 DEF Results
<1>7. result = "missing" => old.pane \notin panes
  BY <1>1 DEF Results
<1> HIDE DEF old
<1>8. /\ c \in Calls /\ c.outcome = result /\ c.answer = old.answer /\ c.used = old.used
      /\ c.pane = old.pane /\ c.sweep = old.sweep
  BY <1>4, <1>5 DEF Calls, Outcomes
<1>8a. (c.retried <=> old.retried) /\ (c.moved <=> old.moved)
  BY <1>4 DEF Calls
<1> HIDE DEF c, label
<1>9. old = call[t]
  BY DEF old
<1>10. label \in Labels
  BY DEF label, Labels
<1>11. /\ call' \in [Threads -> Calls] /\ tpc' \in [Threads -> Labels]
       /\ call'[t] = c /\ tpc'[t] = label
       /\ \A u \in Threads : u # t => call'[u] = call[u] /\ tpc'[u] = tpc[u]
  BY <1>2, <1>3, <1>8, <1>10, CallChanges
<1>12. TmuxTypeOK'
  BY <1>2, <1>11 DEF TmuxTypeOK, Labels
<1>13. cache_lock # t
  BY <1>2 DEF SweepAt, At
<1>14. SweepAt(t)' /\ MissingAt(t)'
  BY <1>2, <1>7, <1>8, <1>8a, <1>9, <1>11, <1>13 DEF SweepAt, MissingAt, At, label, Unpinned
<1>p. ASSUME NEW v \in Threads, cache_lock' = v, NonePassed(v) PROVE NonePassed(v)'
  BY <1>2, <1>11, <1>13, <1>p, PassedStays
<1>15. CommandAt(t)'
  <2>1. (Unmoved(t)' <=> Unmoved(t)) /\ (Unpinned' <=> Unpinned) /\ \A i : Speaks(i)' <=> Speaks(i)
    BY <1>2, <1>8a, <1>9, <1>11 DEF Unmoved, Unpinned, Speaks, Ran
  <2>2. Unmoved(t) => \A v \in Threads : (cache_lock' = v) => NonePassed(v)'
    BY <1>2, <1>p DEF CommandAt, InCommand, At
  <2>3. CASE label = "refresh"
    <3>1. result = "dropped" /\ ~old.retried
      BY <2>3 DEF label
    <3>2. Unmoved(t) => cache \in {NoInstall, old.used} \/ Speaks(cache)
      BY <1>2, <1>9, <3>1 DEF CommandAt
    <3> QED
      BY <1>2, <1>6, <1>8, <1>11, <2>1, <2>2, <2>3, <3>1, <3>2 DEF CommandAt, At
  <2>4. CASE label = "got"
    <3>1. ~(result = "dropped" /\ Unmoved(t))
      <4> SUFFICES ASSUME result = "dropped", Unmoved(t) PROVE FALSE
        OBVIOUS
      <4>1. old.retried
        BY <2>4 DEF label, Unmoved
      <4>2. Speaks(old.used)
        BY <1>2, <1>9, <4>1 DEF CommandAt
      <4> QED
        BY <1>6, <4>2
    <3> QED
      BY <1>8, <1>11, <2>1, <2>4, <3>1 DEF CommandAt, At, InCommand
  <2> QED
    BY <2>3, <2>4 DEF label
<1>16. ASSUME NEW u \in Threads, u # t PROVE SweepAt(u)' /\ CommandAt(u)' /\ MissingAt(u)'
  <2>2. InCommand(u) /\ Unmoved(u) => \A v \in Threads : (cache_lock' = v) => NonePassed(v)'
    BY <1>2, <1>p DEF CommandAt
  <2> QED
    BY <1>2, <1>11, <1>16, <2>2, OthersKeep
<1> QED
  BY <1>12, <1>14, <1>15, <1>16

\* A thread that has no lock, and one of whom it has it, for the steps that
\* give the lock away or take it.
LEMMA RefreshStep ==
  ASSUME TmuxInv, NEW t \in Threads, Refresh(t) PROVE TmuxInv'
<1> USE DEF TmuxInv
<1>1. /\ At(t, "refresh") /\ cache_lock = NoThread
      /\ UNCHANGED <<up, speaks, panes, clients, pin, inside, cache, spent>>
  BY DEF Refresh, CacheIsFree, machine
<1>2. \A v \in Threads : cache_lock # v
  BY <1>1, TmuxAssumption
<1>3. call[t].outcome = "dropped" /\ ~call[t].retried /\ Unpinned /\ ~At(t, "sweep")
  BY <1>1 DEF SweepAt, At
<1>4. (Unpinned' <=> Unpinned) /\ \A i : Speaks(i)' <=> Speaks(i)
  BY <1>1 DEF Unpinned, Speaks, Ran
<1> DEFINE old == call[t]
           c == [old EXCEPT !.retried = TRUE]
           d == [old EXCEPT !.sweep = 1]
<1>5. old \in Calls
  BY DEF TmuxTypeOK
<1>6. CASE cache # NoInstall /\ cache # call[t].used
  <2>1. /\ call' = [call EXCEPT ![t].retried = TRUE] /\ tpc' = [tpc EXCEPT ![t] = "select"]
        /\ cache_lock' = cache_lock
    BY <1>6 DEF Refresh, Resolved, Turn
  <2>2. call' = [call EXCEPT ![t] = c]
    BY <2>1 DEF TmuxTypeOK
  <2> HIDE DEF old
  <2>3. c \in Calls /\ c.retried /\ c.answer = old.answer /\ c.outcome = old.outcome /\ c.pane = old.pane
    BY <1>5 DEF Calls
  <2>3a. c.moved <=> old.moved
    BY <1>5 DEF Calls
  <2> HIDE DEF c
  <2>4. /\ call' \in [Threads -> Calls] /\ tpc' \in [Threads -> Labels]
        /\ call'[t] = c /\ tpc'[t] = "select" /\ old = call[t]
        /\ \A u \in Threads : u # t => call'[u] = call[u] /\ tpc'[u] = tpc[u]
    BY <2>1, <2>2, <2>3, CallChanges DEF Labels, old
  <2>5. TmuxTypeOK'
    BY <1>1, <2>1, <2>4 DEF TmuxTypeOK, Labels
  <2>6. Unmoved(t)' => cache # NoInstall /\ Speaks(cache)
    BY <1>1, <1>4, <1>6, <2>3a, <2>4 DEF Unmoved, CommandAt, At
  <2>7. SweepAt(t)' /\ CommandAt(t)' /\ MissingAt(t)'
    BY <1>1, <1>2, <1>4, <2>1, <2>3, <2>4, <2>6 DEF SweepAt, CommandAt, MissingAt, At
  <2>8. ASSUME NEW u \in Threads, u # t PROVE SweepAt(u)' /\ CommandAt(u)' /\ MissingAt(u)'
    BY <1>1, <1>2, <2>1, <2>4, <2>8, OthersKeep
  <2> QED
    BY <2>5, <2>7, <2>8
<1>7. CASE ~(cache # NoInstall /\ cache # call[t].used)
  <2>1. /\ call' = [call EXCEPT ![t].sweep = 1] /\ tpc' = [tpc EXCEPT ![t] = "sweep"]
        /\ cache_lock' = t
    BY <1>7 DEF Refresh, Turn
  <2>2. call' = [call EXCEPT ![t] = d]
    BY <2>1 DEF TmuxTypeOK
  <2> HIDE DEF old
  <2>3. /\ d \in Calls /\ d.sweep = 1 /\ d.answer = old.answer /\ d.outcome = old.outcome
        /\ d.pane = old.pane /\ d.used = old.used
    BY <1>5 DEF Calls
  <2>3a. (d.moved <=> old.moved) /\ (d.retried <=> old.retried)
    BY <1>5 DEF Calls
  <2> HIDE DEF d
  <2>4. /\ call' \in [Threads -> Calls] /\ tpc' \in [Threads -> Labels]
        /\ call'[t] = d /\ tpc'[t] = "sweep" /\ old = call[t]
        /\ \A u \in Threads : u # t => call'[u] = call[u] /\ tpc'[u] = tpc[u]
    BY <2>1, <2>2, <2>3, CallChanges DEF Labels, old
  <2>5. TmuxTypeOK'
    BY <1>1, <2>1, <2>4 DEF TmuxTypeOK, Labels
  <2>6. NonePassed(t)'
    BY <2>3, <2>4, TmuxAssumption DEF NonePassed
  <2>7. \A v \in Threads : (cache_lock' = v) => NonePassed(v)'
    BY <2>1, <2>6
  <2>8. Unmoved(t)' => ~Speaks(d.used)
    BY <1>1, <1>4, <2>3, <2>3a, <2>4 DEF Unmoved, CommandAt, At
  <2>9. SweepAt(t)' /\ MissingAt(t)'
    BY <1>1, <1>3, <1>4, <2>1, <2>3, <2>3a, <2>4 DEF SweepAt, MissingAt, At
  <2>10. CommandAt(t)'
    BY <1>4, <2>4, <2>7, <2>8 DEF CommandAt, At
  <2>11. ASSUME NEW u \in Threads, u # t PROVE SweepAt(u)' /\ CommandAt(u)' /\ MissingAt(u)'
    BY <1>1, <1>2, <2>1, <2>4, <2>7, <2>11, OthersKeep
  <2> QED
    BY <2>5, <2>9, <2>10, <2>11
<1> QED
  BY <1>6, <1>7

\* The end of a sweep: the cache is given up, or has what the server takes.
LEMMA SweepEnds ==
  ASSUME TmuxInv, NEW t \in Threads, At(t, "sweep"), cache_lock = t,
         NEW install \in {NoInstall} \cup {WellKnown[i] : i \in DOMAIN WellKnown},
         cache' = install, cache_lock' = NoThread, Resolved(t, install),
         UNCHANGED <<up, speaks, panes, clients, pin, inside, spent>>,
         \/ install # NoInstall /\ Speaks(install)
         \/ install = NoInstall /\ \A i \in DOMAIN WellKnown : i < call[t].sweep
  PROVE  TmuxInv'
<1> USE DEF TmuxInv
<1>1. call[t].outcome = "dropped" /\ ~call[t].retried /\ Unpinned /\ cache_lock' # t
  BY TmuxAssumption DEF SweepAt, At
<1>2. \A v \in Threads : cache_lock' # v
  BY TmuxAssumption
<1>3. (Unpinned' <=> Unpinned) /\ \A i : Speaks(i)' <=> Speaks(i)
  BY DEF Unpinned, Speaks, Ran
<1> DEFINE old == call[t]
           again == install # NoInstall /\ install # old.used
           c == [old EXCEPT !.retried = again]
           label == IF again THEN "select" ELSE "got"
<1>4. old \in Calls
  BY DEF TmuxTypeOK
<1>5. call' = [call EXCEPT ![t] = c] /\ tpc' = [tpc EXCEPT ![t] = label]
  BY DEF Resolved, Turn, TmuxTypeOK
<1>6. again \in BOOLEAN
  OBVIOUS
<1>6a. again <=> install # NoInstall /\ install # call[t].used
  OBVIOUS
<1>6b. label = IF again THEN "select" ELSE "got"
  OBVIOUS
<1>6c. old = call[t]
  OBVIOUS
<1> HIDE DEF old, again, label
<1>7. /\ c \in Calls /\ c.answer = old.answer /\ c.outcome = old.outcome
      /\ c.pane = old.pane /\ c.used = old.used
  BY <1>4, <1>6 DEF Calls
<1>7a. (c.moved <=> old.moved) /\ (c.retried <=> again)
  BY <1>4, <1>6 DEF Calls
<1> HIDE DEF c
<1>8. /\ call' \in [Threads -> Calls] /\ tpc' \in [Threads -> Labels]
      /\ call'[t] = c /\ tpc'[t] = label
      /\ \A u \in Threads : u # t => call'[u] = call[u] /\ tpc'[u] = tpc[u]
  BY <1>5, <1>6b, <1>7, CallChanges DEF Labels
<1>9. TmuxTypeOK'
  BY <1>8 DEF TmuxTypeOK, Labels
<1>10. Unmoved(t) => ~Speaks(old.used) /\ NonePassed(t)
  BY <1>6c DEF CommandAt, InCommand, At
<1>11. Unmoved(t)' <=> Unmoved(t)
  BY <1>3, <1>6c, <1>7a, <1>8 DEF Unmoved
<1>12. SweepAt(t)' /\ MissingAt(t)'
  BY <1>1, <1>6b, <1>6c, <1>7, <1>8 DEF SweepAt, MissingAt, At
<1>13. CommandAt(t)'
  <2>1. CASE again
    <3>1. cache' # NoInstall /\ Speaks(cache')
      BY <1>6a, <2>1
    <3> QED
      BY <1>2, <1>3, <1>6b, <1>8, <2>1, <3>1 DEF CommandAt, At
  <2>2. CASE ~again
    <3>1. Unmoved(t) => \A i \in DOMAIN WellKnown : ~Speaks(WellKnown[i])
      <4> SUFFICES ASSUME Unmoved(t) PROVE \A i \in DOMAIN WellKnown : ~Speaks(WellKnown[i])
        OBVIOUS
      <4>1. install = NoInstall
        BY <1>6a, <1>6c, <1>10, <2>2
      <4> QED
        BY <1>10, <4>1 DEF NonePassed
    <3> QED
      BY <1>3, <1>6b, <1>8, <1>11, <2>2, <3>1 DEF CommandAt, At, InCommand
  <2> QED
    BY <2>1, <2>2
<1>14. ASSUME NEW u \in Threads, u # t PROVE SweepAt(u)' /\ CommandAt(u)' /\ MissingAt(u)'
  <2>1. cache_lock # u
    BY <1>14
  <2>2. \/ cache' # NoInstall /\ Speaks(cache')
        \/ /\ cache' = NoInstall
           /\ InCommand(u) /\ Unmoved(u) => \A i \in DOMAIN WellKnown : ~Speaks(WellKnown[i])
    BY DEF CommandAt, NonePassed
  <2> QED
    BY <1>2, <1>8, <1>14, <2>1, <2>2, OthersKeep
<1> QED
  BY <1>9, <1>12, <1>13, <1>14

LEMMA ProbeStep ==
  ASSUME TmuxInv, NEW t \in Threads, Probe(t) PROVE TmuxInv'
<1> USE DEF TmuxInv
<1>1. /\ At(t, "sweep") /\ cache_lock = t
      /\ UNCHANGED <<up, speaks, panes, clients, pin, inside, spent>>
  BY DEF Probe, SweepAt, machine
<1>2. call[t] \in Calls /\ call[t].sweep \in Nat \ {0} /\ DOMAIN WellKnown = 1..Len(WellKnown)
      /\ Len(WellKnown) \in Nat
  BY TmuxAssumption DEF TmuxTypeOK, Calls
<1>3. CASE call[t].sweep > Len(WellKnown)
  <2>1. cache' = NoInstall /\ cache_lock' = NoThread /\ Resolved(t, NoInstall)
    BY <1>3 DEF Probe
  <2>2. \A i \in DOMAIN WellKnown : i < call[t].sweep
    BY <1>2, <1>3
  <2> QED
    BY <1>1, <2>1, <2>2, SweepEnds
<1>4. CASE call[t].sweep <= Len(WellKnown) /\ Speaks(WellKnown[call[t].sweep])
  <2>1. /\ cache' = WellKnown[call[t].sweep] /\ cache_lock' = NoThread
        /\ Resolved(t, WellKnown[call[t].sweep])
    BY <1>2, <1>4 DEF Probe
  <2>2. call[t].sweep \in DOMAIN WellKnown
    BY <1>2, <1>4
  <2> QED
    BY <1>1, <1>4, <2>1, <2>2, SweepEnds, WellKnownIs
<1>5. CASE call[t].sweep <= Len(WellKnown) /\ ~Speaks(WellKnown[call[t].sweep])
  <2>1. call' = [call EXCEPT ![t].sweep = call[t].sweep + 1] /\ UNCHANGED <<tpc, cache, cache_lock>>
    BY <1>2, <1>5 DEF Probe
  <2> DEFINE old == call[t]
             c == [old EXCEPT !.sweep = old.sweep + 1]
  <2>2. call' = [call EXCEPT ![t] = c]
    BY <2>1 DEF TmuxTypeOK
  <2>2a. old = call[t] /\ old \in Calls
    BY <1>2
  <2> HIDE DEF old
  <2>3. /\ c \in Calls /\ c.answer = old.answer /\ c.outcome = old.outcome
        /\ c.pane = old.pane /\ c.used = old.used /\ c.sweep = old.sweep + 1
    BY <2>2a DEF Calls
  <2>3a. (c.moved <=> old.moved) /\ (c.retried <=> old.retried)
    BY <2>2a DEF Calls
  <2> HIDE DEF c
  <2>4. /\ call' \in [Threads -> Calls] /\ call'[t] = c
        /\ \A u \in Threads : u # t => call'[u] = call[u]
    BY <2>2, <2>3 DEF TmuxTypeOK
  <2>5. TmuxTypeOK'
    BY <1>1, <2>1, <2>4 DEF TmuxTypeOK
  <2>6. (Unpinned' <=> Unpinned) /\ (Unmoved(t)' <=> Unmoved(t)) /\ \A i : Speaks(i)' <=> Speaks(i)
    BY <1>1, <2>2a, <2>3a, <2>4 DEF Unpinned, Unmoved, Speaks, Ran
  <2>7. NonePassed(t) => NonePassed(t)'
    BY <1>2, <1>5, <2>2a, <2>3, <2>4, <2>6 DEF NonePassed
  <2>8. \A v \in Threads : (cache_lock' = v) => v = t
    BY <1>1, <2>1
  <2>9. SweepAt(t)' /\ MissingAt(t)'
    BY <1>1, <2>1, <2>2a, <2>3, <2>3a, <2>4, <2>6 DEF SweepAt, MissingAt, At
  <2>10. CommandAt(t)'
    BY <1>1, <2>1, <2>2a, <2>3, <2>4, <2>6, <2>7, <2>8 DEF CommandAt, At, InCommand
  <2>11. ASSUME NEW u \in Threads, u # t PROVE SweepAt(u)' /\ CommandAt(u)' /\ MissingAt(u)'
    <3>1. InCommand(u) /\ Unmoved(u) => \A v \in Threads : (cache_lock' = v) => NonePassed(v)'
      BY <1>1, <2>7, <2>8 DEF CommandAt
    <3> QED
      BY <1>1, <2>1, <2>4, <2>11, <3>1, OthersKeep
  <2> QED
    BY <2>5, <2>9, <2>10, <2>11
<1> QED
  BY <1>2, <1>3, <1>4, <1>5

LEMMA ContinuesStep ==
  ASSUME TmuxInv, NEW t \in Threads, Continues(t) PROVE TmuxInv'
<1> USE DEF TmuxInv
<1> DEFINE c == After(call[t])
           label == IF c.answer = "none" THEN "select" ELSE "idle"
<1>1. /\ At(t, "got") /\ call' = [call EXCEPT ![t] = c] /\ tpc' = [tpc EXCEPT ![t] = label]
      /\ UNCHANGED <<up, speaks, panes, clients, pin, inside, cache, cache_lock, spent>>
  BY DEF Continues, Turn, machine
<1>2. call[t] \in Calls
  BY DEF TmuxTypeOK
<1>3. /\ c \in Calls
      /\ c.answer # "missing" \/ (call[t].outcome = "missing" /\ c.pane = call[t].pane)
                              \/ (call[t].answer = "missing" /\ c.pane = call[t].pane)
      /\ c.answer = "none" => ~c.retried
  BY <1>2, AfterIs
<1>4. label \in {"select", "idle"} /\ (label = "select" => ~c.retried)
  BY <1>3
<1> HIDE DEF c, label
<1>5. /\ call' \in [Threads -> Calls] /\ tpc' \in [Threads -> Labels]
      /\ call'[t] = c /\ tpc'[t] = label
      /\ \A u \in Threads : u # t => call'[u] = call[u] /\ tpc'[u] = tpc[u]
  BY <1>1, <1>3, <1>4, CallChanges DEF Labels
<1>6. TmuxTypeOK'
  BY <1>1, <1>5 DEF TmuxTypeOK, Labels
<1>7. cache_lock # t
  BY <1>1 DEF SweepAt, At
<1>8. c.answer = "missing" => c.pane \notin panes
  BY <1>1, <1>3 DEF MissingAt
<1>9. SweepAt(t)' /\ CommandAt(t)' /\ MissingAt(t)'
  BY <1>1, <1>4, <1>5, <1>7, <1>8 DEF SweepAt, CommandAt, MissingAt, At, InCommand
<1>10. ASSUME NEW u \in Threads, u # t PROVE SweepAt(u)' /\ CommandAt(u)' /\ MissingAt(u)'
  <2>1. ASSUME NEW v \in Threads, cache_lock' = v, NonePassed(v) PROVE NonePassed(v)'
    BY <1>1, <1>5, <1>7, <2>1, PassedStays
  <2>2. InCommand(u) /\ Unmoved(u) => \A v \in Threads : (cache_lock' = v) => NonePassed(v)'
    BY <1>1, <2>1 DEF CommandAt
  <2> QED
    BY <1>1, <1>5, <1>10, <2>2, OthersKeep
<1> QED
  BY <1>6, <1>9, <1>10

\* The server moves under all that run, and nothing is known of them then.
LEMMA MoveStep == ASSUME TmuxInv, ServerMoves PROVE TmuxInv'
<1> USE DEF TmuxInv
<1>1. /\ spent.moves < MaxMoves /\ up' \in BOOLEAN /\ speaks' \in Versions
      /\ call' = [t \in Threads |-> [call[t] EXCEPT !.moved = TRUE]]
      /\ spent' = [spent EXCEPT !.moves = spent.moves + 1]
      /\ UNCHANGED <<panes, clients, pin, inside, cache, cache_lock, tpc>>
  BY DEF ServerMoves
<1>2. ASSUME NEW c \in Calls
      PROVE  LET d == [c EXCEPT !.moved = TRUE]
             IN /\ d \in Calls /\ d.moved /\ d.outcome = c.outcome /\ d.answer = c.answer
                /\ d.pane = c.pane /\ (d.retried <=> c.retried)
  BY DEF Calls
<1>3. \A t \in Threads : /\ call'[t] \in Calls /\ call'[t].moved
                         /\ call'[t].outcome = call[t].outcome /\ call'[t].answer = call[t].answer
                         /\ call'[t].pane = call[t].pane /\ (call'[t].retried <=> call[t].retried)
  BY <1>1, <1>2 DEF TmuxTypeOK
<1>4. call' \in [Threads -> Calls]
  BY <1>1, <1>3
<1>5. spent' \in [calls : 0..MaxCalls, moves : 0..MaxMoves, turns : 0..MaxTurns]
  BY <1>1, TmuxAssumption DEF TmuxTypeOK
<1>6. TmuxTypeOK'
  BY <1>1, <1>4, <1>5 DEF TmuxTypeOK
<1>7. ASSUME NEW t \in Threads PROVE SweepAt(t)' /\ CommandAt(t)' /\ MissingAt(t)'
  <2>1. ~Unmoved(t)'
    BY <1>3 DEF Unmoved
  <2>2. CommandAt(t)'
    BY <2>1 DEF CommandAt
  <2>3. SweepAt(t)' /\ MissingAt(t)'
    BY <1>1, <1>3 DEF SweepAt, MissingAt, At, Unpinned
  <2> QED
    BY <2>2, <2>3
<1> QED
  BY <1>6, <1>7

LEMMA TurnStep == ASSUME TmuxInv, PaneCloses \/ ClientsChange PROVE TmuxInv'
<1> USE DEF TmuxInv
<1>1. /\ spent.turns < MaxTurns /\ spent' = [spent EXCEPT !.turns = spent.turns + 1]
      /\ panes' \subseteq panes
      /\ UNCHANGED <<up, speaks, pin, inside, cache, cache_lock, tpc, call>>
  BY DEF PaneCloses, ClientsChange
<1>2. clients' \in Seq(Ttys)
  <2>1. CASE PaneCloses
    BY <2>1 DEF PaneCloses, TmuxTypeOK
  <2>2. CASE \E i \in DOMAIN clients :
               LET others == SubSeq(clients, 1, i - 1) \o SubSeq(clients, i + 1, Len(clients))
               IN clients' \in {others, Append(others, clients[i])}
    <3>1. clients \in Seq(Ttys)
      BY DEF TmuxTypeOK
    <3>2. PICK i \in DOMAIN clients :
            LET others == SubSeq(clients, 1, i - 1) \o SubSeq(clients, i + 1, Len(clients))
            IN clients' \in {others, Append(others, clients[i])}
      BY <2>2
    <3>3. SubSeq(clients, 1, i - 1) \in Seq(Ttys) /\ SubSeq(clients, i + 1, Len(clients)) \in Seq(Ttys)
      BY <3>1
    <3>4. clients[i] \in Ttys
      BY <3>1
    <3> DEFINE left == SubSeq(clients, 1, i - 1)
               right == SubSeq(clients, i + 1, Len(clients))
    <3>5. clients' = left \o right \/ clients' = Append(left \o right, clients[i])
      BY <3>2
    <3>6. left \in Seq(Ttys) /\ right \in Seq(Ttys)
      BY <3>3
    <3> HIDE DEF left, right
    <3>7. left \o right \in Seq(Ttys)
      BY <3>6
    <3>8. Append(left \o right, clients[i]) \in Seq(Ttys)
      BY <3>4, <3>7
    <3> QED
      BY <3>5, <3>7, <3>8
  <2>3. CASE \E tty \in Ttys : ~Attached(tty) /\ clients' = Append(clients, tty)
    BY <2>3 DEF TmuxTypeOK
  <2> QED
    BY <2>1, <2>2, <2>3 DEF ClientsChange
<1>3. spent' \in [calls : 0..MaxCalls, moves : 0..MaxMoves, turns : 0..MaxTurns]
  BY <1>1, TmuxAssumption DEF TmuxTypeOK
<1>4. TmuxTypeOK'
  BY <1>1, <1>2, <1>3 DEF TmuxTypeOK
<1>5. ASSUME NEW u \in Threads PROVE SweepAt(u)' /\ CommandAt(u)' /\ MissingAt(u)'
  <2>1. ASSUME NEW v \in Threads, cache_lock' = v, NonePassed(v) PROVE NonePassed(v)'
    BY <1>1, <2>1, PassedStays
  <2>2. InCommand(u) /\ Unmoved(u) => \A v \in Threads : (cache_lock' = v) => NonePassed(v)'
    BY <1>1, <2>1 DEF CommandAt
  <2> QED
    BY <1>1, <2>2, OthersKeep
<1> QED
  BY <1>4, <1>5

LEMMA StillStep == ASSUME TmuxInv, UNCHANGED tmuxVars PROVE TmuxInv'
<1> USE DEF TmuxInv
<1>1. UNCHANGED <<up, speaks, panes, clients, pin, inside, cache, cache_lock, tpc, call, spent>>
  BY DEF tmuxVars, machine
<1>2. TmuxTypeOK'
  BY <1>1 DEF TmuxTypeOK
<1>3. ASSUME NEW u \in Threads PROVE SweepAt(u)' /\ CommandAt(u)' /\ MissingAt(u)'
  <2>1. ASSUME NEW v \in Threads, cache_lock' = v, NonePassed(v) PROVE NonePassed(v)'
    BY <1>1, <2>1, PassedStays
  <2>2. InCommand(u) /\ Unmoved(u) => \A v \in Threads : (cache_lock' = v) => NonePassed(v)'
    BY <1>1, <2>1 DEF CommandAt
  <2> QED
    BY <1>1, <2>2, OthersKeep
<1> QED
  BY <1>2, <1>3

\* For any number of threads, installs and versions: a command that ends with
\* a dropped client had no install to turn to, unless the user pinned one or
\* the server moved under it; and a pane said to be missing is gone.
THEOREM TmuxAnswersTrue == TmuxSpec => []TmuxAnswersAreTrue
<1>1. TmuxInv => TmuxAnswersAreTrue
  BY DEF TmuxInv, TmuxAnswersAreTrue, DropsAreHealed, MissingIsGone, CommandAt, MissingAt, Unmoved
<1>2. TmuxInv /\ [TmuxNext]_tmuxVars => TmuxInv'
  BY BeginCallStep, SelectStep, RunStep, RefreshStep, ProbeStep, ContinuesStep, MoveStep, TurnStep, StillStep
  DEF TmuxNext
<1> QED
  BY <1>1, <1>2, InitTmux, PTL DEF TmuxSpec
=============================================================================
