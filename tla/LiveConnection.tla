--------------------------- MODULE LiveConnection ---------------------------
(***************************************************************************)
(* The desktop's live connections.  In the page, each configured source    *)
(* has a fiber that makes one subscription attempt after another; in the   *)
(* host process, a start command installs a worker thread which runs one   *)
(* "agentscan subscribe" child, and a stop command tears it down.  Every   *)
(* attempt has an epoch, larger than all before it, also after the page    *)
(* was reloaded.  Commands of interrupted attempts and of a page that is   *)
(* gone may reach the host late and in any order; the frames of all        *)
(* workers come over one channel.                                          *)
(*                                                                         *)
(* An attempt is its epoch.  A frame is what the page does about it: rows, *)
(* a retry that the child makes itself, or one of four terminal kinds.     *)
(***************************************************************************)
EXTENDS Naturals, Sequences, FiniteSets, FiniteSetsExt

CONSTANTS
  Sources,                \* runner keys
  MaxEpoch,               \* bound: subscription attempts
  LIVE_PICKER_FENCE_CAP,
  MaxUserActions,         \* bound: what the user, or a reload, does
  MaxFaults,              \* bound: processes, commands and probes that fail
  MaxFlips,               \* bound: daemons that come or go by themselves
  MaxTrouble,             \* bound: all of these together
  MaxQueue                \* bound: rows frames not consumed yet

ASSUME LiveAssumption ==
  /\ MaxEpoch \in Nat /\ LIVE_PICKER_FENCE_CAP \in Nat \ {0} /\ MaxUserActions \in Nat
  /\ MaxFaults \in Nat /\ MaxFlips \in Nat /\ MaxTrouble \in Nat /\ MaxQueue \in Nat \ {0}

VARIABLES
  target,      \* page, per source: what the user wants of it
  fiber,       \* page, per source: what runs it does, and the attempt it makes
  queue,       \* page, per source: frames that have arrived
  view,        \* page, per source: LiveState
  attempt,     \* page, per epoch: the start and the stop of one attempt
  lastEpoch,   \* epochRef, kept over a reload
  supervisor,  \* host, per source: the epoch of the installed supervisor
  fence,       \* host: StartFence
  starting,    \* host: the start command that holds the start lock
  worker,      \* host, per epoch: its thread
  stopped,     \* host: the epochs whose stop flag is set
  child,       \* host: the epochs whose subscribe process runs
  daemon,      \* the source's daemon answers, per source
  born,        \* per source: the last epoch before it was added (history)
  actions, faults, flips

source == <<target, fiber, queue>>
page == <<source, view, attempt, lastEpoch, born>>
host == <<supervisor, fence, starting, worker, stopped, child>>
vars == <<page, host, daemon, actions, faults, flips>>

Epochs == 1..MaxEpoch
None == 0
Terminals == {"recoverable", "noDaemon", "mismatch", "fatal"}
Unlocked == [epoch |-> None, joining |-> None]

Target(on, enabled, autoStart) == [on |-> on, enabled |-> enabled, autoStart |-> autoStart]
Fiber(run, first, cur) == [run |-> run, first |-> first, cur |-> cur]
View(status, rows) == [status |-> status, rows |-> rows]
Frame(e, kind) == [epoch |-> e, kind |-> kind]
Fence(last, floor) == [lastStarted |-> last, floor |-> floor]
AttemptOf(key, autoStart, phase, owner, online, terminal) ==
  [key |-> key, autoStart |-> autoStart, phase |-> phase, owner |-> owner, online |-> online,
   terminal |-> terminal]

NoTarget == Target(FALSE, FALSE, FALSE)
NoFiber == Fiber("parked", TRUE, None)
InitialView == View("connecting", None)
NoAttempt == AttemptOf(None, FALSE, "unused", "fiber", FALSE, "none")

InPhase(a, phase) == AttemptOf(a.key, a.autoStart, phase, a.owner, a.online, a.terminal)
EndedBy(a, terminal) == AttemptOf(a.key, a.autoStart, "releasing", a.owner, a.online, terminal)

Current(e) == attempt[e].owner = "fiber"
Sees(k) == target[k].on /\ target[k].enabled
Calm == actions + faults + flips < MaxTrouble
User == /\ Calm /\ actions < MaxUserActions
        /\ actions' = actions + 1 /\ UNCHANGED <<faults, flips>>
Fault == /\ Calm /\ faults < MaxFaults
         /\ faults' = faults + 1 /\ UNCHANGED <<actions, flips>>
Normal == UNCHANGED <<actions, faults, flips>>

------------------------------------------------------------------------------
(* The page: targets.                                                      *)

\* A new target, or the removal of the source, interrupts the attempt that runs: one
\* whose start is under way is stopped when the start has returned, the other at once.
LetGo(a) ==
  AttemptOf(a.key, a.autoStart, IF a.phase = "consuming" THEN "releasing" ELSE a.phase,
            "nobody", a.online, a.terminal)

Interrupt(k) ==
  attempt' = IF fiber[k].run # "busy" THEN attempt
             ELSE [attempt EXCEPT ![fiber[k].cur] = LetGo(attempt[fiber[k].cur])]

\* runTarget: a source that is not enabled shows nothing and waits for its next target.
Retarget(k, enabled, autoStart) ==
  /\ Interrupt(k)
  /\ target' = [target EXCEPT ![k] = Target(TRUE, enabled, autoStart)]
  /\ fiber' = [fiber EXCEPT ![k] = Fiber(IF enabled THEN "next" ELSE "parked", TRUE, None)]
  /\ queue' = [queue EXCEPT ![k] = <<>>]

Add(k, enabled) ==
  /\ ~target[k].on /\ User
  /\ Retarget(k, enabled, FALSE)
  /\ view' = [view EXCEPT ![k] = InitialView]
  /\ born' = [born EXCEPT ![k] = lastEpoch]
  /\ UNCHANGED <<lastEpoch, host, daemon>>

\* The enabled flag flips; an unchanged source is left running.
Enable(k, enabled) ==
  /\ target[k].on /\ target[k].enabled # enabled /\ User
  /\ Retarget(k, enabled, FALSE)
  /\ view' = IF enabled THEN view ELSE [view EXCEPT ![k] = InitialView]
  /\ UNCHANGED <<lastEpoch, born, host, daemon>>

\* The state goes with the fiber, which may have an attempt to stop before.
Remove(k) ==
  /\ target[k].on /\ User
  /\ Interrupt(k)
  /\ target' = [target EXCEPT ![k] = NoTarget]
  /\ fiber' = [fiber EXCEPT ![k] = NoFiber]
  /\ queue' = [queue EXCEPT ![k] = <<>>]
  /\ view' = IF fiber[k].run = "busy" THEN view ELSE [view EXCEPT ![k] = InitialView]
  /\ UNCHANGED <<lastEpoch, born, host, daemon>>

\* "Reconnect", or "Start agentscan", which alone may start a daemon.
Rearm(k, autoStart) ==
  /\ target[k].on /\ User
  /\ Retarget(k, target[k].enabled, autoStart)
  /\ UNCHANGED <<view, lastEpoch, born, host, daemon>>

Forsaken(a) ==
  AttemptOf(a.key, a.autoStart,
            IF a.phase \in {"consuming", "releasing", "joining"} THEN "ended" ELSE a.phase,
            "reloaded", a.online, a.terminal)

\* The page and its fibers are gone, and nobody stops what they have started.
Reload ==
  /\ \E k \in Sources : target[k].on
  /\ User
  /\ target' = [k \in Sources |-> NoTarget]
  /\ fiber' = [k \in Sources |-> NoFiber]
  /\ queue' = [k \in Sources |-> <<>>]
  /\ view' = [k \in Sources |-> InitialView]
  /\ attempt' = [e \in Epochs |-> Forsaken(attempt[e])]
  /\ UNCHANGED <<lastEpoch, born, host, daemon>>

------------------------------------------------------------------------------
(* The page: attempts.                                                     *)

AutoStart(k) == fiber[k].first /\ target[k].autoStart

Attempt(k) ==
  /\ fiber[k].run = "next" /\ lastEpoch < MaxEpoch
  /\ lastEpoch' = lastEpoch + 1
  /\ fiber' = [fiber EXCEPT ![k] = Fiber("busy", fiber[k].first, lastEpoch + 1)]
  /\ attempt' = [attempt EXCEPT ![lastEpoch + 1] =
                   AttemptOf(k, AutoStart(k), "starting", "fiber", FALSE, "none")]
  /\ view' = [view EXCEPT ![k] =
                View(IF fiber[k].first THEN "connecting" ELSE "reconnecting", view[k].rows)]
  /\ Normal /\ UNCHANGED <<target, queue, born, host, daemon>>

\* What the host's answer to a start is to its attempt: the page that is gone ignores it,
\* an interrupted attempt goes on to its stop, a failed one stops for good.
Answered(a, ok) ==
  IF a.owner = "reloaded" THEN InPhase(a, "ended")
  ELSE IF a.owner = "nobody" THEN InPhase(a, "releasing")
  ELSE IF ok THEN InPhase(a, "consuming") ELSE EndedBy(a, "fatal")

Started(e, ok) == attempt' = [attempt EXCEPT ![e] = Answered(attempt[e], ok)]

\* Mutant: without the comparison of epochs.
ConsumesAny(k, e) == TRUE
ConsumesFrame(k, e) == e = fiber[k].cur

\* foldEvent: a terminal frame leaves the view to the end of the attempt.
Folded(shown, f) ==
  IF f.kind = "rows" THEN View("online", f.epoch)
  ELSE IF f.kind = "retry" THEN View("reconnecting", shown.rows) ELSE shown

Heard(a, f) ==
  IF f.kind \in Terminals THEN EndedBy(a, f.kind)
  ELSE AttemptOf(a.key, a.autoStart, a.phase, a.owner, a.online \/ f.kind = "rows", a.terminal)

\* One frame of the queue.
Consume(k) ==
  LET e == fiber[k].cur
      f == Head(queue[k])
      mine == ConsumesFrame(k, f.epoch)
  IN
  /\ fiber[k].run = "busy" /\ attempt[e].phase = "consuming" /\ queue[k] # <<>>
  /\ queue' = [queue EXCEPT ![k] = Tail(queue[k])]
  /\ view' = IF mine THEN [view EXCEPT ![k] = Folded(view[k], f)] ELSE view
  /\ attempt' = IF mine THEN [attempt EXCEPT ![e] = Heard(attempt[e], f)] ELSE attempt
  /\ Normal /\ UNCHANGED <<target, fiber, lastEpoch, born, host, daemon>>

\* A daemon that our own start did not bring up is a refusal, which only the user resolves.
Classified(e) ==
  LET a == attempt[e] IN
  IF a.terminal = "noDaemon" /\ a.autoStart /\ ~a.online THEN "fatal" ELSE a.terminal

\* How the fiber goes on, and what is shown, when the stop has returned.
RunAfter(e) ==
  IF Classified(e) = "fatal" THEN "parked"
  ELSE IF Classified(e) = "noDaemon" THEN "polling" ELSE "sleeping"

ViewAfter(e) ==
  IF Classified(e) \in {"fatal", "noDaemon"} THEN View(Classified(e), None)
  ELSE View("reconnecting", view[attempt[e].key].rows)

Stopped(e) ==
  LET k == attempt[e].key
      a == attempt[e]
  IN
  /\ attempt' = [attempt EXCEPT ![e] =
                   AttemptOf(a.key, a.autoStart, "ended", a.owner, FALSE, "none")]
  /\ IF Current(e)
     THEN /\ view' = [view EXCEPT ![k] = ViewAfter(e)]
          /\ fiber' = [fiber EXCEPT ![k] = Fiber(RunAfter(e), FALSE, fiber[k].cur)]
     ELSE /\ view' = IF target[k].on THEN view ELSE [view EXCEPT ![k] = InitialView]
          /\ UNCHANGED fiber
  /\ UNCHANGED <<target, queue>>

GoesOn(k) == fiber' = [fiber EXCEPT ![k] = Fiber("next", fiber[k].first, fiber[k].cur)]

Wake(k) ==
  /\ fiber[k].run = "sleeping"
  /\ GoesOn(k)
  /\ Normal /\ UNCHANGED <<target, queue, view, attempt, lastEpoch, born, host, daemon>>

\* Until the probe finds a daemon, or fails, no subscribe is started.
Poll(k) ==
  /\ fiber[k].run = "polling"
  /\ (daemon[k] /\ Normal) \/ (~daemon[k] /\ Fault)
  /\ GoesOn(k)
  /\ UNCHANGED <<target, queue, view, attempt, lastEpoch, born, host, daemon>>

------------------------------------------------------------------------------
(* The host: commands.                                                     *)

\* Mutant: without the fence.
AlwaysAdvances(k, e) == TRUE
EpochAdvances(k, e) == e > fence.floor /\ e > fence.lastStarted[k]

\* Past the cap, the lowest entry is evicted and becomes the floor for all.
Committed(k, e) ==
  LET last    == [fence.lastStarted EXCEPT ![k] = e]
      entries == {q \in Sources : last[q] # None}
      lowest  == Min({last[q] : q \in entries})
  IN IF Cardinality(entries) <= LIVE_PICKER_FENCE_CAP THEN Fence(last, fence.floor)
     ELSE Fence([q \in Sources |-> IF last[q] = lowest THEN None ELSE last[q]],
                Max({fence.floor, lowest}))

\* Take the supervisor, set its flag, and kill the child that the worker has stored.
TakeSupervisor(k) ==
  LET e == supervisor[k] IN
  /\ supervisor' = [supervisor EXCEPT ![k] = None]
  /\ stopped' = stopped \cup ({e} \ {None})
  /\ child' = IF e # None /\ worker[e] = "reading" THEN child \ {e} ELSE child

HostStep == UNCHANGED <<lastEpoch, born, daemon>>

\* A start takes the lock, and returns at once if it is stale.
StartBegins(e) ==
  LET k == attempt[e].key IN
  /\ attempt[e].phase = "starting" /\ starting = Unlocked
  /\ IF EpochAdvances(k, e)
     THEN /\ starting' = [epoch |-> e, joining |-> supervisor[k]]
          /\ TakeSupervisor(k)
          /\ UNCHANGED attempt
     ELSE Started(e, TRUE) /\ UNCHANGED <<starting, supervisor, stopped, child>>
  /\ Normal /\ HostStep /\ UNCHANGED <<source, view, fence, worker>>

\* When the worker it replaces has ended, it installs its own; a thread may not start.
StartInstalls ==
  LET e == starting.epoch
      k == attempt[e].key
  IN
  /\ starting # Unlocked
  /\ starting.joining # None => worker[starting.joining] = "gone"
  /\ starting' = Unlocked
  /\ \/ /\ supervisor' = [supervisor EXCEPT ![k] = e]
        /\ worker' = [worker EXCEPT ![e] = "spawning"]
        /\ fence' = Committed(k, e)
        /\ Started(e, TRUE) /\ Normal
     \/ Started(e, FALSE) /\ Fault /\ UNCHANGED <<supervisor, worker, fence>>
  /\ HostStep /\ UNCHANGED <<source, view, stopped, child>>

\* A stop acts only on the worker of its own epoch.
StopBegins(e) ==
  LET k == attempt[e].key IN
  /\ attempt[e].phase = "releasing"
  /\ IF supervisor[k] = e
     THEN /\ TakeSupervisor(k)
          /\ attempt' = [attempt EXCEPT ![e] = InPhase(attempt[e], "joining")]
          /\ UNCHANGED <<source, view>>
     ELSE Stopped(e) /\ UNCHANGED <<supervisor, stopped, child>>
  /\ Normal /\ HostStep /\ UNCHANGED <<fence, starting, worker>>

StopJoins(e) ==
  /\ attempt[e].phase = "joining" /\ worker[e] = "gone"
  /\ Stopped(e)
  /\ Normal /\ HostStep /\ UNCHANGED host

------------------------------------------------------------------------------
(* The host: workers.                                                      *)

Emit(e, kind) ==
  LET k == attempt[e].key IN
  /\ queue' = IF Sees(k) THEN [queue EXCEPT ![k] = Append(queue[k], Frame(e, kind))] ELSE queue
  /\ UNCHANGED <<target, fiber>>
WorkerStep == HostStep /\ UNCHANGED <<view, attempt, fence, starting>>

\* The child cannot be started, or not even described.
Spawn(e) ==
  /\ worker[e] = "spawning"
  /\ \/ /\ worker' = [worker EXCEPT ![e] = "spawned"] /\ child' = child \cup {e}
        /\ Normal /\ UNCHANGED source
     \/ /\ worker' = [worker EXCEPT ![e] = "ending"]
        /\ \E kind \in {"recoverable", "fatal"} : Emit(e, kind)
        /\ Fault /\ UNCHANGED child
  /\ WorkerStep /\ UNCHANGED <<supervisor, stopped>>

\* Mutant: a stop that found no child to kill is not noticed.
StoreBlindly(e) == worker' = [worker EXCEPT ![e] = "reading"] /\ UNCHANGED child
Store(e) ==
  IF e \in stopped
  THEN worker' = [worker EXCEPT ![e] = "ending"] /\ child' = child \ {e}
  ELSE worker' = [worker EXCEPT ![e] = "reading"] /\ UNCHANGED child

StoreChild(e) ==
  /\ worker[e] = "spawned"
  /\ Store(e)
  /\ Normal /\ WorkerStep /\ UNCHANGED <<source, supervisor, stopped>>

ReadsRows(e) ==
  /\ daemon[attempt[e].key] /\ Len(queue[attempt[e].key]) < MaxQueue
  /\ Emit(e, "rows") /\ UNCHANGED <<worker, daemon>> /\ Normal

\* Without a daemon the child starts one if it was told to, or ends.
ReadsOffline(e) ==
  LET k == attempt[e].key IN
  /\ ~daemon[k]
  /\ \/ /\ attempt[e].autoStart /\ e \in child
        /\ daemon' = [daemon EXCEPT ![k] = TRUE] /\ UNCHANGED <<source, worker>>
     \/ /\ Emit(e, "noDaemon")
        /\ worker' = [worker EXCEPT ![e] = "ending"] /\ UNCHANGED daemon
  /\ Normal

\* A loss that the child retries by itself; or a daemon that closes, skewed versions, a
\* broken configuration, output that is no frame.
ReadsFailure(e) ==
  /\ \/ Emit(e, "retry") /\ UNCHANGED worker
     \/ /\ \E kind \in Terminals \ {"noDaemon"} : Emit(e, kind)
        /\ worker' = [worker EXCEPT ![e] = "ending"]
  /\ Fault /\ UNCHANGED daemon

\* A line that was read before a stop, or before the child died, is emitted after it.
ReadFrame(e) ==
  /\ worker[e] = "reading"
  /\ ReadsRows(e) \/ ReadsOffline(e) \/ ReadsFailure(e)
  /\ UNCHANGED <<view, attempt, lastEpoch, born, fence, starting, supervisor,
                 stopped, child>>

EndOfOutput(e) == IF e \in stopped THEN UNCHANGED source ELSE Emit(e, "recoverable")

\* The loop sees the flag between two lines, and a child that is silent has to be killed.
ReadEnds(e) ==
  /\ worker[e] = "reading" /\ e \notin child
  /\ EndOfOutput(e)
  /\ worker' = [worker EXCEPT ![e] = "ending"]
  /\ Normal /\ WorkerStep /\ UNCHANGED <<supervisor, stopped, child>>

ChildDies(e) ==
  /\ e \in child /\ child' = child \ {e}
  /\ Fault /\ WorkerStep /\ UNCHANGED <<source, supervisor, stopped, worker>>

\* The child is reaped; the supervisor goes if it is still this worker's.
WorkerEnds(e) ==
  LET k == attempt[e].key IN
  /\ worker[e] = "ending"
  /\ worker' = [worker EXCEPT ![e] = "gone"]
  /\ child' = child \ {e}
  /\ supervisor' = IF supervisor[k] = e THEN [supervisor EXCEPT ![k] = None] ELSE supervisor
  /\ Normal /\ WorkerStep /\ UNCHANGED <<source, stopped>>

DaemonFlips(k) ==
  /\ Calm /\ flips < MaxFlips /\ flips' = flips + 1
  /\ daemon' = [daemon EXCEPT ![k] = ~@]
  /\ UNCHANGED <<page, host, actions, faults>>

------------------------------------------------------------------------------
Init ==
  /\ target = [k \in Sources |-> NoTarget]
  /\ fiber = [k \in Sources |-> NoFiber]
  /\ queue = [k \in Sources |-> <<>>]
  /\ view = [k \in Sources |-> InitialView]
  /\ attempt = [e \in Epochs |-> NoAttempt]
  /\ lastEpoch = 0 /\ born = [k \in Sources |-> 0]
  /\ supervisor = [k \in Sources |-> None]
  /\ fence = Fence([k \in Sources |-> None], 0)
  /\ starting = Unlocked
  /\ worker = [e \in Epochs |-> "none"]
  /\ stopped = {} /\ child = {}
  /\ daemon \in [Sources -> BOOLEAN]
  /\ actions = 0 /\ faults = 0 /\ flips = 0

UserActs ==
  \/ \E k \in Sources :
       \/ \E enabled \in BOOLEAN : Add(k, enabled) \/ Enable(k, enabled)
       \/ Remove(k)
       \/ \E autoStart \in BOOLEAN : Rearm(k, autoStart)
  \/ Reload

PageActs == \E k \in Sources : Attempt(k) \/ Consume(k) \/ Wake(k) \/ Poll(k)
HostActs ==
  \/ StartInstalls
  \/ \E e \in Epochs :
       \/ StartBegins(e) \/ StopBegins(e) \/ StopJoins(e)
       \/ Spawn(e) \/ StoreChild(e) \/ ReadFrame(e) \/ ReadEnds(e) \/ WorkerEnds(e)
Environment == (\E e \in Epochs : ChildDies(e)) \/ (\E k \in Sources : DaemonFlips(k))

Next == UserActs \/ PageActs \/ HostActs \/ Environment

\* The page's scheduler, the host's threads and commands, and the child processes go on.
Fairness ==
  /\ \A k \in Sources : WF_vars(Attempt(k)) /\ WF_vars(Consume(k)) /\ WF_vars(Wake(k))
                        /\ WF_vars(daemon[k] /\ Poll(k))
  /\ WF_vars(StartInstalls)
  /\ \A e \in Epochs :
       /\ WF_vars(StartBegins(e)) /\ WF_vars(StopBegins(e)) /\ WF_vars(StopJoins(e))
       /\ WF_vars(Spawn(e)) /\ WF_vars(StoreChild(e)) /\ WF_vars(ReadFrame(e))
       /\ WF_vars(ReadEnds(e)) /\ WF_vars(WorkerEnds(e))

Spec == Init /\ [][Next]_vars
FairSpec == Spec /\ Fairness

------------------------------------------------------------------------------
(* Properties.                                                             *)

\* A source never has two subscribe processes that go on: whatever starts, stops, re-arms
\* and reloads cross, all but one have been told to end, also one spawned meanwhile.
OneChildPerSource ==
  \A e, f \in child \ stopped : attempt[e].key = attempt[f].key => e = f

\* A fiber that waits for frames has a worker that will send some, or the last one is in
\* its queue: no stale start has replaced that worker, no stale stop has ended it, and no
\* start was dropped as stale under a fiber that then waits for ever.
ConsumerIsServed ==
  \A k \in Sources :
    LET e == fiber[k].cur IN
    fiber[k].run = "busy" /\ attempt[e].phase = "consuming" =>
      \/ worker[e] \in {"spawning", "spawned", "reading"} /\ e \notin stopped
      \/ \E i \in DOMAIN queue[k] : queue[k][i].epoch = e /\ queue[k][i].kind \in Terminals

\* Rows are those of an attempt that this source made since it was added; shown as online,
\* those of the attempt that runs.  The page drops what a superseded worker still sends.
RowsBelongToTheSource ==
  \A k \in Sources : target[k].on /\ view[k].rows # None =>
    /\ attempt[view[k].rows].key = k /\ view[k].rows > born[k]
    /\ (view[k].status = "online" /\ fiber[k].run = "busy") =>
         view[k].rows = fiber[k].cur

\* Sources whose daemons answer come online, or tell the user why they do not, again and
\* again: after any lost child, skewed version, failed probe or interrupted attempt.
SourcesConnect ==
  []<>(\A k \in Sources : fiber[k].run # "parked" /\ daemon[k] =>
         view[k].status \in {"online", "fatal"} \/ lastEpoch = MaxEpoch)

\* What the page has let go of ends: neither a worker nor its child outlives an attempt
\* that was interrupted, not even one whose start was still under way.
StrayWorkersEnd ==
  []<>(\A e \in Epochs : attempt[e].owner = "nobody" =>
         worker[e] \in {"none", "gone"} /\ e \notin child)

\* Starts and stops that cross leave each source one worker, the one its fiber waits for.
WorkersMatchFibers == OneChildPerSource /\ ConsumerIsServed

\* Whatever was cut short comes to rest: sources connect and abandoned workers end.
ConnectionsSettle == SourcesConnect /\ StrayWorkersEnd
=============================================================================
