------------------------------ MODULE TuiProcess ------------------------------
(***************************************************************************)
(* The process of the terminal picker: its threads, and the terminal that  *)
(* it takes over and must give back.  The main thread enters raw mode and  *)
(* the alternate screen, then handles events in turn; a thread reads the   *)
(* keyboard, one takes what the daemon says, and one passes it on.  What   *)
(* the events mean is TerminalPicker's; here is how the process ends.      *)
(*                                                                         *)
(* A panic runs the hook in the thread that panics, under the read side of *)
(* the lock of std's hook; installing or taking a hook has the write side. *)
(***************************************************************************)
EXTENDS Naturals, Sequences

CONSTANTS MaxEvents, MaxPanics   \* bounds: events waiting, panics

ASSUME TuiAssumption == MaxEvents \in Nat /\ MaxPanics \in Nat

VARIABLES
  raw, alternate,  \* what the terminal is in
  session_hook,    \* whether the panic hook is the session's
  restored,        \* whether someone has claimed the restoring
  cancel,          \* what tells the workers to end
  events,          \* those that wait for the main thread
  at,              \* per thread: where it is
  failed,          \* whether the loop ended with an error
  panics

tuiVars == <<raw, alternate, session_hook, restored, cancel, events, at, failed, panics>>

Workers == {"input", "bridge", "subscription"}
Everyone == Workers \cup {"main"}

HookStates == {"hook", "hook_restoring", "hook_printing"}
MainStates == HookStates \cup {"start", "enter", "hook_up", "draw", "loop", "drop", "drop_claim",
                              "drop_restoring", "leaving", "exited"}
WorkerStates == HookStates \cup {"unborn", "running", "ended", "cut_off"}

InHook(t) == at[t] \in HookStates
Handing == {"draw", "loop"}
MainAt(label) == at["main"] = label
Goes(t, label) == at' = [at EXCEPT ![t] = label]

-----------------------------------------------------------------------------
(* TerminalSession::enter. *)

EnableRawMode ==
  /\ MainAt("start")
  /\ \/ raw' = TRUE /\ Goes("main", "enter") /\ UNCHANGED failed
     \/ failed' = TRUE /\ Goes("main", "leaving") /\ UNCHANGED raw  \* no tty, or not raw
  /\ UNCHANGED <<alternate, session_hook, restored, cancel, events, panics>>

\* The screen may have changed when the call fails: all is undone.
EnterAlternateScreen ==
  /\ MainAt("enter")
  /\ \/ alternate' = TRUE /\ Goes("main", "hook_up") /\ UNCHANGED <<raw, failed>>
     \/ alternate' = FALSE /\ raw' = FALSE /\ failed' = TRUE /\ Goes("main", "leaving")
  /\ UNCHANGED <<session_hook, restored, cancel, events, panics>>

SetHook ==
  /\ MainAt("hook_up")
  /\ session_hook' = TRUE /\ Goes("main", "draw")
  /\ UNCHANGED <<raw, alternate, restored, cancel, events, failed, panics>>

-----------------------------------------------------------------------------
(* run_tui_loop and its workers. *)

\* A draw that fails ends the loop, as an error of the input does; the first
\* one comes before the workers.
DrawFrame ==
  /\ MainAt("draw")
  /\ \/ /\ at' = [t \in Everyone |-> IF t = "main" THEN "loop"
                                     ELSE IF at[t] = "unborn" THEN "running" ELSE at[t]]
        /\ UNCHANGED failed
     \/ failed' = TRUE /\ Goes("main", "drop")
  /\ UNCHANGED <<raw, alternate, session_hook, restored, cancel, events, panics>>

HandleEvent ==
  /\ MainAt("loop") /\ events # <<>>
  /\ events' = Tail(events)
  /\ CASE Head(events) = "close" -> cancel' = TRUE /\ Goes("main", "drop") /\ UNCHANGED failed
       [] Head(events) = "fatal" -> failed' = TRUE /\ Goes("main", "drop") /\ UNCHANGED cancel
       [] Head(events) = "redraw" -> Goes("main", "draw") /\ UNCHANGED <<cancel, failed>>
       [] OTHER -> UNCHANGED <<cancel, at, failed>>
  /\ UNCHANGED <<raw, alternate, session_hook, restored, panics>>

\* Those who could send are gone.
LoopEnds ==
  /\ MainAt("loop") /\ events = <<>>
  /\ at["input"] = "ended" /\ at["bridge"] = "ended"
  /\ cancel' = TRUE /\ Goes("main", "drop")
  /\ UNCHANGED <<raw, alternate, session_hook, restored, events, failed, panics>>

\* A key, a resize, or that the terminal cannot be read any more.
ReadInput ==
  /\ at["input"] = "running"
  /\ \/ /\ Len(events) < MaxEvents
        /\ \E event \in {"close", "redraw", "nothing"} : events' = Append(events, event)
        /\ UNCHANGED at
     \/ /\ Len(events) < MaxEvents
        /\ events' = Append(events, "fatal") /\ Goes("input", "ended")
     \/ cancel /\ Goes("input", "ended") /\ UNCHANGED events
  /\ UNCHANGED <<raw, alternate, session_hook, restored, cancel, failed, panics>>

PassOn ==
  /\ at["bridge"] = "running"
  /\ \/ /\ Len(events) < MaxEvents /\ at["subscription"] = "running"
        /\ events' = Append(events, "redraw") /\ UNCHANGED at
     \/ /\ cancel \/ at["subscription"] = "ended"
        /\ Goes("bridge", "ended") /\ UNCHANGED events
  /\ UNCHANGED <<raw, alternate, session_hook, restored, cancel, failed, panics>>

SubscriptionEnds ==
  /\ at["subscription"] = "running" /\ Goes("subscription", "ended")
  /\ UNCHANGED <<raw, alternate, session_hook, restored, cancel, events, failed, panics>>

-----------------------------------------------------------------------------
(* Panics, and the way out. *)

\* A hook that is not the session's only prints.
Panic(t) ==
  /\ at[t] \in {"running"} \cup Handing /\ panics < MaxPanics
  /\ Goes(t, IF session_hook THEN "hook" ELSE "hook_printing")
  /\ panics' = panics + 1
  /\ UNCHANGED <<raw, alternate, session_hook, restored, cancel, events, failed>>

\* claim_restore: one swap decides who restores.
Claim(t, first, later) ==
  /\ restored' = TRUE
  /\ Goes(t, IF restored THEN later ELSE first)
  /\ UNCHANGED <<raw, alternate, session_hook, cancel, events, failed, panics>>

Restore(t, then) ==
  /\ raw' = FALSE /\ alternate' = FALSE /\ Goes(t, then)
  /\ UNCHANGED <<session_hook, restored, cancel, events, failed, panics>>

HookClaims(t) == at[t] = "hook" /\ Claim(t, "hook_restoring", "hook_printing")
HookRestores(t) == at[t] = "hook_restoring" /\ Restore(t, "hook_printing")

\* A worker ends; the main thread unwinds into Drop, which leaves the hook be.
HookReturns(t) ==
  /\ at[t] = "hook_printing"
  /\ Goes(t, IF t = "main" THEN "drop_claim" ELSE "ended")
  /\ failed' = (failed \/ t = "main")
  /\ UNCHANGED <<raw, alternate, session_hook, restored, cancel, events, panics>>

\* Mutant: the hook is taken without waiting for one that runs.
DropTakesHookLate ==
  /\ MainAt("drop") /\ session_hook' = FALSE /\ Goes("main", "drop_claim")
  /\ UNCHANGED <<raw, alternate, restored, cancel, events, failed, panics>>

\* take_hook waits for a hook that runs.
DropTakesHook ==
  /\ MainAt("drop") /\ \A w \in Workers : ~InHook(w)
  /\ session_hook' = FALSE /\ Goes("main", "drop_claim")
  /\ UNCHANGED <<raw, alternate, restored, cancel, events, failed, panics>>

DropClaims == MainAt("drop_claim") /\ Claim("main", "drop_restoring", "leaving")
DropRestores == MainAt("drop_restoring") /\ Restore("main", "leaving")

\* The end of the process is the end of its threads.
ExitProcess ==
  /\ MainAt("leaving")
  /\ at' = [t \in Everyone |-> IF t = "main" THEN "exited"
                               ELSE IF at[t] = "hook_restoring" THEN "cut_off" ELSE "ended"]
  /\ UNCHANGED <<raw, alternate, session_hook, restored, cancel, events, failed, panics>>

TuiInit ==
  /\ raw = FALSE /\ alternate = FALSE /\ session_hook = FALSE /\ restored = FALSE
  /\ cancel = FALSE /\ events = <<>> /\ failed = FALSE /\ panics = 0
  /\ at = [t \in Everyone |-> IF t = "main" THEN "start" ELSE "unborn"]

TuiNext ==
  \/ EnableRawMode \/ EnterAlternateScreen \/ SetHook
  \/ DrawFrame \/ HandleEvent \/ LoopEnds \/ ReadInput \/ PassOn \/ SubscriptionEnds
  \/ \E t \in Everyone : Panic(t) \/ HookClaims(t) \/ HookRestores(t) \/ HookReturns(t)
  \/ DropTakesHook \/ DropClaims \/ DropRestores \/ ExitProcess

TuiSpec == TuiInit /\ [][TuiNext]_tuiVars

-----------------------------------------------------------------------------

TuiTypeOK ==
  /\ {raw, alternate, session_hook, restored, cancel, failed} \subseteq BOOLEAN
  /\ events \in Seq({"close", "redraw", "nothing", "fatal"}) /\ Len(events) <= MaxEvents
  /\ at \in [Everyone -> MainStates \cup WorkerStates] /\ panics \in 0..MaxPanics

\* However the picker ends (closed, failed, panicked in any thread), the shell
\* gets its terminal back: a process that is gone has left neither raw mode
\* nor the alternate screen behind.  The one exception is two panics: the main
\* thread unwinds without waiting for the hook of a worker that restores.
TerminalIsGivenBack ==
  MainAt("exited") => \/ ~raw /\ ~alternate
                      \/ panics > 1 /\ \E w \in Workers : at[w] = "cut_off"
=============================================================================
