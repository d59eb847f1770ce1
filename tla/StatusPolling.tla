--------------------------- MODULE StatusPolling ---------------------------
(* How the daemon keeps the status of panes whose agents do not report it:    *)
(* by reading their screens (capture-pane) when tmux says there was output,   *)
(* through a cache with a time to live, with a timer that reads active panes  *)
(* again, and with the reconcile as the last resort.                          *)
(*                                                                            *)
(* Time passes in ticks of one second, the rate at which tmux looks at its    *)
(* subscriptions. The daemon does what is due before the next tick.           *)
EXTENDS Integers, FiniteSets

CONSTANTS
  Polled,        \* the panes whose status is read
  Mixes,         \* which agents may run in the panes: functions to Providers
  TTL,           \* PANE_OUTPUT_STATUS_CACHE_TTL, 2 s
  SETTLE,        \* PANE_OUTPUT_SETTLE_DELAY, 2.2 s: due at the third tick
  RECONCILE,     \* stands for the 300 s or 30 s of reconcile_interval_for
  MaxFailures    \* captures that fail in a behaviour

Providers == {"Claude", "Codex", "Gemini", "Hermes"}
Kinds == {"Idle", "Busy", "Waiting", "Unknown"}
Sources == {"NotChecked", "TmuxTitle", "PaneOutput"}
Titles == {"none", "idle", "busy"}

ASSUME PollingAssumption ==
  /\ IsFiniteSet(Polled) /\ Mixes \subseteq [Polled -> Providers]
  /\ TTL \in Nat /\ SETTLE \in Nat /\ RECONCILE \in Nat /\ MaxFailures \in Nat
  /\ 0 < SETTLE /\ 0 < TTL /\ TTL < RECONCILE

VARIABLES
  provider,   \* the agent of each pane
  work,       \* what the agent's screen says it does
  said,      \* what its title says, "none" when nothing
  steady,     \* ticks since the agent changed or a capture of it failed (saturates)
  output,     \* panes with output tmux has not looked at
  stamped,    \* panes whose last output was reported in this second
  retitled,   \* panes whose title changed since tmux last looked
  activity,   \* panes with an unhandled agentscan-activity event
  metadata,   \* panes with an unhandled agentscan event
  status,     \* the statuses of the daemon's snapshot
  cache,      \* the entries of PaneOutputStatusCache
  settle,     \* ticks until settle_recapture_at, Off when None
  reconcile,  \* ticks until next_reconcile_at
  failures    \* captures that have failed

world == <<provider, work, said, output, stamped, retitled>>
daemon == <<status, cache, settle, reconcile, failures>>
pollingVars == <<world, daemon, steady, activity, metadata>>

Off == -1
Longest == RECONCILE + TTL + 1

-----------------------------------------------------------------------------
(* Reading a pane                                                            *)

Status(kind, source) == [kind |-> kind, source |-> source]

\* The status a row has before its screen is read. Hermes has no titles;
\* Codex only says that it is busy.
TitleStatus(p, t) ==
  IF t = "busy" /\ provider[p] # "Hermes" THEN Status("Busy", "TmuxTitle")
  ELSE IF t = "idle" /\ provider[p] \in {"Claude", "Gemini"} THEN Status("Idle", "TmuxTitle")
  ELSE Status("Unknown", "NotChecked")

CanFillUnknown(s) == s = Status("Unknown", "NotChecked")

CanRefineIdle(p, s) == provider[p] \in {"Claude", "Gemini"} /\ s = Status("Idle", "TmuxTitle")
CanRefineWaiting(p, s) == provider[p] \in {"Claude", "Codex"} /\ s = Status("Busy", "TmuxTitle")

FallbackCandidate(p, s) == CanFillUnknown(s) \/ CanRefineIdle(p, s) \/ CanRefineWaiting(p, s)

ActivityCandidate(p, s) == s.source = "PaneOutput" \/ FallbackCandidate(p, s)

Cacheable(p) == provider[p] # "Gemini"

\* The verdict of the matchers on the screen, if the row's status admits it.
Judged(p, s, seen) ==
  IF \/ CanFillUnknown(s)
     \/ CanRefineIdle(p, s) /\ seen \in {"Busy", "Waiting"}
     \/ CanRefineWaiting(p, s) /\ seen = "Waiting"
  THEN Status(seen, "PaneOutput")
  ELSE s

\* What a reading without a cache and without a failure would give now.
Fresh(p) == LET s == TitleStatus(p, said[p])
            IN IF FallbackCandidate(p, s) THEN Judged(p, s, work[p]) ELSE s

Entry(t, k, age) == [title |-> t, kind |-> k, age |-> age]
NoEntry == Entry("none", "Unknown", -1)

\* prune_expired: an entry past its time to live is never used again.
Aged(c) == IF c.age \in 0..(TTL - 1) THEN Entry(c.title, c.kind, c.age + 1) ELSE NoEntry

\* fresh_entry: the entry is for the row as it is now.
Hit(p, c) == Cacheable(p) /\ c # NoEntry /\ c.title = said[p]

\* The row's status by the cache: an entry of "Unknown" says that the screen adds nothing.
Remembered(p, c) ==
  IF c.kind = "Unknown" THEN TitleStatus(p, said[p]) ELSE Status(c.kind, "PaneOutput")

Reads(p, c) == FallbackCandidate(p, TitleStatus(p, said[p])) /\ ~Hit(p, c)

\* What one refresh of a pane leaves as its status ...
ReadStatus(p, c, captured) ==
  IF Reads(p, c) /\ ~captured THEN TitleStatus(p, said[p])
  ELSE IF FallbackCandidate(p, TitleStatus(p, said[p])) /\ Hit(p, c) THEN Remembered(p, c)
  ELSE Fresh(p)

\* ... and as its cache entry.
ReadEntry(p, c, captured) ==
  IF Reads(p, c) /\ captured /\ Cacheable(p)
  THEN Entry(said[p], IF Fresh(p).source = "PaneOutput" THEN Fresh(p).kind ELSE "Unknown", 0)
  ELSE c

-----------------------------------------------------------------------------
(* The settle timer                                                          *)

Active(s) == s.source = "PaneOutput" /\ s.kind \in {"Busy", "Waiting"}

\* Mutant: every refresh pushes the deadline out again.
SettleAlwaysRearmed(st, current) == IF \E p \in Polled : Active(st[p]) THEN SETTLE ELSE Off

\* next_settle_deadline: armed once, then left alone until it fires.
NextSettle(st, current) ==
  IF \A p \in Polled : ~Active(st[p]) THEN Off
  ELSE IF current = Off THEN SETTLE ELSE current

\* Refresh the panes of ps, with the cache as given; the captures of the
\* panes in broken fail. The deadline is computed again after every refresh.
Refresh(ps, entries, current) ==
  \E broken \in SUBSET {p \in ps : Reads(p, entries[p])} :
    /\ failures + Cardinality(broken) <= MaxFailures
    /\ failures' = failures + Cardinality(broken)
    /\ steady' = [p \in Polled |-> IF p \in broken THEN 0 ELSE steady[p]]
    /\ status' = [p \in Polled |-> IF p \in ps THEN ReadStatus(p, entries[p], p \notin broken)
                                  ELSE status[p]]
    /\ cache' = [p \in Polled |-> IF p \in ps THEN ReadEntry(p, entries[p], p \notin broken)
                                 ELSE entries[p]]
    /\ settle' = NextSettle(status', current)

-----------------------------------------------------------------------------
(* Agents                                                                    *)

TitlesOf(p) == CASE provider[p] = "Hermes" -> {"none"}
                 [] provider[p] = "Codex" -> {"none", "busy"}
                 [] OTHER -> Titles

\* An agent that is idle does not say that it is busy; the other way round, titles lag.
Painted(p, w) == IF w = "Idle" THEN TitlesOf(p) \ {"busy"} ELSE TitlesOf(p)

\* The agent goes on to something else, at most once between two ticks: it
\* draws, and perhaps sets its title.
AgentStep(p) ==
  /\ steady[p] > 0
  /\ \E w \in {"Idle", "Busy", "Waiting"} \ {work[p]} : \E t \in Painted(p, w) :
       /\ work' = [work EXCEPT ![p] = w]
       /\ said' = [said EXCEPT ![p] = t]
       /\ retitled' = IF t # said[p] THEN retitled \cup {p} ELSE retitled
  /\ steady' = [steady EXCEPT ![p] = 0]
  /\ output' = output \cup {p}
  /\ UNCHANGED <<provider, stamped, daemon, activity, metadata>>

Due == settle = 0 \/ reconcile = 0 \/ activity # {} \/ metadata # {}

\* A second passes. window_activity is a number of seconds: output in the
\* second of the previous report does not change it, and is not reported.
Tick ==
  /\ ~Due
  /\ \E unseen \in SUBSET (output \cap stamped) :
       /\ activity' = output \ unseen
       /\ stamped' = output \ unseen
  /\ metadata' = retitled
  /\ retitled' = {}
  /\ output' = {p \in Polled : work[p] = "Busy"}      \* spinners turn
  /\ steady' = [p \in Polled |-> IF steady[p] < Longest THEN steady[p] + 1 ELSE Longest]
  /\ cache' = [p \in Polled |-> Aged(cache[p])]
  /\ settle' = IF settle = Off THEN Off ELSE settle - 1
  /\ reconcile' = reconcile - 1
  /\ UNCHANGED <<provider, work, said, status, failures>>

-----------------------------------------------------------------------------
(* The daemon                                                                *)

\* One batch: metadata refreshes every pane it names, activity only those a
\* screen could say something about.
ApplyBatch ==
  /\ activity \cup metadata # {}
  /\ Refresh(metadata \cup {p \in activity : ActivityCandidate(p, status[p])}, cache, settle)
  /\ activity' = {}
  /\ metadata' = {}
  /\ UNCHANGED <<world, reconcile>>

\* Reconcile: the rows of all panes.
ApplyReconcile ==
  /\ reconcile = 0
  /\ Refresh(Polled, cache, settle)
  /\ reconcile' = RECONCILE
  /\ UNCHANGED <<world, activity, metadata>>

ActivePanes == {p \in Polled : Active(status[p])}

\* The deadline is cleared, and the entries of the active panes dropped, before
\* they are read again.
SettleRecapture ==
  /\ settle = 0
  /\ Refresh(ActivePanes, [p \in Polled |-> IF p \in ActivePanes THEN NoEntry ELSE cache[p]], Off)
  /\ UNCHANGED <<world, reconcile, activity, metadata>>

PollingInit ==
  /\ provider \in Mixes
  /\ work = [p \in Polled |-> "Idle"]
  /\ said = [p \in Polled |-> "none"]
  /\ steady = [p \in Polled |-> 0]
  /\ output = {} /\ stamped = {} /\ retitled = {} /\ activity = {} /\ metadata = {}
  /\ status = [p \in Polled |-> Fresh(p)]
  /\ cache = [p \in Polled |-> NoEntry]
  /\ settle = Off
  /\ reconcile = RECONCILE
  /\ failures = 0

PollingNext == \/ \E p \in Polled : AgentStep(p)
        \/ Tick \/ ApplyBatch \/ ApplyReconcile \/ SettleRecapture

PollingSpec == PollingInit /\ [][PollingNext]_pollingVars

-----------------------------------------------------------------------------
(* Properties                                                                *)

TypeOK ==
  /\ provider \in Mixes
  /\ work \in [Polled -> {"Idle", "Busy", "Waiting"}] /\ said \in [Polled -> Titles]
  /\ steady \in [Polled -> 0..Longest]
  /\ output \subseteq Polled /\ stamped \subseteq Polled /\ retitled \subseteq Polled
  /\ activity \subseteq Polled /\ metadata \subseteq Polled
  /\ status \in [Polled -> [kind : Kinds, source : Sources]]
  /\ cache \in [Polled -> [title : Titles, kind : Kinds, age : -1..TTL]]
  /\ settle \in Off..SETTLE /\ reconcile \in 0..RECONCILE /\ failures \in 0..MaxFailures

Wrong(p) == status[p] # Fresh(p)

\* A pane the screen says is busy or asking, and which has changed since, is
\* corrected within the settle delay, whatever the other panes do meanwhile:
\* no tmux event reports a prompt that just stays there. The delay counts from
\* the moment it is shown so, which is after the change if the cache remembered
\* it from before a capture that failed.
ActiveReadsHeal == \A p \in Polled : Active(status[p]) /\ Wrong(p) => steady[p] <= SETTLE + TTL

\* An agent that has been drawing its spinner long enough for the cached status
\* to expire is shown busy, two ticks later at most as every second event may be
\* missing.
WorkIsSeen ==
  \A p \in Polled : work[p] = "Busy" /\ steady[p] > TTL + 2 => status[p].kind = "Busy"

\* Nothing stays wrong for longer than a reconcile interval, plus the time a
\* cached status may hide it from the reconcile itself.
ReconcileHeals == \A p \in Polled : Wrong(p) => steady[p] < Longest

\* Whatever is wrong is put right: soon when the screen had said that the agent is at
\* work or asks, within two ticks when it draws that it is at work, with the next
\* reconcile otherwise.
WrongStatusesHeal == ActiveReadsHeal /\ WorkIsSeen /\ ReconcileHeals
=============================================================================
