------------------------- MODULE SubscriberCoverage -------------------------
(***************************************************************************)
(* Who tells the daemon about the sessions that its primary client is not  *)
(* attached to.  Every other session has an event-only control client, up  *)
(* to a cap; the set is derived again whenever tmux says that its sessions *)
(* changed, when a client's process is found dead, and after each periodic *)
(* listing.  How soon that listing comes depends on what the events cover: *)
(* every second while the broker is broken, on the active interval while a *)
(* session has no client, else on the rare self-heal interval.             *)
(*                                                                         *)
(* Time passes in ticks of the monitor interval, and only while the run    *)
(* loop waits: whatever is due or has arrived is handled within its tick.  *)
(* Session numbers stand for tmux's session ids, which are never reused.   *)
(***************************************************************************)
EXTENDS Naturals, FiniteSets

CONSTANTS
  OtherSessions,   \* all besides the primary one that may ever exist, in the
                   \* order they are created
  Starts,          \* which of them may be there at the start
  MAX_CONTROL_MODE_SUBSCRIBERS,
  FallbackInterval, ActiveInterval, SelfHealInterval, MonitorInterval,
  DisableReconcile,
  MaxCoverageFaults,  \* bound: processes that die, commands that fail
  MaxEvents        \* bound: control events that say nothing about the set of sessions

ASSUME CoverageAssumption ==
  /\ OtherSessions \subseteq Nat \ {0} /\ \A start \in Starts : start \subseteq OtherSessions
  /\ MAX_CONTROL_MODE_SUBSCRIBERS \in Nat
  /\ MonitorInterval \in Nat /\ FallbackInterval \in Nat
  /\ ActiveInterval \in Nat /\ SelfHealInterval \in Nat
  /\ 0 < MonitorInterval /\ MonitorInterval <= FallbackInterval
  /\ FallbackInterval <= ActiveInterval /\ ActiveInterval <= SelfHealInterval
  /\ DisableReconcile \in BOOLEAN

VARIABLES
  live,          \* the sessions of the server, without the primary one
  created,       \* those created so far
  subscriber,    \* per session: its control client's process
  notices,       \* who still has a "%sessions-changed" on its way to the loop
  brokerOn,      \* broker_health.enabled
  coverage,      \* subscriber_coverage_complete
  reconcileIn,   \* ticks to next_reconcile_at
  monitorIn,     \* ticks to next_subscriber_monitor_at, or Never
  loopPhase,     \* what the run loop does
  request,       \* the refresh it does it for
  desired,       \* the sessions of the last enumeration
  blind,         \* per session: ticks without client or listing (history)
  unlisted,      \* ticks since the last full listing (history)
  missed,        \* a notice was dropped and no enumeration follows (history)
  coverageFaults, events

tmuxState == <<live, created, subscriber>>
timers == <<reconcileIn, monitorIn>>
history == <<blind, unlisted, missed>>
coverageVars == <<tmuxState, notices, brokerOn, coverage, timers, loopPhase, request, desired,
                  history, coverageFaults, events>>

Never == SelfHealInterval + 1
PrimaryClient == 0
Up == {s \in OtherSessions : subscriber[s] = "up"}
HasSubscriber(s) == subscriber[s] # "none"
CoverageFault == coverageFaults < MaxCoverageFaults /\ coverageFaults' = coverageFaults + 1
Smaller(a, b) == IF a < b THEN a ELSE b

(***************************************************************************)
(* tmux and its processes.  Every control client is told that the set of   *)
(* sessions changed; the client of a session that ends exits by itself.    *)
(***************************************************************************)
Tell(listeners) == notices' = notices \cup {PrimaryClient} \cup listeners

CreateSession ==
  /\ \E s \in OtherSessions \ created :
       /\ \A t \in OtherSessions \ created : s <= t
       /\ live' = live \cup {s} /\ created' = created \cup {s}
  /\ Tell(Up)
  /\ UNCHANGED <<subscriber, brokerOn, coverage, timers, loopPhase, request, desired,
                 history, coverageFaults, events>>

KillSession(s) ==
  /\ s \in live
  /\ live' = live \ {s}
  /\ subscriber' = [subscriber EXCEPT ![s] = IF @ = "up" THEN "dead" ELSE @]
  /\ Tell(Up \ {s})
  /\ blind' = [blind EXCEPT ![s] = 0]
  /\ UNCHANGED <<created, brokerOn, coverage, timers, loopPhase, request, desired, unlisted,
                 missed, coverageFaults, events>>

SubscriberDies(s) ==
  /\ subscriber[s] = "up" /\ CoverageFault
  /\ subscriber' = [subscriber EXCEPT ![s] = "dead"]
  /\ UNCHANGED <<live, created, notices, brokerOn, coverage, timers, loopPhase, request,
                 desired, history, events>>

(***************************************************************************)
(* The listing of all sessions, and what depends on its success.           *)
(***************************************************************************)
ReconcileInterval(on, complete) ==
  IF ~on THEN FallbackInterval
  ELSE IF DisableReconcile /\ complete THEN SelfHealInterval
  ELSE ActiveInterval

Listed == unlisted' = 0 /\ blind' = [s \in OtherSessions |-> 0]

ResetTimer(on) == reconcileIn' = ReconcileInterval(on, coverage)

(* A refresh has read its rows, through the broker or, if that failed,     *)
(* through short-lived commands: a broker that is disabled is replaced     *)
(* next, except in a settle pass.  A periodic listing restarts its timer.  *)
RefreshFor(kind, listing) ==
  /\ loopPhase = "idle"
  /\ request' = kind
  /\ IF listing THEN Listed ELSE UNCHANGED <<blind, unlisted>>
  /\ \/ UNCHANGED <<brokerOn, coverageFaults>>
     \/ brokerOn /\ CoverageFault /\ brokerOn' = FALSE
  /\ UNCHANGED <<tmuxState, coverage, monitorIn, desired, missed>>

AfterRefresh(kind) ==
  IF brokerOn'
    THEN /\ IF kind = "interval" THEN ResetTimer(brokerOn') ELSE UNCHANGED reconcileIn
         /\ loopPhase' = IF kind \in {"interval", "sessions"} THEN "enumerate" ELSE "idle"
    ELSE /\ UNCHANGED reconcileIn
         /\ loopPhase' = IF kind = "settle" THEN "idle"
                     ELSE IF brokerOn THEN "recoverLost" ELSE "recover"

PeriodicListing ==
  /\ reconcileIn = 0
  /\ RefreshFor("interval", TRUE) /\ AfterRefresh("interval")
  /\ UNCHANGED <<notices, events>>

SessionsChanged ==
  /\ notices # {}
  /\ RefreshFor("sessions", TRUE) /\ AfterRefresh("sessions")
  /\ \E seen \in SUBSET notices : seen # {} /\ notices' = notices \ seen
  /\ UNCHANGED events

ControlEvent ==
  /\ events < MaxEvents /\ events' = events + 1
  /\ RefreshFor("event", FALSE) /\ AfterRefresh("event")
  /\ UNCHANGED notices

ClientEvent ==
  /\ events < MaxEvents /\ events' = events + 1
  /\ RefreshFor("focus", FALSE) /\ AfterRefresh("focus")
  /\ UNCHANGED notices

SettleRecapture ==
  /\ events < MaxEvents /\ events' = events + 1
  /\ RefreshFor("settle", FALSE) /\ AfterRefresh("settle")
  /\ UNCHANGED notices

(***************************************************************************)
(* recover_broker_and_reconcile_if_needed: what the old primary client had *)
(* sent is dropped, the lines of the others are kept; then a new client    *)
(* and a full listing.  A control event's refresh restarts the timer when  *)
(* it lost or got back the broker, a client event's never does.            *)
(***************************************************************************)
RestartsTimer(reconnected) ==
  \/ request = "interval"
  \/ request \in {"sessions", "event"} /\ (reconnected \/ loopPhase = "recoverLost")

AfterRecovery(reconnected) ==
  /\ IF RestartsTimer(reconnected) THEN ResetTimer(reconnected) ELSE UNCHANGED reconcileIn
  /\ loopPhase' = IF request \in {"interval", "sessions"} THEN "enumerate" ELSE "idle"

DropPrimaryLines ==
  /\ notices' = notices \ {PrimaryClient}
  /\ missed' = (missed \/ (notices = {PrimaryClient} /\ request \in {"event", "focus"}))

Recovered ==
  /\ loopPhase \in {"recover", "recoverLost"}
  /\ brokerOn' = TRUE
  /\ DropPrimaryLines
  /\ Listed
  /\ AfterRecovery(TRUE)
  /\ UNCHANGED <<tmuxState, coverage, monitorIn, request, desired, coverageFaults, events>>

RecoveryFails ==
  /\ loopPhase \in {"recover", "recoverLost"}
  /\ CoverageFault
  /\ DropPrimaryLines
  /\ AfterRecovery(FALSE)
  /\ UNCHANGED <<tmuxState, brokerOn, coverage, monitorIn, request, desired, blind,
                 unlisted, events>>

(***************************************************************************)
(* reconcile_subscribers: prune, enumerate, keep the lowest, attach.       *)
(***************************************************************************)
Capped(ss) == {s \in ss : Cardinality({t \in ss : t < s}) < MAX_CONTROL_MODE_SUBSCRIBERS}
Keep(ss) == Capped(ss)

(* reconcile_subscriber_clients: the listing may come sooner, never later. *)
RearmAnew(clients, complete) ==
  /\ monitorIn' = IF \E s \in OtherSessions : clients[s] # "none" THEN MonitorInterval ELSE Never
  /\ reconcileIn' = ReconcileInterval(brokerOn, complete)
Rearm(clients, complete) ==
  /\ monitorIn' = IF \E s \in OtherSessions : clients[s] # "none" THEN MonitorInterval ELSE Never
  /\ reconcileIn' = Smaller(reconcileIn, ReconcileInterval(brokerOn, complete))

PrunedNever == subscriber
Pruned == [s \in OtherSessions |-> IF subscriber[s] = "dead" THEN "none" ELSE subscriber[s]]

Enumerate ==
  /\ loopPhase = "enumerate"
  /\ desired' = live
  /\ subscriber' = [s \in OtherSessions |-> IF s \in Keep(live) THEN Pruned[s] ELSE "none"]
  /\ loopPhase' = "attach"
  /\ UNCHANGED <<live, created, notices, brokerOn, coverage, timers, request, history,
                 coverageFaults, events>>

EnumerationFails ==
  /\ loopPhase = "enumerate" /\ CoverageFault
  /\ desired' = {}
  /\ subscriber' = Pruned
  /\ coverage' = FALSE
  /\ Rearm(subscriber', FALSE)
  /\ loopPhase' = "idle"
  /\ UNCHANGED <<live, created, notices, brokerOn, request, history, events>>

(* A session that is gone by now, and one whose client does not start, get *)
(* no client.                                                              *)
CompleteIfAttached(attached) == \A s \in Capped(desired) : attached[s] # "none"
Complete(attached) ==
  /\ Cardinality(desired) <= MAX_CONTROL_MODE_SUBSCRIBERS
  /\ \A s \in desired : attached[s] # "none"

AttachedTo(sessions) ==
  [s \in OtherSessions |-> IF s \in sessions /\ ~HasSubscriber(s) THEN "up" ELSE subscriber[s]]
Attach ==
  /\ loopPhase = "attach"
  /\ \E failed \in {{}} \cup {{s} : s \in Keep(desired) \cap live} :
       /\ IF failed = {} THEN UNCHANGED coverageFaults ELSE CoverageFault
       /\ subscriber' = AttachedTo((Keep(desired) \cap live) \ failed)
  /\ coverage' = Complete(subscriber')
  /\ Rearm(subscriber', coverage')
  /\ blind' = [s \in OtherSessions |-> IF subscriber'[s] = "up" THEN 0 ELSE blind[s]]
  /\ loopPhase' = "idle"
  /\ UNCHANGED <<live, created, notices, brokerOn, request, desired, unlisted, missed,
                 events>>

(* A dead client is found by the monitor, or when the loop waited in vain. *)
HasDeadSubscriber == \E s \in OtherSessions : subscriber[s] = "dead"

Monitor ==
  /\ loopPhase = "idle" /\ monitorIn = 0
  /\ IF HasDeadSubscriber
       THEN loopPhase' = "enumerate" /\ UNCHANGED monitorIn
       ELSE /\ monitorIn' = IF Up # {} THEN MonitorInterval ELSE Never
            /\ UNCHANGED loopPhase
  /\ request' = "monitor"
  /\ UNCHANGED <<tmuxState, notices, brokerOn, coverage, reconcileIn, desired, history,
                 coverageFaults, events>>

WaitEnds ==
  /\ loopPhase = "idle" /\ notices = {} /\ HasDeadSubscriber
  /\ loopPhase' = "enumerate"
  /\ request' = "monitor"
  /\ UNCHANGED <<tmuxState, notices, brokerOn, coverage, timers, desired, history,
                 coverageFaults, events>>

(***************************************************************************)
(* The loop waits: a tick of time.                                         *)
(***************************************************************************)
Tick ==
  /\ loopPhase = "idle" /\ notices = {}
  /\ reconcileIn > 0 /\ monitorIn > 0
  /\ reconcileIn' = reconcileIn - 1
  /\ monitorIn' = IF monitorIn = Never THEN Never ELSE monitorIn - 1
  /\ blind' = [s \in OtherSessions |->
                 IF s \in live /\ subscriber[s] # "up" THEN blind[s] + 1 ELSE 0]
  /\ unlisted' = unlisted + 1
  /\ UNCHANGED <<tmuxState, notices, brokerOn, coverage, loopPhase, request, desired,
                 missed, coverageFaults, events>>

CoverageInit ==
  /\ live \in Starts /\ created = live
  /\ subscriber = [s \in OtherSessions |-> "none"]
  /\ notices = {}
  /\ brokerOn = TRUE /\ coverage = TRUE
  /\ reconcileIn = SelfHealInterval /\ monitorIn = Never
  /\ loopPhase = "enumerate" /\ request = "start" /\ desired = {}
  /\ blind = [s \in OtherSessions |-> 0] /\ unlisted = 0
  /\ missed = FALSE /\ coverageFaults = 0 /\ events = 0

TmuxStep == CreateSession \/ \E s \in OtherSessions : KillSession(s) \/ SubscriberDies(s)

LoopStep ==
  \/ PeriodicListing \/ SessionsChanged \/ ControlEvent \/ ClientEvent \/ SettleRecapture
  \/ Recovered \/ RecoveryFails \/ Enumerate \/ EnumerationFails \/ Attach
  \/ Monitor \/ WaitEnds

CoverageNext == TmuxStep \/ LoopStep \/ Tick

CoverageSpec == CoverageInit /\ [][CoverageNext]_coverageVars
(* The run loop goes on: a step it can take without anything failing or    *)
(* arriving is taken in the end, and time passes while it waits.           *)
CoverageFairSpec ==
  /\ CoverageSpec
  /\ WF_coverageVars(PeriodicListing) /\ WF_coverageVars(SessionsChanged)
  /\ WF_coverageVars(Recovered) /\ WF_coverageVars(Enumerate) /\ WF_coverageVars(Attach)
  /\ WF_coverageVars(Monitor) /\ WF_coverageVars(Tick)

-----------------------------------------------------------------------------
(* No session is out of sight for long: a live session is, without a break *)
(* longer than the active interval, the time to find a dead client and the *)
(* one short interval that the loss of the broker costs, either listed or  *)
(* watched by a client, whatever dies or fails to start: the daemon        *)
(* relaxes to the self-heal interval only when every session has a client. *)
(* It can fail only after the replacement of the broker has dropped the    *)
(* one notice of a session set that changed meanwhile.                     *)
Seen(s) == blind[s] <= ActiveInterval + MonitorInterval + FallbackInterval
NeverStarved == ~missed => \A s \in live : Seen(s)

(* "Broker fallback (no event stream at all) always keeps the fast 1s       *)
(* reconcile" (docs/daemon-operations.md:159): while the broker is broken, *)
(* the poll is the only source of news and comes every second.  The code   *)
(* breaks it: a settle pass that loses the broker neither replaces it nor  *)
(* restarts the timer, and a client event whose replacement fails restarts *)
(* no timer either, so that the listing waits out the old interval.        *)
FallbackIsFast ==
  loopPhase = "idle" /\ ~brokerOn => reconcileIn <= FallbackInterval

(* Nothing that restarts the timer can put off the full listing: losing    *)
(* the broker at the moment it was due costs one short interval, once.     *)
ListedInTime == unlisted <= SelfHealInterval + FallbackInterval

(* Once nothing more fails or changes, the lowest sessions all get their   *)
(* clients and keep them, and what the daemon says about its coverage is   *)
(* true.                                                                   *)
CoverageIsRegained ==
  <>[](/\ \A s \in Capped(live) : subscriber[s] = "up"
       /\ loopPhase = "idle" => (coverage <=> live \subseteq Up))
=============================================================================
