-------------------------- MODULE ObservationProofs --------------------------
(***************************************************************************)
(* Proofs about what the daemon sees: SubscriberCoverage, which sessions,  *)
(* for any sessions, any cap and any intervals, and without a bound on     *)
(* what dies or fails; and PaneIdentity, which agents, for any programs    *)
(* that can be told apart.                                                 *)
(***************************************************************************)
EXTENDS SubscriberCoverage, PaneIdentity, NaturalsInduction, WellFoundedInduction, TLAPS

------------------------------------------------------------------------------
(* Type correctness                                                        *)

Phases == {"idle", "enumerate", "attach", "recover", "recoverLost"}
Requests == {"start", "interval", "sessions", "event", "focus", "settle", "monitor"}
Recovering == loopPhase \in {"recover", "recoverLost"}

(* The shape of the state; the monitor is armed while there are clients.   *)
TypeOK ==
  /\ live \subseteq OtherSessions
  /\ subscriber \in [OtherSessions -> {"none", "up", "dead"}]
  /\ brokerOn \in BOOLEAN /\ coverage \in BOOLEAN /\ missed \in BOOLEAN
  /\ reconcileIn \in 0..SelfHealInterval
  /\ monitorIn \in (0..MonitorInterval) \cup {Never}
  /\ loopPhase \in Phases /\ request \in Requests
  /\ blind \in [OtherSessions -> Nat] /\ unlisted \in Nat
  /\ \A s \in OtherSessions : HasSubscriber(s) => monitorIn # Never

------------------------------------------------------------------------------
(* What the actions have in common                                         *)

(* A reset of the timer after a refresh or a recovery. *)
LEMMA ResetType ==
  ASSUME coverage \in BOOLEAN, NEW on \in BOOLEAN, ResetTimer(on)
  PROVE  /\ reconcileIn' \in FallbackInterval..SelfHealInterval
         /\ ~on => reconcileIn' = FallbackInterval
         /\ ~coverage => reconcileIn' <= ActiveInterval
BY CoverageAssumption DEF ResetTimer, ReconcileInterval

(* A rearmed timer fires no later than before. *)
Rearmed(complete) ==
  /\ reconcileIn' \in 0..SelfHealInterval /\ reconcileIn' <= reconcileIn
  /\ ~complete => reconcileIn' <= ActiveInterval
  /\ ~brokerOn => reconcileIn' <= FallbackInterval
  /\ monitorIn' \in {MonitorInterval, Never}
  /\ \A s \in OtherSessions : subscriber'[s] # "none" => monitorIn' = MonitorInterval

LEMMA RearmType ==
  ASSUME TypeOK, EnumerationFails \/ Attach
  PROVE  Rearmed(coverage') /\ coverage' \in BOOLEAN
<1>1. coverage' \in BOOLEAN /\ Rearm(subscriber', coverage')
  BY DEF EnumerationFails, Attach, Complete
<1> DEFINE i == ReconcileInterval(brokerOn, coverage')
<1>2. /\ i \in FallbackInterval..SelfHealInterval
      /\ ~coverage' => i <= ActiveInterval
      /\ ~brokerOn => i = FallbackInterval
  BY <1>1, CoverageAssumption DEF TypeOK, ReconcileInterval
<1>3. reconcileIn' = Smaller(reconcileIn, i)
  BY <1>1 DEF Rearm
<1> HIDE DEF i
<1>4. /\ reconcileIn' \in 0..SelfHealInterval /\ reconcileIn' <= reconcileIn
      /\ ~coverage' => reconcileIn' <= ActiveInterval
      /\ ~brokerOn => reconcileIn' <= FallbackInterval
  BY <1>2, <1>3, CoverageAssumption DEF TypeOK, Smaller
<1> QED
  BY <1>1, <1>4 DEF Rearm, Rearmed

LEMMA TypeInit == CoverageInit => TypeOK
<1> SUFFICES ASSUME CoverageInit PROVE TypeOK
  OBVIOUS
<1>1. /\ subscriber \in [OtherSessions -> {"none", "up", "dead"}]
      /\ \A s \in OtherSessions : subscriber[s] = "none"
  BY DEF CoverageInit
<1>2. blind \in [OtherSessions -> Nat]
  BY DEF CoverageInit
<1>3. /\ reconcileIn \in 0..SelfHealInterval /\ monitorIn = Never
      /\ loopPhase \in Phases /\ request \in Requests
  BY CoverageAssumption DEF CoverageInit, Phases, Requests
<1> QED
  BY <1>1, <1>2, <1>3, CoverageAssumption DEF CoverageInit, TypeOK, HasSubscriber

LEMMA RefreshType ==
  ASSUME TypeOK, NEW kind \in Requests, NEW listing \in BOOLEAN,
         RefreshFor(kind, listing), AfterRefresh(kind)
  PROVE  TypeOK'
<1> USE DEF TypeOK
<1>1. blind' \in [OtherSessions -> Nat] /\ unlisted' \in Nat
  <2>1. CASE listing
    BY <2>1 DEF RefreshFor, Listed
  <2>2. CASE ~listing
    BY <2>2 DEF RefreshFor
  <2> QED
    BY <2>1, <2>2
<1>3. brokerOn' \in BOOLEAN
  BY DEF RefreshFor
<1>2. reconcileIn' \in 0..SelfHealInterval
  BY <1>3, ResetType, CoverageAssumption DEF AfterRefresh
<1> QED
  BY <1>1, <1>2, <1>3 DEF RefreshFor, AfterRefresh, tmuxState, Phases, HasSubscriber

LEMMA RecoveryType ==
  ASSUME TypeOK, NEW on \in BOOLEAN, AfterRecovery(on)
  PROVE  reconcileIn' \in 0..SelfHealInterval /\ loopPhase' \in Phases
BY ResetType, CoverageAssumption DEF TypeOK, AfterRecovery, Phases

LEMMA TypeStep == TypeOK /\ [CoverageNext]_coverageVars => TypeOK'
<1> SUFFICES ASSUME TypeOK, [CoverageNext]_coverageVars PROVE TypeOK'
  OBVIOUS
<1> USE DEF TypeOK
<1>1. CASE UNCHANGED coverageVars
  BY <1>1 DEF coverageVars, tmuxState, timers, history, HasSubscriber
<1>2. CASE CreateSession
  BY <1>2 DEF CreateSession, timers, history, HasSubscriber
<1>3. ASSUME NEW s \in OtherSessions, KillSession(s) \/ SubscriberDies(s) PROVE TypeOK'
  BY <1>3 DEF KillSession, SubscriberDies, timers, history, HasSubscriber
<1>4. CASE PeriodicListing \/ SessionsChanged \/ ControlEvent \/ ClientEvent
           \/ SettleRecapture
  BY <1>4, RefreshType
     DEF PeriodicListing, SessionsChanged, ControlEvent, ClientEvent, SettleRecapture, Requests
<1>5. CASE Recovered
  <2>1. reconcileIn' \in 0..SelfHealInterval /\ loopPhase' \in Phases
    BY <1>5, RecoveryType DEF Recovered
  <2>2. blind' \in [OtherSessions -> Nat] /\ unlisted' \in Nat /\ missed' \in BOOLEAN
    BY <1>5 DEF Recovered, Listed, DropPrimaryLines
  <2> QED
    BY <1>5, <2>1, <2>2 DEF Recovered, tmuxState, HasSubscriber
<1>6. CASE RecoveryFails
  <2>1. reconcileIn' \in 0..SelfHealInterval /\ loopPhase' \in Phases
    BY <1>6, RecoveryType DEF RecoveryFails
  <2>2. missed' \in BOOLEAN
    BY <1>6 DEF RecoveryFails, DropPrimaryLines
  <2> QED
    BY <1>6, <2>1, <2>2 DEF RecoveryFails, tmuxState, HasSubscriber
<1>7. CASE Enumerate
  <2>1. subscriber' \in [OtherSessions -> {"none", "up", "dead"}]
    BY <1>7 DEF Enumerate, Pruned
  <2>2. \A s \in OtherSessions : subscriber'[s] # "none" => subscriber[s] # "none"
    BY <1>7 DEF Enumerate, Pruned
  <2> QED
    BY <1>7, <2>1, <2>2 DEF Enumerate, timers, history, Phases, HasSubscriber
<1>8. CASE EnumerationFails
  <2>1. subscriber' \in [OtherSessions -> {"none", "up", "dead"}]
    BY <1>8 DEF EnumerationFails, Pruned
  <2>2. Rearmed(coverage') /\ coverage' \in BOOLEAN
    BY <1>8, RearmType
  <2>3. monitorIn' \in (0..MonitorInterval) \cup {Never}
    BY <2>2, CoverageAssumption DEF Rearmed
  <2>4. \A s \in OtherSessions : subscriber'[s] # "none" => monitorIn' # Never
    BY <2>2, CoverageAssumption DEF Rearmed, Never
  <2> QED
    BY <1>8, <2>1, <2>2, <2>3, <2>4
       DEF EnumerationFails, Rearmed, history, Phases, HasSubscriber
<1>9. CASE Attach
  <2>1. subscriber' \in [OtherSessions -> {"none", "up", "dead"}]
    BY <1>9 DEF Attach, AttachedTo
  <2>2. blind' \in [OtherSessions -> Nat]
    BY <1>9 DEF Attach
  <2>3. Rearmed(coverage') /\ coverage' \in BOOLEAN
    BY <1>9, RearmType
  <2>4. monitorIn' \in (0..MonitorInterval) \cup {Never}
    BY <2>3, CoverageAssumption DEF Rearmed
  <2>5. \A s \in OtherSessions : subscriber'[s] # "none" => monitorIn' # Never
    BY <2>3, CoverageAssumption DEF Rearmed, Never
  <2> QED
    BY <1>9, <2>1, <2>2, <2>3, <2>4, <2>5 DEF Attach, Rearmed, Phases, HasSubscriber
<1>10. CASE Monitor \/ WaitEnds
  <2>1. monitorIn' \in (0..MonitorInterval) \cup {Never}
    BY <1>10, CoverageAssumption DEF Monitor, WaitEnds, timers
  <2>2. \A s \in OtherSessions : subscriber[s] # "none" => monitorIn' # Never
    <3> SUFFICES ASSUME NEW s \in OtherSessions, subscriber[s] # "none" PROVE monitorIn' # Never
      OBVIOUS
    <3>1. subscriber[s] = "up" \/ subscriber[s] = "dead"
      OBVIOUS
    <3>2. CASE UNCHANGED monitorIn
      BY <3>2 DEF HasSubscriber
    <3>3. CASE Up # {} /\ monitorIn' = MonitorInterval
      BY <3>3, CoverageAssumption DEF Never
    <3> QED
      BY <1>10, <3>1, <3>2, <3>3 DEF Monitor, WaitEnds, timers, HasDeadSubscriber, Up
  <2> QED
    BY <1>10, <2>1, <2>2
       DEF Monitor, WaitEnds, tmuxState, timers, history, Phases, Requests, HasSubscriber
<1>11. CASE Tick
  BY <1>11, CoverageAssumption DEF Tick, tmuxState, HasSubscriber, Never
<1> QED
  BY <1>1, <1>2, <1>3, <1>4, <1>5, <1>6, <1>7, <1>8, <1>9, <1>10, <1>11
     DEF CoverageNext, TmuxStep, LoopStep

(* The state has the shape that the code gives it, in every reachable      *)
(* state; in particular the monitor is armed while there is a client.      *)
THEOREM TypeCorrect == CoverageSpec => []TypeOK
BY TypeInit, TypeStep, PTL DEF CoverageSpec

------------------------------------------------------------------------------
(* The full listing comes in time                                          *)

(* Without a broker the timer may have been restarted once since the last  *)
(* listing, when the broker was lost, with the short interval.             *)
Debt == IF brokerOn \/ loopPhase = "recoverLost" THEN 0 ELSE FallbackInterval

Due ==
  /\ unlisted + reconcileIn <= SelfHealInterval + Debt
  /\ Recovering => ~brokerOn
  /\ Recovering /\ request = "interval" => unlisted = 0
TimerInv == TypeOK /\ Due

LEMMA TimerStep == TimerInv /\ [CoverageNext]_coverageVars => TimerInv'
<1> SUFFICES ASSUME TimerInv, [CoverageNext]_coverageVars PROVE TimerInv'
  OBVIOUS
<1>t. TypeOK /\ TypeOK'
  BY TypeStep DEF TimerInv
<1>c. FallbackInterval \in Nat /\ SelfHealInterval \in Nat /\ FallbackInterval <= SelfHealInterval
  BY CoverageAssumption
(* The new values get names of their own, which the provers can add up. *)
<1>s. SUFFICES ASSUME NEW u, NEW r, NEW d, NEW e,
                    u = unlisted', r = reconcileIn', d = Debt', e = Debt
             PROVE  /\ u + r <= SelfHealInterval + d
                    /\ (Recovering => ~brokerOn)'
                    /\ (Recovering /\ request = "interval")' => u = 0
  BY <1>t DEF TimerInv, Due
<1>i. /\ unlisted + reconcileIn <= SelfHealInterval + e
      /\ Recovering => ~brokerOn
      /\ Recovering /\ request = "interval" => unlisted = 0
  BY <1>s DEF TimerInv, Due
<1>n. /\ unlisted \in Nat /\ u \in Nat
      /\ reconcileIn \in Nat /\ reconcileIn <= SelfHealInterval
      /\ r \in Nat /\ r <= SelfHealInterval
      /\ brokerOn \in BOOLEAN /\ brokerOn' \in BOOLEAN
  BY <1>s, <1>t, <1>c DEF TypeOK
<1>d. /\ e \in Nat /\ e <= FallbackInterval /\ d \in Nat /\ d <= FallbackInterval
      /\ brokerOn \/ loopPhase = "recoverLost" => e = 0
      /\ brokerOn' \/ loopPhase' = "recoverLost" => d = 0
      /\ ~brokerOn /\ loopPhase # "recoverLost" => e = FallbackInterval
      /\ ~brokerOn' /\ loopPhase' # "recoverLost" => d = FallbackInterval
  BY <1>s, <1>n, <1>c DEF Debt
<1> USE <1>i, <1>n, <1>c, <1>d DEF Recovering
<1>1. CASE UNCHANGED <<reconcileIn, unlisted, brokerOn, loopPhase, request>>
  <2>1. u = unlisted /\ r = reconcileIn
    BY <1>1, <1>s
  <2> QED
    BY <1>1, <2>1
<1>2. CASE TmuxStep
  BY <1>1, <1>2 DEF TmuxStep, CreateSession, KillSession, SubscriberDies, timers, history
<1>3. CASE PeriodicListing \/ SessionsChanged
  <2>1. u = 0
    BY <1>3, <1>s DEF PeriodicListing, SessionsChanged, RefreshFor, Listed
  <2>2. (Recovering => ~brokerOn)'
    BY <1>3 DEF PeriodicListing, SessionsChanged, AfterRefresh
  <2> QED
    BY <2>1, <2>2
<1>4. CASE ControlEvent \/ ClientEvent \/ SettleRecapture
  <2>1. r = reconcileIn /\ u = unlisted /\ request' # "interval"
    BY <1>4, <1>s DEF ControlEvent, ClientEvent, SettleRecapture, RefreshFor, AfterRefresh
  <2>2. brokerOn' = brokerOn \/ (brokerOn /\ ~brokerOn')
    BY <1>4 DEF ControlEvent, ClientEvent, SettleRecapture, RefreshFor
  <2>3. loopPhase = "idle" /\ (brokerOn' => loopPhase' = "idle")
        /\ (~brokerOn /\ ~brokerOn' => loopPhase' # "recoverLost")
    BY <1>4 DEF ControlEvent, ClientEvent, SettleRecapture, RefreshFor, AfterRefresh
  <2>4. e <= d
    BY <2>2, <2>3
  <2> QED
    BY <2>1, <2>3, <2>4
<1>5. CASE Recovered
  <2>1. u = 0 /\ loopPhase' \notin {"recover", "recoverLost"}
    BY <1>5, <1>s DEF Recovered, Listed, AfterRecovery
  <2> QED
    BY <2>1
<1>6. CASE RecoveryFails
  <2>1. /\ UNCHANGED <<brokerOn, request>> /\ u = unlisted
        /\ ~brokerOn /\ loopPhase' \notin {"recover", "recoverLost"}
    BY <1>6, <1>s DEF RecoveryFails, AfterRecovery
  <2>2. d = FallbackInterval
    BY <2>1
  <2>3. CASE UNCHANGED reconcileIn
    <3>1. r = reconcileIn
      BY <2>3, <1>s
    <3> QED
      BY <2>1, <2>2, <3>1
  <2>4. CASE ResetTimer(FALSE) /\ RestartsTimer(FALSE)
    <3>1. r = FallbackInterval
      BY <2>4, <1>s DEF ResetTimer, ReconcileInterval
    <3>2. loopPhase = "recoverLost" \/ unlisted = 0
      BY <1>6, <2>4 DEF RestartsTimer, RecoveryFails
    <3> QED
      BY <2>1, <2>2, <3>1, <3>2
  <2> QED
    BY <1>6, <2>3, <2>4 DEF RecoveryFails, AfterRecovery
<1>7. CASE Enumerate \/ EnumerationFails \/ Attach
  <2>1. r <= reconcileIn
    BY <1>7, <1>s, <1>t, RearmType DEF Rearmed, Enumerate, timers
  <2>2. /\ u = unlisted /\ UNCHANGED brokerOn
        /\ loopPhase # "recoverLost" /\ loopPhase' \notin {"recover", "recoverLost"}
    BY <1>7, <1>s DEF Enumerate, EnumerationFails, Attach, history
  <2> QED
    BY <2>1, <2>2
<1>8. CASE Monitor \/ WaitEnds
  <2>1. /\ u = unlisted /\ r = reconcileIn /\ UNCHANGED brokerOn
        /\ loopPhase = "idle" /\ loopPhase' \in {"idle", "enumerate"}
    BY <1>8, <1>s DEF Monitor, WaitEnds, timers, history
  <2> QED
    BY <2>1
<1>9. CASE Tick
  <2>1. /\ u = unlisted + 1 /\ r = reconcileIn - 1
        /\ UNCHANGED <<brokerOn, loopPhase>> /\ loopPhase = "idle"
    BY <1>9, <1>s DEF Tick
  <2> QED
    BY <2>1
<1> QED
  BY <1>1, <1>2, <1>3, <1>4, <1>5, <1>6, <1>7, <1>8, <1>9
     DEF CoverageNext, LoopStep, coverageVars, timers, history

LEMMA TimerAlways == CoverageSpec => []TimerInv
<1>1. CoverageInit => TimerInv
  <2> SUFFICES ASSUME CoverageInit PROVE TimerInv
    OBVIOUS
  <2> QED
    BY TypeInit, CoverageAssumption DEF CoverageInit, TimerInv, Due, Recovering, Debt
<1> QED
  BY <1>1, TimerStep, PTL DEF CoverageSpec

(* Whatever is created, dies or fails, and whichever refresh loses the     *)
(* broker, the next full listing is never further away than the longest    *)
(* interval and one short one: no restart of next_reconcile_at puts it off *)
(* for longer.                                                             *)
THEOREM ListingNeverLate == CoverageSpec => []ListedInTime
<1>1. TimerInv => ListedInTime
  <2> SUFFICES ASSUME TimerInv PROVE ListedInTime
    OBVIOUS
  <2>1. /\ unlisted \in Nat /\ reconcileIn \in 0..SelfHealInterval
        /\ unlisted + reconcileIn <= SelfHealInterval + Debt
    BY DEF TimerInv, TypeOK, Due
  <2> QED
    BY <2>1, CoverageAssumption DEF ListedInTime, Debt
<1> QED
  BY <1>1, TimerAlways, PTL

------------------------------------------------------------------------------
(* No session is out of sight for long                                     *)

(* A session without a client is listed in time ...                        *)
Slack(s) == blind[s] + reconcileIn <= ActiveInterval + MonitorInterval + Debt
(* ... or an enumeration follows that knows of it.                         *)
Expected(s) ==
  \/ notices # {} \/ loopPhase = "enumerate"
  \/ loopPhase = "attach" /\ s \in desired
  \/ Recovering /\ request \in {"interval", "sessions"}

(* Incomplete coverage is polled for.                                      *)
Polled ==
  /\ Recovering => request \in {"interval", "sessions", "event", "focus"}
  /\ ~coverage => reconcileIn <= ActiveInterval
PollInv == TimerInv /\ Polled

(* A dead client is found in time, and a session that none watches is in   *)
(* the enumeration or announced.                                           *)
Watched(s) ==
  /\ s \notin live \/ subscriber[s] = "up" => blind[s] = 0
  /\ subscriber[s] = "dead" => blind[s] + monitorIn <= MonitorInterval
  /\ subscriber[s] = "dead" /\ loopPhase = "attach" => blind[s] = 0
  /\ Recovering /\ request = "interval" => blind[s] = 0
  /\ s \in live \ desired /\ loopPhase = "attach" => notices # {}
WatchInv == PollInv /\ \A s \in OtherSessions : Watched(s)

LEMMA PollStep == PollInv /\ [CoverageNext]_coverageVars => PollInv'
<1> SUFFICES ASSUME PollInv, [CoverageNext]_coverageVars PROVE Polled'
  BY TimerStep DEF PollInv
<1>t. TypeOK /\ TypeOK'
  BY TypeStep DEF PollInv, TimerInv
<1>n. coverage \in BOOLEAN /\ coverage' \in BOOLEAN
  BY <1>t DEF TypeOK
<1>i. Polled
  BY DEF PollInv
<1> USE <1>n, <1>i DEF Polled, Recovering
<1>1. CASE UNCHANGED <<reconcileIn, coverage, loopPhase, request>>
  BY <1>1
<1>2. CASE TmuxStep
  BY <1>1, <1>2 DEF TmuxStep, CreateSession, KillSession, SubscriberDies, timers
<1>3. ASSUME NEW kind \in {"interval", "sessions", "event", "focus", "settle"},
             NEW listing \in BOOLEAN, RefreshFor(kind, listing), AfterRefresh(kind)
      PROVE  Polled'
  <2>1. loopPhase = "idle" /\ request' = kind /\ UNCHANGED coverage
    BY <1>3 DEF RefreshFor
  <2>2. reconcileIn' = reconcileIn \/ ResetTimer(brokerOn')
    BY <1>3 DEF AfterRefresh
  <2>3. ~coverage => reconcileIn' <= ActiveInterval
    <3>1. brokerOn' \in BOOLEAN
      BY <1>t DEF TypeOK
    <3> QED
      BY <2>2, <3>1, ResetType
  <2>4. kind = "settle" => loopPhase' = "idle"
    BY <1>3 DEF AfterRefresh
  <2> QED
    BY <2>1, <2>3, <2>4
<1>4. CASE PeriodicListing \/ SessionsChanged \/ ControlEvent \/ ClientEvent
           \/ SettleRecapture
  BY <1>3, <1>4
     DEF PeriodicListing, SessionsChanged, ControlEvent, ClientEvent, SettleRecapture
<1>5. ASSUME NEW on \in BOOLEAN, AfterRecovery(on), UNCHANGED <<coverage, request>>
      PROVE  Polled'
  <2>1. ~coverage => reconcileIn' <= ActiveInterval
    BY <1>5, ResetType DEF AfterRecovery
  <2> QED
    BY <1>5, <2>1 DEF AfterRecovery
<1>6. CASE Recovered \/ RecoveryFails
  BY <1>5, <1>6 DEF Recovered, RecoveryFails
<1>7. CASE Enumerate
  BY <1>7 DEF Enumerate, timers
<1>8. CASE EnumerationFails \/ Attach
  <2>1. ~coverage' => reconcileIn' <= ActiveInterval
    BY <1>8, <1>t, RearmType DEF Rearmed
  <2> QED
    BY <1>8, <2>1 DEF EnumerationFails, Attach
<1>9. CASE Monitor \/ WaitEnds
  BY <1>9 DEF Monitor, WaitEnds, timers
<1>10. CASE Tick
  <2>1. reconcileIn' = reconcileIn - 1 /\ UNCHANGED <<coverage, loopPhase>> /\ loopPhase = "idle"
    BY <1>10 DEF Tick
  <2>2. reconcileIn \in Nat /\ ActiveInterval \in Nat
    BY <1>t, CoverageAssumption DEF TypeOK
  <2> QED
    BY <2>1, <2>2
<1> QED
  BY <1>1, <1>2, <1>4, <1>6, <1>7, <1>8, <1>9, <1>10
     DEF CoverageNext, LoopStep, coverageVars, timers

LEMMA WatchStep == WatchInv /\ [CoverageNext]_coverageVars => WatchInv'
<1>s. SUFFICES ASSUME WatchInv, [CoverageNext]_coverageVars, NEW s \in OtherSessions, NEW b, NEW m,
                      b = blind'[s], m = monitorIn'
               PROVE  /\ (s \notin live \/ subscriber[s] = "up")' => b = 0
                      /\ (subscriber[s] = "dead")' => b + m <= MonitorInterval
                      /\ (subscriber[s] = "dead" /\ loopPhase = "attach")' => b = 0
                      /\ (Recovering /\ request = "interval")' => b = 0
                      /\ (s \in live \ desired /\ loopPhase = "attach" => notices # {})'
  BY PollStep DEF WatchInv, Watched
<1>t. TypeOK /\ TypeOK'
  BY <1>s, TypeStep DEF WatchInv, PollInv, TimerInv
<1>i. Watched(s)
  BY <1>s DEF WatchInv
<1>c. MonitorInterval \in Nat /\ 0 < MonitorInterval
  BY CoverageAssumption
<1>n. /\ blind[s] \in Nat /\ b \in Nat /\ subscriber[s] \in {"none", "up", "dead"}
      /\ subscriber'[s] \in {"none", "up", "dead"}
  BY <1>s, <1>t DEF TypeOK
<1>m. /\ subscriber[s] # "none" => monitorIn \in Nat /\ monitorIn <= MonitorInterval
      /\ subscriber'[s] # "none" => m \in Nat /\ m <= MonitorInterval
  BY <1>s, <1>t, <1>c DEF TypeOK, HasSubscriber
<1> USE <1>i, <1>n, <1>m, <1>c DEF Watched, Recovering
<1>1. CASE UNCHANGED <<live, subscriber, blind, monitorIn, desired, notices, loopPhase, request>>
  <2>1. b = blind[s] /\ m = monitorIn
    BY <1>1, <1>s
  <2> QED
    BY <1>1, <2>1
<1>2. CASE CreateSession
  <2>1. /\ b = blind[s] /\ m = monitorIn /\ UNCHANGED <<subscriber, desired, loopPhase, request>>
        /\ s \notin live' => s \notin live
        /\ notices' # {}
    BY <1>2, <1>s DEF CreateSession, Tell, history, timers
  <2> QED
    BY <2>1
<1>3. CASE \E q \in OtherSessions : KillSession(q)
  <2>1. PICK q \in OtherSessions : KillSession(q)
    BY <1>3
  <2>2. /\ m = monitorIn /\ UNCHANGED <<desired, loopPhase, request>> /\ notices' # {}
        /\ live' = live \ {q}
    BY <2>1, <1>s DEF KillSession, Tell, timers
  <2>3. CASE s = q
    <3>1. b = 0 /\ subscriber'[s] # "up" /\ (subscriber'[s] = "dead" => subscriber[s] # "none")
      BY <2>1, <2>3, <1>s, <1>t DEF KillSession, TypeOK
    <3> QED
      BY <2>2, <3>1
  <2>4. CASE s # q
    <3>1. b = blind[s] /\ subscriber'[s] = subscriber[s]
      BY <2>1, <2>4, <1>s, <1>t DEF KillSession, TypeOK
    <3> QED
      BY <2>2, <2>4, <3>1
  <2> QED
    BY <2>3, <2>4
<1>4. CASE \E q \in OtherSessions : SubscriberDies(q)
  <2>1. PICK q \in OtherSessions : SubscriberDies(q)
    BY <1>4
  <2>2. /\ b = blind[s] /\ m = monitorIn
        /\ UNCHANGED <<live, desired, loopPhase, request, notices>>
    BY <2>1, <1>s DEF SubscriberDies, history, timers
  <2>3. subscriber'[s] = subscriber[s] \/ (subscriber[s] = "up" /\ subscriber'[s] = "dead")
    BY <2>1, <1>t DEF SubscriberDies, TypeOK
  <2> QED
    BY <2>2, <2>3
<1>5. ASSUME NEW kind, NEW listing \in BOOLEAN, RefreshFor(kind, listing), AfterRefresh(kind),
             kind = "interval" => listing
      PROVE  /\ b = 0 \/ (b = blind[s] /\ request' # "interval")
             /\ m = monitorIn /\ UNCHANGED <<live, subscriber>> /\ loopPhase' # "attach"
  <2>1. m = monitorIn /\ UNCHANGED <<live, subscriber>> /\ request' = kind
    BY <1>5, <1>s DEF RefreshFor, tmuxState
  <2>2. listing => b = 0
    BY <1>5, <1>s DEF RefreshFor, Listed
  <2>3. ~listing => b = blind[s]
    BY <1>5, <1>s DEF RefreshFor
  <2>4. loopPhase' # "attach"
    BY <1>5 DEF AfterRefresh
  <2> QED
    BY <1>5, <2>1, <2>2, <2>3, <2>4
<1>6. CASE PeriodicListing \/ SessionsChanged \/ ControlEvent \/ ClientEvent
           \/ SettleRecapture
  <2>1. /\ b = 0 \/ (b = blind[s] /\ request' # "interval")
        /\ m = monitorIn /\ UNCHANGED <<live, subscriber>> /\ loopPhase' # "attach"
    BY <1>5, <1>6
       DEF PeriodicListing, SessionsChanged, ControlEvent, ClientEvent, SettleRecapture
  <2> QED
    BY <2>1
<1>7. CASE Recovered \/ RecoveryFails
  <2>1. /\ b = 0 \/ b = blind[s]
        /\ m = monitorIn /\ UNCHANGED <<live, subscriber>>
        /\ loopPhase' \notin {"recover", "recoverLost", "attach"}
    BY <1>7, <1>s DEF Recovered, RecoveryFails, Listed, AfterRecovery, tmuxState
  <2> QED
    BY <2>1
<1>8. CASE Enumerate
  <2>1. /\ b = blind[s] /\ m = monitorIn /\ UNCHANGED <<live, request>>
        /\ desired' = live /\ loopPhase' = "attach"
    BY <1>8, <1>s DEF Enumerate, timers, history
  <2>2. subscriber'[s] # "dead" /\ (subscriber'[s] = "up" => subscriber[s] = "up")
    BY <1>8 DEF Enumerate, Pruned
  <2> QED
    BY <2>1, <2>2
<1>9. CASE EnumerationFails
  <2>1. b = blind[s] /\ UNCHANGED live /\ loopPhase' = "idle"
    BY <1>9, <1>s DEF EnumerationFails, history
  <2>2. subscriber'[s] # "dead" /\ (subscriber'[s] = "up" => subscriber[s] = "up")
    BY <1>9 DEF EnumerationFails, Pruned
  <2> QED
    BY <2>1, <2>2
<1>10. CASE Attach
  <2>1. UNCHANGED live /\ loopPhase = "attach" /\ loopPhase' = "idle"
    BY <1>10 DEF Attach
  <2>2. b = (IF subscriber'[s] = "up" THEN 0 ELSE blind[s])
    BY <1>10, <1>s DEF Attach
  <2>3. subscriber'[s] = "dead" => subscriber[s] = "dead"
    BY <1>10 DEF Attach, AttachedTo
  <2> QED
    BY <2>1, <2>2, <2>3
<1>11. CASE Monitor
  <2>1. /\ b = blind[s] /\ UNCHANGED <<live, subscriber>> /\ loopPhase' # "attach"
        /\ loopPhase' \notin {"recover", "recoverLost"}
    BY <1>11, <1>s DEF Monitor, tmuxState, history
  <2>2. subscriber[s] = "dead" => m = monitorIn
    BY <1>11, <1>s DEF Monitor, HasDeadSubscriber
  <2> QED
    BY <2>1, <2>2
<1>12. CASE WaitEnds
  <2>1. /\ b = blind[s] /\ m = monitorIn /\ UNCHANGED <<live, subscriber>>
        /\ loopPhase' = "enumerate"
    BY <1>12, <1>s DEF WaitEnds, tmuxState, history, timers
  <2> QED
    BY <2>1
<1>13. CASE Tick
  <2>1. UNCHANGED <<live, subscriber, loopPhase>> /\ loopPhase = "idle" /\ monitorIn > 0
    BY <1>13 DEF Tick, tmuxState
  <2>2. b = (IF s \in live /\ subscriber[s] # "up" THEN blind[s] + 1 ELSE 0)
    BY <1>13, <1>s DEF Tick
  <2>3. subscriber[s] = "dead" => m = monitorIn - 1
    BY <1>13, <1>s, <1>t DEF Tick, TypeOK, HasSubscriber
  <2> QED
    BY <2>1, <2>2, <2>3
<1> QED
  BY <1>s, <1>1, <1>2, <1>3, <1>4, <1>6, <1>7, <1>8, <1>9, <1>10, <1>11, <1>12, <1>13
     DEF CoverageNext, TmuxStep, LoopStep, coverageVars, tmuxState, timers, history

Uncovered(s) ==
  s \in live /\ subscriber[s] = "none" /\ ~missed =>
    /\ blind[s] <= MonitorInterval \/ Slack(s)
    /\ Expected(s) \/ (~coverage /\ Slack(s))
SightInv == WatchInv /\ \A s \in OtherSessions : Uncovered(s)

LEMMA SightStep == SightInv /\ [CoverageNext]_coverageVars => SightInv'
<1>s. SUFFICES ASSUME SightInv, [CoverageNext]_coverageVars, NEW s \in OtherSessions,
                      s \in live', subscriber'[s] = "none", ~missed',
                      NEW b, NEW r, NEW d, NEW e,
                      b = blind'[s], r = reconcileIn', d = Debt', e = Debt
               PROVE  /\ b <= MonitorInterval \/ b + r <= ActiveInterval + MonitorInterval + d
                      /\ \/ Expected(s)'
                         \/ ~coverage' /\ b + r <= ActiveInterval + MonitorInterval + d
  BY WatchStep DEF SightInv, Uncovered, Slack
<1>v. WatchInv /\ PollInv /\ TypeOK /\ TypeOK'
  BY <1>s, TypeStep DEF SightInv, WatchInv, PollInv, TimerInv
<1>w. /\ subscriber[s] = "up" \/ s \notin live => blind[s] = 0
      /\ subscriber[s] = "dead" => blind[s] <= MonitorInterval
      /\ Recovering /\ request = "interval" => blind[s] = 0
      /\ s \in live \ desired /\ loopPhase = "attach" => notices # {}
  <2>1. Watched(s) /\ blind[s] \in Nat
    BY <1>v DEF WatchInv, TypeOK
  <2>2. subscriber[s] = "dead" => monitorIn \in Nat
    BY <1>v, CoverageAssumption DEF TypeOK, HasSubscriber
  <2> QED
    BY <2>1, <2>2, CoverageAssumption DEF Watched
<1>p. /\ Recovering => request \in {"interval", "sessions", "event", "focus"}
      /\ Recovering => ~brokerOn
      /\ ~coverage => reconcileIn <= ActiveInterval
  BY <1>v DEF PollInv, TimerInv, Due, Polled
<1> DEFINE L == blind[s] + reconcileIn <= ActiveInterval + MonitorInterval + e
<1>u. s \in live /\ subscriber[s] = "none" /\ ~missed =>
        /\ blind[s] <= MonitorInterval \/ L
        /\ Expected(s) \/ (~coverage /\ L)
  BY <1>s DEF SightInv, Uncovered, Slack
<1>c. /\ MonitorInterval \in Nat /\ FallbackInterval \in Nat /\ ActiveInterval \in Nat
      /\ FallbackInterval <= ActiveInterval
  BY CoverageAssumption
<1>n. /\ blind[s] \in Nat /\ b \in Nat /\ reconcileIn \in Nat /\ r \in Nat
      /\ brokerOn \in BOOLEAN /\ brokerOn' \in BOOLEAN /\ coverage \in BOOLEAN
      /\ coverage' \in BOOLEAN /\ subscriber[s] \in {"none", "up", "dead"}
  BY <1>s, <1>v, CoverageAssumption DEF TypeOK
<1>d. /\ e \in Nat /\ d \in Nat
      /\ brokerOn \/ loopPhase = "recoverLost" => e = 0
      /\ ~brokerOn /\ loopPhase # "recoverLost" => e = FallbackInterval
      /\ ~brokerOn' /\ loopPhase' # "recoverLost" => d = FallbackInterval
      /\ brokerOn' = brokerOn /\ loopPhase # "recoverLost" /\ loopPhase' # "recoverLost" => d = e
  BY <1>s, <1>c, <1>n DEF Debt
<1> USE <1>w, <1>p, <1>u, <1>c, <1>n, <1>d DEF Expected, Recovering
(* Nothing that the session's own claim is about changes. *)
<1>1. CASE /\ UNCHANGED <<brokerOn, coverage, reconcileIn, desired, loopPhase, request>>
           /\ s \in live => b = blind[s] /\ subscriber[s] = subscriber'[s]
           /\ s \notin live => b = 0
           /\ missed' = missed /\ notices \subseteq notices'
           /\ s \notin live => notices' # {}
  <2>1. r = reconcileIn /\ d = e
    BY <1>1, <1>s DEF Debt
  <2> QED
    BY <1>1, <2>1, <1>s
<1>2. CASE UNCHANGED coverageVars
  BY <1>1, <1>2, <1>s DEF coverageVars, tmuxState, timers, history
<1>3. CASE CreateSession
  BY <1>1, <1>3, <1>s DEF CreateSession, Tell, timers, history
<1>4. CASE \E q \in OtherSessions : KillSession(q) \/ SubscriberDies(q)
  <2>1. PICK q \in OtherSessions : KillSession(q) \/ SubscriberDies(q)
    BY <1>4
  <2>2. s # q
    BY <2>1, <1>s, <1>v DEF KillSession, SubscriberDies, TypeOK
  <2>3. subscriber'[s] = subscriber[s] /\ b = blind[s]
    BY <2>1, <2>2, <1>s, <1>v DEF KillSession, SubscriberDies, TypeOK, history
  <2>4. /\ UNCHANGED <<brokerOn, coverage, reconcileIn, desired, loopPhase, request>>
        /\ s \in live
        /\ missed' = missed /\ notices \subseteq notices'
    BY <2>1, <2>2, <1>s DEF KillSession, SubscriberDies, Tell, timers, history
  <2> QED
    BY <1>1, <2>3, <2>4
<1>5. CASE PeriodicListing \/ SessionsChanged
  <2>1. b = 0
    BY <1>5, <1>s DEF PeriodicListing, SessionsChanged, RefreshFor, Listed
  <2>2. request' \in {"interval", "sessions"} /\ loopPhase' \in {"enumerate", "recover", "recoverLost"}
    BY <1>5 DEF PeriodicListing, SessionsChanged, RefreshFor, AfterRefresh
  <2> QED
    BY <2>1, <2>2
<1>6. CASE ControlEvent \/ ClientEvent \/ SettleRecapture
  <2>1. /\ b = blind[s] /\ r = reconcileIn /\ missed' = missed
        /\ UNCHANGED <<coverage, notices, subscriber, live>> /\ loopPhase = "idle"
    BY <1>6, <1>s
       DEF ControlEvent, ClientEvent, SettleRecapture, RefreshFor, AfterRefresh, tmuxState
  <2>2. brokerOn' => brokerOn
    BY <1>6 DEF ControlEvent, ClientEvent, SettleRecapture, RefreshFor
  <2>3. ~brokerOn => loopPhase' # "recoverLost"
    BY <1>6, <2>2 DEF ControlEvent, ClientEvent, SettleRecapture, RefreshFor, AfterRefresh
  <2>4. e <= d
    BY <2>1, <2>2, <2>3
  <2> QED
    BY <2>1, <2>4, <1>s
<1>7. CASE Recovered \/ RecoveryFails
  <2>1. /\ UNCHANGED <<coverage, request, subscriber, live>>
        /\ loopPhase \in {"recover", "recoverLost"}
        /\ loopPhase' = IF request \in {"interval", "sessions"} THEN "enumerate" ELSE "idle"
        /\ missed' = (missed \/ (notices = {PrimaryClient} /\ request \in {"event", "focus"}))
        /\ notices' = notices \ {PrimaryClient}
    BY <1>7 DEF Recovered, RecoveryFails, AfterRecovery, DropPrimaryLines, tmuxState
  <2>2. ~missed /\ (request \in {"event", "focus"} => notices # {PrimaryClient})
    BY <2>1, <1>s
  <2>3. /\ b <= MonitorInterval \/ b + r <= ActiveInterval + MonitorInterval + d
        /\ ~coverage /\ L => b + r <= ActiveInterval + MonitorInterval + d
    <3>1. CASE Recovered
      <4>1. b = 0
        BY <3>1, <1>s DEF Recovered, Listed
      <4>2. ~coverage => r <= ActiveInterval
        BY <1>s, <1>v, <2>1, PollStep DEF PollInv, Polled
      <4> QED
        BY <4>1, <4>2
    <3>2. CASE RecoveryFails /\ RestartsTimer(FALSE)
      <4>1. b = blind[s] /\ r = FallbackInterval /\ ~brokerOn'
        BY <3>2, <1>s, <2>1 DEF RecoveryFails, AfterRecovery, ResetTimer, ReconcileInterval
      <4>2. request = "interval" \/ loopPhase = "recoverLost"
        BY <3>2 DEF RestartsTimer
      <4>3. d = FallbackInterval
        BY <4>1, <2>1
      <4> QED
        BY <1>s, <2>1, <2>2, <4>1, <4>2, <4>3
    <3>3. CASE RecoveryFails /\ ~RestartsTimer(FALSE)
      <4>1. b = blind[s] /\ r = reconcileIn /\ ~brokerOn'
        BY <3>3, <1>s, <2>1 DEF RecoveryFails, AfterRecovery
      <4>2. e <= d
        BY <4>1, <2>1
      <4> QED
        BY <1>s, <2>1, <2>2, <4>1, <4>2
    <3> QED
      BY <1>7, <3>1, <3>2, <3>3
  <2>4. Expected(s)' \/ (~coverage /\ L)
    BY <1>s, <2>1, <2>2
  <2> QED
    BY <2>1, <2>3, <2>4
<1>8. CASE Enumerate
  <2>1. /\ b = blind[s] /\ r = reconcileIn /\ UNCHANGED <<brokerOn, missed, live>>
        /\ loopPhase = "enumerate" /\ loopPhase' = "attach" /\ desired' = live
    BY <1>8, <1>s DEF Enumerate, timers, history
  <2>2. d = e
    BY <2>1
  <2> QED
    BY <1>s, <2>1, <2>2
<1>9. CASE EnumerationFails \/ Attach
  <2>1. /\ b = blind[s] /\ UNCHANGED <<brokerOn, missed, live, notices>>
        /\ loopPhase \in {"enumerate", "attach"} /\ loopPhase' = "idle"
    BY <1>9, <1>s DEF EnumerationFails, Attach, history
  <2>2. d = e
    BY <2>1
  <2>3. r <= reconcileIn /\ (~coverage' => r <= ActiveInterval)
    BY <1>9, <1>s, <1>v, RearmType DEF Rearmed
  <2>4. notices # {} \/ ~coverage'
    <3>1. CASE EnumerationFails
      BY <3>1 DEF EnumerationFails
    <3>2. CASE Attach
      <4>1. loopPhase = "attach" /\ coverage' = Complete(subscriber')
        BY <3>2 DEF Attach
      <4>2. s \in desired => ~coverage'
        BY <4>1, <1>s DEF Complete
      <4> QED
        BY <4>1, <4>2, <2>1, <1>s
    <3> QED
      BY <1>9, <3>1, <3>2
  <2>5. blind[s] <= MonitorInterval \/ L
    BY <2>1, <1>s
  <2> QED
    BY <2>1, <2>2, <2>3, <2>4, <2>5
<1>10. CASE Monitor \/ WaitEnds
  <2>1. /\ b = blind[s] /\ r = reconcileIn /\ loopPhase = "idle" /\ loopPhase' \in {"idle", "enumerate"}
        /\ UNCHANGED <<brokerOn, coverage, missed, live, subscriber, notices>>
    BY <1>10, <1>s DEF Monitor, WaitEnds, tmuxState, timers, history
  <2>2. d = e
    BY <2>1
  <2> QED
    BY <1>s, <2>1, <2>2
<1>11. CASE Tick
  <2>1. /\ r = reconcileIn - 1 /\ loopPhase = "idle" /\ notices = {}
        /\ UNCHANGED <<brokerOn, coverage, missed, live, subscriber, loopPhase>>
    BY <1>11, <1>s DEF Tick, tmuxState
  <2>2. b = blind[s] + 1
    BY <1>11, <1>s, <2>1 DEF Tick
  <2>3. d = e /\ ~coverage /\ L
    BY <1>s, <2>1
  <2> QED
    BY <2>1, <2>2, <2>3
<1> QED
  BY <1>s, <1>2, <1>3, <1>4, <1>5, <1>6, <1>7, <1>8, <1>9, <1>10, <1>11
     DEF CoverageNext, TmuxStep, LoopStep

(* Whatever is created, dies or fails, a live session is never out of      *)
(* sight for longer than the active interval, the time to find a dead      *)
(* client and one short interval, as long as no notice was dropped with    *)
(* the replaced broker and not made up for.                                *)
THEOREM NeverOutOfSight == CoverageSpec => []NeverStarved
<1>1. CoverageInit => SightInv
  <2> SUFFICES ASSUME CoverageInit PROVE SightInv
    OBVIOUS
  <2>1. TypeOK /\ TimerInv
    BY TypeInit, CoverageAssumption DEF CoverageInit, TimerInv, Due, Recovering, Debt
  <2>2. PollInv
    BY <2>1 DEF CoverageInit, PollInv, Polled, Recovering
  <2>3. \A s \in OtherSessions : Watched(s)
    BY DEF CoverageInit, Watched, Recovering
  <2>4. \A s \in OtherSessions : Uncovered(s)
    BY CoverageAssumption DEF CoverageInit, Uncovered, Expected
  <2> QED
    BY <2>2, <2>3, <2>4 DEF WatchInv, SightInv
<1>2. SightInv => NeverStarved
  <2>1. SUFFICES ASSUME SightInv, ~missed, NEW s \in live PROVE Seen(s)
    BY DEF NeverStarved
  <2>2. TypeOK /\ s \in OtherSessions /\ Watched(s) /\ Uncovered(s)
    BY <2>1 DEF SightInv, WatchInv, PollInv, TimerInv, TypeOK
  <2>3. /\ subscriber[s] \in {"none", "up", "dead"} /\ blind[s] \in Nat /\ reconcileIn \in Nat
        /\ subscriber[s] # "none" => monitorIn \in Nat
    BY <2>2, CoverageAssumption DEF TypeOK, HasSubscriber
  <2>4. Debt \in Nat /\ Debt <= FallbackInterval
    BY CoverageAssumption DEF Debt
  <2> QED
    BY <2>1, <2>2, <2>3, <2>4, CoverageAssumption DEF Watched, Uncovered, Slack, Seen
<1> QED
  BY <1>1, <1>2, SightStep, PTL DEF CoverageSpec

-----------------------------------------------------------------------------
(* PaneIdentity: firsts, hints and words                                     *)

LEMMA LeastNatural ==
  ASSUME NEW T, T \subseteq Nat, T # {}
  PROVE  \E x \in T : \A y \in T : x <= y
<1> DEFINE R == OpToRel(<, Nat)
<1>1. IsWellFoundedOn(R, Nat)
  BY NatLessThanWellFounded
<1>2. \A x, y \in Nat : <<y, x>> \in R <=> y < x
  BY DEF OpToRel
<1> HIDE DEF R
<1>3. PICK x \in T : \A y \in T : ~ (<<y, x>> \in R)
  BY <1>1, WFMin
<1>4. \A y \in T : x \in Nat /\ y \in Nat /\ ~(y < x)
  BY <1>2, <1>3
<1>5. \A y \in T : x <= y
  BY <1>4
<1> QED
  BY <1>3, <1>5

LEMMA FirstIsIn ==
  ASSUME NEW places, places \subseteq Nat, places # {}
  PROVE  First(places) \in places
<1>1. \E i \in places : \A j \in places : i <= j
  BY LeastNatural
<1> QED
  BY <1>1 DEF First

LEMMA HintNames ==
  ASSUME NEW t, TitleHint(t).strong
  PROVE  TitleHint(t).provider # None
<1> DEFINE present == {i \in DOMAIN HintOrder : HintOrder[i] \in Visible(t)}
<1>1. DOMAIN HintOrder = 1 .. 12 /\ \A i \in 1 .. 12 : HintOrder[i] \in Signatures
  BY DEF HintOrder, Signatures
<1>2. present # {} /\ present \subseteq Nat
  BY <1>1 DEF TitleHint, NoHint, Hint
<1>3. First(present) \in present
  BY <1>2, FirstIsIn
<1>4. PICK sig \in Signatures : TitleHint(t) = HintFor(sig, t)
  BY <1>1, <1>2, <1>3 DEF TitleHint
<1> QED
  BY <1>4 DEF HintFor, Hint, Signatures, None

LEMMA PlainSaysNothing == ~TitleHint(PlainTitle).strong
<1>1. Visible(PlainTitle) = {}
  BY DEF Visible, PlainTitle
<1> QED
  BY <1>1 DEF TitleHint, NoHint, Hint

LEMMA Words ==
  /\ \A c \in {"shell", "version", ""} : ProviderFromCommand(c) = None
  /\ ProviderFromCommand("primeagent") # None
  /\ \A c : CommandForAnalysis(c) \in {c, ""}
  /\ \A c : ProviderFromCommand(CommandForAnalysis(c)) = ProviderFromCommand(c)
<1>1. /\ \A c \in {"shell", "version", ""} : ProviderFromCommand(c) = None
      /\ ProviderFromCommand("primeagent") # None
  BY DEF ProviderFromCommand, Aliases, AliasOf, None
<1> QED
  BY <1>1 DEF CommandForAnalysis

LEMMA ClassifyIs ==
  ASSUME NEW published, NEW command, NEW t
  PROVE  LET m == ClassifyProvider(published, command, t)
             c == CommandForAnalysis(command)
             believed == TitleHint(t).strong /\ ~StaleTitle(TitleHint(t).provider, c, t)
         IN \/ published # None /\ m = Match(published, "PaneMetadata")
            \/ published = None /\ ProviderFromCommand(c) # None
               /\ m = Match(ProviderFromCommand(c), "PaneCurrentCommand")
            \/ /\ published = None /\ ProviderFromCommand(c) = None
               /\ \/ believed /\ m = Match(TitleHint(t).provider, "PaneTitle")
                  \/ ~believed /\ c = "pi" /\ m = Match("Pi", "PaneCurrentCommand")
                  \/ ~believed /\ m = NoMatch
<1> DEFINE c == CommandForAnalysis(command)
           hint == TitleHint(t)
<1>1. CASE published # None
  BY <1>1 DEF ClassifyProvider
<1>2. CASE published = None /\ ProviderFromCommand(c) # None
  BY <1>2 DEF ClassifyProvider
<1>3. CASE published = None /\ ProviderFromCommand(c) = None
  <2>1. CASE hint.strong /\ ~StaleTitle(hint.provider, c, t)
    BY <1>3, <2>1 DEF ClassifyProvider
  <2>2. CASE ~(hint.strong /\ ~StaleTitle(hint.provider, c, t))
    BY <1>3, <2>2 DEF ClassifyProvider
  <2> QED
    BY <2>1, <2>2
<1> QED
  BY <1>1, <1>2, <1>3

-----------------------------------------------------------------------------
(* What is on a pane's terminal                                              *)

Holds(q, x) == \E i \in DOMAIN q : q[i] = x

LEMMA ConcatHolds ==
  ASSUME NEW S, NEW p \in Seq(S), NEW q \in Seq(S)
  PROVE  p \o q \in Seq(S) /\ \A x : Holds(p \o q, x) <=> Holds(p, x) \/ Holds(q, x)
<1> DEFINE r == p \o q
<1>1. /\ r \in Seq(S) /\ DOMAIN r = 1 .. Len(p) + Len(q)
      /\ DOMAIN p = 1 .. Len(p) /\ DOMAIN q = 1 .. Len(q) /\ Len(p) \in Nat /\ Len(q) \in Nat
      /\ \A i \in 1 .. Len(p) + Len(q) : r[i] = IF i <= Len(p) THEN p[i] ELSE q[i - Len(p)]
  OBVIOUS
<1> HIDE DEF r
<1>2. ASSUME NEW x, Holds(r, x)
      PROVE  Holds(p, x) \/ Holds(q, x)
  <2>1. PICK i \in DOMAIN r : r[i] = x
    BY <1>2 DEF Holds
  <2>2. CASE i <= Len(p)
    <3>1. i \in DOMAIN p /\ p[i] = x
      BY <1>1, <2>1, <2>2
    <3> QED
      BY <3>1 DEF Holds
  <2>3. CASE ~(i <= Len(p))
    <3>1. i - Len(p) \in DOMAIN q /\ q[i - Len(p)] = x
      BY <1>1, <2>1, <2>3
    <3> QED
      BY <3>1 DEF Holds
  <2> QED
    BY <2>2, <2>3
<1>3. ASSUME NEW x, Holds(p, x)
      PROVE  Holds(r, x)
  <2>1. PICK i \in DOMAIN p : p[i] = x
    BY <1>3 DEF Holds
  <2>2. i \in DOMAIN r /\ r[i] = x
    BY <1>1, <2>1
  <2> QED
    BY <2>2 DEF Holds
<1>4. ASSUME NEW x, Holds(q, x)
      PROVE  Holds(r, x)
  <2>1. PICK i \in DOMAIN q : q[i] = x
    BY <1>4 DEF Holds
  <2>2. /\ Len(p) + i \in 1 .. Len(p) + Len(q) /\ ~(Len(p) + i <= Len(p)) /\ Len(p) + i - Len(p) = i
    BY <1>1, <2>1
  <2>3. Len(p) + i \in DOMAIN r /\ r[Len(p) + i] = x
    BY <1>1, <2>1, <2>2
  <2> QED
    BY <2>3 DEF Holds
<1> QED
  BY <1>1, <1>2, <1>3, <1>4 DEF r

LEMMA ReversedHolds ==
  ASSUME NEW S, NEW q \in Seq(S)
  PROVE  Reversed(q) \in Seq(S) /\ \A x : Holds(Reversed(q), x) <=> Holds(q, x)
<1> DEFINE n == Len(q)
<1>1. n \in Nat /\ DOMAIN q = 1 .. n /\ q \in [1 .. n -> S]
  OBVIOUS
<1>2. /\ DOMAIN Reversed(q) = 1 .. n
      /\ \A i \in 1 .. n : n + 1 - i \in 1 .. n /\ n + 1 - (n + 1 - i) = i
                         /\ Reversed(q)[i] = q[n + 1 - i]
  BY <1>1 DEF Reversed
<1>3. Reversed(q) \in [1 .. n -> S]
  BY <1>1, <1>2 DEF Reversed
<1>4. Reversed(q) \in Seq(S)
  BY <1>1, <1>3
<1>5. ASSUME NEW x PROVE Holds(Reversed(q), x) <=> Holds(q, x)
  <2>1. ASSUME NEW i \in 1 .. n, Reversed(q)[i] = x PROVE Holds(q, x)
    BY <1>1, <1>2, <2>1 DEF Holds
  <2>2. ASSUME NEW i \in 1 .. n, q[i] = x PROVE Holds(Reversed(q), x)
    <3>1. n + 1 - i \in 1 .. n /\ Reversed(q)[n + 1 - i] = q[i]
      BY <1>2
    <3> QED
      BY <1>2, <2>2, <3>1 DEF Holds
  <2> QED
    BY <1>1, <1>2, <2>1, <2>2 DEF Holds
<1> QED
  BY <1>4, <1>5

-----------------------------------------------------------------------------
(* What one knows of the pane                                                *)

\* Titles and metadata are the painter's and the publisher's; what nobody in the
\* pane has painted was left behind; what is carried was proven.
PaneAt ==
  /\ fg \in Programs /\ painter \in Programs
  /\ stopped \in (Programs \cup {None}) \ {"shell"}
  /\ tool \in {"no", "group", "named", "owns"} /\ (tool # "no" => Agent(fg) # None)
Painted ==
  /\ title \in Program[painter].titles \cup {PlainTitle}
  /\ painter \notin {fg, stopped, "shell"} => title \in LeftTitles \cup {PlainTitle}
Published ==
  metadata = NoMetadata \/ /\ metadata.pid \in Programs /\ metadata.provider = "Hermes"
                           /\ Agent(metadata.pid) = "Hermes"
Kept == shown.resolved => proven.provider = shown.provider
IdentityInv == PaneAt /\ Painted /\ Published /\ Kept

\* A process that is under the pane's shell.
Inside(x) ==
  \/ x = Program[fg].process
  \/ tool # "no" /\ x = ToolProcess(fg)
  \/ stopped # None /\ x = Program[stopped].process

LEMMA TablesHold ==
  ASSUME NEW table \in Tables
  PROVE  /\ \E S : table.foreground \in Seq(S) /\ table.descendants \in Seq(S)
         /\ \A x : Holds(table.foreground, x) \/ Holds(table.descendants, x) => Inside(x)
         /\ Holds(table.descendants, Program[fg].process)
         /\ tool # "owns" => Holds(table.foreground, Program[fg].process)
         /\ tool = "owns" => \A x : Holds(table.foreground, x) => x = ToolProcess(fg)
<1> DEFINE S == {Program[fg].process, ToolProcess(fg), IF stopped = None THEN 0 ELSE Program[stopped].process}
<1>1. /\ Members \in Seq(S) /\ Rest \in Seq(S) /\ <<ToolProcess(fg)>> \in Seq(S)
  BY DEF Members, Rest
<1>2. /\ Holds(Members, Program[fg].process)
      /\ \A x : Holds(Members, x) => x = Program[fg].process \/ (tool # "no" /\ x = ToolProcess(fg))
      /\ \A x : Holds(Rest, x) => stopped # None /\ x = Program[stopped].process
      /\ \A x : Holds(<<ToolProcess(fg)>>, x) => x = ToolProcess(fg)
  <2>1. CASE tool = "no"
    BY <2>1 DEF Members, Rest, Holds
  <2>2. CASE tool # "no"
    <3>1. Members = <<Program[fg].process, ToolProcess(fg)>>
      BY <2>2 DEF Members
    <3> QED
      BY <2>2, <3>1 DEF Rest, Holds
  <2> QED
    BY <2>1, <2>2
<1> HIDE DEF S
<1> DEFINE all == Members \o Rest
<1>3. all \in Seq(S) /\ \A x : Holds(all, x) <=> Holds(Members, x) \/ Holds(Rest, x)
  BY <1>1, ConcatHolds
<1>4. /\ Reversed(Members) \in Seq(S) /\ \A x : Holds(Reversed(Members), x) <=> Holds(Members, x)
      /\ Reversed(all) \in Seq(S) /\ \A x : Holds(Reversed(all), x) <=> Holds(all, x)
  BY <1>1, <1>3, ReversedHolds
<1>5. /\ \/ table.foreground = <<ToolProcess(fg)>> /\ tool = "owns"
         \/ table.foreground \in {Members, Reversed(Members)} /\ tool # "owns"
      /\ table.descendants \in {all, Reversed(all)}
  BY DEF Tables
<1>6. table.foreground \in Seq(S) /\ table.descendants \in Seq(S)
  BY <1>1, <1>3, <1>4, <1>5
<1>7. /\ tool # "owns" => \A x : Holds(table.foreground, x) <=> Holds(Members, x)
      /\ tool = "owns" => \A x : Holds(table.foreground, x) => x = ToolProcess(fg)
      /\ \A x : Holds(table.descendants, x) <=> Holds(Members, x) \/ Holds(Rest, x)
  BY <1>2, <1>3, <1>4, <1>5
<1> HIDE DEF all
<1>8. \A x : Holds(table.foreground, x) \/ Holds(table.descendants, x) => Inside(x)
  BY <1>2, <1>7 DEF Inside
<1> QED
  BY <1>2, <1>6, <1>7, <1>8

\* What a table gives an analysis: the processes of the pane, the foreground's own
\* among them as soon as one of its tools is.
LEMMA EvidenceHolds ==
  ASSUME PaneAt, NEW table \in Tables, ProviderFromCommand(Command) = None
  PROVE  LET u == UsesForeground(Command, title)
             d == UsesDescendants(Command, title)
             e == (IF u THEN table.foreground ELSE <<>>) \o (IF d THEN table.descendants ELSE <<>>)
         IN /\ \A x : Holds(e, x) => Inside(x)
            /\ DOMAIN e \subseteq Nat
            /\ Agent(fg) # None => (u \/ d) /\ Holds(e, Program[fg].process)
<1> DEFINE u == UsesForeground(Command, title)
           d == UsesDescendants(Command, title)
           e == (IF u THEN table.foreground ELSE <<>>) \o (IF d THEN table.descendants ELSE <<>>)
<1> HIDE DEF u, d
<1>1. PICK S : table.foreground \in Seq(S) /\ table.descendants \in Seq(S)
  BY TablesHold
<1>2. /\ (IF u THEN table.foreground ELSE <<>>) \in Seq(S)
      /\ (IF d THEN table.descendants ELSE <<>>) \in Seq(S)
      /\ \A x : ~Holds(<<>>, x)
  BY <1>1 DEF Holds
<1>3. /\ e \in Seq(S)
      /\ \A x : Holds(e, x) <=> (u /\ Holds(table.foreground, x)) \/ (d /\ Holds(table.descendants, x))
  BY <1>2, ConcatHolds
<1> HIDE DEF e
<1>4. DOMAIN e \subseteq Nat
  BY <1>3
<1>5. ASSUME Agent(fg) # None
      PROVE  d \/ (u /\ tool # "owns")
  <2>1. CASE tool = "named"
    BY <2>1 DEF Command, UsesForeground, Shells, u
  <2>2. CASE tool # "named"
    <3>1. Command = Program[fg].command /\ Program[fg].agent # None
      BY <1>5, <2>2, ProgramsAssumption DEF Command, Agent, PaneAt
    <3>2. UsesDescendants(Command, PlainTitle)
      BY <3>1, ProgramsAssumption DEF Recognisable, PaneAt
    <3>3. Command # "amp" /\ (Command \in Launchers \/ Command = "version")
      BY <3>2 DEF UsesDescendants, Shown, PlainTitle
    <3> QED
      BY <3>3 DEF UsesDescendants, Shown, d
  <2> QED
    BY <2>1, <2>2
<1> QED
  BY <1>3, <1>4, <1>5, TablesHold DEF e, u, d

\* Whatever processes of the pane are looked at, an agent of the pane is known by
\* them or none, and some agent is if the process of the one in front is among them.
LEMMA KnownIsAlive ==
  ASSUME PaneAt, NEW e, \A x : Holds(e, x) => Inside(x),
         Agent(fg) # None => Holds(e, Program[fg].process)
  PROVE  /\ \A i \in DOMAIN e : ProcessProvider(e[i], PrimeIsAmong(e)) \in Alive \cup {None}
         /\ Agent(fg) # None => \E i \in DOMAIN e : ProcessProvider(e[i], PrimeIsAmong(e)) # None
<1> DEFINE prime == PrimeIsAmong(e)
<1>1. prime \in BOOLEAN
  BY DEF PrimeIsAmong
<1>2. /\ fg \in Programs /\ Agent(fg) = Program[fg].agent
      /\ stopped # None => stopped \in Programs /\ Agent(stopped) = Program[stopped].agent
  BY ProgramsAssumption DEF PaneAt, Agent
<1>3. ASSUME Agent(fg) = "Prime" PROVE prime
  <2>1. PICK i \in DOMAIN e : e[i] = Program[fg].process
    BY <1>3 DEF Holds, None
  <2>2. "Prime" \in {ProviderFromCommand(e[i].command), ProviderFromCommand(e[i].argv0)}
    BY <1>2, <1>3, <2>1, ProgramsAssumption DEF Recognisable, None
  <2> QED
    BY <2>2 DEF PrimeIsAmong
<1> HIDE DEF prime
<1>4. ASSUME NEW x, Inside(x) PROVE ProcessProvider(x, prime) \in Alive \cup {None}
  <2>1. CASE x = Program[fg].process
    BY <1>1, <1>2, <2>1, ProgramsAssumption DEF LooksLikeItself, Alive
  <2>2. CASE x = ToolProcess(fg)
    BY <1>1, <1>2, <1>3, <2>2, ProgramsAssumption DEF LooksLikeItself, Alive
  <2>3. CASE stopped # None /\ x = Program[stopped].process
    BY <1>1, <1>2, <2>3, ProgramsAssumption DEF LooksLikeItself, Alive
  <2> QED
    BY <1>4, <2>1, <2>2, <2>3 DEF Inside
<1>5. \A i \in DOMAIN e : ProcessProvider(e[i], prime) \in Alive \cup {None}
  BY <1>4 DEF Holds
<1>6. ASSUME Agent(fg) # None PROVE \E i \in DOMAIN e : ProcessProvider(e[i], prime) # None
  <2>1. PICK i \in DOMAIN e : e[i] = Program[fg].process
    BY <1>6 DEF Holds
  <2>2. ProcessProvider(Program[fg].process, prime) = Program[fg].agent
    BY <1>1, <1>2, <1>6, ProgramsAssumption DEF Recognisable
  <2> QED
    BY <1>2, <1>6, <2>1, <2>2
<1> QED
  BY <1>5, <1>6 DEF prime

LEMMA FallbackIsAlive ==
  ASSUME PaneAt, NEW table \in Tables, ProviderFromCommand(Command) = None
  PROVE  LET found == Fallback(Command, title, table.foreground, table.descendants)
         IN /\ found = NoMatch \/ /\ found.provider \in Alive /\ found.by = "ProcProcessTree"
            /\ Agent(fg) # None => /\ found # NoMatch
                                   /\ UsesForeground(Command, title) \/ UsesDescendants(Command, title)
<1> DEFINE u == UsesForeground(Command, title)
           d == UsesDescendants(Command, title)
           e == (IF u THEN table.foreground ELSE <<>>) \o (IF d THEN table.descendants ELSE <<>>)
           known == {i \in DOMAIN e : ProcessProvider(e[i], PrimeIsAmong(e)) # None}
           found == Fallback(Command, title, table.foreground, table.descendants)
<1>1. /\ \A x : Holds(e, x) => Inside(x)
      /\ DOMAIN e \subseteq Nat
      /\ Agent(fg) # None => (u \/ d) /\ Holds(e, Program[fg].process)
  BY EvidenceHolds
<1>2. found = IF known = {} THEN NoMatch
              ELSE Match(ProcessProvider(e[First(known)], PrimeIsAmong(e)), "ProcProcessTree")
  BY DEF Fallback
<1> HIDE DEF e, found
<1>3. /\ \A i \in DOMAIN e : ProcessProvider(e[i], PrimeIsAmong(e)) \in Alive \cup {None}
      /\ Agent(fg) # None => known # {}
  BY <1>1, KnownIsAlive
<1>4. known # {} => First(known) \in known
  BY <1>1, FirstIsIn
<1>5. known # {} => found.provider \in Alive /\ found.by = "ProcProcessTree"
  BY <1>2, <1>3, <1>4 DEF Match
<1>6. known # {} => found # NoMatch
  BY <1>5 DEF NoMatch, Match, None
<1> QED
  BY <1>1, <1>2, <1>3, <1>5, <1>6 DEF found

-----------------------------------------------------------------------------
(* What a pane is taken for                                                  *)

LEMMA PublisherIsAlive ==
  ASSUME PaneAt, Published, TrustedMetadata.provider # None
  PROVE  TrustedMetadata.provider \in Alive
<1>1. metadata # NoMetadata /\ metadata.pid \in {fg, stopped} /\ TrustedMetadata = metadata
  BY ProgramsAssumption DEF TrustedMetadata, Published, NoMetadata
<1>2. metadata.provider = "Hermes" /\ Agent(metadata.pid) = "Hermes"
  BY <1>1 DEF Published
<1> QED
  BY <1>1, <1>2 DEF Alive, None

\* A title that is believed is an agent's of the pane, or the accepted residue.
LEMMA BelievedIsAlive ==
  ASSUME PaneAt, Painted, ProviderFromCommand(Command) = None, TitleHint(title).strong,
         ~StaleTitle(TitleHint(title).provider, CommandForAnalysis(Command), title)
  PROVE  AcceptedResidue \/ TitleHint(title).provider \in Alive
<1> DEFINE hint == TitleHint(title)
<1>1. title \in Program[painter].titles /\ hint.provider # None
  BY PlainSaysNothing, HintNames DEF Painted
<1>2. painter \in Programs /\ hint.provider = Program[painter].agent
  BY <1>1, ProgramsAssumption DEF PaneAt, LooksLikeItself
<1>3. painter # "shell" /\ Agent(painter) = hint.provider
  BY <1>1, <1>2, ProgramsAssumption DEF Agent
<1>4. CASE painter \in {fg, stopped}
  BY <1>1, <1>3, <1>4 DEF Alive
<1>5. CASE painter \notin {fg, stopped}
  <2>1. hint.provider \in {"Pi", "Prime"} /\ ~Spinner(title)
    BY <1>3, <1>5, PlainSaysNothing, ProgramsAssumption DEF Painted
  <2>2. /\ hint.provider = "Pi" => CommandForAnalysis(Command) \in {"pi", "node", "bun"}
        /\ hint.provider = "Prime" => CommandForAnalysis(Command) \in {"primeagent", "node", "bun"}
    BY <2>1 DEF StaleTitle
  <2>3. CommandForAnalysis(Command) = Command
    <3>1. CommandForAnalysis(Command) \in {Command, ""}
      BY Words
    <3> QED
      BY <2>1, <2>2, <3>1
  <2>4. CASE Command = "pi"
    <3>1. hint.provider = "Pi" /\ Command = Program[fg].command
      BY <2>1, <2>2, <2>3, <2>4 DEF Command
    <3>2. Agent(fg) = "Pi"
      BY <2>4, <3>1, ProgramsAssumption DEF PaneAt, LooksLikeItself, Agent
    <3> QED
      BY <3>1, <3>2 DEF Alive, None
  <2>5. CASE Command \in {"node", "bun"}
    BY <1>5, <2>1, <2>5 DEF AcceptedResidue, Residue
  <2> QED
    BY <2>1, <2>2, <2>3, <2>4, <2>5, Words
<1> QED
  BY <1>4, <1>5

LEMMA JudgedIs ==
  ASSUME PaneAt, Painted, Published, NEW table \in Tables
  PROVE  LET judged == Judged(table)
         IN /\ \/ AcceptedResidue
               \/ judged.match.provider \in Alive \cup (IF Agent(fg) = None THEN {None} ELSE {})
            /\ judged.match.by = "PaneTitle" => judged.match.provider = TitleHint(title).provider
<1> DEFINE match == ClassifyProvider(TrustedMetadata.provider, Command, title)
           found == Fallback(Command, title, table.foreground, table.descendants)
           asked == FallbackCandidate(match, TrustedMetadata.provider, Command, title)
           judged == Judged(table)
           c == CommandForAnalysis(Command)
<1>1. judged.match = IF asked /\ found # NoMatch THEN found ELSE match
  BY DEF Judged
<1>2. CASE TrustedMetadata.provider # None
  <2>1. match = Match(TrustedMetadata.provider, "PaneMetadata") /\ ~asked
    BY <1>2, ClassifyIs DEF FallbackCandidate
  <2> QED
    BY <1>1, <1>2, <2>1, PublisherIsAlive DEF Match
<1>3. CASE TrustedMetadata.provider = None /\ ProviderFromCommand(Command) # None
  <2>1. match = Match(ProviderFromCommand(Command), "PaneCurrentCommand") /\ match # NoMatch
    <3>1. ProviderFromCommand(c) = ProviderFromCommand(Command)
      BY Words
    <3>2. match = Match(ProviderFromCommand(Command), "PaneCurrentCommand")
      BY <1>3, <3>1, ClassifyIs
    <3> QED
      BY <1>3, <3>2 DEF Match, NoMatch
  <2>2. Command = Program[fg].command
    BY <1>3, Words DEF Command
  <2>3. ProviderFromCommand(Command) = Agent(fg)
    BY <1>3, <2>2, ProgramsAssumption DEF PaneAt, LooksLikeItself, Agent
  <2>4. ~asked
    BY <2>1 DEF FallbackCandidate
  <2> QED
    BY <1>1, <1>3, <2>1, <2>3, <2>4 DEF Match, Alive
<1>4. CASE TrustedMetadata.provider = None /\ ProviderFromCommand(Command) = None
  <2>1. ProviderFromCommand(c) = None
    BY <1>4, Words
  <2>2. CASE /\ TitleHint(title).strong /\ ~StaleTitle(TitleHint(title).provider, c, title)
             /\ match = Match(TitleHint(title).provider, "PaneTitle")
    <3>1. ~asked
      BY <2>2 DEF FallbackCandidate, Match, NoMatch, None
    <3> QED
      BY <1>1, <1>4, <2>2, <3>1, BelievedIsAlive DEF Match
  <2>3. CASE c = "pi" /\ match = Match("Pi", "PaneCurrentCommand")
    <3>1. ~asked
      BY <2>3 DEF FallbackCandidate, Match, NoMatch, None
    <3>2. Command = "pi" /\ Command = Program[fg].command
      BY <2>3, Words DEF Command
    <3>3. Agent(fg) = "Pi"
      BY <3>2, ProgramsAssumption DEF PaneAt, LooksLikeItself, Agent
    <3> QED
      BY <1>1, <2>3, <3>1, <3>3 DEF Match, Alive, None
  <2>4. CASE match = NoMatch
    <3>1. /\ found = NoMatch \/ (found.provider \in Alive /\ found.by = "ProcProcessTree")
          /\ Agent(fg) # None => found # NoMatch /\ asked
      BY <1>4, <2>4, FallbackIsAlive DEF FallbackCandidate
    <3>2. CASE asked /\ found # NoMatch
      BY <1>1, <3>1, <3>2
    <3>3. CASE ~(asked /\ found # NoMatch)
      <4>1. judged.match = NoMatch /\ Agent(fg) = None
        BY <1>1, <2>4, <3>1, <3>3
      <4> QED
        BY <4>1 DEF NoMatch, Match, None
    <3> QED
      BY <3>2, <3>3
  <2> QED
    BY <1>4, <2>1, <2>2, <2>3, <2>4, ClassifyIs
<1> QED
  BY <1>2, <1>3, <1>4

-----------------------------------------------------------------------------
(* The invariant                                                             *)

LEMMA RecordIs ==
  ASSUME NEW record \in Listings
  PROVE  /\ ProvenBy(record).provider = record.provider \/ ~record.resolved
         /\ \E table \in Tables : /\ record.provider = Judged(table).match.provider
                                  /\ record = Classified(Judged(table))
  BY DEF Listings, Judgements, Classified, Record, ProvenBy

LEMMA IdentityInit == PaneInit => IdentityInv
<1> SUFFICES ASSUME PaneInit PROVE IdentityInv
  OBVIOUS
<1>1. PaneAt /\ Painted /\ Published
  BY ProgramsAssumption DEF PaneInit, PaneAt, Painted, Published, None
<1>2. Kept
  BY RecordIs DEF PaneInit, Kept
<1> QED
  BY <1>1, <1>2 DEF IdentityInv

LEMMA IdentityStep == IdentityInv /\ [PaneNext]_paneVars => IdentityInv'
<1> SUFFICES ASSUME IdentityInv, [PaneNext]_paneVars PROVE IdentityInv'
  OBVIOUS
<1> USE DEF IdentityInv
<1>1. ASSUME UNCHANGED <<fg, stopped, painter, title, metadata, shown, proven>>, tool' = tool \/ tool' = "no"
      PROVE  IdentityInv'
  BY <1>1 DEF PaneAt, Painted, Published, Kept, Agent
<1>2. CASE UNCHANGED paneVars \/ EndTool
  BY <1>1, <1>2 DEF EndTool, paneVars, world
<1>3. ASSUME NEW p \in Programs, Run(p)
      PROVE  IdentityInv'
  <2>1. PaneAt' /\ Published' /\ Kept'
    BY <1>3, ProgramsAssumption DEF Run, PaneAt, Published, Kept, Agent
  <2>2. Painted'
    BY <1>3 DEF Run, Painted
  <2> QED
    BY <2>1, <2>2
<1>4. CASE Paint
  <2>1. PaneAt' /\ Published' /\ Kept'
    BY <1>4 DEF Paint, PaneAt, Published, Kept, Agent
  <2>2. Painted'
    BY <1>4 DEF Paint, Painted
  <2> QED
    BY <2>1, <2>2
<1>5. CASE StartTool
  BY <1>5 DEF StartTool, PaneAt, Painted, Published, Kept, Agent
<1>6. CASE Publish
  <2>1. metadata'.pid \in Programs /\ metadata'.provider = "Hermes" /\ Agent(metadata'.pid) = "Hermes"
    BY <1>6 DEF Publish, PaneAt
  <2>2. PaneAt' /\ Painted' /\ Kept'
    BY <1>6 DEF Publish, PaneAt, Painted, Kept, Agent
  <2> QED
    BY <2>1, <2>2 DEF Published, Agent
<1>7. CASE End
  <2>1. PaneAt' /\ Published' /\ Kept'
    BY <1>7, ProgramsAssumption DEF End, PaneAt, Published, Kept, Agent
  <2>2. Painted'
    BY <1>7 DEF End, Painted
  <2> QED
    BY <2>1, <2>2
<1>8. CASE Suspend
  <2>1. PaneAt' /\ Published' /\ Kept'
    BY <1>8, ProgramsAssumption DEF Suspend, PaneAt, Published, Kept, Agent
  <2>2. Painted'
    BY <1>8, ProgramsAssumption DEF Suspend, Painted, PaneAt
  <2> QED
    BY <2>1, <2>2
<1>9. CASE Resume
  <2>1. PaneAt' /\ Published' /\ Kept'
    BY <1>9, ProgramsAssumption DEF Resume, PaneAt, Published, Kept, Agent
  <2>2. Painted'
    BY <1>9, ProgramsAssumption DEF Resume, Painted, PaneAt
  <2> QED
    BY <2>1, <2>2
<1>10. CASE List
  <2>1. PICK record \in Listings : Show(record)
    BY <1>10 DEF List
  <2>2. Kept'
    BY <2>1, RecordIs DEF Show, Kept
  <2>3. PaneAt' /\ Painted' /\ Published'
    BY <2>1 DEF Show, world, PaneAt, Painted, Published, Agent
  <2> QED
    BY <2>2, <2>3
<1>11. ASSUME NEW retitled \in BOOLEAN, CarryIdentity(retitled)
       PROVE  IdentityInv'
  <2>1. /\ shown'.resolved = shown.resolved /\ shown'.provider = shown.provider
        /\ UNCHANGED <<world, proven>>
    BY <1>11 DEF CarryIdentity, Carried, Record, Match
  <2>2. Kept'
    BY <2>1 DEF Kept
  <2>3. PaneAt' /\ Painted' /\ Published'
    BY <2>1 DEF world, PaneAt, Painted, Published, Agent
  <2> QED
    BY <2>2, <2>3
<1> QED
  BY <1>2, <1>3, <1>4, <1>5, <1>6, <1>7, <1>8, <1>9, <1>10, <1>11 DEF PaneNext

LEMMA IdentityAlways == PaneSpec => []IdentityInv
BY IdentityInit, IdentityStep, PTL DEF PaneSpec

\* Whatever programs run in the pane, if each looks like itself and an agent can be
\* known by its process: a listing shows an agent of the pane, in front or suspended,
\* and none only when no agent is in front.
THEOREM ListingsAlwaysOfThePane == PaneSpec => []ListingsAreOfThePane
<1>1. IdentityInv => ListingsAreOfThePane
  BY JudgedIs DEF IdentityInv, ListingsAreOfThePane, Judgements
<1> QED
  BY <1>1, IdentityAlways, PTL

-----------------------------------------------------------------------------
(* What a record rests on                                                    *)

\* A label or a status that comes of the title comes of one that does not name
\* another agent.
LEMMA DerivedDefers ==
  ASSUME NEW match, NEW t, NEW state,
         \/ Status(match, t, state).source = "TmuxTitle"
         \/ Display(match, t) # "window"
  PROVE  ~Conflicts(match.provider, match.by, t)
<1>1. CASE Conflicts(match.provider, match.by, t)
  <2>1. Status(match, t, state).source # "TmuxTitle"
    BY <1>1 DEF Status
  <2>2. Display(match, t) = "window"
    BY <1>1 DEF Display
  <2> QED
    BY <2>1, <2>2
<1> QED
  BY <1>1

\* The step of a listing or of a targeted refresh.
LEMMA ShownStep ==
  ASSUME IdentityInv, PaneNext, shown' # shown
  PROVE  /\ UNCHANGED world
         /\ \/ \E table \in Tables : /\ shown' = Classified(Judged(table))
                                     /\ proven' = ProvenBy(shown')
            \/ shown' = Carried /\ shown.resolved /\ UNCHANGED proven
<1>1. CASE List
  BY <1>1, RecordIs DEF List, Show
<1>2. CASE \E retitled \in BOOLEAN : CarryIdentity(retitled)
  BY <1>2 DEF CarryIdentity, Preserves
<1> QED
  BY <1>1, <1>2 DEF PaneNext, Run, Paint, StartTool, EndTool, Publish, End, Suspend, Resume

\* Whatever programs run in the pane: an identity that outlives its agent is one that the
\* process table gave, and neither status nor label is read from a title that names
\* another agent.
THEOREM RecordsAlwaysRest == PaneSpec => RecordsRestOnEvidence
<1> DEFINE named == TitleHint(title)
<1>1. ASSUME IdentityInv, PaneNext, shown' # shown, Ghost(shown)', ~AcceptedResidue'
      PROVE  shown'.provider = proven'.provider
  <2>1. UNCHANGED world
    BY <1>1, ShownStep
  <2>2. ~AcceptedResidue /\ shown'.provider \notin Alive \cup {None}
    BY <1>1, <2>1 DEF world, AcceptedResidue, Residue, Command, Ghost, Alive, Agent
  <2>3. CASE \E table \in Tables : shown' = Classified(Judged(table))
    <3>1. PICK table \in Tables : shown'.provider = Judged(table).match.provider
      BY <2>3 DEF Classified, Record
    <3> QED
      BY <1>1, <2>2, <3>1, JudgedIs DEF IdentityInv
  <2>4. CASE shown' = Carried /\ shown.resolved /\ UNCHANGED proven
    BY <1>1, <2>4 DEF Carried, Record, Match, IdentityInv, Kept
  <2> QED
    BY <1>1, <2>3, <2>4, ShownStep
<1>2. ASSUME IdentityInv, PaneNext, shown' # shown,
             shown'.status.source = "TmuxTitle" \/ shown'.display # "window",
             named.explicit, named.strong \/ named.provider \in {"Copilot", "CursorCli", "Droid"}
      PROVE  shown'.provider = named.provider
  <2>1. CASE \E table \in Tables : shown' = Classified(Judged(table))
    <3>1. PICK table \in Tables : shown' = Classified(Judged(table))
      BY <2>1
    <3> DEFINE match == Judged(table).match
    <3>2. /\ shown'.provider = match.provider
          /\ shown'.status = Status(match, title, TrustedMetadata.state)
          /\ shown'.display = Display(match, title)
      BY <3>1 DEF Classified, Record, Derived
    <3>3. ~Conflicts(match.provider, match.by, title)
      BY <1>2, <3>2, DerivedDefers
    <3>4. match.by = "PaneTitle" => match.provider = named.provider
      BY <1>2, JudgedIs DEF IdentityInv
    <3> QED
      BY <1>2, <3>2, <3>3, <3>4 DEF Conflicts
  <2>2. CASE shown' = Carried
    <3> DEFINE match == Match(shown.provider, "PaneMetadata")
    <3>1. /\ shown'.provider = match.provider /\ match.by = "PaneMetadata"
          /\ shown'.status = Status(match, title, TrustedMetadata.state)
          /\ shown'.display = Display(match, title)
      BY <2>2 DEF Carried, Record, Derived, Match
    <3>2. ~Conflicts(match.provider, match.by, title)
      BY <1>2, <3>1, DerivedDefers
    <3> QED
      BY <1>2, <3>1, <3>2 DEF Conflicts
  <2> QED
    BY <1>2, <2>1, <2>2, ShownStep
<1>3. PaneSpec => CarriedIdentityWasProven
  BY <1>1, IdentityAlways, PTL DEF PaneSpec, CarriedIdentityWasProven, paneVars
<1>4. PaneSpec => OtherAgentsTitleSaysNothing
  BY <1>2, IdentityAlways, PTL DEF PaneSpec, OtherAgentsTitleSaysNothing, paneVars
<1> QED
  BY <1>3, <1>4 DEF RecordsRestOnEvidence
==============================================================================
