---------------------------- MODULE MCConnections ----------------------------
(* Who is connected to the daemon, and to whom it is. Its consumers: two    *)
(* workers of which one may be kept from starting a daemon, or a worker or  *)
(* a one-shot kept from it next to a one-shot. Or the sessions of tmux that *)
(* its event clients watch: three, two of them under the cap. Neither reads *)
(* the state of the other, so one run checks both, each from initial states *)
(* of its own. What stands still is at rest (consumers that may not start a *)
(* daemon and find none, a tmux with the primary session only), and is owed *)
(* no progress.                                                             *)
EXTENDS Consumers, MCSubscriberCoverage, TLC

CONSTANTS a, b
VARIABLE subject

Is(m, p) == [mode |-> m, policy |-> p]
AtRest == a :> Is("subscribe", "untrusted") @@ b :> Is("subscribe", "untrusted")
MCSettings ==
  {(a :> x @@ b :> Is("subscribe", "auto")) :
     x \in {Is("subscribe", "auto"), Is("subscribe", "disabled"), Is("subscribe", "untrusted")}}
  \cup {(a :> x @@ b :> Is("snapshot", "auto")) :
     x \in {Is("subscribe", "auto"), Is("snapshot", "disabled"), Is("subscribe", "untrusted")}}
  \cup {AtRest}

OfConsumers == subject = "consumers"
OfCoverage == subject = "coverage"

MCInit ==
  /\ Init /\ CoverageInit
  /\ \/ OfConsumers /\ live = {} /\ setting # AtRest
     \/ OfCoverage /\ live = {1} /\ setting = AtRest /\ daemon = "none"

MCNext ==
  \/ OfConsumers /\ Next /\ UNCHANGED <<subject, coverageVars>>
  \/ OfCoverage /\ CoverageNext /\ UNCHANGED <<subject, vars>>

\* The fairness of the two FairSpecs, owed where the part runs.
MCFairness ==
  /\ WF_vars(OfConsumers /\ BecomesReady) /\ WF_vars(OfConsumers /\ DaemonEnds)
  /\ \A c \in Consumers :
       WF_vars(OfConsumers /\ ConsumerStep(c)) /\ WF_vars(OfConsumers /\ DeadlinePasses(c))
  /\ \A peer \in Peers : WF_vars(OfConsumers /\ ServerStep(peer))
  /\ WF_coverageVars(OfCoverage /\ PeriodicListing)
  /\ WF_coverageVars(OfCoverage /\ SessionsChanged)
  /\ WF_coverageVars(OfCoverage /\ Recovered) /\ WF_coverageVars(OfCoverage /\ Enumerate)
  /\ WF_coverageVars(OfCoverage /\ Attach) /\ WF_coverageVars(OfCoverage /\ Monitor)
  /\ WF_coverageVars(OfCoverage /\ Tick)

MCSpec == MCInit /\ [][MCNext]_<<subject, vars, coverageVars>> /\ MCFairness
=============================================================================
