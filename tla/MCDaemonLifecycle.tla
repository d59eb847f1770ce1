-------------------------- MODULE MCDaemonLifecycle --------------------------
(* The instance of DaemonLifecycle whose liveness TLC checks. Daemons that *)
(* consumers spawn are alike, so they are spawned in one order: unlike a   *)
(* symmetry set, this loses no cycle.                                      *)
EXTENDS DaemonLifecycle

CONSTANTS d1, d2, l1, l2

InOrder == dpc[d1] = "unborn" => dpc[d2] = "unborn"

MCNext == Next /\ InOrder'

MCSpec == Init /\ [][MCNext]_vars /\ Fairness
=============================================================================
