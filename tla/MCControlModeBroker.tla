------------------------ MODULE MCControlModeBroker -------------------------
(* Instances of ControlModeBroker for TLC: a primary session, one or two     *)
(* other sessions, and small numbers of changes, failures and reconnects.    *)
EXTENDS ControlModeBroker

CONSTANTS p, s1
=============================================================================
