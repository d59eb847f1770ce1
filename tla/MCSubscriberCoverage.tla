------------------------ MODULE MCSubscriberCoverage ------------------------
(* Three sessions besides the primary one, two of them under the cap.      *)
EXTENDS SubscriberCoverage
MCOtherSessions == 1..3
MCStarts == {{}, {1}}
=============================================================================
