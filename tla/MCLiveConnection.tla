-------------------------- MODULE MCLiveConnection --------------------------
(* Two sources, and a fence that remembers one of them.                    *)
EXTENDS LiveConnection
CONSTANTS local, box
MCSources == {local, box}
=============================================================================
