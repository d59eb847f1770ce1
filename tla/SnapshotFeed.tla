---------------------------- MODULE SnapshotFeed ----------------------------
(***************************************************************************)
(* What the daemon's snapshot stream promises a reader, with no protocol   *)
(* in sight: there is one growing sequence of published snapshots, and     *)
(* what a client shows is always one of them, whole, and never an older    *)
(* one than it showed before.  SnapshotStream (one socket, one mailbox and *)
(* two threads per subscriber, diffs and coalescing) implements this.      *)
(***************************************************************************)
EXTENDS Naturals

CONSTANTS
  Clients,   \* the subscribers
  Contents,  \* what a snapshot can say
  Nothing,   \* what a client shows before its first snapshot
  MaxSeq     \* bound on the number of publications

VARIABLES
  published, \* the snapshot published under each sequence number
  latest,    \* the newest sequence number, 0 before the first publication
  shown      \* per client: the sequence number and content on display

vars == <<published, latest, shown>>

Init ==
  /\ latest = 0
  /\ published = [i \in 1 .. MaxSeq |-> Nothing]
  /\ shown = [c \in Clients |-> [seq |-> 0, content |-> Nothing]]

Publish ==
  /\ latest < MaxSeq
  /\ latest' = latest + 1
  /\ \E s \in Contents : published' = [published EXCEPT ![latest + 1] = s]
  /\ UNCHANGED shown

\* A client may skip publications, never go back over one.
Observe(c) ==
  /\ \E n \in 1 .. latest :
       /\ n >= shown[c].seq
       /\ shown' = [shown EXCEPT ![c] = [seq |-> n, content |-> published[n]]]
  /\ UNCHANGED <<published, latest>>

Next == Publish \/ \E c \in Clients : Observe(c)

Spec == Init /\ [][Next]_vars
=============================================================================
