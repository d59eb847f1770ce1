--------------------------- MODULE SnapshotStream ---------------------------
(***************************************************************************)
(* The daemon's snapshot stream: the snapshot store, the per-subscriber    *)
(* mailboxes, the fan-out of the run loop, the two threads that serve a    *)
(* subscriber, and the client that rebuilds snapshots from the frames it   *)
(* reads.                                                                  *)
(*                                                                         *)
(* Threads: the run loop (the only publisher; it alone marks the daemon    *)
(* closing), and per client a handler, which becomes the reader thread, a  *)
(* writer thread and the client process.  A step is what one of them does  *)
(* under one lock, or one system call.                                     *)
(*                                                                         *)
(* A client opens a connection only when the daemon's threads for its      *)
(* previous one have ended, so subscriber ids are the clients; the code    *)
(* gives every connection a fresh id.  A frame cut short by a failing      *)
(* write and the end of stream after it are one event: the client treats   *)
(* both as a lost connection.                                              *)
(***************************************************************************)
EXTENDS Integers, Sequences, FiniteSets

CONSTANTS
  Clients,
  Panes,              \* pane ids; unique in a snapshot
  Materials,          \* what pane_is_materially_equal compares
  Volatiles,          \* diagnostics.cache_origin
  Absent,             \* no such pane
  Snapshots,          \* the snapshots the run loop may want to publish
  MAX_SUBSCRIBERS,
  WireCap,            \* frames the socket buffer takes before writes block
  MaxSeq,             \* bound: publications
  MaxStalls,          \* bound: writes that time out although the client is there
  DAEMON_FRAME_MAX_BYTES,
  FULL_FRAME_BOUND_SLACK,
  FullSize(_),        \* encoded size of a snapshot frame
  DiffSize(_, _),     \* encoded size of the diff frame between two snapshots
  OmittedGrowth(_, _),\* growth of volatile fields the diff leaves out
  NoFrame

Pane == [mat : Materials, vol : Volatiles]
Snapshot == [Panes -> Pane \cup {Absent}]
Seqs == 1 .. MaxSeq
Empty == [p \in Panes |-> Absent]

ASSUME SnapshotsAssumption ==
  Snapshots \subseteq Snapshot /\ Absent \notin Pane \cup Materials
ASSUME BoundsAssumption ==
  /\ MAX_SUBSCRIBERS \in Nat \ {0}
  /\ WireCap \in Nat \ {0}
  /\ MaxSeq \in Nat \ {0}
  /\ MaxStalls \in Nat
  /\ DAEMON_FRAME_MAX_BYTES \in Nat
  /\ FULL_FRAME_BOUND_SLACK \in Nat

\* A full frame grows by no more than the diff carries, plus the growth of
\* what the diff leaves out, plus the slack for the envelope.
ASSUME SizeAssumption ==
  \A s, t \in Snapshots :
    /\ FullSize(t) \in Nat
    /\ DiffSize(s, t) \in Nat
    /\ OmittedGrowth(s, t) \in Nat
    /\ FullSize(t) <= FullSize(s) + DiffSize(s, t) + OmittedGrowth(s, t)
                        + FULL_FRAME_BOUND_SLACK

VARIABLES
  startup_state,   \* of the socket state: what a new connection is told
  latest_snapshot, \* the snapshot store ...
  latest_seq,
  latest_full_frame,
  full_frame_size_bound,
  subscribers,     \* the registered subscribers
  mailbox,         \* per client: its single pending slot, and closed
  broadcast,       \* the frames the run loop is fanning out
  remaining,       \* the mailboxes it has not reached yet
  to_close,        \* the mailboxes mark_closing has not reached yet
  alive,           \* the daemon process
  writer,          \* per client: the writer thread (the handler, until it exists)
  reader,          \* per client: the reader thread
  inflight,        \* per client: the frame being written
  wire,            \* per client: frames written and not yet read
  shut,            \* per client: the daemon has shut the connection down
  hungup,          \* per client: the client has no connection open
  phase,           \* per client: "offline", "bootstrap", "live" or "stopped"
  view,            \* per client: SubscriptionSnapshotState, and what it shows
  stalls,          \* write timeouts so far
  log              \* history: the snapshot published under each sequence number

store == <<latest_snapshot, latest_seq, latest_full_frame, full_frame_size_bound>>
daemon == <<startup_state, store, log, broadcast, remaining, to_close, alive>>
threads == <<writer, reader, inflight>>
socket == <<wire, shut, hungup>>
client == <<phase, view>>
vars == <<daemon, subscribers, mailbox, threads, socket, client, stalls>>

-----------------------------------------------------------------------------
(* Frames *)

FullFrame(seq, s) == [type |-> "snapshot", seq |-> seq, snapshot |-> s]

Present(s, p) == s[p] # Absent
MateriallyEqual(a, b) == a.mat = b.mat

\* Added or materially changed panes in full, and the ids of panes gone.
WireDiff(previous, current) ==
  [changed |-> [p \in Panes |->
                  IF /\ Present(previous, p) /\ Present(current, p)
                     /\ MateriallyEqual(previous[p], current[p])
                  THEN Absent ELSE current[p]],
   removed |-> {p \in Panes : Present(previous, p) /\ ~Present(current, p)}]

DiffFrame(seq, previous, current) ==
  [type |-> "snapshot_diff", seq |-> seq, diff |-> WireDiff(previous, current)]

ClosingFrame == [type |-> "unavailable", reason |-> "server_closing"]

Diffs == [changed : Snapshot, removed : SUBSET Panes]
FullFrames == [type : {"snapshot"}, seq : Seqs, snapshot : Snapshot]
DiffFrames == [type : {"snapshot_diff"}, seq : Seqs, diff : Diffs]
Frames == FullFrames \cup DiffFrames \cup {ClosingFrame}

IsFull(f) == f.type = "snapshot"
IsDiff(f) == f.type = "snapshot_diff"
IsClosing(f) == f.type = "unavailable"

\* Mutant: panes the client already has are not replaced.
ApplyDiffOnlyAdds(base, d) ==
  [p \in Panes |->
     IF p \in d.removed THEN Absent
     ELSE IF Present(base, p) THEN base[p] ELSE d.changed[p]]

ApplyDiff(base, d) ==
  [p \in Panes |->
     IF Present(d.changed, p) THEN d.changed[p]
     ELSE IF p \in d.removed THEN Absent ELSE base[p]]

\* A snapshot up to what the daemon calls material.
Material(s) == [p \in Panes |-> IF Present(s, p) THEN s[p].mat ELSE Absent]

ASSUME NoFrameAssumption == NoFrame \notin Frames

Fits(size) == size <= DAEMON_FRAME_MAX_BYTES

-----------------------------------------------------------------------------
(* The snapshot store and the run loop *)

Publishing == remaining # {} \/ to_close # {}

\* publish_initial: the frame the daemon is about to serve becomes the cache.
StorePublishInitial(s) ==
  /\ latest_seq' = 1
  /\ latest_snapshot' = s
  /\ latest_full_frame' = FullFrame(1, s)
  /\ full_frame_size_bound' = FullSize(s)
  /\ log' = [log EXCEPT ![1] = s]

\* publish_prepared_snapshot: nobody can be subscribed before it.
PublishInitial ==
  /\ alive /\ startup_state = "initializing"
  /\ \E s \in Snapshots :
       /\ Fits(FullSize(s))
       /\ StorePublishInitial(s)
       /\ broadcast' = [primary |-> FullFrame(1, s), full |-> FullFrame(1, s)]
  /\ startup_state' = "ready"
  /\ remaining' = subscribers
  /\ UNCHANGED <<subscribers, mailbox, to_close, alive, threads, socket, client, stalls>>

\* A startup step failed: say so for a moment, then exit.
MarkStartupFailed ==
  /\ alive /\ startup_state = "initializing"
  /\ startup_state' = "startup_failed"
  /\ UNCHANGED <<store, log, broadcast, remaining, to_close, alive,
                 subscribers, mailbox, threads, socket, client, stalls>>

FullIfFits(seq, s) == IF Fits(FullSize(s)) THEN FullFrame(seq, s) ELSE NoFrame

\* build_diff_broadcast: a diff too large for a frame falls back to the full frame.
BuildBroadcast(seq, previous, current) ==
  [primary |-> IF Fits(DiffSize(previous, current))
               THEN DiffFrame(seq, previous, current)
               ELSE FullIfFits(seq, current),
   full |-> FullIfFits(seq, current)]

PrimarySize(previous, current) ==
  IF Fits(DiffSize(previous, current)) THEN DiffSize(previous, current)
  ELSE FullSize(current)

\* from_full broadcasts omit nothing.
BroadcastOmittedGrowth(previous, current) ==
  IF Fits(DiffSize(previous, current)) THEN OmittedGrowth(previous, current) ELSE 0

\* Mutant: volatile growth is not counted.
CandidateBoundOfDiffOnly(previous, current) ==
  full_frame_size_bound + PrimarySize(previous, current) + FULL_FRAME_BOUND_SLACK

CandidateBound(previous, current) ==
  full_frame_size_bound + PrimarySize(previous, current)
    + BroadcastOmittedGrowth(previous, current) + FULL_FRAME_BOUND_SLACK

\* Whether publish_diff takes the snapshot: its frame can be sent, and it
\* can still be sent whole to the next subscriber.
Publishable(previous, s) ==
  /\ BuildBroadcast(latest_seq + 1, previous, s).primary # NoFrame
  /\ Fits(CandidateBound(previous, s)) \/ Fits(FullSize(s))

CacheAfterDiff == NoFrame

StorePublishDiff(s) ==
  /\ Publishable(latest_snapshot, s)
  /\ latest_seq' = latest_seq + 1
  /\ latest_snapshot' = s
  /\ IF Fits(CandidateBound(latest_snapshot, s))
     THEN /\ full_frame_size_bound' = CandidateBound(latest_snapshot, s)
          /\ latest_full_frame' = CacheAfterDiff
     ELSE /\ full_frame_size_bound' = FullSize(s)
          /\ latest_full_frame' = FullFrame(latest_seq + 1, s)
  /\ log' = [log EXCEPT ![latest_seq + 1] = s]

\* publish_later_snapshot: the store and the list of mailboxes under the
\* lock; the fan-out follows without it.  A snapshot that is not publishable
\* changes nothing.
PublishLater ==
  /\ alive /\ startup_state = "ready" /\ ~Publishing
  /\ latest_seq < MaxSeq
  /\ \E s \in Snapshots :
       /\ StorePublishDiff(s)
       /\ broadcast' = BuildBroadcast(latest_seq + 1, latest_snapshot, s)
  /\ remaining' = subscribers
  /\ UNCHANGED <<startup_state, subscribers, mailbox, to_close, alive, threads,
                 socket, client, stalls>>

SlotKeepsWaiting(pending, b) == IF pending = NoFrame THEN b.primary ELSE pending

\* What enqueue leaves in the slot: the primary frame if it was empty, the
\* absolute full frame if a frame was still waiting there.
Slot(pending, b) == IF pending = NoFrame THEN b.primary ELSE b.full

EnqueueInto(box, b) ==
  IF box.closed THEN box
  ELSE [pending |-> Slot(box.pending, b),
        closed |-> Slot(box.pending, b) = NoFrame]

\* One mailbox of the fan-out, in no particular order.
Enqueue(c) ==
  /\ alive /\ c \in remaining
  /\ mailbox' = [mailbox EXCEPT ![c] = EnqueueInto(@, broadcast)]
  /\ remaining' = remaining \ {c}
  /\ UNCHANGED <<startup_state, store, log, broadcast, to_close, alive, subscribers,
                 threads, socket, client, stalls>>

\* mark_closing: no new subscriber after it, and the registered ones are taken.
MarkClosing ==
  /\ alive /\ startup_state = "ready" /\ ~Publishing
  /\ startup_state' = "closing"
  /\ to_close' = subscribers
  /\ subscribers' = {}
  /\ UNCHANGED <<store, log, broadcast, remaining, alive, mailbox, threads, socket,
                 client, stalls>>

\* close_subscribers: the closing frame takes the slot from what waited there.
CloseSubscriber(c) ==
  /\ alive /\ c \in to_close
  /\ mailbox' = [mailbox EXCEPT ![c] = [pending |-> ClosingFrame, closed |-> TRUE]]
  /\ to_close' = to_close \ {c}
  /\ UNCHANGED <<startup_state, store, log, broadcast, remaining, alive, subscribers,
                 threads, socket, client, stalls>>

ProcessEnds ==
  /\ alive' = FALSE
  /\ writer' = [c \in Clients |-> "done"]
  /\ reader' = [c \in Clients |-> "done"]
  /\ inflight' = [c \in Clients |-> NoFrame]
  /\ shut' = [c \in Clients |-> TRUE]
  /\ UNCHANGED <<startup_state, store, log, broadcast, remaining, to_close, subscribers,
                 mailbox, wire, hungup, client, stalls>>

\* The main thread returns: no subscriber thread is joined, the sockets close.
ProcessExit ==
  /\ alive
  /\ startup_state \in {"closing", "startup_failed"} /\ ~Publishing
  /\ ProcessEnds

\* SIGKILL, which daemon stop sends when SIGTERM has not helped in time, or an
\* error before the daemon could say anything.  (Of a daemon that is closing it
\* is one more ProcessExit.)
Killed == alive /\ startup_state \in {"initializing", "ready"} /\ ProcessEnds

-----------------------------------------------------------------------------
(* Serving one subscriber *)

\* latest_frame: the full frame of the latest snapshot, encoded on demand.
LatestFrame ==
  IF latest_full_frame # NoFrame THEN latest_full_frame
  ELSE FullIfFits(latest_seq, latest_snapshot)

\* snapshot_response, for a one-shot query: only the cached frame may change.
SnapshotResponse ==
  /\ alive /\ startup_state = "ready"
  /\ latest_full_frame = NoFrame
  /\ latest_full_frame' = LatestFrame
  /\ UNCHANGED <<startup_state, latest_snapshot, latest_seq, full_frame_size_bound, log,
                 broadcast, remaining, to_close, alive, subscribers, mailbox, threads,
                 socket, client, stalls>>

\* A client's hello has been accepted: the previous connection is over.
Connectable(c) ==
  /\ alive
  /\ phase[c] = "offline"
  /\ writer[c] = "done" /\ reader[c] = "done" /\ c \notin remaining \cup to_close

Admits == startup_state = "ready"

\* subscribe_response, when it registers: bootstrap frame and mailbox are
\* made under one lock.
Subscribe(c) ==
  /\ Connectable(c) /\ Admits
  /\ LatestFrame # NoFrame
  /\ Cardinality(subscribers) < MAX_SUBSCRIBERS
  /\ latest_full_frame' = LatestFrame
  /\ subscribers' = subscribers \cup {c}
  /\ mailbox' = [mailbox EXCEPT ![c] = [pending |-> NoFrame, closed |-> FALSE]]
  /\ writer' = [writer EXCEPT ![c] = "bootstrap"]
  /\ inflight' = [inflight EXCEPT ![c] = LatestFrame]
  /\ shut' = [shut EXCEPT ![c] = FALSE]
  /\ hungup' = [hungup EXCEPT ![c] = FALSE]
  /\ phase' = [phase EXCEPT ![c] = "bootstrap"]
  /\ UNCHANGED <<startup_state, latest_snapshot, latest_seq, full_frame_size_bound, log,
                 broadcast, remaining, to_close, alive, reader, wire, view, stalls>>

\* subscribe_response, when the daemon has given up or is closing: the client
\* stops.  (Not ready, or too many subscribers: it tries again, nothing changes.)
SubscribeRefused(c) ==
  /\ Connectable(c) /\ startup_state \in {"startup_failed", "closing"}
  /\ phase' = [phase EXCEPT ![c] = "stopped"]
  /\ UNCHANGED <<daemon, subscribers, mailbox, threads, socket, view, stalls>>

\* A frame goes out; after the bootstrap frame the handler starts the writer
\* thread and goes on as the reader.
Write(c) ==
  /\ writer[c] \in {"bootstrap", "writing"}
  /\ ~hungup[c] /\ Len(wire[c]) < WireCap
  /\ wire' = [wire EXCEPT ![c] = Append(@, inflight[c])]
  /\ inflight' = [inflight EXCEPT ![c] = NoFrame]
  /\ writer' = [writer EXCEPT ![c] = "waiting"]
  /\ reader' = [reader EXCEPT ![c] = IF writer[c] = "bootstrap" THEN "parked" ELSE @]
  /\ UNCHANGED <<daemon, subscribers, mailbox, shut, hungup, client, stalls>>

\* retire_subscriber's first half, under the lock: nothing to close for a
\* subscriber that is no longer registered.
Retired(c) == IF c \in subscribers THEN "closing" ELSE "closed"

\* A write fails: the client is gone, or did not make room in time.
WriteFails(c) ==
  /\ writer[c] \in {"bootstrap", "writing"}
  /\ \/ hungup[c] /\ UNCHANGED stalls
     \/ ~hungup[c] /\ stalls < MaxStalls /\ stalls' = stalls + 1
  /\ subscribers' = subscribers \ {c}
  /\ writer' = [writer EXCEPT ![c] = Retired(c)]
  /\ inflight' = [inflight EXCEPT ![c] = NoFrame]
  /\ UNCHANGED <<daemon, mailbox, reader, socket, client>>

Closed == [pending |-> NoFrame, closed |-> TRUE]

\* retire_subscriber's second half, by the thread that removed the subscriber.
WriterClosesMailbox(c) ==
  /\ writer[c] = "closing"
  /\ mailbox' = [mailbox EXCEPT ![c] = Closed]
  /\ writer' = [writer EXCEPT ![c] = "closed"]
  /\ UNCHANGED <<daemon, subscribers, reader, inflight, socket, client, stalls>>

\* recv: the pending frame, even of a closed mailbox.
Receive(c) ==
  /\ writer[c] = "waiting"
  /\ mailbox[c].pending # NoFrame
  /\ inflight' = [inflight EXCEPT ![c] = mailbox[c].pending]
  /\ mailbox' = [mailbox EXCEPT ![c].pending = NoFrame]
  /\ writer' = [writer EXCEPT ![c] = "writing"]
  /\ UNCHANGED <<daemon, subscribers, reader, socket, client, stalls>>

\* recv says the mailbox is closed, or a write failed: shut the connection
\* down, which wakes the reader.
Shutdown(c) ==
  /\ \/ writer[c] = "waiting" /\ mailbox[c] = Closed
     \/ writer[c] = "closed"
  /\ shut' = [shut EXCEPT ![c] = TRUE]
  /\ writer' = [writer EXCEPT ![c] = "done"]
  /\ UNCHANGED <<daemon, subscribers, mailbox, reader, inflight, wire, hungup, client,
                 stalls>>

\* Mutant: the reader polls only its own side.
ReaderWakesOnShutdown(c) == shut[c]
\* The read returns when either side has ended the connection.
ReaderWakes(c) == hungup[c] \/ shut[c]

\* The reader sees the end of the connection.
ReaderRetires(c) ==
  /\ reader[c] = "parked" /\ ReaderWakes(c)
  /\ subscribers' = subscribers \ {c}
  /\ reader' = [reader EXCEPT ![c] = IF c \in subscribers THEN "closing" ELSE "done"]
  /\ UNCHANGED <<daemon, mailbox, writer, inflight, socket, client, stalls>>

ReaderClosesMailbox(c) ==
  /\ reader[c] = "closing"
  /\ mailbox' = [mailbox EXCEPT ![c] = Closed]
  /\ reader' = [reader EXCEPT ![c] = "done"]
  /\ UNCHANGED <<daemon, subscribers, writer, inflight, socket, client, stalls>>

-----------------------------------------------------------------------------
(* The client *)

HangUp(c, p) ==
  /\ phase' = [phase EXCEPT ![c] = p]
  /\ hungup' = [hungup EXCEPT ![c] = TRUE]
  /\ wire' = [wire EXCEPT ![c] = <<>>]

Adopt(c, seq, s) ==
  /\ phase' = [phase EXCEPT ![c] = "live"]
  /\ view' = [view EXCEPT ![c] = [seq |-> seq, snapshot |-> s]]
  /\ wire' = [wire EXCEPT ![c] = Tail(@)]
  /\ UNCHANGED hungup

\* A diff is only applied to the snapshot right before it, and only after a
\* bootstrap.
Applies(c, f) == IsDiff(f) /\ phase[c] = "live" /\ f.seq = view[c].seq + 1

ReadFrame(c) ==
  /\ wire[c] # <<>>
  /\ LET f == Head(wire[c]) IN
       IF IsFull(f) THEN Adopt(c, f.seq, f.snapshot)
       ELSE IF Applies(c, f) THEN Adopt(c, f.seq, ApplyDiff(view[c].snapshot, f.diff))
       ELSE /\ HangUp(c, IF IsClosing(f) THEN "stopped" ELSE "offline")
            /\ UNCHANGED view
  /\ UNCHANGED <<daemon, subscribers, mailbox, threads, shut, stalls>>

\* The connection ended.  Before the first bootstrap a clean end is fatal, a
\* frame cut short is not.
ReadEnd(c) ==
  /\ ~hungup[c] /\ wire[c] = <<>> /\ shut[c]
  /\ \E p \in {"offline"} \cup (IF view[c].seq = 0 THEN {"stopped"} ELSE {}) :
       HangUp(c, p)
  /\ UNCHANGED <<daemon, subscribers, mailbox, threads, shut, view, stalls>>

\* The user leaves.
Cancel(c) ==
  /\ phase[c] # "stopped"
  /\ HangUp(c, "stopped")
  /\ UNCHANGED <<daemon, subscribers, mailbox, threads, shut, view, stalls>>

-----------------------------------------------------------------------------
Init ==
  /\ startup_state = "initializing"
  /\ latest_snapshot = Empty
  /\ latest_seq = 0
  /\ latest_full_frame = NoFrame
  /\ full_frame_size_bound = 0
  /\ subscribers = {}
  /\ mailbox = [c \in Clients |-> Closed]
  /\ broadcast = [primary |-> NoFrame, full |-> NoFrame]
  /\ remaining = {}
  /\ to_close = {}
  /\ alive = TRUE
  /\ writer = [c \in Clients |-> "done"]
  /\ reader = [c \in Clients |-> "done"]
  /\ inflight = [c \in Clients |-> NoFrame]
  /\ wire = [c \in Clients |-> <<>>]
  /\ shut = [c \in Clients |-> TRUE]
  /\ hungup = [c \in Clients |-> TRUE]
  /\ phase = [c \in Clients |-> "offline"]
  /\ view = [c \in Clients |-> [seq |-> 0, snapshot |-> Empty]]
  /\ stalls = 0
  /\ log = [i \in Seqs |-> Empty]

\* A dead daemon and clients with no connection: starting the next daemon is
\* the lifecycle's business.
Over ==
  /\ ~alive
  /\ \A c \in Clients : hungup[c]
  /\ UNCHANGED vars

RunLoop ==
  \/ PublishInitial \/ MarkStartupFailed \/ PublishLater \/ MarkClosing \/ ProcessExit
  \/ Killed
  \/ \E c \in Clients : Enqueue(c) \/ CloseSubscriber(c)

WriterThread(c) ==
  \/ Write(c) \/ WriteFails(c) \/ WriterClosesMailbox(c) \/ Receive(c) \/ Shutdown(c)
ReaderThread(c) == ReaderRetires(c) \/ ReaderClosesMailbox(c)
ClientProcess(c) == Subscribe(c) \/ SubscribeRefused(c) \/ ReadFrame(c) \/ ReadEnd(c)

Next ==
  \/ RunLoop
  \/ SnapshotResponse
  \/ \E c \in Clients :
       WriterThread(c) \/ ReaderThread(c) \/ ClientProcess(c) \/ Cancel(c)
  \/ Over

Spec == Init /\ [][Next]_vars

\* Every thread that can go on does: the run loop in a fan-out, a writer with a
\* frame to write or a mailbox to leave, a reader woken by the end of its
\* connection, a client that retries and reads.  Nothing obliges the run loop to
\* publish, the daemon to exit, a client to leave or a write to fail.
Fairness ==
  \A c \in Clients :
    /\ WF_vars(Enqueue(c)) /\ WF_vars(CloseSubscriber(c))
    /\ WF_vars(Write(c) \/ (hungup[c] /\ WriteFails(c)))
    /\ WF_vars(WriterClosesMailbox(c) \/ Receive(c) \/ Shutdown(c))
    /\ WF_vars(ReaderThread(c))
    /\ WF_vars(ClientProcess(c))

FairSpec == Spec /\ Fairness

-----------------------------------------------------------------------------
(* Properties *)

TypeOK ==
  /\ startup_state \in {"initializing", "ready", "startup_failed", "closing"}
  /\ latest_snapshot \in Snapshot
  /\ latest_seq \in 0 .. MaxSeq
  /\ latest_full_frame \in FullFrames \cup {NoFrame}
  /\ full_frame_size_bound \in Nat
  /\ subscribers \subseteq Clients
  /\ mailbox \in [Clients -> [pending : Frames \cup {NoFrame}, closed : BOOLEAN]]
  /\ broadcast \in [primary : Frames \cup {NoFrame}, full : Frames \cup {NoFrame}]
  /\ remaining \subseteq Clients
  /\ to_close \subseteq Clients
  /\ alive \in BOOLEAN
  /\ writer \in [Clients -> {"bootstrap", "waiting", "writing", "closing", "closed", "done"}]
  /\ reader \in [Clients -> {"parked", "closing", "done"}]
  /\ inflight \in [Clients -> Frames \cup {NoFrame}]
  /\ wire \in [Clients -> Seq(Frames)]
  /\ shut \in [Clients -> BOOLEAN]
  /\ hungup \in [Clients -> BOOLEAN]
  /\ phase \in [Clients -> {"offline", "bootstrap", "live", "stopped"}]
  /\ view \in [Clients -> [seq : 0 .. MaxSeq, snapshot : Snapshot]]
  /\ stalls \in 0 .. MaxStalls
  /\ log \in [Seqs -> Snapshot]

\* snapshot_wire_diff's contract: whatever mixture of bootstrap, diffs and
\* coalesced full frames a client has read, through whatever reconnects, it
\* shows the snapshot published under its sequence number, up to volatile fields.
ReconstructionIsFaithful ==
  \A c \in Clients :
    view[c].seq # 0 => Material(view[c].snapshot) = Material(log[view[c].seq])

\* A diff never reaches a client that lacks the snapshot it was made against:
\* the gap check of read_subscription_frames is a safety net that coalescing
\* and bootstrapping make sure nothing falls into.
NoSeqGap ==
  \A c \in Clients :
    /\ ~hungup[c] /\ wire[c] # <<>> /\ IsDiff(Head(wire[c]))
    => Applies(c, Head(wire[c]))

\* publish_diff's encodability guard: small diffs never grow the snapshot past
\* what one frame can carry, so every later bootstrap and query can be served.
AlwaysBootstrappable ==
  startup_state # "initializing" /\ latest_seq # 0 => LatestFrame # NoFrame

\* The cached frame is the latest snapshot's: a bootstrap never starts from an
\* older one.
CachedFrameIsLatest ==
  latest_full_frame # NoFrame => latest_full_frame = FullFrame(latest_seq, latest_snapshot)

\* mark_closing leaves nobody behind: no subscriber is registered after the
\* list of those to tell was taken.
NobodyJoinsAfterClosing ==
  startup_state = "closing" => subscribers = {}

\* What a client shows never goes back in time, reconnects included.
NeverBackwards ==
  [][\A c \in Clients : view'[c].seq >= view[c].seq]_view

\* Every client gets to what was published, by diffs or by a re-sync, unless it
\* stops or the daemon goes away.
CatchesUp ==
  \A c \in Clients : \A n \in Seqs :
    latest_seq >= n ~> \/ view[c].seq >= n \/ phase[c] = "stopped"
                       \/ startup_state = "closing" \/ ~alive

\* A client that went away does not hold one of the MAX_SUBSCRIBERS places.
PlaceIsReleased ==
  \A c \in Clients : hungup[c] /\ c \in subscribers ~> c \notin subscribers \/ ~alive

\* Closing reaches every subscriber, whatever its threads were doing.
ClosingEndsEverySubscription ==
  \A c \in Clients : startup_state = "closing" ~> phase[c] \notin {"bootstrap", "live"}

\* Connections end: nobody is left with a daemon that closes, and a daemon is left with
\* nobody who went away.
ConnectionsEnd == ClosingEndsEverySubscription /\ PlaceIsReleased

\* The stream implements the feed: what is shown is a published snapshot, whole
\* and never an older one.
Feed == INSTANCE SnapshotFeed WITH
          Contents <- {Material(s) : s \in Snapshots},
          Nothing <- Material(Empty),
          published <- [i \in Seqs |-> Material(log[i])],
          latest <- latest_seq,
          shown <- [c \in Clients |-> [seq |-> view[c].seq,
                                       content |-> Material(view[c].snapshot)]]

ImplementsFeed == Feed!Spec

-----------------------------------------------------------------------------
(* The inductive invariant behind the safety properties: the frames on their  *)
(* way to a client form a chain from what it shows to what was published.     *)

\* Frame f may come right after sequence number n.
Follows(n, f) ==
  \/ /\ IsFull(f) /\ n <= f.seq /\ f.seq <= latest_seq
     /\ f.snapshot = log[f.seq]
  \/ /\ IsDiff(f) /\ n # 0 /\ n = f.seq - 1 /\ f.seq <= latest_seq
     /\ f.diff = WireDiff(log[n], log[f.seq])
  \/ IsClosing(f)

\* The newest sequence number on the socket, in the writer's hands, in the mailbox.
Sent(c) == IF wire[c] = <<>> THEN view[c].seq ELSE wire[c][Len(wire[c])].seq
Taken(c) == IF inflight[c] = NoFrame THEN Sent(c) ELSE inflight[c].seq
Held(c) == IF mailbox[c].pending = NoFrame THEN Taken(c) ELSE mailbox[c].pending.seq

Served(c) == ~hungup[c] /\ writer[c] \in {"bootstrap", "waiting", "writing"}

StoreInv ==
  /\ startup_state \in {"initializing", "startup_failed"} <=> latest_seq = 0
  /\ latest_seq = 0 => subscribers = {} /\ remaining = {} /\ latest_full_frame = NoFrame
  /\ latest_seq # 0 => /\ latest_snapshot \in Snapshots
                       /\ latest_snapshot = log[latest_seq]
                       /\ FullSize(latest_snapshot) <= full_frame_size_bound
                       /\ Fits(full_frame_size_bound)
  /\ CachedFrameIsLatest
  /\ startup_state = "closing" => subscribers = {} /\ remaining = {}
  /\ to_close # {} => startup_state = "closing"

BroadcastInv ==
  remaining # {} =>
    /\ broadcast.full = FullFrame(latest_seq, latest_snapshot)
    /\ \/ broadcast.primary = FullFrame(latest_seq, latest_snapshot)
       \/ /\ latest_seq > 1
          /\ broadcast.primary = DiffFrame(latest_seq, log[latest_seq - 1], latest_snapshot)

ConnectionInv(c) ==
  /\ hungup[c] <=> phase[c] \in {"offline", "stopped"}
  /\ hungup[c] => wire[c] = <<>>
  /\ writer[c] \in {"bootstrap", "writing"} <=> inflight[c] # NoFrame
  /\ writer[c] = "bootstrap" => IsFull(inflight[c])
  /\ phase[c] = "bootstrap" => IF wire[c] = <<>> THEN Served(c) => writer[c] = "bootstrap"
                               ELSE IsFull(wire[c][1])
  /\ phase[c] = "live" => view[c].seq # 0

WireInv(c) ==
  \A i \in 1 .. Len(wire[c]) :
    /\ i = 1 => Follows(view[c].seq, wire[c][i])
    /\ i > 1 => ~IsClosing(wire[c][i - 1]) /\ Follows(wire[c][i - 1].seq, wire[c][i])

\* A closing frame is the last one.
SaysClosing(c) ==
  startup_state = "closing" /\ mailbox[c].closed /\ c \notin to_close

PipelineInv(c) ==
  Served(c) =>
    /\ (wire[c] # <<>> /\ IsClosing(wire[c][Len(wire[c])])) =>
         SaysClosing(c) /\ mailbox[c].pending = NoFrame /\ inflight[c] = NoFrame
    /\ inflight[c] # NoFrame => Follows(Sent(c), inflight[c])
    /\ (inflight[c] # NoFrame /\ IsClosing(inflight[c])) =>
         SaysClosing(c) /\ mailbox[c].pending = NoFrame
    /\ mailbox[c].pending # NoFrame => Follows(Taken(c), mailbox[c].pending)
    /\ (mailbox[c].pending # NoFrame /\ IsClosing(mailbox[c].pending)) => SaysClosing(c)
    /\ ~mailbox[c].closed /\ c \in remaining => Held(c) = latest_seq - 1
    /\ ~mailbox[c].closed /\ c \in subscribers \ remaining => Held(c) = latest_seq

ViewInv(c) ==
  /\ view[c].seq <= latest_seq
  /\ view[c].seq # 0 => Material(view[c].snapshot) = Material(log[view[c].seq])

ClientInv(c) == ConnectionInv(c) /\ WireInv(c) /\ PipelineInv(c) /\ ViewInv(c)

IInv ==
  /\ TypeOK
  /\ StoreInv
  /\ BroadcastInv
  /\ \A c \in Clients : ClientInv(c)
=============================================================================
