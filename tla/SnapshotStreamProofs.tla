------------------------ MODULE SnapshotStreamProofs ------------------------
(***************************************************************************)
(* Proofs about SnapshotStream, for every set of clients and panes, every  *)
(* size function that satisfies SizeAssumption, and every bound.           *)
(***************************************************************************)
EXTENDS SnapshotStream, SequenceTheorems, TLAPS

-----------------------------------------------------------------------------
(* Frames and diffs *)

LEMMA WireDiffType ==
  ASSUME NEW s \in Snapshot, NEW t \in Snapshot
  PROVE  WireDiff(s, t) \in Diffs
BY DEF WireDiff, Diffs, Snapshot, Present

LEMMA ApplyDiffType ==
  ASSUME NEW s \in Snapshot, NEW d \in Diffs
  PROVE  ApplyDiff(s, d) \in Snapshot
BY DEF ApplyDiff, Diffs, Snapshot, Present

LEMMA FullFrameType ==
  ASSUME NEW n \in Seqs, NEW s \in Snapshot
  PROVE  /\ FullFrame(n, s) \in FullFrames
         /\ IsFull(FullFrame(n, s))
         /\ FullFrame(n, s).seq = n
         /\ FullFrame(n, s).snapshot = s
BY DEF FullFrame, FullFrames, IsFull

LEMMA DiffFrameType ==
  ASSUME NEW n \in Seqs, NEW s \in Snapshot, NEW t \in Snapshot
  PROVE  /\ DiffFrame(n, s, t) \in DiffFrames
         /\ IsDiff(DiffFrame(n, s, t))
         /\ DiffFrame(n, s, t).seq = n
         /\ DiffFrame(n, s, t).diff = WireDiff(s, t)
BY WireDiffType DEF DiffFrame, DiffFrames, IsDiff

\* The three kinds of frame are told apart by their type.
LEMMA FrameKinds ==
  ASSUME NEW f \in Frames
  PROVE  /\ IsFull(f) => f \in FullFrames /\ f.seq \in Seqs /\ f.snapshot \in Snapshot
         /\ IsDiff(f) => f \in DiffFrames /\ f.seq \in Seqs /\ f.diff \in Diffs
         /\ IsClosing(f) <=> ~IsFull(f) /\ ~IsDiff(f)
         /\ ~(IsFull(f) /\ IsDiff(f))
BY DEF Frames, FullFrames, DiffFrames, ClosingFrame, IsFull, IsDiff, IsClosing

LEMMA ClosingFrameType == ClosingFrame \in Frames /\ IsClosing(ClosingFrame)
BY DEF Frames, ClosingFrame, IsClosing

LEMMA EmptyType == Empty \in Snapshot
BY DEF Empty, Snapshot

-----------------------------------------------------------------------------
(* Type correctness *)

LEMMA BroadcastType ==
  ASSUME NEW n \in Seqs, NEW s \in Snapshot, NEW t \in Snapshot
  PROVE  BuildBroadcast(n, s, t) \in
           [primary : Frames \cup {NoFrame}, full : Frames \cup {NoFrame}]
BY FullFrameType, DiffFrameType DEF BuildBroadcast, FullIfFits, Frames

LEMMA InitType == Init => TypeOK
BY EmptyType, BoundsAssumption DEF Init, TypeOK, Closed, Seqs

LEMMA InitInvariant == Init => IInv
<1> SUFFICES ASSUME Init PROVE IInv
  OBVIOUS
<1>1. TypeOK
  BY InitType
<1>2. StoreInv /\ BroadcastInv
  BY DEF Init, StoreInv, BroadcastInv, CachedFrameIsLatest
<1>3. ASSUME NEW c \in Clients PROVE ClientInv(c)
  BY <1>3 DEF Init, ClientInv, ConnectionInv, WireInv, PipelineInv, ViewInv, Served
<1> QED
  BY <1>1, <1>2, <1>3 DEF IInv

-----------------------------------------------------------------------------
(* A step leaves a client's part of the invariant alone when it changes      *)
(* nothing that part speaks of.                                              *)

SameConnection(d) ==
  /\ writer'[d] = writer[d] /\ inflight'[d] = inflight[d]
  /\ wire'[d] = wire[d] /\ hungup'[d] = hungup[d]
  /\ phase'[d] = phase[d] /\ view'[d] = view[d]
SameMailbox(d) ==
  /\ mailbox'[d] = mailbox[d]
  /\ (d \in subscribers') <=> (d \in subscribers)
  /\ (d \in remaining') <=> (d \in remaining)
  /\ (d \in to_close') <=> (d \in to_close)
SameStore ==
  /\ startup_state' = startup_state /\ latest_seq' = latest_seq /\ log' = log

LEMMA Untouched ==
  ASSUME NEW d \in Clients, ClientInv(d), SameConnection(d), SameMailbox(d), SameStore
  PROVE  ClientInv(d)'
<1> USE DEF SameConnection, SameMailbox, SameStore
<1>1. Served(d)' = Served(d) /\ SaysClosing(d)' = SaysClosing(d)
  BY DEF Served, SaysClosing
<1>2. Sent(d)' = Sent(d)
  BY DEF Sent
<1>3. Taken(d)' = Taken(d)
  BY <1>2 DEF Taken
<1>4. Held(d)' = Held(d)
  BY <1>3 DEF Held
<1>5. ConnectionInv(d)'
  BY <1>1 DEF ClientInv, ConnectionInv
<1>6. WireInv(d)'
  <2>1. wire'[d] = wire[d] /\ view'[d] = view[d] /\ latest_seq' = latest_seq /\ log' = log
    OBVIOUS
  <2>2. WireInv(d)
    BY DEF ClientInv
  <2> HIDE DEF SameConnection, SameMailbox, SameStore
  <2> QED
    BY ONLY <2>1, <2>2 DEF WireInv, Follows
<1>7. PipelineInv(d)'
  BY <1>1, <1>2, <1>3, <1>4 DEF ClientInv, PipelineInv, Follows
<1>8. ViewInv(d)'
  BY DEF ClientInv, ViewInv
<1> QED
  BY <1>5, <1>6, <1>7, <1>8 DEF ClientInv
-----------------------------------------------------------------------------
(* The steps of the threads that serve a client, and of the client. *)

LEMMA WriteStep ==
  ASSUME IInv, NEW c \in Clients, Write(c)
  PROVE  IInv'
<1> USE DEF Write, daemon, store, client
<1>1. inflight[c] \in Frames /\ wire[c] \in Seq(Frames)
  BY DEF IInv, TypeOK, ClientInv, ConnectionInv
<1>2. TypeOK'
  BY <1>1 DEF IInv, TypeOK
<1>3. StoreInv' /\ BroadcastInv'
  BY DEF IInv, StoreInv, BroadcastInv, CachedFrameIsLatest
<1>4. ClientInv(c)'
  <2>1. /\ wire'[c] = Append(wire[c], inflight[c]) /\ inflight'[c] = NoFrame
        /\ writer'[c] = "waiting" /\ inflight[c] # NoFrame
        /\ phase' = phase /\ hungup' = hungup /\ view' = view /\ mailbox' = mailbox
        /\ Served(c) /\ Served(c)'
    BY DEF IInv, TypeOK, ClientInv, ConnectionInv, Served
  <2>2. /\ Len(wire'[c]) = Len(wire[c]) + 1 /\ Len(wire[c]) \in Nat
        /\ wire'[c][Len(wire[c]) + 1] = inflight[c] /\ wire'[c] # <<>>
        /\ \A i \in 1 .. Len(wire[c]) : wire'[c][i] = wire[c][i]
        /\ wire[c] = <<>> <=> Len(wire[c]) = 0
    <3>1. wire'[c] = Append(wire[c], inflight[c])
      BY <2>1
    <3> QED
      BY <1>1, <3>1, AppendProperties, EmptySeq, LenProperties
  <2>3. PipelineInv(c)
    BY DEF IInv, ClientInv
  <2>4. Follows(Sent(c), inflight[c])
    BY <2>1, <2>3 DEF PipelineInv
  <2>5. ConnectionInv(c)'
    BY <2>1, <2>2, NoFrameAssumption DEF IInv, ClientInv, ConnectionInv
  <2>6. WireInv(c)'
    <3> SUFFICES ASSUME NEW i \in 1 .. Len(wire'[c])
                 PROVE  /\ i = 1 => Follows(view[c].seq, wire'[c][i])
                        /\ i > 1 => /\ ~IsClosing(wire'[c][i - 1])
                                    /\ Follows(wire'[c][i - 1].seq, wire'[c][i])
      BY <2>1 DEF WireInv, Follows
    <3>1. CASE i <= Len(wire[c])
      <4>1. i \in 1 .. Len(wire[c]) /\ (i > 1 => i - 1 \in 1 .. Len(wire[c]))
        BY <3>1, <2>2
      <4> QED
        BY <4>1, <2>2 DEF IInv, ClientInv, WireInv
    <3>2. CASE i = Len(wire[c]) + 1
      <4>1. CASE i = 1
        BY <4>1, <3>2, <2>2, <2>4 DEF Sent
      <4>2. CASE i > 1
        <5>1. i - 1 \in 1 .. Len(wire[c]) /\ i - 1 = Len(wire[c]) /\ wire[c] # <<>>
          BY <4>2, <3>2, <2>2
        <5>2. ~IsClosing(wire[c][Len(wire[c])])
          BY <5>1, <2>1, <2>3 DEF PipelineInv
        <5> QED
          BY <5>1, <5>2, <4>2, <3>2, <2>2, <2>4 DEF Sent
      <4> QED
        BY <4>1, <4>2
    <3>3. Len(wire'[c]) = Len(wire[c]) + 1 /\ Len(wire[c]) \in Nat
      BY <2>2
    <3>4. i <= Len(wire[c]) \/ i = Len(wire[c]) + 1
      BY <3>3
    <3> QED
      BY <3>1, <3>2, <3>4
  <2>7. Taken(c)' = Taken(c) /\ Sent(c)' = inflight[c].seq /\ Held(c)' = Held(c)
    BY <2>1, <2>2 DEF Taken, Sent, Held
  <2>8. PipelineInv(c)'
    BY <2>1, <2>2, <2>3, <2>7 DEF PipelineInv, Follows, SaysClosing
  <2>9. ViewInv(c)'
    BY DEF IInv, ClientInv, ViewInv
  <2> QED
    BY <2>5, <2>6, <2>8, <2>9 DEF ClientInv
<1>5. ASSUME NEW d \in Clients, d # c PROVE ClientInv(d)'
  <2>1. SameConnection(d) /\ SameMailbox(d) /\ SameStore
    BY <1>5 DEF SameConnection, SameMailbox, SameStore, IInv, TypeOK
  <2> QED
    BY <1>5, <2>1, Untouched DEF IInv
<1> QED
  BY <1>2, <1>3, <1>4, <1>5 DEF IInv

LEMMA WriteFailsStep ==
  ASSUME IInv, NEW c \in Clients, WriteFails(c)
  PROVE  IInv'
<1> USE DEF WriteFails, daemon, store, client, socket
<1>1. TypeOK'
  BY BoundsAssumption DEF IInv, TypeOK, Retired
<1>2. StoreInv' /\ BroadcastInv'
  BY DEF IInv, StoreInv, BroadcastInv, CachedFrameIsLatest
<1>3. ClientInv(c)'
  <2>1. writer'[c] \in {"closing", "closed"} /\ inflight'[c] = NoFrame /\ ~Served(c)'
    BY DEF IInv, TypeOK, Retired, Served
  <2> QED
    BY <2>1 DEF IInv, ClientInv, ConnectionInv, WireInv, PipelineInv, ViewInv, Follows
<1>4. ASSUME NEW d \in Clients, d # c PROVE ClientInv(d)'
  <2>1. SameConnection(d) /\ SameMailbox(d) /\ SameStore
    BY <1>4 DEF SameConnection, SameMailbox, SameStore, IInv, TypeOK
  <2> QED
    BY <1>4, <2>1, Untouched DEF IInv
<1> QED
  BY <1>1, <1>2, <1>3, <1>4 DEF IInv

LEMMA WriterClosesMailboxStep ==
  ASSUME IInv, NEW c \in Clients, WriterClosesMailbox(c)
  PROVE  IInv'
<1> USE DEF WriterClosesMailbox, daemon, store, client, socket
<1>1. TypeOK'
  BY DEF IInv, TypeOK, Closed
<1>2. StoreInv' /\ BroadcastInv'
  BY DEF IInv, StoreInv, BroadcastInv, CachedFrameIsLatest
<1>3. ClientInv(c)'
  <2>1. writer[c] = "closing" /\ writer'[c] = "closed" /\ ~Served(c) /\ ~Served(c)'
    BY DEF IInv, TypeOK, Served
  <2> QED
    BY <2>1 DEF IInv, ClientInv, ConnectionInv, WireInv, PipelineInv, ViewInv, Follows
<1>4. ASSUME NEW d \in Clients, d # c PROVE ClientInv(d)'
  <2>1. SameConnection(d) /\ SameMailbox(d) /\ SameStore
    BY <1>4 DEF SameConnection, SameMailbox, SameStore, IInv, TypeOK
  <2> QED
    BY <1>4, <2>1, Untouched DEF IInv
<1> QED
  BY <1>1, <1>2, <1>3, <1>4 DEF IInv

LEMMA ReceiveStep ==
  ASSUME IInv, NEW c \in Clients, Receive(c)
  PROVE  IInv'
<1> USE DEF Receive, daemon, store, client, socket
<1>1. TypeOK'
  BY DEF IInv, TypeOK
<1>2. StoreInv' /\ BroadcastInv'
  BY DEF IInv, StoreInv, BroadcastInv, CachedFrameIsLatest
<1>3. ClientInv(c)'
  <2>1. /\ writer'[c] = "writing" /\ inflight[c] = NoFrame
        /\ inflight'[c] = mailbox[c].pending /\ mailbox[c].pending # NoFrame
        /\ mailbox'[c].pending = NoFrame /\ mailbox'[c].closed = mailbox[c].closed
        /\ Served(c)' = Served(c)
    <3>1. mailbox[c] \in [pending : Frames \cup {NoFrame}, closed : BOOLEAN]
      BY DEF IInv, TypeOK
    <3>2. mailbox'[c] = [mailbox[c] EXCEPT !.pending = NoFrame]
      BY DEF IInv, TypeOK
    <3>3. mailbox'[c].pending = NoFrame /\ mailbox'[c].closed = mailbox[c].closed
      BY <3>1, <3>2
    <3> QED
      BY <3>3 DEF IInv, TypeOK, Served, ClientInv, ConnectionInv
  <2>2. /\ Sent(c)' = Sent(c) /\ Taken(c) = Sent(c)
        /\ Taken(c)' = Held(c) /\ Held(c)' = Held(c)
    BY <2>1 DEF Sent, Taken, Held
  <2>3. ConnectionInv(c)'
    BY <2>1 DEF IInv, ClientInv, ConnectionInv, Served
  <2>4. PipelineInv(c)'
    BY <2>1, <2>2 DEF IInv, ClientInv, PipelineInv, Follows, SaysClosing
  <2>5. WireInv(c)' /\ ViewInv(c)'
    BY DEF IInv, ClientInv, WireInv, ViewInv, Follows
  <2> QED
    BY <2>3, <2>4, <2>5 DEF ClientInv
<1>4. ASSUME NEW d \in Clients, d # c PROVE ClientInv(d)'
  <2>1. SameConnection(d) /\ SameMailbox(d) /\ SameStore
    BY <1>4 DEF SameConnection, SameMailbox, SameStore, IInv, TypeOK
  <2> QED
    BY <1>4, <2>1, Untouched DEF IInv
<1> QED
  BY <1>1, <1>2, <1>3, <1>4 DEF IInv

LEMMA ShutdownStep ==
  ASSUME IInv, NEW c \in Clients, Shutdown(c)
  PROVE  IInv'
<1> USE DEF Shutdown, daemon, store, client
<1>1. TypeOK'
  BY DEF IInv, TypeOK
<1>2. StoreInv' /\ BroadcastInv'
  BY DEF IInv, StoreInv, BroadcastInv, CachedFrameIsLatest
<1>3. ClientInv(c)'
  <2>1. writer'[c] = "done" /\ inflight[c] = NoFrame /\ ~Served(c)'
    BY DEF IInv, TypeOK, Served, ClientInv, ConnectionInv
  <2> QED
    BY <2>1 DEF IInv, ClientInv, ConnectionInv, WireInv, PipelineInv, ViewInv, Follows
<1>4. ASSUME NEW d \in Clients, d # c PROVE ClientInv(d)'
  <2>1. SameConnection(d) /\ SameMailbox(d) /\ SameStore
    BY <1>4 DEF SameConnection, SameMailbox, SameStore, IInv, TypeOK
  <2> QED
    BY <1>4, <2>1, Untouched DEF IInv
<1> QED
  BY <1>1, <1>2, <1>3, <1>4 DEF IInv

LEMMA ReaderRetiresStep ==
  ASSUME IInv, NEW c \in Clients, ReaderRetires(c)
  PROVE  IInv'
<1> USE DEF ReaderRetires, daemon, store, client, socket
<1>1. TypeOK'
  BY DEF IInv, TypeOK
<1>2. StoreInv' /\ BroadcastInv'
  BY DEF IInv, StoreInv, BroadcastInv, CachedFrameIsLatest
<1>3. ClientInv(c)'
  <2>1. Served(c)' = Served(c) /\ Sent(c)' = Sent(c) /\ Taken(c)' = Taken(c) /\ Held(c)' = Held(c)
    BY DEF Served, Sent, Taken, Held
  <2> QED
    BY <2>1 DEF IInv, ClientInv, ConnectionInv, WireInv, PipelineInv, ViewInv, Follows,
                SaysClosing
<1>4. ASSUME NEW d \in Clients, d # c PROVE ClientInv(d)'
  <2>1. SameConnection(d) /\ SameMailbox(d) /\ SameStore
    BY <1>4 DEF SameConnection, SameMailbox, SameStore, IInv, TypeOK
  <2> QED
    BY <1>4, <2>1, Untouched DEF IInv
<1> QED
  BY <1>1, <1>2, <1>3, <1>4 DEF IInv

LEMMA ReaderClosesMailboxStep ==
  ASSUME IInv, NEW c \in Clients, ReaderClosesMailbox(c)
  PROVE  IInv'
<1> USE DEF ReaderClosesMailbox, daemon, store, client, socket
<1>1. TypeOK'
  BY DEF IInv, TypeOK, Closed
<1>2. StoreInv' /\ BroadcastInv'
  BY DEF IInv, StoreInv, BroadcastInv, CachedFrameIsLatest
<1>3. ClientInv(c)'
  <2>1. /\ Served(c)' = Served(c) /\ Sent(c)' = Sent(c)
        /\ mailbox'[c].closed /\ mailbox'[c].pending = NoFrame
    BY DEF Served, Sent, Closed, IInv, TypeOK
  <2> QED
    BY <2>1 DEF IInv, ClientInv, ConnectionInv, WireInv, PipelineInv, ViewInv, Follows,
                SaysClosing
<1>4. ASSUME NEW d \in Clients, d # c PROVE ClientInv(d)'
  <2>1. SameConnection(d) /\ SameMailbox(d) /\ SameStore
    BY <1>4 DEF SameConnection, SameMailbox, SameStore, IInv, TypeOK
  <2> QED
    BY <1>4, <2>1, Untouched DEF IInv
<1> QED
  BY <1>1, <1>2, <1>3, <1>4 DEF IInv

\* The frame a bootstrap or a query is answered with is the latest snapshot's.
LEMMA LatestFrameIsLatest ==
  ASSUME IInv, latest_seq # 0
  PROVE  LatestFrame \in {NoFrame, FullFrame(latest_seq, latest_snapshot)}
BY DEF IInv, StoreInv, CachedFrameIsLatest, LatestFrame, FullIfFits

LEMMA LatestFullFrame ==
  ASSUME IInv, latest_seq # 0
  PROVE  /\ latest_seq \in Seqs
         /\ FullFrame(latest_seq, latest_snapshot) \in FullFrames
         /\ IsFull(FullFrame(latest_seq, latest_snapshot))
         /\ FullFrame(latest_seq, latest_snapshot) \in Frames
         /\ FullFrame(latest_seq, latest_snapshot).seq = latest_seq
         /\ FullFrame(latest_seq, latest_snapshot).snapshot = log[latest_seq]
<1>1. latest_seq \in Seqs /\ latest_snapshot \in Snapshot /\ latest_snapshot = log[latest_seq]
  BY BoundsAssumption DEF IInv, TypeOK, StoreInv, Seqs
<1> QED
  BY <1>1, FullFrameType DEF Frames

LEMMA SubscribeStep ==
  ASSUME IInv, NEW c \in Clients, Subscribe(c)
  PROVE  IInv'
<1> USE DEF Subscribe, Admits
<1>1. /\ latest_seq # 0 /\ latest_full_frame' = FullFrame(latest_seq, latest_snapshot)
      /\ LatestFrame = FullFrame(latest_seq, latest_snapshot)
  BY LatestFrameIsLatest DEF IInv, StoreInv
<1>2. LatestFrame \in Frames /\ LatestFrame \in FullFrames /\ LatestFrame # NoFrame
  BY <1>1, LatestFullFrame
<1>3. TypeOK'
  BY <1>1, <1>2 DEF IInv, TypeOK
<1>4. StoreInv' /\ BroadcastInv'
  BY <1>1 DEF IInv, StoreInv, BroadcastInv, CachedFrameIsLatest
<1>5. ClientInv(c)'
  <2>1. /\ writer'[c] = "bootstrap" /\ inflight'[c] = LatestFrame /\ wire[c] = <<>>
        /\ phase'[c] = "bootstrap" /\ ~hungup'[c] /\ wire' = wire /\ view' = view
        /\ mailbox'[c].pending = NoFrame /\ ~mailbox'[c].closed /\ c \notin remaining'
        /\ log' = log /\ latest_seq' = latest_seq
    BY DEF IInv, TypeOK, Connectable, ClientInv, ConnectionInv
  <2>2. /\ IsFull(LatestFrame) /\ LatestFrame.seq = latest_seq
        /\ LatestFrame.snapshot = log[latest_seq] /\ ~IsClosing(LatestFrame)
    BY <1>1, <1>2, LatestFullFrame, FrameKinds
  <2>3. ConnectionInv(c)' /\ WireInv(c)' /\ ViewInv(c)'
    BY <1>2, <2>1, <2>2 DEF IInv, ClientInv, ConnectionInv, WireInv, ViewInv, Follows
  <2>4. Sent(c)' = view[c].seq /\ Taken(c)' = latest_seq /\ Held(c)' = latest_seq
    BY <1>2, <2>1, <2>2 DEF Sent, Taken, Held
  <2>5. view[c].seq <= latest_seq
    BY DEF IInv, ClientInv, ViewInv
  <2>6. PipelineInv(c)'
    <3>1. Follows(Sent(c), inflight[c])'
      BY <2>1, <2>2, <2>4, <2>5 DEF Follows, IInv, TypeOK
    <3> QED
      BY <1>2, <2>1, <2>2, <2>4, <3>1 DEF PipelineInv
  <2> QED
    BY <2>3, <2>6 DEF ClientInv
<1>6. ASSUME NEW d \in Clients, d # c PROVE ClientInv(d)'
  <2>1. SameConnection(d) /\ SameMailbox(d) /\ SameStore
    BY <1>6 DEF SameConnection, SameMailbox, SameStore, IInv, TypeOK
  <2> QED
    BY <1>6, <2>1, Untouched DEF IInv
<1> QED
  BY <1>3, <1>4, <1>5, <1>6 DEF IInv

\* A client that leaves, is refused or loses its connection.
LEMMA HangUpStep ==
  ASSUME IInv, NEW c \in Clients, NEW p \in {"offline", "stopped"},
         phase' = [phase EXCEPT ![c] = p],
         \/ /\ hungup' = [hungup EXCEPT ![c] = TRUE]
            /\ wire' = [wire EXCEPT ![c] = <<>>]
         \/ hungup[c] /\ UNCHANGED <<hungup, wire>>,
         UNCHANGED <<daemon, subscribers, mailbox, threads, shut, view, stalls>>
  PROVE  IInv'
<1> USE DEF daemon, store, threads
<1>1. TypeOK'
  <2>1. wire' \in [Clients -> Seq(Frames)] /\ hungup' \in [Clients -> BOOLEAN]
    <3>1. <<>> \in Seq(Frames)
      BY EmptySeq
    <3>2. wire \in [Clients -> Seq(Frames)] /\ hungup \in [Clients -> BOOLEAN]
      BY DEF IInv, TypeOK
    <3> QED
      BY <3>1, <3>2
  <2>2. phase' \in [Clients -> {"offline", "bootstrap", "live", "stopped"}]
    BY DEF IInv, TypeOK
  <2> QED
    BY <2>1, <2>2 DEF IInv, TypeOK
<1>2. StoreInv' /\ BroadcastInv'
  BY DEF IInv, StoreInv, BroadcastInv, CachedFrameIsLatest
<1>3. ClientInv(c)'
  <2>1. hungup'[c] /\ wire'[c] = <<>> /\ phase'[c] = p /\ ~Served(c)'
    BY DEF IInv, TypeOK, Served, ClientInv, ConnectionInv
  <2> QED
    BY <2>1, EmptySeq DEF IInv, ClientInv, ConnectionInv, WireInv, PipelineInv, ViewInv
<1>4. ASSUME NEW d \in Clients, d # c PROVE ClientInv(d)'
  <2>1. SameConnection(d) /\ SameMailbox(d) /\ SameStore
    BY <1>4 DEF SameConnection, SameMailbox, SameStore, IInv, TypeOK
  <2> QED
    BY <1>4, <2>1, Untouched DEF IInv
<1> QED
  BY <1>1, <1>2, <1>3, <1>4 DEF IInv

LEMMA LeaveStep ==
  ASSUME IInv, NEW c \in Clients, SubscribeRefused(c) \/ ReadEnd(c) \/ Cancel(c)
  PROVE  IInv'
<1>1. CASE SubscribeRefused(c)
  <2>1. hungup[c]
    BY <1>1 DEF SubscribeRefused, Connectable, IInv, ClientInv, ConnectionInv
  <2> QED
    BY <1>1, <2>1, HangUpStep DEF SubscribeRefused, socket
<1>2. CASE ReadEnd(c)
  BY <1>2, HangUpStep DEF ReadEnd, HangUp
<1>3. CASE Cancel(c)
  BY <1>3, HangUpStep DEF Cancel, HangUp
<1> QED
  BY <1>1, <1>2, <1>3

\* snapshot_wire_diff's claim: applied to a snapshot that is materially the
\* previous one, the diff gives one that is materially the current one.
LEMMA DiffIsLossless ==
  ASSUME NEW base \in Snapshot, NEW s \in Snapshot, NEW t \in Snapshot,
         Material(base) = Material(s)
  PROVE  Material(ApplyDiff(base, WireDiff(s, t))) = Material(t)
<1> DEFINE r == ApplyDiff(base, WireDiff(s, t))
<1>1. SUFFICES ASSUME NEW p \in Panes PROVE Material(r)[p] = Material(t)[p]
  BY DEF Material
<1>2. Material(base)[p] = Material(s)[p]
  OBVIOUS
<1>3. \A q \in {base[p], s[p], t[p]} : q = Absent \/ q \in Pane
  BY DEF Snapshot
<1>4. Present(base, p) <=> Present(s, p)
  BY <1>2, <1>3, SnapshotsAssumption DEF Material, Present, Pane
<1> QED
  BY <1>2, <1>3, <1>4 DEF Material, ApplyDiff, WireDiff, Present, MateriallyEqual

\* The client reads a frame it can use: the frame leaves the socket, and what
\* was the first sequence number on its way to the client is now on display.
LEMMA AdoptStep ==
  ASSUME IInv, NEW c \in Clients, wire[c] # <<>>,
         NEW s \in Snapshot, ~IsClosing(Head(wire[c])),
         Material(s) = Material(log[Head(wire[c]).seq]),
         Adopt(c, Head(wire[c]).seq, s),
         UNCHANGED <<daemon, subscribers, mailbox, threads, shut, stalls>>
  PROVE  IInv'
<1> USE DEF Adopt, daemon, store, threads
<1> DEFINE w == wire[c]
           f == Head(wire[c])
<1>1. /\ w \in Seq(Frames) /\ f \in Frames /\ Len(w) \in Nat \ {0} /\ f = w[1]
      /\ Tail(w) \in Seq(Frames) /\ Len(Tail(w)) = Len(w) - 1
      /\ \A i \in 1 .. Len(Tail(w)) : Tail(w)[i] = w[i + 1]
      /\ Tail(w) = <<>> <=> Len(w) = 1
  <2>1. w \in Seq(Frames)
    BY DEF IInv, TypeOK
  <2>2. f \in Frames /\ Tail(w) \in Seq(Frames) /\ Len(Tail(w)) = Len(w) - 1
        /\ \A i \in 1 .. Len(Tail(w)) : Tail(w)[i] = w[i + 1]
    BY <2>1, HeadTailProperties
  <2>3. Len(w) \in Nat \ {0} /\ Len(<<>>) = 0
        /\ (Tail(w) # <<>> => Len(Tail(w)) \in Nat \ {0})
    BY <2>1, <2>2, EmptySeq
  <2>4. f = w[1]
    BY <2>1
  <2>5. Tail(w) = <<>> <=> Len(w) = 1
    <3> DEFINE t == Tail(w)
    <3>1. Len(t) = Len(w) - 1 /\ Len(w) \in Nat /\ Len(<<>>) = 0
      BY <2>2, <2>3
    <3>2. t # <<>> => Len(t) # 0
      BY <2>3
    <3> HIDE DEF t, w
    <3>3. t = <<>> => Len(t) = 0
      BY <3>1
    <3>4. t = <<>> <=> Len(w) = 1
      BY <3>1, <3>2, <3>3
    <3> QED
      BY <3>4 DEF t
  <2> QED
    BY <2>1, <2>2, <2>3, <2>4, <2>5
<1>2. ~IsClosing(f) /\ f.seq \in Seqs /\ Follows(view[c].seq, f)
  BY <1>1, FrameKinds DEF IInv, ClientInv, WireInv
<1>3. f.seq \in 1 .. latest_seq /\ latest_seq \in 0 .. MaxSeq
  BY <1>2 DEF Follows, IInv, TypeOK, Seqs
<1>4. TypeOK'
  <2>1. [seq |-> f.seq, snapshot |-> s] \in [seq : 0 .. MaxSeq, snapshot : Snapshot]
    BY <1>3, BoundsAssumption
  <2> HIDE DEF f, w
  <2>2. /\ wire' \in [Clients -> Seq(Frames)]
        /\ view' \in [Clients -> [seq : 0 .. MaxSeq, snapshot : Snapshot]]
        /\ phase' \in [Clients -> {"offline", "bootstrap", "live", "stopped"}]
    BY <1>1, <2>1 DEF IInv, TypeOK, f, w
  <2> QED
    BY <2>2 DEF IInv, TypeOK
<1>5. StoreInv' /\ BroadcastInv'
  BY DEF IInv, StoreInv, BroadcastInv, CachedFrameIsLatest
<1>6. ClientInv(c)'
  <2>1. /\ wire'[c] = Tail(w) /\ view'[c].seq = f.seq /\ view'[c].snapshot = s
        /\ phase'[c] = "live" /\ hungup' = hungup /\ log' = log
        /\ mailbox' = mailbox /\ inflight' = inflight /\ writer' = writer
        /\ latest_seq' = latest_seq /\ Served(c)' = Served(c)
    BY DEF IInv, TypeOK, Served
  <2>2. ~hungup[c]
    BY DEF IInv, ClientInv, ConnectionInv
  <2>3. ConnectionInv(c)'
    BY <1>3, <2>1, <2>2 DEF IInv, ClientInv, ConnectionInv
  <2>4. WireInv(c)'
    <3> SUFFICES ASSUME NEW i \in 1 .. Len(Tail(w))
                 PROVE  /\ i = 1 => Follows(f.seq, Tail(w)[i])
                        /\ i > 1 => /\ ~IsClosing(Tail(w)[i - 1])
                                    /\ Follows(Tail(w)[i - 1].seq, Tail(w)[i])
      <4>1. \A n, g : Follows(n, g)' <=> Follows(n, g)
        BY <2>1 DEF Follows
      <4> HIDE DEF w, f
      <4> QED
        BY <2>1, <4>1 DEF WireInv
    <3>1. i + 1 \in 1 .. Len(w) /\ i + 1 > 1 /\ (i + 1) - 1 = i
          /\ (i > 1 => i - 1 \in 1 .. Len(Tail(w)) /\ (i - 1) + 1 = i)
      BY <1>1
    <3>2. ~IsClosing(w[i]) /\ Follows(w[i].seq, w[i + 1])
      BY <3>1 DEF IInv, ClientInv, WireInv
    <3> QED
      BY <1>1, <3>1, <3>2
  <2>5. CASE Len(w) = 1
    <3>1. Sent(c)' = Sent(c)
      BY <1>1, <2>1, <2>5 DEF Sent
    <3>2. Taken(c)' = Taken(c) /\ Held(c)' = Held(c)
      BY <2>1, <3>1 DEF Taken, Held
    <3>3. PipelineInv(c)'
      BY <1>1, <2>1, <2>5, <3>1, <3>2
      DEF IInv, ClientInv, PipelineInv, Follows, SaysClosing
    <3> QED
      BY <1>3, <2>1, <2>3, <2>4, <3>3 DEF ClientInv, ViewInv
  <2>6. CASE Len(w) > 1
    <3>1. Tail(w) # <<>> /\ Tail(w)[Len(Tail(w))] = w[Len(w)]
      <4>1. Len(Tail(w)) \in 1 .. Len(Tail(w)) /\ Len(Tail(w)) + 1 = Len(w)
        BY <1>1, <2>6
      <4> QED
        BY <1>1, <2>6, <4>1
    <3>2. Sent(c)' = Sent(c)
      BY <2>1, <3>1 DEF Sent
    <3>3. Taken(c)' = Taken(c) /\ Held(c)' = Held(c)
      BY <2>1, <3>2 DEF Taken, Held
    <3>4. PipelineInv(c)'
      BY <2>1, <3>1, <3>2, <3>3
      DEF IInv, ClientInv, PipelineInv, Follows, SaysClosing
    <3> QED
      BY <1>3, <2>1, <2>3, <2>4, <3>4 DEF ClientInv, ViewInv
  <2> QED
    BY <1>1, <2>5, <2>6
<1>7. ASSUME NEW d \in Clients, d # c PROVE ClientInv(d)'
  <2>1. SameConnection(d) /\ SameMailbox(d) /\ SameStore
    BY <1>7 DEF SameConnection, SameMailbox, SameStore, IInv, TypeOK
  <2> QED
    BY <1>7, <2>1, Untouched DEF IInv
<1> QED
  BY <1>4, <1>5, <1>6, <1>7 DEF IInv

\* The frames a client finds first on its socket.
LEMMA HeadFollows ==
  ASSUME IInv, NEW c \in Clients, wire[c] # <<>>
  PROVE  /\ ~hungup[c] /\ phase[c] \in {"bootstrap", "live"}
         /\ Head(wire[c]) \in Frames
         /\ Follows(view[c].seq, Head(wire[c]))
         /\ IsDiff(Head(wire[c])) => Applies(c, Head(wire[c]))
<1>1. wire[c] \in Seq(Frames)
  BY DEF IInv, TypeOK
<1>2. Head(wire[c]) = wire[c][1] /\ 1 \in 1 .. Len(wire[c])
  BY <1>1, EmptySeq
<1>3. Head(wire[c]) \in Frames /\ Follows(view[c].seq, Head(wire[c]))
  BY <1>1, <1>2, HeadTailProperties DEF IInv, ClientInv, WireInv
<1>4. ~hungup[c] /\ phase[c] \in {"bootstrap", "live"}
  BY DEF IInv, TypeOK, ClientInv, ConnectionInv
<1>5. ASSUME IsDiff(Head(wire[c])) PROVE Applies(c, Head(wire[c]))
  <2>1. phase[c] = "bootstrap" => IsFull(Head(wire[c]))
    BY <1>2 DEF IInv, ClientInv, ConnectionInv
  <2> QED
    <3>1. view[c].seq = Head(wire[c]).seq - 1 /\ Head(wire[c]).seq \in Seqs
      BY <1>3, <1>5, FrameKinds DEF Follows
    <3>2. Head(wire[c]).seq = view[c].seq + 1
      BY <3>1, BoundsAssumption DEF Seqs
    <3> QED
      BY <1>3, <1>4, <1>5, <2>1, <3>2, FrameKinds DEF Applies
<1> QED
  BY <1>3, <1>4, <1>5

\* A frame that does not say closing is always adopted, and the client then
\* shows the snapshot published under the frame's sequence number.
LEMMA FrameAdopted ==
  ASSUME IInv, NEW c \in Clients, ReadFrame(c), ~IsClosing(Head(wire[c]))
  PROVE  \E s \in Snapshot :
           /\ Adopt(c, Head(wire[c]).seq, s)
           /\ Material(s) = Material(log[Head(wire[c]).seq])
<1> DEFINE f == Head(wire[c])
<1>1. wire[c] # <<>> /\ f \in Frames
  BY HeadFollows DEF ReadFrame
<1>2. view[c].snapshot \in Snapshot /\ view[c].seq \in 0 .. MaxSeq /\ latest_seq \in 0 .. MaxSeq
  BY DEF IInv, TypeOK
<1>3. CASE IsFull(f)
  <2>1. Adopt(c, f.seq, f.snapshot) /\ f.snapshot \in Snapshot /\ f.snapshot = log[f.seq]
    BY <1>1, <1>3, FrameKinds, HeadFollows DEF ReadFrame, Follows
  <2> QED
    BY <2>1
<1>4. CASE IsDiff(f)
  <2> DEFINE n == view[c].seq
             s == ApplyDiff(view[c].snapshot, f.diff)
  <2>1. Adopt(c, f.seq, s) /\ f.diff \in Diffs /\ f.seq \in Seqs
    BY <1>1, <1>4, FrameKinds, HeadFollows DEF ReadFrame
  <2>2. n # 0 /\ f.seq = n + 1 /\ f.seq <= latest_seq /\ f.diff = WireDiff(log[n], log[n + 1])
    <3>1. n = f.seq - 1 /\ n # 0 /\ f.seq <= latest_seq /\ f.diff = WireDiff(log[n], log[f.seq])
      BY <1>1, <1>4, FrameKinds, HeadFollows DEF Follows
    <3>2. f.seq = n + 1
      BY <1>2, <2>1, <3>1, BoundsAssumption DEF Seqs
    <3> QED
      BY <3>1, <3>2
  <2>3. log[n] \in Snapshot /\ log[n + 1] \in Snapshot
    BY <1>2, <2>2, BoundsAssumption DEF IInv, TypeOK, Seqs
  <2>4. Material(view[c].snapshot) = Material(log[n])
    BY <2>2 DEF IInv, ClientInv, ViewInv
  <2>5. s \in Snapshot /\ Material(s) = Material(log[f.seq])
    BY <1>2, <2>1, <2>2, <2>3, <2>4, ApplyDiffType, DiffIsLossless
  <2> QED
    BY <2>1, <2>5
<1> QED
  BY <1>1, <1>3, <1>4, FrameKinds

LEMMA ReadFrameStep ==
  ASSUME IInv, NEW c \in Clients, ReadFrame(c)
  PROVE  IInv'
<1>1. /\ wire[c] # <<>> /\ Head(wire[c]) \in Frames
      /\ UNCHANGED <<daemon, subscribers, mailbox, threads, shut, stalls>>
  BY HeadFollows DEF ReadFrame
<1>2. CASE ~IsClosing(Head(wire[c]))
  BY <1>1, <1>2, FrameAdopted, AdoptStep
<1>3. CASE IsClosing(Head(wire[c]))
  BY <1>1, <1>3, FrameKinds, HangUpStep DEF ReadFrame, HangUp, Applies
<1> QED
  BY <1>2, <1>3

-----------------------------------------------------------------------------
(* The steps of the run loop, and one-shot queries. *)

LEMMA EnqueueStep ==
  ASSUME IInv, NEW c \in Clients, Enqueue(c)
  PROVE  IInv'
<1> USE DEF Enqueue, store, threads, socket, client
<1> DEFINE box == mailbox[c]
           full == FullFrame(latest_seq, latest_snapshot)
           diff == DiffFrame(latest_seq, log[latest_seq - 1], latest_snapshot)
           slot == Slot(box.pending, broadcast)
<1>1. /\ latest_seq # 0 /\ startup_state # "closing" /\ to_close = {}
      /\ broadcast.full = full
      /\ broadcast.primary = full \/ (broadcast.primary = diff /\ latest_seq > 1)
  <2>1. remaining # {}
    OBVIOUS
  <2>2. latest_seq # 0 /\ startup_state # "closing" /\ to_close = {}
    BY <2>1 DEF IInv, StoreInv
  <2>3. BroadcastInv
    BY DEF IInv
  <2> QED
    BY <2>1, <2>2, <2>3, Zenon DEF BroadcastInv
<1>2. /\ box \in [pending : Frames \cup {NoFrame}, closed : BOOLEAN]
      /\ latest_seq \in Seqs /\ latest_snapshot \in Snapshot /\ log \in [Seqs -> Snapshot]
      /\ latest_snapshot = log[latest_seq]
  BY <1>1, BoundsAssumption DEF IInv, TypeOK, StoreInv, Seqs
<1>3. full \in Frames /\ IsFull(full) /\ full.seq = latest_seq /\ full.snapshot = log[latest_seq]
  BY <1>1, LatestFullFrame
<1>4. latest_seq > 1 =>
        /\ diff \in Frames /\ IsDiff(diff) /\ diff.seq = latest_seq
        /\ diff.diff = WireDiff(log[latest_seq - 1], log[latest_seq])
  <2>1. latest_seq > 1 => latest_seq - 1 \in Seqs
    BY <1>2, BoundsAssumption DEF Seqs
  <2> QED
    BY <1>2, <2>1, DiffFrameType DEF Frames
<1>5. /\ slot \in {broadcast.primary, broadcast.full} /\ slot \in Frames /\ slot # NoFrame
      /\ slot.seq = latest_seq /\ ~IsClosing(slot)
  BY <1>1, <1>3, <1>4, NoFrameAssumption, FrameKinds DEF Slot
<1>6. mailbox'[c] = IF box.closed THEN box ELSE [pending |-> slot, closed |-> FALSE]
  <2>1. mailbox'[c] = EnqueueInto(box, broadcast)
    BY DEF IInv, TypeOK
  <2> QED
    BY <1>5, <2>1 DEF EnqueueInto
<1>7. TypeOK'
  <2>1. EnqueueInto(box, broadcast) \in [pending : Frames \cup {NoFrame}, closed : BOOLEAN]
    BY <1>2, <1>5 DEF EnqueueInto
  <2> QED
    BY <2>1 DEF IInv, TypeOK
<1>8. StoreInv' /\ BroadcastInv'
  BY DEF IInv, StoreInv, BroadcastInv, CachedFrameIsLatest
<1>9. ClientInv(c)'
  <2>1. /\ Served(c)' = Served(c) /\ Sent(c)' = Sent(c) /\ Taken(c)' = Taken(c)
        /\ \A n, g : Follows(n, g)' <=> Follows(n, g)
    BY DEF Served, Sent, Taken, Follows
  <2>2. ConnectionInv(c)' /\ WireInv(c)' /\ ViewInv(c)'
    BY <2>1 DEF IInv, ClientInv, ConnectionInv, WireInv, ViewInv, Served
  <2>3. CASE box.closed
    <3>1. mailbox'[c] = mailbox[c] /\ Held(c)' = Held(c) /\ c \notin remaining'
      BY <1>6, <2>1, <2>3 DEF Held
    <3> QED
      BY <2>1, <2>2, <2>3, <3>1, <1>1 DEF IInv, ClientInv, PipelineInv, SaysClosing
  <2>4. CASE ~box.closed
    <3>1. mailbox'[c].pending = slot /\ ~mailbox'[c].closed /\ Held(c)' = latest_seq
      BY <1>5, <1>6, <2>4 DEF Held
    <3>2. ASSUME Served(c) PROVE PipelineInv(c)'
      <4>1. PipelineInv(c) /\ Held(c) = latest_seq - 1
        BY <2>4, <3>2 DEF IInv, ClientInv, PipelineInv
      <4>2. Follows(Taken(c), slot)
        <5>1. CASE box.pending = NoFrame
          <6>1. Taken(c) = latest_seq - 1 /\ slot = broadcast.primary
            BY <4>1, <5>1 DEF Held, Slot
          <6> QED
            BY <1>1, <1>2, <1>3, <1>4, <6>1 DEF Follows, Seqs
        <5>2. CASE box.pending # NoFrame
          <6>1. box.pending \in Frames /\ Follows(Taken(c), box.pending) /\ ~IsClosing(box.pending)
            BY <1>2, <2>4, <3>2, <4>1, <5>2 DEF PipelineInv, SaysClosing
          <6>2. box.pending.seq \in Seqs /\ box.pending.seq = latest_seq - 1
            BY <4>1, <5>2, <6>1, FrameKinds DEF Held
          <6>3. \/ Taken(c) <= latest_seq - 1
                \/ Taken(c) = (latest_seq - 1) - 1
            BY <6>1, <6>2 DEF Follows
          <6>4. Taken(c) \in 0 .. MaxSeq
            <7>1. wire[c] # <<>> => wire[c][Len(wire[c])] \in Frames
              BY EmptySeq, ElementOfSeq DEF IInv, TypeOK
            <7>2. wire[c] # <<>> => ~IsClosing(wire[c][Len(wire[c])])
              BY <4>1, <3>2, <2>4 DEF PipelineInv, SaysClosing
            <7>3. Sent(c) \in 0 .. MaxSeq
              BY <7>1, <7>2, FrameKinds DEF Sent, IInv, TypeOK, Seqs
            <7>4. inflight[c] # NoFrame => inflight[c] \in Frames /\ ~IsClosing(inflight[c])
              BY <4>1, <3>2, <2>4 DEF PipelineInv, SaysClosing, IInv, TypeOK
            <7> QED
              BY <7>3, <7>4, FrameKinds DEF Taken, Seqs
          <6>5. slot = full
            BY <1>1, <5>2 DEF Slot
          <6> QED
            BY <1>2, <1>3, <6>3, <6>4, <6>5 DEF Follows, Seqs
        <5> QED
          BY <5>1, <5>2
      <4>3. c \notin remaining' /\ latest_seq' = latest_seq
        OBVIOUS
      <4> HIDE DEF slot
      <4> QED
        BY <1>5, <2>1, <2>4, <3>1, <4>1, <4>2, <4>3 DEF PipelineInv, SaysClosing
    <3> QED
      BY <2>1, <2>2, <3>2 DEF ClientInv, PipelineInv
  <2> QED
    BY <2>3, <2>4
<1>10. ASSUME NEW d \in Clients, d # c PROVE ClientInv(d)'
  <2>1. SameConnection(d) /\ SameMailbox(d) /\ SameStore
    BY <1>10 DEF SameConnection, SameMailbox, SameStore, IInv, TypeOK
  <2> QED
    BY <1>10, <2>1, Untouched DEF IInv
<1> QED
  BY <1>7, <1>8, <1>9, <1>10 DEF IInv

LEMMA CloseSubscriberStep ==
  ASSUME IInv, NEW c \in Clients, CloseSubscriber(c)
  PROVE  IInv'
<1> USE DEF CloseSubscriber, store, threads, socket, client
<1>1. TypeOK'
  BY ClosingFrameType DEF IInv, TypeOK
<1>2. StoreInv' /\ BroadcastInv'
  BY DEF IInv, StoreInv, BroadcastInv, CachedFrameIsLatest
<1>3. ClientInv(c)'
  <2>1. /\ Served(c)' = Served(c) /\ Sent(c)' = Sent(c) /\ Taken(c)' = Taken(c)
        /\ \A n, g : Follows(n, g)' <=> Follows(n, g)
        /\ mailbox'[c].pending = ClosingFrame /\ mailbox'[c].closed /\ c \notin to_close'
        /\ startup_state' = "closing" /\ c \notin subscribers' /\ ~SaysClosing(c)
    BY DEF Served, Sent, Taken, Follows, SaysClosing, IInv, TypeOK, StoreInv
  <2>2. ConnectionInv(c)' /\ WireInv(c)' /\ ViewInv(c)'
    BY <2>1 DEF IInv, ClientInv, ConnectionInv, WireInv, ViewInv, Served
  <2>3. PipelineInv(c)'
    BY <2>1, ClosingFrameType DEF IInv, ClientInv, PipelineInv, SaysClosing, Follows
  <2> QED
    BY <2>2, <2>3 DEF ClientInv
<1>4. ASSUME NEW d \in Clients, d # c PROVE ClientInv(d)'
  <2>1. SameConnection(d) /\ SameMailbox(d) /\ SameStore
    BY <1>4 DEF SameConnection, SameMailbox, SameStore, IInv, TypeOK
  <2> QED
    BY <1>4, <2>1, Untouched DEF IInv
<1> QED
  BY <1>1, <1>2, <1>3, <1>4 DEF IInv

LEMMA MarkClosingStep ==
  ASSUME IInv, MarkClosing
  PROVE  IInv'
<1> USE DEF MarkClosing, Publishing, store, threads, socket, client
<1>1. TypeOK'
  BY DEF IInv, TypeOK
<1>2. StoreInv' /\ BroadcastInv'
  BY DEF IInv, StoreInv, BroadcastInv, CachedFrameIsLatest
<1>3. ASSUME NEW c \in Clients PROVE ClientInv(c)'
  <2>1. /\ Served(c)' = Served(c) /\ Sent(c)' = Sent(c) /\ Taken(c)' = Taken(c)
        /\ \A n, g : Follows(n, g)' <=> Follows(n, g)
        /\ ~SaysClosing(c) /\ c \notin subscribers'
    BY DEF Served, Sent, Taken, Follows, SaysClosing
  <2>2. ClientInv(c)
    BY <1>3 DEF IInv
  <2> QED
    BY <2>1, <2>2 DEF ClientInv, ConnectionInv, WireInv, PipelineInv, ViewInv, Served
<1> QED
  BY <1>1, <1>2, <1>3 DEF IInv

LEMMA MarkStartupFailedStep ==
  ASSUME IInv, MarkStartupFailed
  PROVE  IInv'
<1> USE DEF MarkStartupFailed, store, threads, socket, client
<1>1. TypeOK'
  BY DEF IInv, TypeOK
<1>2. StoreInv' /\ BroadcastInv'
  BY DEF IInv, StoreInv, BroadcastInv, CachedFrameIsLatest
<1>3. ASSUME NEW c \in Clients PROVE ClientInv(c)'
  <2>1. /\ Served(c)' = Served(c) /\ Sent(c)' = Sent(c) /\ Taken(c)' = Taken(c)
        /\ \A n, g : Follows(n, g)' <=> Follows(n, g)
        /\ ~SaysClosing(c) /\ Held(c)' = Held(c)
    BY DEF Served, Sent, Taken, Held, Follows, SaysClosing
  <2>2. ClientInv(c)
    BY <1>3 DEF IInv
  <2> QED
    BY <2>1, <2>2 DEF ClientInv, ConnectionInv, WireInv, PipelineInv, ViewInv, Served
<1> QED
  BY <1>1, <1>2, <1>3 DEF IInv

LEMMA ProcessEndsStep ==
  ASSUME IInv, ProcessEnds
  PROVE  IInv'
<1> USE DEF ProcessEnds, store, client
<1>1. TypeOK'
  BY DEF IInv, TypeOK
<1>2. StoreInv' /\ BroadcastInv'
  BY DEF IInv, StoreInv, BroadcastInv, CachedFrameIsLatest
<1>3. ASSUME NEW c \in Clients PROVE ClientInv(c)'
  <2>1. /\ writer'[c] = "done" /\ inflight'[c] = NoFrame /\ ~Served(c)'
        /\ \A n, g : Follows(n, g)' <=> Follows(n, g)
    BY <1>3 DEF Served, Follows
  <2>2. ClientInv(c)
    BY <1>3 DEF IInv
  <2> QED
    BY <2>1, <2>2 DEF ClientInv, ConnectionInv, WireInv, PipelineInv, ViewInv
<1> QED
  BY <1>1, <1>2, <1>3 DEF IInv

LEMMA SnapshotResponseStep ==
  ASSUME IInv, SnapshotResponse
  PROVE  IInv'
<1> USE DEF SnapshotResponse, store, threads, socket, client
<1>1. /\ latest_full_frame' \in {NoFrame, FullFrame(latest_seq, latest_snapshot)}
      /\ FullFrame(latest_seq, latest_snapshot) \in FullFrames
  BY LatestFrameIsLatest, LatestFullFrame DEF IInv, StoreInv
<1>2. TypeOK'
  BY <1>1 DEF IInv, TypeOK
<1>3. StoreInv' /\ BroadcastInv'
  BY <1>1 DEF IInv, StoreInv, BroadcastInv, CachedFrameIsLatest
<1>4. ASSUME NEW c \in Clients PROVE ClientInv(c)'
  <2>1. SameConnection(c) /\ SameMailbox(c) /\ SameStore
    BY DEF SameConnection, SameMailbox, SameStore
  <2> QED
    BY <1>4, <2>1, Untouched DEF IInv
<1> QED
  BY <1>2, <1>3, <1>4 DEF IInv

LEMMA PublishInitialStep ==
  ASSUME IInv, PublishInitial
  PROVE  IInv'
<1> USE DEF PublishInitial, StorePublishInitial, threads, socket, client
<1>1. PICK s \in Snapshots :
        /\ Fits(FullSize(s))
        /\ latest_snapshot' = s
        /\ latest_full_frame' = FullFrame(1, s)
        /\ full_frame_size_bound' = FullSize(s)
        /\ log' = [log EXCEPT ![1] = s]
        /\ broadcast' = [primary |-> FullFrame(1, s), full |-> FullFrame(1, s)]
  OBVIOUS
<1>2. s \in Snapshot /\ FullSize(s) \in Nat /\ 1 \in Seqs
  BY SnapshotsAssumption, SizeAssumption, BoundsAssumption DEF Seqs
<1>3. FullFrame(1, s) \in FullFrames /\ FullFrame(1, s) \in Frames
  BY <1>2, FullFrameType DEF Frames
<1>4. latest_seq = 0 /\ subscribers = {} /\ remaining' = {}
  BY DEF IInv, StoreInv
<1>5. TypeOK'
  <2>1. log' \in [Seqs -> Snapshot]
    BY <1>1, <1>2 DEF IInv, TypeOK
  <2> QED
    BY <1>1, <1>2, <1>3, <2>1, BoundsAssumption DEF IInv, TypeOK, Seqs
<1>6. StoreInv' /\ BroadcastInv'
  <2>1. log'[1] = s
    BY <1>1, <1>2 DEF IInv, TypeOK
  <2>2. StoreInv'
    BY <1>1, <1>2, <1>3, <1>4, <2>1, NoFrameAssumption
    DEF IInv, StoreInv, CachedFrameIsLatest
  <2>3. BroadcastInv'
    BY <1>4 DEF BroadcastInv
  <2> QED
    BY <2>2, <2>3
<1>7. ASSUME NEW c \in Clients PROVE ClientInv(c)'
  <2>1. /\ ClientInv(c) /\ view[c].seq = 0 /\ view[c].seq \in 0 .. MaxSeq
    BY <1>4, <1>7 DEF IInv, TypeOK, ClientInv, ViewInv
  <2>2. ASSUME NEW n, NEW g \in Frames, Follows(n, g) PROVE Follows(n, g)' /\ IsClosing(g)
    <3>1. IsFull(g) \/ IsDiff(g) => g.seq \in Seqs
      BY FrameKinds
    <3> QED
      BY <1>4, <2>2, <3>1 DEF Follows, Seqs
  <2>3. wire[c] \in Seq(Frames) /\ \A i \in 1 .. Len(wire[c]) : wire[c][i] \in Frames
    BY ElementOfSeq DEF IInv, TypeOK
  <2>4. WireInv(c)'
    BY <2>1, <2>2, <2>3 DEF ClientInv, WireInv
  <2>5. /\ Served(c)' = Served(c) /\ Sent(c)' = Sent(c) /\ Taken(c)' = Taken(c)
        /\ Held(c)' = Held(c) /\ ~SaysClosing(c) /\ c \notin subscribers' \cup remaining'
    BY <1>4 DEF Served, Sent, Taken, Held, SaysClosing
  <2>6. PipelineInv(c)'
    BY <2>1, <2>2, <2>5 DEF IInv, TypeOK, ClientInv, PipelineInv
  <2>7. ConnectionInv(c)' /\ ViewInv(c)'
    BY <2>1, <2>5 DEF ClientInv, ConnectionInv, ViewInv, Served
  <2> QED
    BY <2>4, <2>6, <2>7 DEF ClientInv
<1> QED
  BY <1>5, <1>6, <1>7 DEF IInv

LEMMA PublishLaterStep ==
  ASSUME IInv, PublishLater
  PROVE  IInv'
<1> USE DEF PublishLater, StorePublishDiff, Publishing, threads, socket, client
<1> DEFINE p == latest_snapshot
           n == latest_seq
<1>1. PICK s \in Snapshots :
        /\ Publishable(p, s)
        /\ latest_snapshot' = s
        /\ IF Fits(CandidateBound(p, s))
           THEN /\ full_frame_size_bound' = CandidateBound(p, s)
                /\ latest_full_frame' = CacheAfterDiff
           ELSE /\ full_frame_size_bound' = FullSize(s)
                /\ latest_full_frame' = FullFrame(n + 1, s)
        /\ log' = [log EXCEPT ![n + 1] = s]
        /\ broadcast' = BuildBroadcast(n + 1, p, s)
  OBVIOUS
<1>2. /\ n \in Seqs /\ n + 1 \in Seqs /\ n # 0 /\ n \in Nat
      /\ p \in Snapshots /\ p \in Snapshot /\ s \in Snapshot /\ p = log[n]
      /\ latest_seq' = n + 1 /\ log \in [Seqs -> Snapshot]
      /\ remaining = {} /\ to_close = {} /\ startup_state = "ready"
      /\ full_frame_size_bound \in Nat /\ FullSize(p) <= full_frame_size_bound
  BY SnapshotsAssumption, BoundsAssumption DEF IInv, TypeOK, StoreInv, Seqs
<1>3. /\ log'[n + 1] = s /\ log' \in [Seqs -> Snapshot]
      /\ \A i \in Seqs : i <= n => log'[i] = log[i]
  BY <1>1, <1>2
<1>4. /\ FullSize(s) \in Nat /\ FullSize(p) \in Nat
      /\ DiffSize(p, s) \in Nat /\ OmittedGrowth(p, s) \in Nat
      /\ FullSize(s) <= FullSize(p) + DiffSize(p, s) + OmittedGrowth(p, s) + FULL_FRAME_BOUND_SLACK
  BY <1>2, SizeAssumption
<1>5. CandidateBound(p, s) \in Nat /\ FullSize(s) <= CandidateBound(p, s)
  <2>1. CASE Fits(DiffSize(p, s))
    BY <1>2, <1>4, <2>1, BoundsAssumption DEF CandidateBound, PrimarySize, BroadcastOmittedGrowth
  <2>2. CASE ~Fits(DiffSize(p, s))
    BY <1>2, <1>4, <2>2, BoundsAssumption DEF CandidateBound, PrimarySize, BroadcastOmittedGrowth
  <2> QED
    BY <2>1, <2>2
<1>6. /\ full_frame_size_bound' \in Nat /\ FullSize(s) <= full_frame_size_bound'
      /\ Fits(full_frame_size_bound') /\ Fits(FullSize(s))
      /\ latest_full_frame' \in {NoFrame, FullFrame(n + 1, s)}
  <2>1. CASE Fits(CandidateBound(p, s))
    BY <1>1, <1>4, <1>5, <2>1, BoundsAssumption DEF Fits, CacheAfterDiff
  <2>2. CASE ~Fits(CandidateBound(p, s))
    BY <1>1, <1>4, <1>5, <2>2, BoundsAssumption DEF Publishable
  <2> QED
    BY <2>1, <2>2
<1>7. /\ FullFrame(n + 1, s) \in FullFrames
      /\ broadcast' \in [primary : Frames \cup {NoFrame}, full : Frames \cup {NoFrame}]
  BY <1>1, <1>2, FullFrameType, BroadcastType
<1>8. TypeOK'
  BY <1>1, <1>2, <1>3, <1>6, <1>7 DEF IInv, TypeOK, Seqs
<1>9. StoreInv'
  BY <1>1, <1>2, <1>3, <1>6 DEF IInv, StoreInv, CachedFrameIsLatest
<1>10. BroadcastInv'
  <2>1. log'[n] = log[n] /\ latest_seq' - 1 = n /\ latest_seq' > 1
    BY <1>2, <1>3
  <2> QED
    BY <1>1, <1>2, <1>6, <2>1 DEF BroadcastInv, BuildBroadcast, FullIfFits
<1>11. ASSUME NEW c \in Clients PROVE ClientInv(c)'
  <2>1. ClientInv(c) /\ view[c].seq \in 0 .. MaxSeq
    BY <1>11 DEF IInv, TypeOK
  <2>2. ASSUME NEW m, NEW g \in Frames, Follows(m, g) PROVE Follows(m, g)'
    <3>1. CASE IsFull(g)
      <4>1. g.seq \in Seqs /\ g.seq <= n /\ m <= g.seq /\ g.snapshot = log[g.seq]
        BY <2>2, <3>1, FrameKinds DEF Follows
      <4>2. g.seq <= latest_seq' /\ log'[g.seq] = log[g.seq]
        BY <1>2, <1>3, <4>1 DEF Seqs
      <4> QED
        BY <3>1, <4>1, <4>2 DEF Follows
    <3>2. CASE IsDiff(g)
      <4>1. g.seq \in Seqs /\ g.seq <= n /\ m # 0 /\ m = g.seq - 1
            /\ g.diff = WireDiff(log[m], log[g.seq])
        BY <2>2, <3>2, FrameKinds DEF Follows
      <4>2. /\ m \in Seqs /\ g.seq <= latest_seq'
            /\ log'[m] = log[m] /\ log'[g.seq] = log[g.seq]
        BY <1>2, <1>3, <4>1, BoundsAssumption DEF Seqs
      <4> QED
        BY <3>2, <4>1, <4>2 DEF Follows
    <3>3. CASE IsClosing(g)
      BY <3>3 DEF Follows
    <3> QED
      BY <3>1, <3>2, <3>3, FrameKinds
  <2>3. wire[c] \in Seq(Frames) /\ \A i \in 1 .. Len(wire[c]) : wire[c][i] \in Frames
    BY ElementOfSeq DEF IInv, TypeOK
  <2>4. WireInv(c)'
    BY <2>1, <2>2, <2>3 DEF ClientInv, WireInv
  <2>5. /\ Served(c)' = Served(c) /\ Sent(c)' = Sent(c) /\ Taken(c)' = Taken(c)
        /\ Held(c)' = Held(c) /\ ~SaysClosing(c) /\ c \notin subscribers' \ remaining'
        /\ c \in remaining' => c \in subscribers \ remaining
    BY <1>2 DEF Served, Sent, Taken, Held, SaysClosing
  <2>6. PipelineInv(c)'
    BY <1>2, <2>1, <2>2, <2>5 DEF IInv, TypeOK, ClientInv, PipelineInv
  <2>7. ConnectionInv(c)'
    BY <2>1, <2>5 DEF ClientInv, ConnectionInv, Served
  <2>8. ViewInv(c)'
    <3>1. view[c].seq <= n
      BY <2>1 DEF ClientInv, ViewInv
    <3>2. view[c].seq # 0 => view[c].seq \in Seqs /\ log'[view[c].seq] = log[view[c].seq]
      BY <1>2, <1>3, <2>1, <3>1 DEF Seqs
    <3> QED
      BY <1>2, <2>1, <3>1, <3>2 DEF ClientInv, ViewInv
  <2> QED
    BY <2>4, <2>6, <2>7, <2>8 DEF ClientInv
<1> QED
  BY <1>8, <1>9, <1>10, <1>11 DEF IInv

LEMMA StutterStep ==
  ASSUME IInv, UNCHANGED vars
  PROVE  IInv'
<1> USE DEF vars, daemon, store, threads, socket, client
<1>1. TypeOK'
  BY DEF IInv, TypeOK
<1>2. StoreInv' /\ BroadcastInv'
  BY DEF IInv, StoreInv, BroadcastInv, CachedFrameIsLatest
<1>3. ASSUME NEW c \in Clients PROVE ClientInv(c)'
  <2>1. SameConnection(c) /\ SameMailbox(c) /\ SameStore
    BY DEF SameConnection, SameMailbox, SameStore
  <2> QED
    BY <1>3, <2>1, Untouched DEF IInv
<1> QED
  BY <1>1, <1>2, <1>3 DEF IInv

LEMMA InvariantStep == IInv /\ [Next]_vars => IInv'
<1> SUFFICES ASSUME IInv, [Next]_vars PROVE IInv'
  OBVIOUS
<1>1. CASE RunLoop
  BY <1>1, PublishInitialStep, MarkStartupFailedStep, PublishLaterStep, MarkClosingStep,
     ProcessEndsStep, EnqueueStep, CloseSubscriberStep
  DEF RunLoop, ProcessExit, Killed
<1>2. CASE SnapshotResponse
  BY <1>2, SnapshotResponseStep
<1>3. ASSUME NEW c \in Clients, WriterThread(c) PROVE IInv'
  BY <1>3, WriteStep, WriteFailsStep, WriterClosesMailboxStep, ReceiveStep, ShutdownStep
  DEF WriterThread
<1>4. ASSUME NEW c \in Clients, ReaderThread(c) PROVE IInv'
  BY <1>4, ReaderRetiresStep, ReaderClosesMailboxStep DEF ReaderThread
<1>5. ASSUME NEW c \in Clients, ClientProcess(c) \/ Cancel(c) PROVE IInv'
  BY <1>5, SubscribeStep, LeaveStep, ReadFrameStep DEF ClientProcess
<1>6. CASE Over \/ UNCHANGED vars
  BY <1>6, StutterStep DEF Over
<1> QED
  BY <1>1, <1>2, <1>3, <1>4, <1>5, <1>6 DEF Next

-----------------------------------------------------------------------------
(* Theorems *)

\* The frames between the store and every client form a chain from what the
\* client shows to what was published, whatever the threads, the closing and
\* the process exit interleave to.
THEOREM Invariance == Spec => []IInv
BY InitInvariant, InvariantStep, PTL DEF Spec

\* Every variable keeps its type: no step mixes up frames, sizes or phases.
THEOREM TypeCorrect == Spec => []TypeOK
<1>1. IInv => TypeOK
  BY DEF IInv
<1> QED
  BY <1>1, Invariance, PTL

\* A client that rebuilds snapshots from diffs shows what was published under
\* its sequence number, up to volatile fields.
THEOREM FaithfulReconstruction == Spec => []ReconstructionIsFaithful
<1>1. IInv => ReconstructionIsFaithful
  BY DEF IInv, ClientInv, ViewInv, ReconstructionIsFaithful
<1> QED
  BY <1>1, Invariance, PTL

\* No client ever meets a diff made against a snapshot it does not have.
THEOREM GapFree == Spec => []NoSeqGap
<1>1. IInv => NoSeqGap
  BY HeadFollows DEF NoSeqGap
<1> QED
  BY <1>1, Invariance, PTL

\* The latest snapshot can always be encoded whole, so every subscriber and
\* every query can be answered.
THEOREM BootstrapAlways == Spec => []AlwaysBootstrappable
<1>1. ASSUME IInv, latest_seq # 0 PROVE LatestFrame # NoFrame
  <2>1. Fits(FullSize(latest_snapshot))
    BY <1>1, SizeAssumption, BoundsAssumption DEF IInv, TypeOK, StoreInv, Fits
  <2>2. FullFrame(latest_seq, latest_snapshot) # NoFrame
    BY <1>1, LatestFullFrame, NoFrameAssumption
  <2> QED
    BY <2>1, <2>2 DEF LatestFrame, FullIfFits
<1>2. IInv => AlwaysBootstrappable
  BY <1>1 DEF AlwaysBootstrappable
<1> QED
  BY <1>2, Invariance, PTL

\* A bootstrap never starts from an older snapshot than the latest.
THEOREM CacheFresh == Spec => []CachedFrameIsLatest
<1>1. IInv => CachedFrameIsLatest
  BY DEF IInv, StoreInv
<1> QED
  BY <1>1, Invariance, PTL

\* Nobody is registered with a daemon that is closing.
THEOREM ClosingIsFinal == Spec => []NobodyJoinsAfterClosing
<1>1. IInv => NobodyJoinsAfterClosing
  BY DEF IInv, StoreInv, NobodyJoinsAfterClosing
<1> QED
  BY <1>1, Invariance, PTL

\* What a step does to what clients show and to what was published: a
\* publication appends to the log, a frame that is read moves one client
\* forward to a published snapshot, and nothing else touches either.
Published ==
  /\ latest_seq < MaxSeq /\ latest_seq' = latest_seq + 1 /\ view' = view
  /\ \E s \in Snapshots : log' = [log EXCEPT ![latest_seq + 1] = s]
Observed(c) ==
  /\ latest_seq' = latest_seq /\ log' = log
  /\ \E n \in 1 .. latest_seq, s \in Snapshot :
       /\ n >= view[c].seq
       /\ view' = [view EXCEPT ![c] = [seq |-> n, snapshot |-> s]]
       /\ Material(s) = Material(log[n])
Unseen == latest_seq' = latest_seq /\ log' = log /\ view' = view

LEMMA ObservableSteps ==
  ASSUME IInv, [Next]_vars
  PROVE  Published \/ (\E c \in Clients : Observed(c)) \/ Unseen
<1> USE DEF daemon, store, threads, socket, client
<1>1. CASE PublishInitial
  <2>1. latest_seq = 0 /\ latest_seq' = 1 /\ view' = view
    BY <1>1 DEF PublishInitial, StorePublishInitial, IInv, StoreInv
  <2>2. PICK s \in Snapshots : log' = [log EXCEPT ![1] = s]
    BY <1>1 DEF PublishInitial, StorePublishInitial
  <2>3. latest_seq < MaxSeq /\ latest_seq' = latest_seq + 1 /\ latest_seq + 1 = 1
    BY <2>1, BoundsAssumption
  <2> QED
    BY <2>1, <2>2, <2>3 DEF Published
<1>2. CASE PublishLater
  BY <1>2 DEF PublishLater, StorePublishDiff, Published
<1>3. ASSUME NEW c \in Clients, ReadFrame(c), ~IsClosing(Head(wire[c])) PROVE Observed(c)
  <2> DEFINE f == Head(wire[c])
  <2>1. PICK s \in Snapshot : Adopt(c, f.seq, s) /\ Material(s) = Material(log[f.seq])
    BY <1>3, FrameAdopted
  <2>2. Follows(view[c].seq, f) /\ f \in Frames
    BY <1>3, HeadFollows DEF ReadFrame
  <2>3. f.seq \in Seqs
    BY <1>3, <2>2, FrameKinds
  <2>4. f.seq \in 1 .. latest_seq /\ f.seq >= view[c].seq
    BY <1>3, <2>2, <2>3, BoundsAssumption DEF Follows, Seqs, IInv, TypeOK
  <2>5. latest_seq' = latest_seq /\ log' = log
    BY <1>3 DEF ReadFrame
  <2> QED
    BY <2>1, <2>4, <2>5 DEF Observed, Adopt
<1>4. ASSUME NEW c \in Clients, ReadFrame(c), IsClosing(Head(wire[c])) PROVE Unseen
  <2>1. Head(wire[c]) \in Frames
    BY <1>4, HeadFollows DEF ReadFrame
  <2> QED
    BY <1>4, <2>1, FrameKinds DEF ReadFrame, Applies, Unseen
<1>5. ASSUME NEW c \in Clients,
             \/ Subscribe(c) \/ SubscribeRefused(c) \/ ReadEnd(c) \/ Cancel(c)
             \/ WriterThread(c) \/ ReaderThread(c) \/ Enqueue(c) \/ CloseSubscriber(c)
      PROVE  Unseen
  BY <1>5 DEF Unseen, Subscribe, SubscribeRefused, ReadEnd, Cancel, WriterThread, Write,
     WriteFails, WriterClosesMailbox, Receive, Shutdown, ReaderThread, ReaderRetires,
     ReaderClosesMailbox, Enqueue, CloseSubscriber
<1>6. CASE \/ MarkStartupFailed \/ MarkClosing \/ ProcessExit \/ Killed \/ SnapshotResponse
           \/ Over \/ UNCHANGED vars
  BY <1>6 DEF Unseen, MarkStartupFailed, MarkClosing, ProcessExit, Killed, ProcessEnds,
     SnapshotResponse, Over, vars
<1> QED
  BY <1>1, <1>2, <1>3, <1>4, <1>5, <1>6 DEF Next, RunLoop, ClientProcess

\* What a client shows never goes back in time.
THEOREM Monotone == Spec => NeverBackwards
<1>1. ASSUME IInv, [Next]_vars PROVE [\A c \in Clients : view'[c].seq >= view[c].seq]_view
  <2>1. view \in [Clients -> [seq : 0 .. MaxSeq, snapshot : Snapshot]]
    BY <1>1 DEF IInv, TypeOK
  <2>2. CASE Published \/ Unseen
    BY <2>2 DEF Published, Unseen
  <2>3. ASSUME NEW c \in Clients, Observed(c)
        PROVE  \A d \in Clients : view'[d].seq >= view[d].seq
    <3> TAKE d \in Clients
    <3>1. PICK n \in 1 .. latest_seq, s \in Snapshot :
            n >= view[c].seq /\ view' = [view EXCEPT ![c] = [seq |-> n, snapshot |-> s]]
      BY <2>3 DEF Observed
    <3>2. CASE d = c
      BY <2>1, <3>1, <3>2
    <3>3. CASE d # c
      BY <2>1, <3>1, <3>3, BoundsAssumption
    <3> QED
      BY <3>2, <3>3
  <2> QED
    BY <1>1, <2>2, <2>3, ObservableSteps
<1>2. IInv /\ [Next]_vars => [\A c \in Clients : view'[c].seq >= view[c].seq]_view
  BY <1>1
<1> QED
  BY <1>2, Invariance, PTL DEF Spec, NeverBackwards

\* The stream, with its diffs, coalescing, reconnects and crashes, implements
\* the feed: clients are shown published snapshots, whole and in order.
THEOREM Refinement == Spec => ImplementsFeed
<1>1. Init => Feed!Init
  BY DEF Init, Feed!Init, Seqs
<1>2. ASSUME IInv, [Next]_vars PROVE [Feed!Next]_Feed!vars
  <2>1. CASE Published
    <3>1. PICK s \in Snapshots : log' = [log EXCEPT ![latest_seq + 1] = s]
      BY <2>1 DEF Published
    <3>2. log \in [Seqs -> Snapshot] /\ latest_seq \in 0 .. MaxSeq
      BY <1>2 DEF IInv, TypeOK
    <3>3. [i \in Seqs |-> Material(log'[i])] =
            [[i \in Seqs |-> Material(log[i])] EXCEPT ![latest_seq + 1] = Material(s)]
      BY <3>1, <3>2
    <3>4. Feed!Publish
      BY <2>1, <3>3 DEF Published, Feed!Publish
    <3> QED
      BY <3>4 DEF Feed!Next
  <2>2. ASSUME NEW c \in Clients, Observed(c) PROVE Feed!Observe(c)
    <3>1. PICK n \in 1 .. latest_seq, s \in Snapshot :
            /\ n >= view[c].seq
            /\ view' = [view EXCEPT ![c] = [seq |-> n, snapshot |-> s]]
            /\ Material(s) = Material(log[n])
      BY <2>2 DEF Observed
    <3>2. n \in Seqs /\ view \in [Clients -> [seq : 0 .. MaxSeq, snapshot : Snapshot]]
      BY <1>2, BoundsAssumption DEF IInv, TypeOK, Seqs
    <3>3. [d \in Clients |-> [seq |-> view'[d].seq, content |-> Material(view'[d].snapshot)]] =
            [[d \in Clients |-> [seq |-> view[d].seq, content |-> Material(view[d].snapshot)]]
               EXCEPT ![c] = [seq |-> n, content |-> [i \in Seqs |-> Material(log[i])][n]]]
      BY <3>1, <3>2
    <3> QED
      BY <2>2, <3>1, <3>2, <3>3 DEF Observed, Feed!Observe
  <2>3. CASE Unseen
    BY <2>3 DEF Unseen, Feed!vars
  <2> QED
    BY <1>2, <2>1, <2>2, <2>3, ObservableSteps DEF Feed!Next
<1>3. IInv /\ [Next]_vars => [Feed!Next]_Feed!vars
  BY <1>2
<1> QED
  BY <1>1, <1>3, Invariance, PTL DEF Spec, ImplementsFeed, Feed!Spec
=============================================================================
