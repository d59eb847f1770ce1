----------------------------- MODULE Consumers -----------------------------
(***************************************************************************)
(* The clients of the daemon's socket: subscription workers (the TUI and   *)
(* "agentscan subscribe") and one-shot commands that ask for a snapshot,   *)
(* each of which may start a daemon when there is none; the acceptor that  *)
(* admits their connections, holds one of a few slots for every handshake, *)
(* and refuses or drops what comes beyond; connections that never say a    *)
(* word; and daemons that fail to start, are stopped, or die.              *)
(*                                                                         *)
(* There is one daemon at a time (DaemonLifecycle) and what it publishes   *)
(* is one answer, "snapshot" (SnapshotStream).  A connection that breaks   *)
(* is seen by its client as an end of file, as a failed read, or, when the *)
(* hello was not written yet, as a broken pipe, as the system has it.      *)
(***************************************************************************)
EXTENDS Naturals, Sequences, FiniteSets

CONSTANTS
  Consumers,
  Silents,                  \* connections whose client never sends a hello
  Settings,                 \* per consumer: what it is and whether it may start a daemon
  Nobody,
  MAX_PENDING_HANDSHAKES, MAX_BUSY_REFUSAL_THREADS, MAX_SUBSCRIBERS,
  MaxFaults                 \* bound: what users do, and what fails

Peers == Consumers \cup Silents

ASSUME ConsumersAssumption ==
  /\ Nobody \notin Peers /\ Consumers \cap Silents = {} /\ IsFiniteSet(Peers)
  /\ MaxFaults \in Nat
  /\ MAX_PENDING_HANDSHAKES \in Nat \ {0} /\ MAX_BUSY_REFUSAL_THREADS \in Nat
  /\ MAX_SUBSCRIBERS \in Nat \ {0}
  /\ Settings \subseteq [Consumers -> [mode : {"subscribe", "snapshot"},
                                      policy : {"auto", "disabled", "untrusted"}]]

VARIABLES
  daemon,              \* "none", or DaemonStartupState of the one that listens
  conn,                \* server, per peer: how far its connection is
  pending_handshakes,  \* server: slots taken
  wire,                \* per consumer: frames sent to it and not read
  phase,               \* per consumer: where its loop is
  bootstrapped,        \* per consumer: whether it has shown rows
  attempted_start,     \* per consumer: whether it has tried to start a daemon since then
  late,                \* per one-shot: whether its deadline has passed
  startLock,           \* the consumer that holds the start lock
  setting,             \* ClientMode; AutoStartPolicy or the trust in the executable (macOS)
  starts,              \* per consumer: daemons started since it last got rows (history)
  told,                \* consumers that were sent "closing" (history)
  faults

state == <<bootstrapped, attempted_start, late>>
server == <<daemon, conn, pending_handshakes>>
clients == <<phase, bootstrapped, attempted_start, late, startLock, starts>>
vars == <<server, wire, told, clients, setting, faults>>

Init ==
  /\ daemon \in {"none", "initializing"}
  /\ conn = [p \in Peers |-> IF p \in Silents THEN "unused" ELSE "closed"]
  /\ pending_handshakes = 0
  /\ wire = [c \in Consumers |-> <<>>]
  /\ phase = [c \in Consumers |-> "ready"]
  /\ bootstrapped = [c \in Consumers |-> FALSE]
  /\ attempted_start = [c \in Consumers |-> FALSE]
  /\ late = [c \in Consumers |-> FALSE]
  /\ startLock = Nobody
  /\ setting \in Settings
  /\ starts = [c \in Consumers |-> 0]
  /\ told = {} /\ faults = 0

IsWorker(c) == setting[c].mode = "subscribe"
Fault == faults < MaxFaults /\ faults' = faults + 1
At(place) == {p \in Peers : conn[p] = place}

------------------------------------------------------------------------------
(* The consumers' loops.                                                   *)

Goes(c, next) == phase' = [phase EXCEPT ![c] = next]
\* A one-shot polls until its deadline; a worker backs off and tries again.
Retries(c) ==
  Goes(c, IF IsWorker(c) THEN "backoff" ELSE IF late[c] THEN "ended" ELSE "ready")

CanAttemptAnyTime(c) == TRUE                        \* mutant of CanAttemptStart
CanAttemptStart(c) == ~attempted_start[c]

NotRunning(c) ==
  \/ setting[c].policy = "disabled" /\ Goes(c, "ended") /\ UNCHANGED state
  \/ /\ setting[c].policy # "disabled" /\ CanAttemptStart(c)
     /\ Goes(c, "probing")
     /\ attempted_start' = [attempted_start EXCEPT ![c] = TRUE]
     /\ UNCHANGED <<bootstrapped, late>>
  \/ setting[c].policy # "disabled" /\ ~CanAttemptStart(c) /\ Retries(c) /\ UNCHANGED state

Connect(c) ==
  /\ phase[c] = "ready" /\ wire' = [wire EXCEPT ![c] = <<>>]
  /\ \/ daemon = "none" /\ NotRunning(c) /\ UNCHANGED conn
     \/ /\ daemon # "none" /\ conn[c] = "closed"
        /\ conn' = [conn EXCEPT ![c] = "backlog"]
        /\ Goes(c, "asking") /\ UNCHANGED state
  /\ UNCHANGED <<daemon, pending_handshakes, startLock, starts, told, setting, faults>>

BackoffEnds(c) ==
  /\ phase[c] = "backoff" /\ Goes(c, "ready")
  /\ UNCHANGED <<server, wire, state, startLock, starts, told, setting, faults>>

DeadlinePasses(c) ==
  /\ ~IsWorker(c) /\ phase[c] # "ended" /\ ~late[c]
  /\ late' = [late EXCEPT ![c] = TRUE]
  /\ UNCHANGED <<server, wire, phase, bootstrapped, attempted_start, startLock, starts, told,
                 setting, faults>>

\* subscribe_once_from_socket: what a worker makes of the first answer.
\* Mutant of RetryableAnswers.
RetriesEvenWhenClosing == {"busy", "notReady", "limit", "reset", "closing"}
RetryableAnswers == {"busy", "notReady", "limit", "reset"}

WorkerAnswered(c, answer) ==
  \/ /\ answer = "snapshot" /\ Goes(c, "live")
     /\ bootstrapped' = [bootstrapped EXCEPT ![c] = TRUE]
     /\ attempted_start' = [attempted_start EXCEPT ![c] = FALSE]
     /\ starts' = [starts EXCEPT ![c] = 0] /\ UNCHANGED late
  \/ answer = "pipe" /\ NotRunning(c) /\ UNCHANGED starts
  \/ answer \in RetryableAnswers /\ Goes(c, "backoff") /\ UNCHANGED <<state, starts>>
  \/ /\ answer = "eof" /\ Goes(c, IF bootstrapped[c] THEN "backoff" ELSE "ended")
     /\ UNCHANGED <<state, starts>>
  \/ /\ answer \in {"failed", "closing"} \ RetryableAnswers /\ Goes(c, "ended")
     /\ UNCHANGED <<state, starts>>

\* snapshot_via_socket_path: what a one-shot makes of it.
OneShotAnswered(c, answer) ==
  /\ \/ answer = "pipe" /\ NotRunning(c)
     \/ answer \in {"busy", "notReady"} /\ Retries(c) /\ UNCHANGED state
     \/ answer \notin {"pipe", "busy", "notReady"} /\ Goes(c, "ended") /\ UNCHANGED state
  /\ UNCHANGED starts

ReadAnswer(c) ==
  /\ phase[c] = "asking" /\ wire[c] # <<>>
  /\ IF IsWorker(c) THEN WorkerAnswered(c, Head(wire[c])) ELSE OneShotAnswered(c, Head(wire[c]))
  /\ wire' = [wire EXCEPT ![c] = Tail(@)]
  /\ UNCHANGED <<server, startLock, told, setting, faults>>

\* read_subscription_frames: told of the end, a worker ends; cut off, it connects again.
ReadEnd(c) ==
  /\ phase[c] = "live" /\ wire[c] # <<>>
  /\ Goes(c, IF Head(wire[c]) = "closing" THEN "ended" ELSE "ready")
  /\ wire' = [wire EXCEPT ![c] = Tail(@)]
  /\ UNCHANGED <<server, state, startLock, starts, told, setting, faults>>

\* The user leaves the picker, or what reads the stream is gone.
Quit(c) ==
  /\ IsWorker(c) /\ phase[c] = "live" /\ Fault /\ Goes(c, "ended")
  /\ UNCHANGED <<server, wire, state, startLock, starts, told, setting>>

------------------------------------------------------------------------------
(* Starting a daemon.                                                      *)

Unlock(c) == startLock' = IF startLock = c THEN Nobody ELSE startLock

\* The start is done; the consumer connects again.
Started(c) == Goes(c, "ready") /\ Unlock(c) /\ UNCHANGED <<state, starts>>
\* A start that fails ends its consumer.
StartFails(c) == Goes(c, "ended") /\ Unlock(c) /\ UNCHANGED <<state, starts>>

\* daemon_start_existing_status: what a lifecycle query finds.  It needs a slot too, and
\* gives up when it found all of them taken for as long as it tries.
Existing(c) ==
  \/ daemon = "ready" /\ Started(c)
  \/ daemon = "initializing" /\ Goes(c, "awaiting") /\ UNCHANGED <<startLock, state, starts>>
  \/ daemon \in {"failed", "closing"} /\ StartFails(c)
  \/ daemon # "none" /\ pending_handshakes = MAX_PENDING_HANDSHAKES /\ StartFails(c)

Probe(c) ==
  /\ phase[c] = "probing"
  /\ \/ Existing(c)
     \/ daemon = "none" /\ Goes(c, "locking") /\ UNCHANGED <<startLock, state, starts>>
  /\ UNCHANGED <<server, wire, told, setting, faults>>

\* Under the start lock the query is made once more.
ProbeLocked(c) ==
  /\ phase[c] = "locking" /\ startLock = Nobody
  /\ Existing(c)
  /\ UNCHANGED <<server, wire, told, setting, faults>>

Launch(c) ==
  /\ phase[c] = "locking" /\ startLock = Nobody /\ daemon = "none"
  /\ setting[c].policy # "untrusted"
  /\ daemon' = "initializing" /\ startLock' = c /\ Goes(c, "awaiting")
  /\ starts' = [starts EXCEPT ![c] = @ + 1]
  /\ UNCHANGED <<conn, pending_handshakes, wire, state, told, setting, faults>>

\* A refused start ends a consumer, unless it has shown rows: that one keeps trying.
LaunchRefused(c) ==
  /\ phase[c] = "locking" /\ startLock = Nobody /\ daemon = "none"
  /\ setting[c].policy = "untrusted"
  /\ IF IsWorker(c) /\ bootstrapped[c]
       THEN Goes(c, "backoff") /\ attempted_start' = [attempted_start EXCEPT ![c] = FALSE]
       ELSE Goes(c, "ended") /\ UNCHANGED attempted_start
  /\ UNCHANGED <<server, wire, bootstrapped, late, startLock, starts, told, setting, faults>>

\* wait_for_daemon_readiness: a daemon that is gone or closing is not waited for beyond
\* the deadline, though another one may be ready before that.
Await(c) ==
  /\ phase[c] = "awaiting"
  /\ IF daemon = "ready" THEN Started(c) ELSE daemon # "initializing" /\ StartFails(c)
  /\ UNCHANGED <<server, wire, told, setting, faults>>

------------------------------------------------------------------------------
(* The daemon.                                                             *)

KeepsTheSlot(n) == n                                \* mutant of Released
Released(n) == n - 1

\* How the client of connection p sees it break: what was sent before is read first.
Breaks(p, how) ==
  IF p \in Consumers /\ conn[p] \notin {"closed", "unused"} /\ phase[p] \in {"asking", "live"}
    THEN Append(wire[p], how) ELSE wire[p]

\* The process ends, and its connections with it.
Exits ==
  /\ daemon' = "none" /\ pending_handshakes' = 0
  /\ conn' = [p \in Peers |-> IF conn[p] = "unused" THEN "unused" ELSE "closed"]
  /\ \E before \in {"eof", "reset", "pipe"}, after \in {"eof", "reset"} :
       wire' = [c \in Consumers |->
                  Breaks(c, IF conn[c] \in {"subscriber", "farewell"} THEN after ELSE before)]
  /\ UNCHANGED <<told, setting>>

\* The deadline of a start passes before a slow daemon is ready: the one who launched it
\* kills it.
TooSlow(c) ==
  /\ phase[c] = "awaiting" /\ daemon = "initializing" /\ Fault
  /\ StartFails(c)
  /\ IF startLock = c THEN Exits ELSE UNCHANGED <<server, wire, told, setting>>

\* The user runs a daemon ("agentscan daemon run"), which takes no start lock.
UserRuns ==
  /\ daemon = "none" /\ Fault /\ daemon' = "initializing"
  /\ UNCHANGED <<conn, pending_handshakes, wire, told, clients, setting>>

BecomesReady ==
  /\ daemon = "initializing" /\ daemon' = "ready"
  /\ UNCHANGED <<conn, pending_handshakes, wire, told, clients, setting, faults>>

StartupFails ==
  /\ daemon = "initializing" /\ Fault /\ daemon' = "failed"
  /\ UNCHANGED <<conn, pending_handshakes, wire, told, clients, setting>>

\* mark_closing takes the subscribers off; their threads have a last frame to write.
Stop ==
  /\ daemon = "ready" /\ Fault /\ daemon' = "closing"
  /\ conn' = [p \in Peers |-> IF conn[p] = "subscriber" THEN "farewell" ELSE conn[p]]
  /\ UNCHANGED <<pending_handshakes, wire, told, clients, setting>>

Farewell(c) ==
  /\ conn[c] = "farewell"
  /\ conn' = [conn EXCEPT ![c] = "closed"]
  /\ wire' = [wire EXCEPT ![c] =
                IF phase[c] \in {"asking", "live"} THEN Append(@, "closing") ELSE @]
  /\ told' = IF phase[c] \in {"asking", "live"} THEN told \cup {c} ELSE told
  /\ UNCHANGED <<daemon, pending_handshakes, clients, setting, faults>>

DaemonEnds == daemon \in {"failed", "closing"} /\ Exits /\ UNCHANGED <<clients, faults>>
Crash == daemon # "none" /\ Fault /\ Exits /\ UNCHANGED clients

------------------------------------------------------------------------------
(* The acceptor and its threads.                                           *)

SilentConnects(s) ==
  /\ daemon # "none" /\ conn[s] = "unused"
  /\ conn' = [conn EXCEPT ![s] = "backlog"]
  /\ UNCHANGED <<daemon, pending_handshakes, wire, told, clients, setting, faults>>

Accept(p) ==
  /\ daemon # "none" /\ conn[p] = "backlog"
  /\ \/ /\ pending_handshakes < MAX_PENDING_HANDSHAKES
        /\ pending_handshakes' = pending_handshakes + 1
        /\ conn' = [conn EXCEPT ![p] = "handshake"] /\ UNCHANGED wire
     \/ /\ pending_handshakes = MAX_PENDING_HANDSHAKES
        /\ Cardinality(At("refusal")) < MAX_BUSY_REFUSAL_THREADS
        /\ conn' = [conn EXCEPT ![p] = "refusal"] /\ UNCHANGED <<pending_handshakes, wire>>
     \/ /\ pending_handshakes = MAX_PENDING_HANDSHAKES
        /\ Cardinality(At("refusal")) = MAX_BUSY_REFUSAL_THREADS
        /\ conn' = [conn EXCEPT ![p] = "closed"]
        /\ \E how \in {"eof", "reset", "pipe"} :
             wire' = [c \in Consumers |-> IF c = p THEN Breaks(c, how) ELSE wire[c]]
        /\ UNCHANGED pending_handshakes
  /\ UNCHANGED <<daemon, told, clients, setting, faults>>

Sends(c, frame) ==
  wire' = [wire EXCEPT ![c] = IF phase[c] = "asking" THEN Append(@, frame) ELSE @]

Refuse(p) ==
  /\ conn[p] = "refusal" /\ conn' = [conn EXCEPT ![p] = "closed"]
  /\ IF p \in Consumers THEN Sends(p, "busy") ELSE UNCHANGED wire
  /\ UNCHANGED <<daemon, pending_handshakes, told, clients, setting, faults>>

HelloDeadline(s) ==
  /\ s \in Silents /\ conn[s] = "handshake"
  /\ conn' = [conn EXCEPT ![s] = "closed"]
  /\ pending_handshakes' = Released(pending_handshakes)
  /\ UNCHANGED <<daemon, wire, told, clients, setting, faults>>

\* snapshot_response and subscribe_response.
Response(c) ==
  IF daemon = "initializing" THEN "notReady"
  ELSE IF daemon # "ready" THEN daemon
  ELSE IF IsWorker(c) /\ Cardinality(At("subscriber")) >= MAX_SUBSCRIBERS
         THEN "limit" ELSE "snapshot"

Handshake(c) ==
  /\ conn[c] = "handshake"
  /\ pending_handshakes' = Released(pending_handshakes)
  /\ conn' = [conn EXCEPT ![c] =
                IF IsWorker(c) /\ Response(c) = "snapshot" THEN "subscriber" ELSE "closed"]
  /\ Sends(c, Response(c))
  /\ told' = IF Response(c) = "closing" THEN told \cup {c} ELSE told
  /\ UNCHANGED <<daemon, clients, setting, faults>>

\* The reader thread of a subscriber sees the end of a client that left.
PlaceReleased(c) ==
  /\ conn[c] = "subscriber" /\ phase[c] \notin {"asking", "live"}
  /\ conn' = [conn EXCEPT ![c] = "closed"]
  /\ UNCHANGED <<daemon, pending_handshakes, wire, told, clients, setting, faults>>

\* A subscriber that does not read for long enough is retired.
Retire(c) ==
  /\ conn[c] = "subscriber" /\ phase[c] = "live" /\ Fault
  /\ conn' = [conn EXCEPT ![c] = "closed"]
  /\ wire' = [wire EXCEPT ![c] = Append(@, "eof")]
  /\ UNCHANGED <<daemon, pending_handshakes, told, clients, setting>>

------------------------------------------------------------------------------
ConsumerStep(c) ==
  \/ Connect(c) \/ BackoffEnds(c) \/ DeadlinePasses(c) \/ ReadAnswer(c) \/ ReadEnd(c)
  \/ Probe(c) \/ ProbeLocked(c) \/ Launch(c) \/ LaunchRefused(c) \/ Await(c)
ServerStep(p) ==
  \/ Accept(p) \/ Refuse(p) \/ HelloDeadline(p)
  \/ p \in Consumers /\ (Handshake(p) \/ Farewell(p) \/ PlaceReleased(p))

Next ==
  \/ \E c \in Consumers : ConsumerStep(c) \/ Quit(c) \/ Retire(c) \/ TooSlow(c)
  \/ \E p \in Peers : ServerStep(p)
  \/ \E s \in Silents : SilentConnects(s)
  \/ UserRuns \/ BecomesReady \/ StartupFails \/ Stop \/ DaemonEnds \/ Crash

Spec == Init /\ [][Next]_vars
\* Every thread and every timer of the clients and of the daemon goes on.
FairSpec ==
  /\ Spec /\ WF_vars(BecomesReady) /\ WF_vars(DaemonEnds)
  /\ \A c \in Consumers : WF_vars(ConsumerStep(c)) /\ WF_vars(DeadlinePasses(c))
  /\ \A p \in Peers : WF_vars(ServerStep(p))

------------------------------------------------------------------------------
(* Properties.                                                             *)

\* A consumer that was told that the daemon is closing does not start the next one
\* (subscription.rs:566, mod.rs:447): it ends, so that a stop by the user is not undone by
\* those who were listening.
StopIsNotUndone ==
  \A c \in told : phase[c] \in {"asking", "live", "ended"}

\* A daemon that does not come up is not started in a loop: no consumer launches a second
\* one before it has got rows from the first, and none launches one when it must not.
OneStartPerOutage ==
  \A c \in Consumers : starts[c] <= IF setting[c].policy = "auto" THEN 1 ELSE 0

\* A consumer is done, or shows rows, or it is right to keep trying: there is no daemon and
\* it may not start one (again), or all places are taken.
Settled(c) ==
  \/ phase[c] \in {"ended", "live"}
  \/ daemon = "none" /\ IsWorker(c) /\ (attempted_start[c] \/ setting[c].policy = "untrusted")
  \/ daemon = "ready" /\ IsWorker(c) /\ Cardinality(At("subscriber")) = MAX_SUBSCRIBERS

\* Once nothing fails any more, every consumer gets what it came for or is told why not:
\* silent connections, refusals, races of several starts and daemons that come and go do
\* not leave one waiting.
ConsumersSettle == <>[](\A c \in Consumers : Settled(c))
=============================================================================
