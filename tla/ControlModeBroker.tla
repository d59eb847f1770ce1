-------------------------- MODULE ControlModeBroker --------------------------
(***************************************************************************)
(* The daemon's run loop and its tmux control-mode client.  One long-lived *)
(* client carries commands to tmux and, on its output, both the answers    *)
(* and the events of its session; the other sessions' events come from     *)
(* event-only subscriber clients.  A reader thread per client forwards     *)
(* lines to one bounded channel that the run loop alone receives from,     *)
(* also while it waits for an answer.  When a command fails the loop reads *)
(* with short-lived tmux commands and replaces the client.                 *)
(*                                                                         *)
(* A session's content is a version number: 0 says that none of its panes  *)
(* are known.  Connections are the incarnations of the primary client.     *)
(* The lines of an answer between %begin and %end are part of its %end.    *)
(* Subscriber clients stay attached as long as tmux runs.                  *)
(***************************************************************************)
EXTENDS Naturals, Sequences, SequencesExt

CONSTANTS
  Primary,        \* the session the primary client is attached to
  Others,         \* the sessions that have a subscriber client
  All,            \* the scope of a full listing
  Client,         \* the source of the events that consumers send
  CONTROL_MODE_CHANNEL_CAPACITY,
  MaxChanges,     \* bound: changes, of all sessions together
  MaxFocuses,     \* bound: focus events of consumers
  MaxConns,       \* bound: incarnations of the primary client
  Mishaps,        \* what may go wrong: "timeout" (of a command whose answer may still
                  \* come), "death" and "detach" (of a primary client), "fault" (a
                  \* refused command, a failing pipe, a client that does not start),
                  \* "stray" (the pipe of a client that is being replaced fails)
  MaxMishaps,     \* bound: no more mishaps when that many kinds have happened
  MaxReconciles   \* bound: interval reconciles while the broker is in use

Sessions == Others \cup {Primary}
Scopes == Sessions \cup {All}
Feeds == Others \cup {Client}
Conns == 1 .. MaxConns
NoConn == 0

ASSUME BrokerAssumption ==
  /\ Primary \notin Others /\ All \notin Sessions /\ Client \notin Sessions
  /\ Feeds \cap Conns = {}
  /\ CONTROL_MODE_CHANNEL_CAPACITY \in Nat \ {0} /\ MaxConns \in Nat \ {0}
  /\ Mishaps \subseteq {"timeout", "death", "detach", "fault", "stray"}
  /\ \A n \in {MaxChanges, MaxFocuses, MaxMishaps, MaxReconciles} : n \in Nat

VARIABLES
  server,      \* the tmux server runs
  world,       \* per session: its present version
  client,      \* per connection: its process
  written,     \* per connection: commands tmux has not read yet
  pipe,        \* per source: lines its reader thread has not forwarded yet
  deaf,        \* connections whose reader thread has ended on an error
  channel,     \* the shared channel
  deferred,    \* deferred_lines
  primary,     \* the connection in use
  enabled,     \* broker health
  view,        \* the run loop's snapshot
  published,   \* the snapshot last published
  pc,          \* where the run loop is
  batch,       \* the control events of the batch being handled
  kind,        \* what the refresh was asked for by
  todo,        \* listings the refresh still has to read
  brokered,    \* the refresh reads through the broker
  active,      \* the connection whose %begin has been read
  reconnected, \* this refresh has replaced the client
  before,      \* the snapshot before the refresh
  requested,   \* SIGTERM has been received
  handled,     \* per feed: its last event that the run loop took
  changes, focuses, reconciles,
  mishaps      \* those that happened

tmux == <<server, world, client, written>>
lines == <<pipe, deaf, channel, deferred>>
broker == <<primary, enabled>>
snapshot == <<view, published, before>>
refresh == <<batch, kind, todo, brokered, active, reconnected>>
budgets == <<changes, focuses, mishaps, reconciles>>
vars == <<tmux, lines, broker, snapshot, pc, refresh, requested, handled, budgets>>

-----------------------------------------------------------------------------
(* tmux and its clients *)

Mishap(what) ==
  what \in Mishaps /\ Cardinality(mishaps) < MaxMishaps /\ mishaps' = mishaps \cup {what}

Attached(k) == client[k] = "attached"

Rows(scope) == [s \in (IF scope = All THEN Sessions ELSE {scope}) |-> world[s]]

Event(from, scope, at) == [type |-> "event", from |-> from, scope |-> scope, at |-> at]
Answer(type, k, scope, rows) ==
  [type |-> type, from |-> k, scope |-> scope, rows |-> rows]
ExitLine(k) == [type |-> "exit", from |-> k]
FatalLine(k) == [type |-> "fatal", from |-> k]
IsPrimary(l) == l.from \in Conns

\* Who is told of a change in session s.
Listeners(s) == IF s = Primary THEN {k \in Conns : Attached(k)} ELSE {s}

\* Something happens in a session; the notification names it, or calls for a
\* full listing.
Change(s) ==
  /\ server /\ changes < MaxChanges
  /\ changes' = changes + 1
  /\ world' = [world EXCEPT ![s] = @ + 1]
  /\ \E scope \in {s, All} :
       pipe' = [x \in Conns \cup Others |->
                  IF x \in Listeners(s) THEN Append(pipe[x], Event(x, scope, world[s])) ELSE pipe[x]]
  /\ UNCHANGED <<server, client, written, deaf, channel, deferred, broker, snapshot, pc,
                 refresh, requested, handled, focuses, mishaps, reconciles>>

\* tmux reads a command and answers it, in one piece.
Execute(k) ==
  /\ server /\ Attached(k) /\ written[k] # <<>>
  /\ written' = [written EXCEPT ![k] = Tail(@)]
  /\ LET scope == Head(written[k])
         answer(type) == Answer(type, k, scope, Rows(scope)) IN
       \/ /\ pipe' = [pipe EXCEPT ![k] = @ \o <<answer("begin"), answer("end")>>]
          /\ UNCHANGED mishaps
       \/ /\ Mishap("fault")
          /\ pipe' = [pipe EXCEPT ![k] = @ \o <<answer("begin"), answer("error")>>]
  /\ UNCHANGED <<server, world, client, deaf, channel, deferred, broker, snapshot, pc, refresh,
                 requested, handled, changes, focuses, reconciles>>

\* The primary client is detached, by another client or because its session is
\* killed, and says so.
Detach(k) ==
  /\ server /\ Attached(k) /\ Mishap("detach")
  /\ client' = [client EXCEPT ![k] = "gone"]
  /\ pipe' = [pipe EXCEPT ![k] = Append(@, ExitLine(k))]
  /\ UNCHANGED <<server, world, written, deaf, channel, deferred, broker, snapshot, pc, refresh,
                 requested, handled, changes, focuses, reconciles>>

\* It dies without a word.
ClientDies(k) ==
  /\ Attached(k) /\ Mishap("death")
  /\ client' = [client EXCEPT ![k] = "gone"]
  /\ UNCHANGED <<server, world, written, lines, broker, snapshot, pc, refresh, requested,
                 handled, changes, focuses, reconciles>>

\* The server ends, with an orderly %exit or killed.
ServerEnds ==
  /\ server /\ server' = FALSE
  /\ client' = [k \in Conns |-> IF Attached(k) THEN "gone" ELSE client[k]]
  /\ \/ UNCHANGED pipe
     \/ pipe' = [x \in Conns \cup Others |->
                   IF x \in Listeners(Primary) THEN Append(pipe[x], ExitLine(x)) ELSE pipe[x]]
  /\ UNCHANGED <<world, written, deaf, channel, deferred, broker, snapshot, pc, refresh,
                 requested, handled, budgets>>

-----------------------------------------------------------------------------
(* Reader threads and consumers *)

HasRoom == Len(channel) < CONTROL_MODE_CHANNEL_CAPACITY

\* One line from a client to the channel; the send blocks while it is full.
\* (A subscriber's %exit ends its thread and goes nowhere.)
Forward(x) ==
  /\ x \notin deaf /\ pipe[x] # <<>> /\ HasRoom
  /\ channel' = Append(channel, Head(pipe[x]))
  /\ pipe' = [pipe EXCEPT ![x] = Tail(@)]
  /\ UNCHANGED <<tmux, deaf, deferred, broker, snapshot, pc, refresh, requested, handled,
                 budgets>>

\* Reading the output of a primary client fails, of the one in use or of one that
\* is being replaced: that is forwarded without saying whose it was, and the end.
Replaced(k) == k # primary \/ pc \in {"start", "swap"}
ReadFails(k) ==
  /\ client[k] # "unborn" /\ k \notin deaf /\ HasRoom
  /\ Mishap(IF Replaced(k) THEN "stray" ELSE "fault")
  /\ channel' = Append(channel, FatalLine(k))
  /\ deaf' = deaf \cup {k}
  /\ UNCHANGED <<tmux, pipe, deferred, broker, snapshot, pc, refresh, requested, handled,
                 changes, focuses, reconciles>>

\* client_event_response: a consumer tells which pane it has focused.
SendFocus(s) ==
  /\ pc \notin {"shutdown", "terminate", "waiting", "gone"}
  /\ HasRoom /\ focuses < MaxFocuses
  /\ focuses' = focuses + 1
  /\ channel' = Append(channel, Event(Client, s, focuses'))
  /\ UNCHANGED <<tmux, pipe, deaf, deferred, broker, snapshot, pc, refresh, requested, handled,
                 changes, mishaps, reconciles>>

\* SIGTERM, or a loop condition that ends the daemon the same way: a socket path
\* that is not its own any more, an acceptor that has stopped.
Terminate ==
  /\ ~requested /\ requested' = TRUE
  /\ UNCHANGED <<tmux, lines, broker, snapshot, pc, refresh, handled, budgets>>

-----------------------------------------------------------------------------
(* The run loop between refreshes *)

NoBatch == [exit |-> FALSE, full |-> FALSE, scopes |-> {}]

\* ControlEventBatch::push: a full listing supersedes what came before it.
Absorb(b, l) ==
  IF l.type = "exit" THEN [b EXCEPT !.exit = TRUE]
  ELSE IF l.type # "event" THEN b
  ELSE IF l.scope = All THEN [b EXCEPT !.full = TRUE, !.scopes = {}]
  ELSE [b EXCEPT !.scopes = @ \cup {l.scope}]

Listings(b) == (IF b.full THEN <<All>> ELSE <<>>) \o SetToSeq(b.scopes)
Changes(b) == Listings(b) # <<>>

\* recv_timeout: deferred lines first.
Pending == deferred # <<>> \/ channel # <<>>
NextLine == IF deferred # <<>> THEN Head(deferred) ELSE Head(channel)
TakeLine ==
  IF deferred # <<>> THEN deferred' = Tail(deferred) /\ UNCHANGED channel
  ELSE channel' = Tail(channel) /\ UNCHANGED deferred

\* defer_line: what was just received is received again next.
DeferLine ==
  IF deferred # <<>> THEN UNCHANGED <<deferred, channel>>
  ELSE deferred' = <<NextLine>> /\ channel' = Tail(channel)

Handle(l) ==
  handled' = IF l.from \in Feeds THEN [handled EXCEPT ![l.from] = l.at] ELSE handled

StartRefresh(why, listings) ==
  /\ pc' = "refresh" /\ kind' = why /\ todo' = listings
  /\ brokered' = enabled
  /\ before' = view
  /\ reconnected' = FALSE /\ active' = NoConn

\* The read provider of a refresh is made when the refresh begins.
IntervalReconcile ==
  /\ pc = "idle" /\ ~requested
  /\ IF enabled THEN reconciles < MaxReconciles /\ reconciles' = reconciles + 1
     ELSE UNCHANGED reconciles
  /\ StartRefresh("reconcile", <<All>>)
  /\ UNCHANGED <<tmux, lines, broker, view, published, batch, requested, handled, changes,
                 focuses, mishaps>>

\* A consumer's event: the session of its pane, all sessions if the pane is not
\* in the snapshot, both if it is not in that session any more.
HandleFocus ==
  /\ pc = "idle" /\ Pending /\ NextLine.from = Client
  /\ TakeLine /\ Handle(NextLine)
  /\ LET s == NextLine.scope IN
       \E listings \in {<<s>>, <<All>>, <<s, All>>} : StartRefresh("focus", listings)
  /\ UNCHANGED <<tmux, pipe, deaf, broker, view, published, batch, requested, budgets>>

\* A forwarded read error ends the run loop.
HandleFatal ==
  /\ pc \in {"idle", "batch"} /\ Pending /\ NextLine.type = "fatal"
  /\ TakeLine
  /\ pc' = "terminate"
  /\ UNCHANGED <<tmux, pipe, deaf, broker, snapshot, refresh, requested, handled, budgets>>

\* The first line of a batch, and those within the batch window.
CollectBatch ==
  /\ pc \in {"idle", "batch"} /\ Pending
  /\ NextLine.from # Client /\ NextLine.type # "fatal"
  /\ TakeLine /\ Handle(NextLine)
  /\ batch' = Absorb(batch, NextLine)
  /\ pc' = "batch"
  /\ UNCHANGED <<tmux, pipe, deaf, broker, snapshot, kind, todo, brokered, active,
                 reconnected, requested, budgets>>

\* The batch window is over, or a consumer's event ends the batch.
ApplyBatch ==
  /\ pc = "batch"
  /\ \/ UNCHANGED <<deferred, channel>>
     \/ Pending /\ NextLine.from = Client /\ DeferLine
  /\ StartRefresh("events", Listings(batch))
  /\ UNCHANGED <<tmux, pipe, deaf, broker, view, published, batch, requested, handled, budgets>>

\* primary_child_exited
PrimaryChildExited == client[primary] = "gone"

\* Nothing received in time, and the primary client has exited.
NoticeDeadPrimary ==
  /\ pc = "idle" /\ ~Pending /\ PrimaryChildExited
  /\ pc' = "shutdown"
  /\ UNCHANGED <<tmux, lines, broker, snapshot, refresh, requested, handled, budgets>>

NoticeRequest ==
  /\ pc = "idle" /\ requested
  /\ pc' = "shutdown"
  /\ UNCHANGED <<tmux, lines, broker, snapshot, refresh, requested, handled, budgets>>

-----------------------------------------------------------------------------
(* Reading a listing, through the broker or with a short-lived command *)

Asked == Head(todo)

\* Mutant: a targeted listing replaces the whole snapshot.
AdoptWhole(scope, rows) ==
  [s \in Sessions |-> IF s \in DOMAIN rows THEN rows[s] ELSE 0]

\* A full listing is the snapshot; another one replaces the panes of its scope.
Adopt(scope, rows) ==
  [s \in Sessions |->
     IF s \in DOMAIN rows THEN rows[s]
     ELSE IF scope \in {s, All} THEN 0 ELSE view[s]]

Read(rows) ==
  /\ view' = Adopt(Asked, rows)
  /\ todo' = Tail(todo)
  /\ pc' = "refresh"
  /\ active' = NoConn

\* A broker command fails: no more brokered refreshes, this listing is read with
\* a short-lived command.
BrokerFails == enabled' = FALSE /\ pc' = "fallback" /\ active' = NoConn

\* Writing to a client that has exited fails.
WriteCommand ==
  /\ pc = "refresh" /\ todo # <<>> /\ brokered
  /\ IF Attached(primary)
     THEN /\ written' = [written EXCEPT ![primary] = Append(@, Asked)]
          /\ pc' = "collect"
          /\ UNCHANGED <<enabled, active>>
     ELSE BrokerFails /\ UNCHANGED written
  /\ UNCHANGED <<server, world, client, lines, primary, snapshot, batch, kind, todo, brokered,
                 reconnected, requested, handled, budgets>>

\* collect_control_mode_command_outcome: one line of the channel.
CollectAnswer ==
  /\ pc = "collect" /\ channel # <<>>
  /\ channel' = Tail(channel)
  /\ LET l == Head(channel)
         isAnswer == IsPrimary(l) /\ l.type \in {"begin", "end", "error"}
         defer == /\ deferred' = Append(deferred, l)
                  /\ UNCHANGED <<enabled, pc, active, view, todo>>
         begin == active' = l.from /\ UNCHANGED <<enabled, pc, deferred, view, todo>>
         end == Read(l.rows) /\ UNCHANGED <<enabled, deferred>>
         fail == BrokerFails /\ UNCHANGED <<deferred, view, todo>> IN
       \/ l.type = "fatal" /\ fail
       \/ l.type # "fatal" /\ ~isAnswer /\ defer
       \/ isAnswer /\ active = NoConn /\ IF l.type = "begin" THEN begin ELSE defer
       \/ isAnswer /\ active # NoConn /\ IF l.type = "end" /\ active = l.from THEN end ELSE fail
  /\ UNCHANGED <<tmux, pipe, deaf, primary, published, before, batch, kind, brokered,
                 reconnected, requested, handled, budgets>>

\* No answer can come any more.
Unanswerable(k) == channel = <<>> /\ (k \in deaf \/ (~Attached(k) /\ pipe[k] = <<>>))

CommandTimesOut ==
  /\ pc = "collect"
  /\ \/ Unanswerable(primary) /\ UNCHANGED mishaps
     \/ ~Unanswerable(primary) /\ Mishap("timeout")
  /\ BrokerFails
  /\ UNCHANGED <<tmux, lines, primary, snapshot, batch, kind, todo, brokered, reconnected,
                 requested, handled, changes, focuses, reconciles>>

FallsBack == pc = "fallback" \/ (pc = "refresh" /\ todo # <<>> /\ ~brokered)

FallbackRead ==
  /\ FallsBack /\ server
  /\ Read(Rows(Asked))
  /\ UNCHANGED <<tmux, lines, broker, published, before, batch, kind, brokered, reconnected,
                 requested, handled, budgets>>

\* Without a server it fails.  A targeted listing of a batch is then tried as a
\* full one; any other failure ends the run loop.
FallbackFails ==
  /\ FallsBack /\ ~server
  /\ IF kind = "events" /\ ~reconnected /\ Asked # All
     THEN pc' = "refresh" /\ todo' = <<All>> \o Tail(todo)
     ELSE pc' = "terminate" /\ UNCHANGED todo
  /\ UNCHANGED <<tmux, lines, broker, snapshot, batch, kind, brokered, active, reconnected,
                 requested, handled, budgets>>

-----------------------------------------------------------------------------
(* After the listings: recover the broker, publish *)

\* control_event_should_recover_broker is only asked when the batch had nothing
\* to read.
MayRecover == kind # "events" \/ Changes(batch) \/ ~batch.exit

FinishReading ==
  /\ pc = "refresh" /\ todo = <<>>
  /\ pc' = IF ~reconnected /\ ~enabled /\ MayRecover THEN "recover" ELSE "publish"
  /\ UNCHANGED <<tmux, lines, broker, snapshot, refresh, requested, handled, budgets>>

\* Mutant: every line is discarded.
DrainedNone(l) == FALSE
IsFed(l) == l.from \in Feeds

\* drain_control_mode_channel
Retained(q) ==
  LET kept[n \in 0 .. Len(q)] ==
        IF n = 0 THEN <<>>
        ELSE IF IsFed(q[n]) THEN Append(kept[n - 1], q[n]) ELSE kept[n - 1] IN
  kept[Len(q)]
DrainChannel ==
  /\ pc = "recover"
  /\ deferred' = deferred \o Retained(channel)
  /\ channel' = <<>>
  /\ pc' = "start"
  /\ UNCHANGED <<tmux, pipe, deaf, broker, snapshot, refresh, requested, handled, budgets>>

Replacements == {k \in Conns : client[k] = "unborn" /\ \A j \in 1 .. k - 1 : client[j] # "unborn"}

\* The new client attaches while the old one may still be there.
StartClient ==
  /\ pc = "start" /\ server
  /\ \E k \in Replacements : client' = [client EXCEPT ![k] = "attached"]
  /\ pc' = "swap"
  /\ UNCHANGED <<server, world, written, lines, broker, snapshot, refresh, requested, handled,
                 budgets>>

StartFails ==
  /\ pc = "start"
  /\ IF server /\ Replacements # {} THEN Mishap("fault")
     ELSE UNCHANGED mishaps
  /\ pc' = "publish"
  /\ UNCHANGED <<tmux, lines, broker, snapshot, refresh, requested, handled, changes, focuses,
                 reconciles>>

\* Mutant: the events missed in between are not made up for.
NoListing == <<>>
BootstrapListing == <<All>>

\* The old client is killed; a full listing follows.
SwapClient ==
  /\ pc = "swap"
  /\ client' = [client EXCEPT ![primary] = "gone"]
  /\ primary' = primary + 1
  /\ enabled' = TRUE
  /\ reconnected' = TRUE /\ brokered' = TRUE
  /\ todo' = BootstrapListing
  /\ pc' = "refresh"
  /\ UNCHANGED <<server, world, written, lines, snapshot, batch, kind, active, requested,
                 handled, budgets>>

\* Mutant: what the listing after a reconnect brings is left to the next refresh.
ShouldPublishUnlessReconnected == kind = "focus" \/ (~reconnected /\ view # before)
\* What changed, what a consumer asked for, and every reconnect of a batch.
ShouldPublish == kind = "focus" \/ (kind = "events" /\ reconnected) \/ view # before

Publish ==
  /\ pc = "publish"
  /\ published' = IF ShouldPublish THEN view ELSE published
  /\ before' = view
  /\ pc' = IF kind = "events" /\ batch.exit THEN "shutdown" ELSE "idle"
  /\ batch' = NoBatch /\ kind' = "none" /\ reconnected' = FALSE /\ brokered' = FALSE
  /\ UNCHANGED <<tmux, lines, broker, view, todo, active, requested, handled, budgets>>

-----------------------------------------------------------------------------
(* The end *)

\* shutdown_control_mode: who was asked to stop kills its clients, otherwise
\* tmux is taken to have ended.
WaitsForExit == ~requested

Shutdown ==
  /\ pc = "shutdown"
  /\ pc' = IF WaitsForExit THEN "waiting" ELSE "terminate"
  /\ UNCHANGED <<tmux, lines, broker, snapshot, refresh, requested, handled, budgets>>

ExitSeen ==
  /\ pc = "waiting" /\ client[primary] = "gone"
  /\ pc' = "gone"
  /\ UNCHANGED <<tmux, lines, broker, snapshot, refresh, requested, handled, budgets>>

KillClients ==
  /\ pc = "terminate"
  /\ client' = [client EXCEPT ![primary] = "gone"]
  /\ pc' = "gone"
  /\ UNCHANGED <<server, world, written, lines, broker, snapshot, refresh, requested, handled,
                 budgets>>

-----------------------------------------------------------------------------
Init ==
  /\ server = TRUE
  /\ world = [s \in Sessions |-> 1]
  /\ client = [k \in Conns |-> IF k = 1 THEN "attached" ELSE "unborn"]
  /\ written = [k \in Conns |-> <<>>]
  /\ pipe = [x \in Conns \cup Others |-> <<>>]
  /\ deaf = {}
  /\ channel = <<>>
  /\ deferred = <<>>
  /\ primary = 1
  /\ enabled = TRUE
  /\ view = world /\ published = world /\ before = world
  /\ pc = "idle"
  /\ batch = NoBatch /\ kind = "none" /\ todo = <<>> /\ brokered = FALSE
  /\ active = NoConn /\ reconnected = FALSE
  /\ requested = FALSE
  /\ handled = [f \in Feeds |-> 0]
  /\ changes = 0 /\ focuses = 0 /\ mishaps = {} /\ reconciles = 0

Receive == HandleFocus \/ HandleFatal \/ CollectBatch
Refresh ==
  \/ ApplyBatch \/ WriteCommand \/ CollectAnswer \/ CommandTimesOut \/ FallbackRead
  \/ FallbackFails \/ FinishReading \/ DrainChannel \/ StartClient \/ StartFails \/ SwapClient
  \/ Publish \/ Shutdown \/ ExitSeen \/ KillClients

Next ==
  \/ \E s \in Sessions : Change(s) \/ SendFocus(s)
  \/ \E k \in Conns : Execute(k) \/ Detach(k) \/ ClientDies(k) \/ ReadFails(k)
  \/ \E x \in Conns \cup Others : Forward(x)
  \/ ServerEnds \/ Terminate
  \/ IntervalReconcile \/ Receive \/ NoticeDeadPrimary \/ NoticeRequest \/ Refresh

Spec == Init /\ [][Next]_vars

(* The threads, tmux and the refreshes go on.  Every turn of the loop looks at the *)
(* request, receives for a while and, without a line, looks at the client; an      *)
(* interval reconcile may come before each of these, so that they need strong      *)
(* fairness.  It comes every second while the broker is out of use, and nothing    *)
(* obliges it while the broker works.                                              *)
Fairness ==
  /\ \A k \in Conns : WF_vars(Execute(k))
  /\ \A x \in Conns \cup Others : WF_vars(Forward(x))
  /\ WF_vars(Refresh)
  /\ WF_vars(~enabled /\ IntervalReconcile)
  /\ SF_vars(Receive) /\ SF_vars(NoticeDeadPrimary) /\ SF_vars(NoticeRequest)

FairSpec == Spec /\ Fairness

-----------------------------------------------------------------------------
(* Properties *)

Versions == 0 .. MaxChanges + 1
Snapshots == [Sessions -> Versions]
Sources == Conns \cup Feeds
EventLines == [type : {"event"}, from : Sources, scope : Scopes, at : 1 .. MaxChanges + MaxFocuses]
AnswerLines ==
  [type : {"begin", "end", "error"}, from : Conns, scope : Scopes,
   rows : Snapshots \cup UNION {[{s} -> Versions] : s \in Sessions}]
Lines == EventLines \cup AnswerLines \cup [type : {"exit", "fatal"}, from : Conns]

\* The shape of the state.  The channel never holds more than its capacity, and a
\* listing is only awaited or recovered from when one is due.
TypeOK ==
  /\ server \in BOOLEAN /\ enabled \in BOOLEAN /\ brokered \in BOOLEAN
  /\ reconnected \in BOOLEAN /\ requested \in BOOLEAN
  /\ world \in Snapshots /\ view \in Snapshots /\ published \in Snapshots
  /\ before \in Snapshots
  /\ client \in [Conns -> {"unborn", "attached", "gone"}]
  /\ \A k \in Conns : \A i \in DOMAIN written[k] : written[k][i] \in Scopes
  /\ \A x \in Conns \cup Others : \A i \in DOMAIN pipe[x] : pipe[x][i] \in Lines
  /\ deaf \subseteq Conns
  /\ Len(channel) <= CONTROL_MODE_CHANNEL_CAPACITY
  /\ \A i \in DOMAIN channel : channel[i] \in Lines
  /\ \A i \in DOMAIN deferred : deferred[i] \in Lines \ [type : {"fatal"}, from : Conns]
  /\ primary \in Conns /\ client[primary] # "unborn"
  /\ pc \in {"idle", "batch", "refresh", "collect", "fallback", "recover", "start", "swap",
            "publish", "shutdown", "terminate", "waiting", "gone"}
  /\ batch \in [exit : BOOLEAN, full : BOOLEAN, scopes : SUBSET Sessions]
  /\ kind \in {"none", "reconcile", "focus", "events"}
  /\ \A i \in DOMAIN todo : todo[i] \in Scopes
  /\ pc \in {"collect", "fallback"} => todo # <<>>
  /\ active \in Conns \cup {NoConn}
  /\ handled \in [Feeds -> Nat]
  /\ mishaps \subseteq Mishaps

\* After a command that timed out, or that was given up because the reader of a client
\* replaced before it failed, its late answer may be taken for another's; after the
\* replaced client's %exit, the daemon may wait for one that lives.  These are known
\* ways of this code to go wrong, and what they break says so.
AnsweredLate == "timeout" \in mishaps \/ "stray" \in mishaps
LeftWaiting == "detach" \in mishaps

\* What the loop knows of a session never gets older, whichever of the ways of
\* reading it used: the broker, a short-lived command, the listing after a
\* reconnect, a full listing or one of a single session between two full ones; nor
\* when commands are still written to a broker that has failed.
ViewNeverGoesBack ==
  [][~AnsweredLate => \A s \in Sessions : view'[s] >= view[s]]_view

Quiet ==
  /\ pc = "idle" /\ ~Pending /\ enabled
  /\ Attached(primary) /\ primary \notin deaf
  /\ pipe[primary] = <<>> /\ \A s \in Others : pipe[s] = <<>>

\* With a working broker, an idle loop and no event on its way, consumers have been
\* sent tmux's present state: no change is forgotten when its event arrives during a
\* listing, with an answer, or while the client is being replaced.
QuietMeansCurrent == Quiet /\ ~AnsweredLate => published = world

\* The same for the events themselves: every one of a subscriber or a consumer has
\* been taken, although the same channel carries the primary client's answers,
\* collecting an answer sets lines aside, a batch gives its last line back and a
\* reconnect empties the channel.
NoEventIsLost ==
  Quiet => handled[Client] = focuses /\ \A s \in Others : handled[s] = world[s] - 1

\* When tmux comes to rest, what is published comes to be tmux's state: a broker out
\* of use is no reason to stay behind.  And the daemon ends when it is told to, in
\* whatever state its client is, and does not outlive the tmux server, even one that
\* was killed and whose clients said nothing.
ComesToRest ==
  <>[](\/ AnsweredLate \/ LeftWaiting
       \/ pc = "gone"
       \/ server /\ ~requested /\ published = world)

\* "A primary `%exit` stops the daemon" (events.rs): a daemon that has taken one, with
\* whatever else came in the same batch, ends.
ExitEnds == batch.exit ~> pc = "gone"
=============================================================================
