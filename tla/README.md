# agentscan: TLA+ models, model checking and proofs

agentscan shows which coding agents run in which tmux panes. A background daemon
(`src/app/daemon*`) keeps one classified snapshot of all panes, up to date through tmux
control-mode clients, and streams it over a Unix socket to its consumers: the terminal picker
(`src/app/tui`), one-shot commands, `agentscan subscribe`, and the desktop application that
runs `agentscan subscribe` as a child process, locally or over ssh.

This directory models the protocol of that system: who holds what, which step of whom may come
between two steps of another, what is lost when a process dies; and of its text processing the
part that decides something, the classification of panes and screens. Paths below are relative
to the repository's root.

## 1. Inventory

| Part | Source | State it keeps | Operations | Talks to |
|---|---|---|---|---|
| Snapshot store | `src/app/daemon/snapshot_store.rs` | latest snapshot, its sequence number, its encoded frame (cache), an upper bound of its encoded size | `publish_initial`, `publish_diff`, `latest_frame` | called under the lock of the socket state |
| Socket state, mailboxes, subscriber threads | `src/app/daemon/socket_server.rs` | startup state, registered subscribers, one-slot mailbox per subscriber, pending handshakes, client-event channel | accept, handshake, subscribe, snapshot and status responses, fan-out, `mark_closing`, writer and reader thread of a subscriber | clients (socket), run loop (calls) |
| Wire diff | `src/app/daemon/refresh.rs` (`snapshot_wire_diff`) | none | difference of two snapshots, omitted growth | store, subscription worker |
| Subscription worker | `src/app/daemon/lifecycle/subscription.rs` | reconstructed snapshot and its sequence number, back-off, start attempts | connect, bootstrap, apply diffs, reconnect, auto-start | daemon (socket), TUI or stdout (channel) |
| Daemon lifecycle | `src/app/daemon/lifecycle/mod.rs`, `guard.rs`, `client.rs`, `src/app/daemon.rs` | socket file, lifecycle lock, start lock, identity sidecar, child processes | run, start, auto-start, stop, restart, status | file system, signals |
| Socket path | `src/app/ipc/mod.rs` | none of its own: the environment, the directories on disk | try the candidates in order, make, check and tighten the directory | daemon and clients, each for itself |
| Run loop | `src/app/daemon/runtime.rs` | current snapshot, reconcile, monitor and settle deadlines, focus recency | wait for an event or a deadline, refresh, publish, reconcile subscribers | broker, scanner, socket state |
| Control-mode broker | `src/app/daemon/control_mode.rs` | primary tmux client, command lock-step, deferred lines, disabled reason, reconnect counters | send command and collect response, defer events, disable, reconnect, terminate | tmux (pipes), reader threads (channel) |
| Per-session subscriber clients | `src/app/daemon/control_mode.rs`, `runtime.rs` | one event-only tmux client per other session, coverage flag | attach, prune, retain, monitor | tmux |
| Control-mode events | `src/app/daemon/events.rs` | none | classify a batch of lines into a refresh plan | run loop |
| Pane-output cache | `src/app/scanner/pane_output.rs` | captured screens with time of capture | capture, reuse, expire, busy evidence | tmux, classification |
| Classification | `src/app/classify/*`, `proc.rs` | none | provider, status and title of a pane | refresh |
| Terminal picker | `src/app/tui/*`, `picker.rs` | rows, selection, pages, key assignment | input, snapshots, render | subscription worker |
| Desktop host | `desktop/src-tauri/src/*` | subscription children and generations, windows | start, stop, restart a child, run commands | `agentscan` processes, web view |
| Desktop live connection | `desktop/src/effect/LiveConnection.ts` | a fiber per source, epochs, connection state | supervise subscriptions, reconnect, start a daemon | desktop host |
| Desktop services and settings | `desktop/src/effect/*`, `desktop/src/useSettingsForm.ts`, `SettingsApp.tsx` | profiles in storage, drafts of the form, the activation under way | edit, store, broadcast, probe, activate a pane | the other window, desktop host |
| tmux commands | `src/app/tmux/*` | the install that was found to work, under a lock | run a command, look for another install, focus, message, list sessions and clients | tmux |
| The picker's process | `src/app/tui/*` | terminal modes, the panic hook, threads, the pending exit | start, draw, relay panics, end and give the terminal back | the terminal, the subscription worker |
| One-shot calls of the desktop | `desktop/src-tauri/src/runner.rs` | a child, its two pipes and the threads that drain them | spawn, poll, time out, collect, name the failure, probe for a binary | `agentscan` or `ssh` processes |
| Workspace cache | `src/app/picker.rs` | repository found for a session and directory, with its time | group panes by repository | file system |
| Telemetry, status formatting, macOS trust | `src/app/daemon/telemetry.rs`, `lifecycle/status_format.rs` | counters, an event ring nothing else reads | count, format | none |
| Command line, configuration, doctor, output | `src/app/cli.rs`, `commands.rs`, `config.rs`, `doctor/*`, `output.rs` | none that lives | one command each | daemon, tmux |

What is hard in it:

* **Interleaving.** A publication is walked mailbox by mailbox outside the lock while
  subscribers come and go, each served by two threads and read by a process that can leave at
  any moment.
* **Ordering.** Diffs only make sense in order; a slow client's waiting diff must turn into a
  full frame, never be lost.
* **Failure.** Writes time out, clients hang up, the daemon is killed in any state, tmux
  disappears, a command to tmux gets no answer.
* **Limits.** A frame may have 8 MiB, a daemon 64 subscribers, a mailbox one slot.
* **Starting and stopping.** Several processes race for one socket path with two locks, a
  probe, an unlink and signals.
* **Caches and timers.** Statuses, workspaces and coverage are remembered for a while; what
  must be noticed soon rests on which timer some earlier step armed.
* **Two windows, one storage.** The desktop's windows are processes that store the same
  settings without a lock.
* **Processes that die or linger.** A thread may panic with the terminal in its hands, and a
  descendant may hold a dead child's pipes open.
* **Evidence.** What a pane runs is inferred from a title somebody painted and a process table
  somebody else changes; a screen still shows what has been answered long ago.

What makes each part correct: a client shows exactly what was published and never goes back
(stream); at most one daemon serves a socket path and a stop leaves nothing behind
(lifecycle); an answer of tmux is matched to the command that asked (broker); every session is
seen by events or listed within the interval its coverage calls for (coverage); after a batch
the rows say what tmux said (events); a status that is wrong heals within known timers
(polling); an agent is recognised by evidence it gave itself and never shown idle while its
screen says busy (classification); a key focuses the row it was drawn beside (picker); a
worker in the host belongs to the fiber that shows its rows (desktop); what a user saved is
what is stored and shown (settings); daemon and clients come to the same socket (path); a
command fails for another version's server only when no install helps, and a pane is called
missing only when it is gone (tmux); the terminal is given back however the picker ends; and a
one-shot call returns all its child said, in time, whoever else holds the pipe.

## 2. Modules

| Module | Models | Source |
|---|---|---|
| `SnapshotFeed` | what the snapshot stream promises a reader, without a protocol | abstract |
| `SnapshotStream` | snapshot store, fan-out, mailboxes, the two threads of a subscriber, the client's reconstruction; implements `SnapshotFeed` | `snapshot_store.rs`, `socket_server.rs`, `refresh.rs` (wire diff), `subscription.rs` |
| `Consumers` | subscription workers, one-shot commands and silent connections at the acceptor; who starts a daemon | `socket_server.rs`, `lifecycle/client.rs`, `subscription.rs`, `mod.rs` |
| `DaemonLifecycle` | every process that starts, is or stops a daemon on one socket path | `daemon.rs`, `lifecycle/mod.rs`, `guard.rs`, `client.rs` |
| `ControlModeBroker` | the run loop with its tmux client, the channel and the readers | `control_mode.rs`, `runtime.rs`, `events.rs`, `refresh.rs` |
| `SubscriberCoverage` | the per-session clients and the timer of the full listing | `control_mode.rs`, `runtime.rs` |
| `EventBatch` | a batch of notifications, the listings it calls for, focus recency | `events.rs`, `refresh.rs`, `runtime.rs` |
| `StatusPolling` | the cache of captured screens, its expiry, the settle timer | `scanner/pane_output.rs`, `runtime.rs`, `refresh.rs` |
| `PaneClassification` | provider, status and label of a row: operators | `classify/provider_match.rs`, `title.rs`, `status.rs`, `display.rs`, `proc_*.rs` |
| `PaneIdentity` | one pane in which programs come and go, and the record kept of it | `refresh.rs`, `classify/mod.rs`, `proc_fallback.rs` |
| `ScreenFrame`, `ScreenStatus` | the questions a matcher asks of a screen; the 14 matchers: operators | `classify/pane_output/*` |
| `Screens` | screens grown from the bottom up, over which the matchers are checked | `classify/pane_output/*` and their tests |
| `Selections` | filters and sorts of lists, for `TerminalPicker` and `DesktopWindows` | `tui/state.rs` |
| `TerminalPicker` | rows, pages, keys, highlight and search under arriving snapshots | `tui/*`, `picker.rs` |
| `TuiProcess` | threads, terminal modes and ends of the picker's process | `tui/mod.rs`, `tui/terminal_session.rs` |
| `TmuxCommands` | the tmux commands of a process with several threads | `tmux/command.rs`, `tmux/focus.rs` |
| `SocketPath` | where the socket is, worked out by each process for itself | `ipc/mod.rs` |
| `WorkspaceCache` | the cache that finds the repository of a pane's directory | `picker.rs` |
| `LiveConnection` | fibers per source in the page, workers, fence and lock in the host | `effect/LiveConnection.ts`, `desktop/src-tauri/src/*` |
| `DesktopWindows` | dock and settings window on one storage, drafts, probes | `effect/Profiles.ts`, `Preflight.ts`, `HostnameEnrichment.ts`, `useSettingsForm.ts` |
| `RowActivation` | the dock's rows, the selection, the activation under way | `effect/Activation.ts`, `pickerViewModel.ts`, `DockApp.tsx` |
| `CommandRunner` | the host's one-shot calls: child, pipes, timeouts, failures | `desktop/src-tauri/src/runner.rs`, `contract.rs` |
| `*Proofs` | the theorems about the module of that name (section 5); `PaneUpdatesProofs` has those about `EventBatch` and `StatusPolling`, `InterfaceProofs` those about `RowActivation`, `DesktopWindows`, `WorkspaceCache` and `TerminalPicker`, `DaemonLifecycleProofs` also those about the processes' other modules: `SocketPath`, `TuiProcess`, `CommandRunner`, `TmuxCommands`, `ObservationProofs` those about `SubscriberCoverage` and `PaneIdentity` | |
| `MC*` | the instances TLC checks (section 3) | |

`PROJECT.json` names for every definition the lines it stands for. Definitions whose comment
starts with "Mutant" are deliberately broken variants of a definition before or after them;
nothing uses them, they show that a property notices the bug.

Six runs check several modules each, none of whose steps change another's state:
`MCProcesses` (`DaemonLifecycle`, `SocketPath`, `TmuxCommands`, `CommandRunner`, `TuiProcess`),
`MCClassification` (`PaneIdentity`, `Screens`), `MCPaneUpdates` (`EventBatch`,
`StatusPolling`), `MCTerminalPicker` (`TerminalPicker`, `WorkspaceCache`), `MCDesktopWindows`
(`DesktopWindows`, `RowActivation`) and `MCConnections` (`Consumers`, `SubscriberCoverage`).
Their variable `subject` says which of them a behaviour is about; the others stay in one of
their initial states. Nothing is lost by this: a behaviour of two would be an interleaving of
behaviours that do not see each other.

### 2.1 SnapshotStream

The run loop publishes a snapshot into the store (`PublishInitial`, `PublishLater`) under the
lock of the socket state and takes the list of mailboxes there. Handing the frame to the
mailboxes happens outside that lock, one mailbox at a time (`Enqueue(c)`): between two of them
subscribers come (`Subscribe`), leave (`Cancel`, `ReadEnd`), and their threads run. A mailbox
has one slot. A diff that finds the slot occupied is replaced by the full frame (`Slot`), or
closes the mailbox when that frame cannot be sent. The writer thread takes a frame
(`Receive`), writes it (`Write`, which blocks on a full socket, `WriteFails`), the reader
thread waits for the end of the connection (`ReaderRetires`, `ReaderClosesMailbox`); whoever
ends first unregisters the subscriber. `MarkClosing` takes the subscribers,
`CloseSubscriber(c)` puts the closing frame in place of whatever waited, `ProcessExit` ends
the process without waiting for the threads.

A snapshot is a function from panes to what a diff compares (`mat`) and what it leaves out
(`vol`). Sizes are constants (`FullSize`, `DiffSize`, `OmittedGrowth`) with the one law the
store relies on (`SizeAssumption`).

Left out: keepalives, the bytes of a frame (a torn frame and the end of the stream are one
event), the handshake before `subscribe` (in `Consumers`), more than one connection of a
client at the same time (the code gives each connection an id of its own, so two connections
share nothing but the place limit).

### 2.2 DaemonLifecycle

A daemon is a sequence of system calls on shared files: probe and unlink of a stale socket,
the non-blocking lifecycle lock, the sidecar, `bind`, `listen`, then its states as the socket
reports them, and back. Consumers that auto-start a daemon (`Launchers`) check, take the start
lock, check again, probe, spawn, and wait, and clean up a child that never became ready.
Stoppers ask who is there, signal, wait, escalate and remove what is left. Each of those is
one action, so that all of them interleave; a daemon may crash between any two, a consumer may
be interrupted.

A dead daemon whose parent still runs is a zombie; `kill(pid, 0)` sees it.

Left out: reuse of process ids, "busy" refusals of the acceptor and its own failure, the macOS
trust preflight. The teardown of the tmux clients is taken to end. `daemon restart` is a stop
whose success is followed by a start; it needs no action of its own.

### 2.3 ControlModeBroker

tmux executes commands (`Execute`) and reports changes (`Change`) on the output of its control
clients. A reader thread per client forwards lines to one bounded channel (`Forward`). The run
loop alone receives from it: outside a refresh (`HandleFocus`, `CollectBatch`, `HandleFatal`)
and while it waits for an answer (`CollectAnswer`), where everything that is not the answer is
set aside in `deferred`. A failing command disables the broker; the listing is read with a
short-lived command (`FallbackRead`) and the refresh ends with a reconnect: drain the channel,
start a client, kill the old one, list everything again (`DrainChannel`, `StartClient`,
`SwapClient`).

A session's content is a version number: properties only ask how old a listing is. The lines
of an answer are part of its `%end`. Panes and windows are taken at the grain of their
session; subscriber clients stay attached while tmux runs (their life is
`SubscriberCoverage`); settle re-captures, titles and statuses are in `EventBatch` and
`StatusPolling`. When `MaxConns` incarnations are used up the client cannot be replaced, which
is also a possible outcome in the code.

Two disagreements of the code with itself (section 4) are outside what the properties promise:
`AnsweredLate` (a command is given up and its answer comes all the same, to be taken for
another's: after a time-out, or because the reader of a client that is being replaced failed)
and `LeftWaiting` (the loop waits for the exit of a client it replaced).

### 2.4 Consumers

The two loops of `subscription.rs` and of a one-shot command: connect, hello, wait for the
answer, act on it, back off, start a daemon (`CanAttemptStart`: once per outage, and not at
all for some policies). Opposite them the acceptor: a slot of the pending handshakes for each
admitted connection, a few refusal threads, and nothing but a drop beyond both. `Silents`
connect and never say a word. There is one daemon at a time (that is `DaemonLifecycle`), it
goes through its phases, is stopped or dies, and what it publishes is one answer (that is
`SnapshotStream`).

A superset of the code where timing decides: a slot is counted until its answer is written,
and the client's two-second read timeout is left out. Left out: protocol versions, status and
telemetry queries, the child a dropped launcher kills.

### 2.5 SubscriberCoverage

Every session but the primary's gets an event-only client, up to a cap; the set is derived
again on `%sessions-changed` (`SessionsChanged`), when the monitor finds a dead client, and
after each full listing. The timer of the full listing has one of four lengths, by what the
events cover, and several handlers restart it. Time passes in ticks of the monitor interval
while the loop waits; whatever is due is handled within its tick. `ListedInTime` bounds how
far any mixture of restarts can put the listing off; `NeverStarved` bounds how long a live
session can go without a client and a listing. The notice that is dropped with a replaced
broker (section 4) is recorded in `missed`.

### 2.6 EventBatch and StatusPolling

`EventBatch`: tmux moves, closes, renames and focuses panes (`Tmux*`), the daemon collects
notifications in a batch that keeps the last of each kind and target, and repeats the listings
they ask for, one action each, while tmux goes on. A listing may fail and fall back. The
periodic full listing is left out on purpose, so that nothing is healed by waiting. Titles are
numbered in the order they were set; a title taken from a pane's output is laid over a row
unless a later event of the batch made the row newer. Each event carries, as history, the
titles its panes had when it was sent: what a row must not fall behind. `focused`, history
too, orders the panes by their last focusing. Linked windows and the escape decoding of output
are left out; a failing pane read ends the daemon, as the code has it.

`StatusPolling`: per pane what the agent does, what the screen and title say, the cached
reading with its age, and the timers `settle` and `reconcile`. Time passes in ticks of a
second, the rate at which tmux looks at its subscriptions; a report of output may be left out
every second time. A capture may fail.

### 2.7 PaneClassification, PaneIdentity, ScreenFrame, ScreenStatus, Screens

`PaneClassification` translates the rules as operators: a title is a leading glyph, a set of
signatures and a label; a process its command, the shapes of its arguments and the agents'
variables in its environment. `PaneIdentity` runs programs in one pane: start, paint titles,
run a tool, get suspended, resume, end or be killed; and keeps the record a full listing or a
targeted refresh leaves (`Carried` keeps an identity that process evidence gave).

`ScreenFrame` has the position arithmetic of `frame.rs`; `ScreenStatus` the fourteen matchers
over kinds of lines; `Screens` builds screens from the bottom: a frame that a test of the
repository records, or any line, under up to `MaxOlder` lines left over.

Left out: pane path, tty and pid, unknown published providers, names of tools that own the
terminal under their own command name, and the characters of any string.

### 2.8 TerminalPicker and WorkspaceCache

`TerminalPicker`: one thread handles keys and subscription events; a handled event changes the
state and, unless it had no effect, draws a frame, which normalises the state. The frame is a
variable of its own: what the user acts on is what was drawn. A resize changes the terminal
before its event is seen. In a search, too, a snapshot keeps the first row that stays at the
top of the page, and if none stays the page's start as far as there are rows
(`ReanchorRows`). A query is its length. Left out: rows of other clients, fuzzy
scores, labels, the connection footer. `WorkspaceCache`: the walk up to `.git`, answers kept
per session and directory for the time to live, a repository kept for every directory on the
way to it, while repositories come and go.

### 2.9 LiveConnection

Page: one fiber per source makes one attempt after another; each attempt has an epoch larger
than all before, also across a reload. Host: `start` and `stop` commands that may arrive late
and in any order, a worker per source with a supervisor and one child, the fence of the
largest epochs, bounded by `LIVE_PICKER_FENCE_CAP`, and the global floor that rises when it
forgets. Frames of all workers come over one channel. The interleavings are a superset: Tauri
runs synchronous commands one after the other. Left out: an event
listener that cannot be installed, which parks the fiber on a fatal state before its first
attempt (`superviseTarget`), as a start that the host refuses does after it; the command line
of a child, window geometry, shortcuts.

### 2.10 DesktopWindows and RowActivation

`DesktopWindows`: each window loads, changes and stores the whole state of the profiles,
without a lock, so a commit is two steps (`writing` holds what is about to be stored).
Messages between the windows, late probes, host names, the form's draft and its guards are
actions; a store may be refused. `RowActivation`: folders with live rows, the selection
(always in the first open folder), one activation under way that waits, settles, and frees the
slot; a failure hides the rows of its source until new ones come. Closing a folder interrupts
without waiting. Left out: appearance, notifications, hotkey normalisation, layout, the time
to live of a shown failure.

### 2.11 SocketPath, TmuxCommands, TuiProcess and CommandRunner

The processes' own business, each a module about one kind of process.

`SocketPath`: each candidate stands for its directory, and that for what the system calls can
tell apart of it. A resolver makes the directory (`MakeParent`, which takes one that somebody
else has just made), reads owner and mode (`InspectParent`), takes away what others may do
(`TightenParent`) or goes on to the next candidate (`Skip`). All run from one environment;
nobody removes such directories meanwhile.

`TmuxCommands`: a call (focus, message, attach, list sessions or clients) is a row of commands
(`FirstStage`, `After`), and a command is: choose an install (`SelectProgram`), run it
(`RunCommand`), and if the server drops the client, look for an install that it takes under
the lock of the cache (`Refresh`, `Probe`) and run once more. `ServerMoves` lets the server
end, start or become another version's at any time.

`TuiProcess`: the main thread sets up terminal and hook, draws, handles input and leaves by
return, error or panic, and what Rust drops on the way is a step each; threads may panic
while any of this goes on. The panic hook is behind a lock of the standard library.

`CommandRunner`: a call spawns a child (`BeginOneShot`), polls it, sees its exit or kills it at
the timeout (`SeeExit`, `TimeOut`), waits a grace for each pipe (`CollectStdout`,
`CollectStderr`) and answers. Meanwhile child and descendants write, the child's descendant
outlives it (`HeirIsBorn`, `HeirEnds`), and a drain thread reads what there is before time
passes: it is taken to be scheduled within a tick. What a failing child says is the set of
phrases that are looked for in it. Left out: the shell text of an ssh command, and the runner
that can be interrupted by a `stop` flag (its worker is in `LiveConnection`).

## 3. Runs

| Run | Question | Distinct states |
|---|---|---|
| `stream` | does the stream implement `SnapshotFeed`, can it always be joined, does the client catch up and every connection end that should? | 171 k |
| `processes` | one listener, files that lead to nobody else, a stop that leaves nothing of its daemon; do all come to one socket; are tmux's answers true; are one-shot calls whole, in time and rightly named; is the terminal given back? | 2.6 M |
| `lifecycle_live` | no daemon is spawned beside one that starts or serves; deaf daemons and starters end | 0.09 M |
| `broker` | no change and no event is forgotten, no listing brings back an older state, the daemon catches up and ends | 0.8 M |
| `broker_exit` | *violation*: a daemon that handled `%exit` waits for ever | |
| `classification` | what a pane is taken for, from evidence of its own; no matcher calls a busy screen idle or misses a question | 0.3 M |
| `panes` | after a batch the rows say what tmux says; wrong statuses heal within the timers | 3.1 M |
| `connections` | is a stop not undone, one start per outage, does every consumer settle; how long can a session be out of sight and the full listing be put off, is coverage regained? | 1.6 M |
| `coverage_fallback` | *violation*: without a broker the daemon waits out the long interval | |
| `picker` | is what is drawn true, do updates disturb nothing of the user's, do arrows move by one; how old may a workspace be? | 0.7 M |
| `desktop_live` | does a fiber have the worker it waits for, are shown rows the source's own, do connections settle? | 0.8 M |
| `desktop_windows` | is what the user saved stored and shown, do drafts survive the dock, are rows live, do picks survive? | 0.7 M |

### Bounds, and why they suffice

* `stream`: one client, six sized snapshots, a frame limit of 7, a socket buffer of one frame,
  3 publications, 2 stalled writes. Three publications are what a slot needs to hold a diff,
  be replaced by a full frame and receive a diff after it; a buffer of one makes the writer
  block with a frame in its hands and another in the slot. The sizes make each arm of the
  encodability guard happen. Several clients, which only share the fan-out, are covered by the
  theorems.
* `processes`, of daemons: 3 of them (two in the foreground, one of them of another version),
  a launcher, a stopper, a crash, an interrupt. `lifecycle_live`: 2 daemons, 2 launchers, a
  stopper, a crash; no foreground daemons, which spawn nothing and ask nobody, and the daemons
  spawned in one order, being alike (a symmetry set could lose a cycle). One daemon dies
  or is stopped while a second starts and a third is spawned; a lock, a probe or a file can be
  stale for at most one of them.
* `processes`, of the others: two resolvers of the socket's path, every environment, every
  state of the directories. Two threads, two installs and three versions of a server (one of
  each install, and one that takes neither), two calls, one move of the server, one other
  change: a thread can find what another one's sweep left, and lose it to the move. A pinned
  install, and calls from inside tmux, each start from one kind of server only, since which
  install is asked and whose client it is asked of do not depend on each other. Four profiles
  that differ in what decides a one-shot call, pipes of 1 chunk, timeouts and graces of 1 and 2
  ticks. Two panics and two events of the picker's process.
* `broker`: the primary and one other session, a channel of one line, two incarnations, one
  mishap of four kinds, one change, one focus, no reconcile. A primary and another are what a
  targeted and a full listing tell apart; a line of channel makes the reader block. Three
  incarnations, two mishaps and channels of two and three lines were checked once by hand for
  the invariant of the proof (10 M states).
* `classification`: all named programs but two (a Python script, which tmux and the process
  table show much like the node server, and Codex, which its command alone gives away), a
  title that outlives its agent, up to 2 older blocks of lines above every recorded frame. Two
  more such titles, and 3 older blocks, were checked once by hand with the same result.
* `panes`: 2 panes, windows and sessions, 3 operations of tmux, 3 focuses, one failing
  listing; 2 polled panes, of Claude and of Hermes, time to live 1, settle 2, reconcile 3,
  one failing capture. Gemini beside Hermes, and one pane in two windows under 5
  operations, were checked once by hand; the theorems are about any of these.
* `connections`, of the sessions: 3 of them for 2 clients, one of them there at the start;
  intervals 1, 1, 3 and 7 ticks, so that each differs in effect; 2 faults, 1 event. A fault may
  be the loss of the broker at any refresh. Of the consumers: two of them in six settings and a
  silent connection, all limits 1, 2 faults. `coverage_fallback` has the same sessions, or none
  at the start, and one fault.
* `picker`: 4 panes on pages of 2 rows (and none), 3 keys, 2 updates, 3 presses: a key can be
  freed and given away, a page can move under a selection. 4 nested directories, a time to
  live of 2, 1 change of the tree.
* `desktop_live`: 2 sources and a fence that remembers 1, so that it forgets; 3 epochs, 3 user
  actions, one fault, one flip of the daemon, one queued frame. Larger instances (up to 10 M
  states) were checked once by hand with the same result.
* `desktop_windows`: a local source and two others, 2 host names, 8 kinds of start; 2 folders
  of 3 panes, 4 kinds of frame, 2 frames, 2 clicks, 1 upset.

Deadlock is checked in `stream`, where `Over` is the only end. All other behaviours may really
end (everybody gone, budgets used up), so those runs do not check it.

### Fairness

* `SnapshotStream`: threads go on, a fan-out that has begun is finished, and a client reads
  and retries. Nothing obliges the run loop to publish, the daemon to exit, a client to leave,
  or a write to fail unless its peer is gone (then the kernel reports it). `WF` is enough: no
  step of another thread disables these again and again.
* `DaemonLifecycle`: every process goes on. The deadline of a wait is strongly fair: a query
  in between suspends it, but the wait's clock runs on. Nobody is obliged to crash, to run a
  daemon or to exit.
* `ControlModeBroker`: tmux answers, readers forward, refreshes go on (`WF`). Each turn of the
  loop looks at the termination request, receives for a while, and without a line looks at its
  client; a reconcile may come in between, so these have `SF`. The interval reconcile is only
  obliged (`WF`) while the broker is out of use, where the interval falls to one second; with
  a working broker it is allowed and never needed.
* `SubscriberCoverage`: time passes and the loop does what is due. Nothing obliges tmux to
  create or end sessions or a client to die. In the run `connections`, where a behaviour is
  about consumers or about sessions, the conditions of each module are owed where the behaviour
  is about it; the other part stands still in an initial state, and that state is one in which
  its own liveness property holds.
* `Consumers`: consumers, their deadlines and the server's threads go on, a daemon that starts
  becomes ready or ends. A silent connection is not obliged to speak; the server's read
  timeout, one of its own steps, ends it.
* `LiveConnection`: fibers, commands in flight, workers and the channel go on. Budgets make
  the troubles finite, so the property says what holds from some point on.
* The other runs are safety only.

## 4. Findings

Two are runs with an expected violation, and their counterexamples are the evidence:

* **`ExitEnds`** (`runtime.rs:777`): a batch with an event and the primary's `%exit` replaces
  the client and then waits for the exit of the replacement, although `events.rs:277` says
  that a primary `%exit` stops the daemon.
* **`FallbackIsFast`** (`runtime.rs:588`): `docs/daemon-operations.md:159-161` promises that
  without a broker the full listing comes every second, since it is then the only source of
  news. A settle pass that loses the broker (`runtime.rs:642`) neither replaces it nor restarts
  the timer, so the listing waits out what is left of the self-heal interval, up to 300 s. A
  client event whose replacement of the broker fails (`runtime.rs:866-869`) leaves the timer
  alone in the same way. `ListedInTime` bounds how late the listing can come all the same.

The others are known from modelling and stated where a property has to step around them:

* *Stream.* Subscriber writers are detached, so the process can exit before a closing frame is
  written (`daemon.rs:271-277`, `socket_server.rs:1375`). Encoding the latest frame on demand
  (`snapshot_store.rs`, around line 112) does not reset the size bound; it costs an encoding
  at worst and rejects nothing that fits.
* *Lifecycle.* The sidecar is read, compared and removed by path without the lock
  (`guard.rs:368`): a daemon that starts in between loses its own. A daemon spawned by a
  consumer that still runs is a zombie after SIGTERM, which the stop takes for alive
  (`guard.rs:326`). `SpawnsOnlyWhenNeeded` holds as long as no stop has begun.
* *Broker.* An answer that comes after its command timed out and after the channel was drained
  is taken for the answer of the full listing: the comment at `control_mode.rs:855-861` says
  that the old client's reader has ended when the channel is drained, which is so after a read
  error but not after an error reply, a failed write or a time-out. For the same reason a read
  error of that reader can come after the drain; it is forwarded without saying whose it was
  (`control_mode.rs:1056`), and the loop gives up the command that it awaits from the new
  client, whose answer then comes late. The attempt to prove `ViewNeverGoesBack` found this:
  it takes two mishaps, where the run has one. TLC confirmed it. The comment at
  `control_mode.rs:975-979` says that a read error of the primary goes into broker recovery;
  `runtime.rs:407-408` ends the run loop.
* *Coverage.* A `%sessions-changed` drained with a replaced broker (`control_mode.rs:866`,
  `runtime.rs:418-424`) is not made up for before the next listing.
* *Polling.* The comments at `daemon.rs:116-121` and `runtime.rs:579-583` say that a refresh
  with activity re-arms the settle deadline; the code arms it once. "Staleness is capped by
  the 2s cache TTL" is not so for statuses a title refined.
* *Identity.* A pane's identity is carried over without comparing the command
  (`refresh.rs:525`, unlike `496` and `505`), so a bare shell may be shown as Claude until the
  next full listing. An agent killed in its turn leaves a spinner in its title. A stale
  bordered Cursor footer hides a newer borderless prompt; Copilot's boxed prompt does not
  retire a folder-trust modal.
* *Batch.* The recency of a focus is forgotten when its pane is out of one snapshot. A pane
  that moves between two windows while both are listed for one batch can be in neither
  listing. Its events then do not count against a title it announced before them
  (`refresh.rs:200-232` looks at where the pane was and is listed), and that older title is
  laid over the row it is listed with last, until the notification of the move, which waits in
  the channel, lists its window again. `BatchHonoursItsEvents` excepts such panes
  (`ListedAgain`); the attempt to prove it without the exception found the case, which takes
  five changes, and TLC confirmed it with one pane in two windows.
* *Picker.* A key freed by a pane that is gone may go to another row in the same update. With
  the cache, panes of one directory may be in two groups up to the time to live, and an answer
  inherited from above need never have been true of the pane itself (two changes within the
  time to live).
* *Desktop host.* With more than `LIVE_PICKER_FENCE_CAP + 1` (65) sources a delayed start may
  be dropped although it is live; `subscribe.rs:39-40` calls anything at or below the floor
  stale.
* *Consumers.* A worker whose started daemon dies before sending rows retries for ever without
  a second start, by design. A subscriber whose farewell was lost may start a daemon that the
  user stopped (`StopIsNotUndone` speaks of those who were told). Start errors are fatal even
  after rows (`mod.rs:616`). Past both caps a connection is dropped, which a new consumer
  takes for an incompatible daemon.
* *Settings.* Two windows that store at the same time lose one commit (`Profiles.ts:41-46`,
  `64`). A reorder committed in the settings window while its draft is dirty and the dock
  switched the source drops the draft, although `useSettingsForm.ts:118-123` keeps drafts.
* *Rows.* Activating another row forgets the failure and unmasks the dead row
  (`pickerViewModel.ts:46-48`); between `reconnect()` and the supervisor's re-arm a dead row
  can be clicked.

* *One-shot calls.* `classify_desktop_failure` looks for "no server running", while the CLI
  says "no tmux server is running": such a failure keeps its own words. Whether a preflight
  probes the login shell is decided on the raw message, not on the class it was given.
* *Picker's process.* A worker's panic claims the restoring of the terminal in its hook; if the
  main thread panics too, it unwinds without waiting for that hook, and the process may be gone
  before the terminal is given back. `TerminalIsGivenBack` excepts two panics.

## 5. Proofs

Checked by TLAPS for all values of the constants, from the assumptions the modules state and
nothing else. Each list says what the theorems state and why the invariant behind them is
needed.

**SnapshotStreamProofs** (from `SnapshotsAssumption`, `BoundsAssumption`, `NoFrameAssumption`
and `SizeAssumption`: a full frame grows by at most what the diff carries, plus what the diff
omits, plus the slack). `TypeCorrect`, `FaithfulReconstruction`, `GapFree`, `BootstrapAlways`,
`CacheFresh`, `ClosingIsFinal`, `Monotone` and `Refinement` follow from `Invariance`. What a
client will show depends on what is on its socket, in its writer's hands, in its mailbox, and
on whether the fan-out has reached it. `IInv` says that these form a *chain*: each frame is a
full frame of a published snapshot not older than the one before, or the diff from exactly the
one before (`Follows`), and the chain ends with the latest publication, or the one before it
for a mailbox the fan-out has not reached (`PipelineInv`). `DiffIsLossless` is the law of
diffs; `Untouched` disposes of the clients a step does not concern; `AdoptStep` moves the
chain's start, `EnqueueStep` and `PublishLaterStep` its end.

**DaemonLifecycleProofs** (`LifecycleAssumption`). `SingleListener`, `FilesNameTheListener`,
`StopIsFinal`: only the holder of the lifecycle lock listens, has bound the path, or wrote the
sidecar; files may be stale, but while somebody holds the lock they name the holder, nobody,
or a predecessor that released it; and a daemon a stop has seen exited never executes again.
`OneSpawnAtATime` states `SpawnsOnlyWhenNeeded`: whoever spawns holds the start lock and has
asked again under it, and until a daemon has answered, its starter keeps the lock and waits
(`Locked`), so that nobody else can have raised a daemon that is not yet to be seen (`Alone`).
The theorem takes `Foreground = {}` and `MaxInterrupts = 0`, like the run: a daemon that is run
by hand, or left behind by an interrupted consumer, starts without the start lock, and another
one may be spawned beside it (the lifecycle lock then ends one of the two). `OneDaemonHasTheName` states the conjunction the
run checks.

The same module has the theorems about the processes' own business.

* `SocketIsOne` (any number of resolvers): every candidate before the one that a resolver tries
  is one at which none can end (`Usable`, which no step of any of them changes), and the one it
  tries is still to be had once it has been made (`AllPlaced`, `Place`).
* `TerminalComesBack` (any bounds): `TuiInv` relates the threads' places to the lock of the
  hook (`Threaded`), the claim of the restoring to who restores (`Claimed`), and what is left of
  the terminal's modes to how far the main thread has come (`Leaving`); `Counted` counts the
  panics, for the exception of section 4.
* `OneShotsSound` (`RunnerAssumption`; any profiles, messages, timeouts): `RunnerInv` says for
  each place of the call what the child is (`ChildAt`), that a pipe given up after the grace
  has all the child wrote (`WholeAt`, which needs that a drain thread runs within a tick), how
  much time can have passed (`TimedAt`), and what a probe is made for (`ProbeAt`). The attempt
  to prove it found overlapping arms in a `CASE` of the model (`OfOutput`), whose value was
  then not defined.
* `TmuxAnswersTrue` (`TmuxAssumption`; any threads, installs, versions, panes): while nobody
  moved the server, the installs that a sweep has passed do not speak to it (`SweepAt`), a
  command runs with the install its retry chose (`CommandAt`), and a pane that is said to be
  missing was missing when the command ran (`MissingAt`); ids of panes are not used again.

**ControlModeBrokerProofs** (`BrokerAssumption`; any sessions, channel capacity, number of
clients, mishaps). `ViewStaysOrGrows` states `ViewNeverGoesBack` and follows from
`Invariance`. The answer to a command passes from tmux to a pipe, through a reader thread to
the channel, and from there to the loop, in two lines that anything may come between or cut
off. `Awaiting` says where it can be: not yet given, in the pipe, half in the channel, in the
channel, half read, with its end in the pipe or in the channel; everywhere else there are only
*calm* lines (events, exits, and the last word of the client in use), and the rows of the
answer are no older than the view was when the command was written (`Fresh`). When nothing is
awaited, nothing can answer (`NotAwaiting`): this is what a replaced client, an error reply
and a read error must leave behind, and what a time-out of a live client would break.
`Errors` says that a read error is the last that comes from the client in use, `Clients` that
incarnations follow each other and that only the present one has commands to answer,
`Silence` that all others only tell events. The invariant is a disjunction with
`AnsweredLate`; `BrokerStep` disposes of the fourteen actions that only move the loop by one
lemma (`LoopKeeps`) and of what tmux does of itself by another (`GrownPipesKeep`).

`EventsAreKept` states `NoEventIsLost`, late answers or not. The events of a feed that the
loop has not taken are, in their order, in the lines set aside, then in the channel, then in
the subscriber's pipe: `FeedsInOrder` says that each of the three holds exactly the next
stretch of the feed's numbers (`Numbered`), so that moving a line from one to the next, setting
it aside or draining the channel only shifts where the stretches meet. The drain is a recursive
function over positions (`Retained`), and `RetainedNumbered` an induction over them: the set of
positions for which the claim holds contains 0 and goes up (`UpTo`, from `LeastNatural`).

`QuietIsAlwaysCurrent` states `QuietMeansCurrent`. While the broker works, a session whose row
is not tmux's has an event on its way that calls for a listing of it (`Queued`), or a listing
called for (`Due`): `NothingForgotten`. A listing that is read settles it only if its rows are
still true or what changed since has been reported, which is what `AnswersHonest` says of every
answer on its way (`Current`); what tmux executes is true when it is executed (`ExecuteQuiet`),
and a change after it is an event behind it (`WorldQuiet`). `BatchLists`, `AbsorbIs` and
`ListsOf` say that the listings a batch asks for are those its lines called for, `SetToSeqHasAll`
that turning a set into a sequence leaves nothing out. Replacing the client and a failed
listing both order the full one (`RefreshQuiet`). With the loop idle and nothing queued,
nothing is due, and what was published last is the view (`SentOut`).

**ConsumersProofs** (`ConsumersAssumption`; any number of consumers, any limits).
`StartsOnce`: a start is noted, and the note goes only with rows (`StartInv`). `StopStays`:
who was told of the closing reads the farewell before the end of the stream; the invariant
relates each connection's unread answers to both ends' control points (`ConversationInv`).
`SlotsNeverLeak`: the counter of pending handshakes is the number of connections that are in
one and never above its limit, on every path out of a handshake (`SlotsInv`, by
cardinalities).

**ObservationProofs**, about `SubscriberCoverage` (`CoverageAssumption`; any cap, sessions and
intervals).
`ListingNeverLate`: what has passed since the last listing plus what the timer still has to
run is at most the longest interval and one short one; the debt is there because a lost broker
restarts the timer once (`TimerInv`). It states `ListedInTime`, for a broker lost at any
refresh. `NeverOutOfSight`: a session without
a client is within the active interval of a listing, one whose client died within the monitor
interval of being found (`WatchInv`, `SightInv`). The proof showed that the bound must include
the fall-back interval, which takes four faults to see; the property was corrected.

And about `PaneIdentity` (`ProgramsAssumption`; any programs). What is assumed of them: each
`LooksLikeItself`, that is, no command, title or process of it or of its tools is another
agent's, except that tools of Prime carry the mark of Pi; each agent is `Recognisable` by its
process, and its command names it or is a runtime under which the descendants are looked at;
and only Pi and Prime leave titles behind, without a spinner (the two guards that
`classify_provider_from_analysis` has; section 4 has an agent killed with one). Out of this
are agents that look like another or like nothing, about which the rules can promise nothing.
`ListingsAlwaysOfThePane` states `ListingsAreOfThePane`, `RecordsAlwaysRest` both parts of
`RecordsRestOnEvidence`. The invariant `IdentityInv` relates what is painted and published to
who is in the pane: a title is of its painter, and one whose painter has gone is a title that
can be left behind (`Painted`); published metadata is of a program whose pid it has
(`Published`); a resolved record is the last match by processes (`Kept`). The rest is about the
rules. `TablesHold` and `EvidenceHolds`: whatever the order of the process table and whether or
not the tool took the terminal, what an analysis gets are processes of the pane, with the
foreground agent's among them. `KnownIsAlive`: with Prime's process there, its tools are not
taken for Pi, whichever comes first; `FallbackIsAlive` follows. `BelievedIsAlive`: a title that
is believed is an agent's of the pane or the accepted residue. `JudgedIs` combines them by the
order of the evidence: metadata, command, title, processes.

**PaneUpdatesProofs** (`BatchAssumption`, `PollingAssumption`; any panes, windows, sessions,
agents and timers, any number of changes). About `EventBatch`:

* `RowsBecomeCurrent` states `QuietIsCurrent`. A row that is not tmux's must still be put
  right, and the invariant `NothingUnreported` says by what. `Placed`: a pane that is listed
  nowhere, in another window or with another session has an event of its window waiting in the
  channel, or taken with its listing still to make. `Unmoved`: so has the window it is
  wrongly listed in, or else the pane is gone and a full listing is due. `Named` says it of a
  session's name. `Entitled`: a pane with another title is unreported by its subscription, or
  its report is still to be applied. `Announced`: the same follows every announced title, so
  that none is laid over a row for good. `Published`: at rest the published rows are the
  snapshot's. All this holds until the loop has ended. `TmuxAccounts` has what tmux must tell
  for its steps to keep this, `TmuxReports` that it does; `RowsAccount` what a listing must
  put right, `ScopeListingAccounts` and `FullListingAccounts` that they do.
* `FocusOrderStaysHonest` follows from `RecencyOrder`: no two panes share a number, numbers
  follow the history of focusing, and what was published last has them.
* `BatchesHonourTheirEvents` follows from `EventsAttest` (an event proves no title its panes
  did not have, and an announced one is at least what the events before it prove) and
  `BatchIsRead`: a row has been listed since the events about it, or its listing is to come;
  and a title still to be laid over a row is at least what they prove. It needs
  `NothingUnreported` for the panes that move while the batch is applied.
* `FocusedPanesAreListed` is an action property by cases over the steps that end a focus;
  `BatchTypesHold` types the variables.

About `StatusPolling`: `WorkAlwaysSeen`, `WrongAlwaysHeals`, `TypeCorrect` from `HealingInv`:
a wrong status always has a timer that waits for it, and elapsed plus remaining time is
bounded; a cached reading hides at most its time to live. Here too the proof corrected the
bound of the settle pass: it must include the time to live (a failed capture, and a time to
live of 2, show it).

**InterfaceProofs**, about four modules of the interfaces.

* `RowActivation` (`RowAssumption`; any folders, rows, budgets). `RowsStayLive` from
  `RowsInv`: the one fiber that was not abandoned holds the slot, and its focus is what the
  dock shows as running (`CallsInv`); the source of a dead row has no rows, or is connecting
  with its failure shown (`DeadInv`). `PicksAlwaysSurvive` is an action property, by cases
  over what is not the user's doing.
* `DesktopWindows` (any sources, hosts and messages).
  `EditsAlwaysSurvive` is an action property: what the dock sends changes no draft that is
  dirty (`DockKeepsDrafts`), and what the user does in the settings window is counted as such
  (`CommandIsCounted`, which needs that the counts are numbers).
  `StorageAlwaysTrue` from `StorageInv`, under `StartsAssumption` (a run starts from a stored
  profile state as the code writes them: the local source is there, no id twice, no label of
  another machine). `StatesInv`: what is stored, shown or about to be stored is such a state,
  and the dock's probe result is of the key it was made for. `DockInv` and `SettingsInv`: a
  window shows what a load would give, unless a message is on its way to it, or it has edits
  or a reload to come, or is hidden. Every mutator has a lemma (`ReorderKeeps` needs that the
  list without one profile is shorter by one at most), and `NormalizeTwice` says that a load
  of what was loaded changes nothing, without which no window could be compared with the
  storage.
* `WorkspaceCache` (`WorkspaceAssumption`; any tree, any time to live). `AnswersStayRecent`
  from `CacheInv`: what a usable entry says was computed for its own place no longer ago than
  the entry is old, and the entries kept on the way up to a repository are true in every
  session (`Dated`); `DeepestIsOne` is the lemma about the walk that both need.
* `TerminalPicker` (`PickerAssumption`; finite sets of panes and keys, any heights, names,
  queries and budgets). `ScreenAlwaysTrue` from `PickerInv`, three parts. `Orderly`: the list
  has no pane twice, no two keys have the same pane, a page has no more rows than there are
  keys, and after a fatal error the list is empty. `AsShown`: the pane a key has, held or
  retired, is the one it was last drawn beside. `OnScreen`: the rows, the highlight and the
  keys of the last frame are those that the handlers compute from the state, although `Draw`
  clamps, synchronises and reconciles on its way and the handlers do
  not. A step that redraws needs only the first two (`RedrawKeeps`), one that does not must
  leave the view alone (`ContinueKeeps`), and each handler has a lemma that says which it is.
  Under them are the lemmas on lists: `OrderedIs` (a strict order of a finite set lists each
  element once), `ThoseAre`, `WindowIs` (a page shows distinct rows, and no more than there
  are keys), `SynchronizeIs` (after it each row of the page has exactly one key), `MergedIs`,
  `ReanchorRowsIs`, `ReanchorIs`. `Those` (module `Selections`) is a recursive function where the code filters
  an iterator, for the provers can unfold a function but no `SelectSeq`.

**LiveConnectionProofs** (`LiveAssumption`; any sources and bounds). `Invariance` proves
`LiveInv`: types; `PageInv`, fiber and attempt know each other and a fiber's attempt is the
last of its source; `HostInv`, a worker that goes on is its supervisor's or has been told to
end, an attempt whose start has not arrived left no trace in the host, and while a start holds
the lock its source has no supervisor. From it: `TypeCorrect`; `OneChildAlways`, a source
never has two subscribe processes that have not been told to end; `RowsAlwaysBelong`, shown
rows are of an attempt the source made since it was added, and of the running one if shown as
online. `WorkersAlwaysMatch` adds the fence: `FenceInv` says that an epoch the fence holds is
at least that of every start that passed it, and that the floor is below a live source's epoch
unless all other sources have outrun it; `Served` that a fiber waiting for frames has a start
under way or a worker. It assumes `FewSources` (`|Sources| <= LIVE_PICKER_FENCE_CAP + 1`),
which the code does not enforce: with more sources the conclusion is false (section 4).
`FenceMoves` reasons about the evicted minimum through `LeastNatural`.

### Only model-checked

* All liveness properties (`CatchesUp`, `ConnectionsEnd`, `NobodyIsLeftBehind`, `ComesToRest`,
  `CoverageIsRegained`, `ConnectionsSettle`, `ConsumersSettle`): the prover does no fairness
  reasoning with `ENABLED`.
* `TerminalPicker`'s `HandIsSteady`, which compares two frames where `ScreenIsTrue` is about
  one: where `Merged`, `Reanchor` and the keys put each row that stays, not only which rows.
* `Screens`: fourteen matchers over sequences; a theorem for every screen would be an
  induction over them.

## 6. Not modelled

Telemetry and the status's text, the macOS trust preflight, argument parsing, configuration
and the doctor (one-shot conversions without a protocol), how `/proc` and `sysctl` are read,
the parsing of tmux rows, the fuzzy score, drawing and layout, window geometry and shortcuts,
the shell text of an ssh command, the runner of the host that a flag interrupts, build and
release scripts. Within the modelled parts,
section 2 says under "left out" what each module abstracts.

## 7. Plan

1. Type correctness of `ControlModeBroker` as a theorem.
2. A broker stated as "a fresh listing of the scope asked for", implemented by
   `ControlModeBroker` without late answers: `Awaiting` is most of the refinement.
