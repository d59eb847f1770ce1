----------------------------- MODULE EventBatch -----------------------------
(***************************************************************************)
(* What the daemon does with the notifications of tmux: it collects them   *)
(* in a batch, keeps of each kind and target the last one, and repeats the *)
(* listings they call for, while tmux goes on.  The title that a pane      *)
(* itself announced in its output arrives earlier than the listing knows   *)
(* it and is laid over the row it read, unless a later event of the batch  *)
(* made the row newer than the announcement.  A pane focused through the   *)
(* picker comes over the same channel, ends a batch, and is remembered for *)
(* the order of the next listing.                                          *)
(*                                                                         *)
(* tmux is the environment: panes that have a window, windows that have a  *)
(* session, and titles, numbered in the order they were set.  The periodic *)
(* full listing is left out, so that nothing here is healed by waiting.    *)
(***************************************************************************)
EXTENDS Naturals, Sequences, FiniteSets, SequencesExt, FiniteSetsExt

CONSTANTS
  Panes, Windows, Sessions,
  HomeWindow,      \* the window that a pane starts in
  HomeSession,     \* the session that a window starts in
  Candidates,      \* the panes whose status is read from their screen
  MaxOps,          \* bound: what users do in a behaviour, focusing included
  MaxFocus,        \* bound: panes focused through the picker
  MaxFails         \* bound: listings that fail

ASSUME BatchAssumption ==
  /\ HomeWindow \in [Panes -> Windows] /\ HomeSession \in [Windows -> Sessions]
  /\ "gone" \notin Windows /\ Candidates \subseteq Panes
  /\ {MaxOps, MaxFocus, MaxFails} \subseteq Nat

VARIABLES
  home,            \* the window of each pane, or "gone"
  place,           \* the session of each window
  name,            \* how often each session was renamed
  title,           \* the number of each pane's title
  silent,          \* panes whose change the subscriptions have still to report
  lines,           \* what waits in the channel of the control-mode clients
  phase,           \* what the run loop is at
  batch,           \* the events being applied
  scopesBefore,    \* where the panes with a title event were listed before
  todo,            \* the listings still to make
  snapshot,        \* the pane records of the daemon
  shown,           \* the snapshot last published, with the focus order
  byPane, nextSeq, \* PaneFocusRecency
  focused,         \* <<q, p>>: p was focused after q was for the last time (history)
  ops, focuses, fails

tmux == <<home, place, name, title>>
recency == <<byPane, nextSeq>>
vars == <<tmux, silent, lines, phase, batch, scopesBefore, todo, snapshot, shown, recency,
          focused, ops, focuses, fails>>

(***************************************************************************)
(* tmux: what a listing reports and what a change notifies.                *)
(***************************************************************************)
Live == {p \in Panes : home[p] # "gone"}
Titled(p, t) == [win |-> home[p], sess |-> place[home[p]], name |-> name[place[home[p]]],
                 title |-> t]
Row(p) == Titled(p, title[p])
Rows(ps) == [p \in ps \cap Live |-> Row(p)]
InWindow(w) == {p \in Live : home[p] = w}
InSession(s) == {p \in Live : place[home[p]] = s}

(* An event; "proves" is history: the titles that the panes it is about    *)
(* had when it was sent.                                                   *)
Event(kind, id, t, proves) == [kind |-> kind, id |-> id, title |-> t, proves |-> proves]
News(kind, id, about) ==
  Event(kind, id, 0, [p \in Panes |-> IF p \in about THEN title[p] ELSE 0])
Notify(events) == lines' = lines \o events

Do == /\ ops + focuses < MaxOps
      /\ ops' = ops + 1
      /\ UNCHANGED <<phase, batch, scopesBefore, todo, snapshot, shown, recency, focused,
                     focuses, fails>>

(* The program in the pane sets its title: the output line of a control    *)
(* client carries it at once, the subscription reports the change later.   *)
Announce(p) ==
  /\ Do /\ p \in Live
  /\ title' = [title EXCEPT ![p] = @ + 1]
  /\ Notify(<<Event("title", p, title[p] + 1,
                    [q \in Panes |-> IF q = p THEN title[p] + 1 ELSE 0])>>)
  /\ silent' = silent \cup {p}
  /\ UNCHANGED <<home, place, name>>

(* A user sets it with a tmux command: only the subscription tells.        *)
SetTitle(p) ==
  /\ Do /\ p \in Live
  /\ title' = [title EXCEPT ![p] = @ + 1]
  /\ silent' = silent \cup {p}
  /\ UNCHANGED <<home, place, name, lines>>

Report(p) ==
  /\ p \in silent
  /\ silent' = silent \ {p}
  /\ Notify(IF p \in Live THEN <<News("pane", p, {p})>> ELSE <<>>)
  /\ UNCHANGED <<tmux, phase, batch, scopesBefore, todo, snapshot, shown, recency, focused, ops,
                 focuses, fails>>

Output(p) ==
  /\ Do /\ p \in Live
  /\ Notify(<<News("activity", p, IF p \in Candidates THEN {p} ELSE {})>>)
  /\ UNCHANGED <<tmux, silent>>

MovePane(p, w) ==
  /\ Do /\ p \in Live /\ w # home[p]
  /\ home' = [home EXCEPT ![p] = w]
  /\ Notify(<<News("window", home[p], InWindow(home[p]) \ {p}),
              News("window", w, InWindow(w) \cup {p})>>)
  /\ UNCHANGED <<place, name, title, silent>>

ClosePane(p) ==
  /\ Do /\ p \in Live
  /\ home' = [home EXCEPT ![p] = "gone"]
  /\ Notify(<<News("window", home[p], InWindow(home[p]) \ {p})>>)
  /\ UNCHANGED <<place, name, title, silent>>

MoveWindow(w, s) ==
  /\ Do /\ place[w] # s /\ InWindow(w) # {}
  /\ place' = [place EXCEPT ![w] = s]
  /\ Notify(<<News("window", w, InWindow(w))>>)
  /\ UNCHANGED <<home, name, title, silent>>

RenameSession(s) ==
  /\ Do /\ InSession(s) # {}
  /\ name' = [name EXCEPT ![s] = @ + 1]
  /\ Notify(<<News("session", s, InSession(s))>>)
  /\ UNCHANGED <<home, place, title, silent>>

KillSession(s) ==
  /\ Do /\ InSession(s) # {}
  /\ home' = [p \in Panes |-> IF p \in InSession(s) THEN "gone" ELSE home[p]]
  /\ Notify(<<News("resnapshot", "server", Live \ InSession(s))>>)
  /\ UNCHANGED <<place, name, title, silent>>

(* A client of the daemon reports that its user focused a pane.            *)
Focus(p) ==
  /\ ops + focuses < MaxOps /\ focuses < MaxFocus
  /\ p \in Live
  /\ focuses' = focuses + 1
  /\ Notify(<<News("focus", p, {})>>)
  /\ UNCHANGED <<tmux, silent, phase, batch, scopesBefore, todo, snapshot, shown, recency,
                 focused, ops, fails>>

(***************************************************************************)
(* The batch: every line has a number; a later one of the same kind and    *)
(* target replaces the earlier.  0 stands for "none".                      *)
(***************************************************************************)
SequenceOf(kind, id) ==
  Max({0} \cup {i \in DOMAIN batch : batch[i].kind = kind /\ batch[i].id = id})
Among(kind, ids) == {id \in ids : SequenceOf(kind, id) > 0}
Resnapshot == SequenceOf("resnapshot", "server")

PaneScopes(pmap) == [p \in Among("title", DOMAIN pmap) |-> <<pmap[p].sess, pmap[p].win>>]
ScopeSequence(scopes, p) ==
  IF p \in DOMAIN scopes
    THEN Max({SequenceOf("session", scopes[p][1]), SequenceOf("window", scopes[p][2])})
    ELSE 0

(* The number of the title to lay over the pane's row, 0 for none.         *)
EventTitleOverride(p, scopesAfter, activity) ==
  LET latest == Max({Resnapshot, SequenceOf("pane", p),
                     IF activity THEN SequenceOf("activity", p) ELSE 0})
  IN  IF SequenceOf("title", p) > latest THEN batch[SequenceOf("title", p)].title ELSE 0
TitleOverride(p, scopesAfter, activity) ==
  LET latest == Max({Resnapshot, SequenceOf("pane", p),
                     IF activity THEN SequenceOf("activity", p) ELSE 0,
                     ScopeSequence(scopesBefore, p), ScopeSequence(scopesAfter, p)})
  IN  IF SequenceOf("title", p) > latest THEN batch[SequenceOf("title", p)].title ELSE 0

(***************************************************************************)
(* Listings laid over the snapshot.                                        *)
(***************************************************************************)
Overlay(rows, pmap) ==
  [p \in DOMAIN rows \cup DOMAIN pmap |-> IF p \in DOMAIN rows THEN rows[p] ELSE pmap[p]]
Without(ps, pmap) == [p \in DOMAIN pmap \ ps |-> pmap[p]]
InScope(kind, id, r) == IF kind = "window" THEN r.win = id ELSE r.sess = id
ScopeRows(kind, id) == Rows(IF kind = "window" THEN InWindow(id) ELSE InSession(id))

RescopedAdding(kind, id) == Overlay(ScopeRows(kind, id), snapshot)
Rescoped(kind, id) ==
  Overlay(ScopeRows(kind, id),
          Without({p \in DOMAIN snapshot : InScope(kind, id, snapshot[p])}, snapshot))

Repaned(p, override) ==
  IF p \notin Live THEN Without({p}, snapshot)
  ELSE Overlay([q \in {p} |-> Titled(p, IF override = 0 THEN title[p] ELSE override)], snapshot)

Publish(pmap, seqs) ==
  shown' = [p \in DOMAIN pmap |-> [row |-> pmap[p],
                                   seq |-> IF p \in DOMAIN seqs THEN seqs[p] ELSE 0]]

Fails == fails < MaxFails /\ fails' = fails + 1

Loop == /\ UNCHANGED <<tmux, silent, focused, ops, focuses>>

(***************************************************************************)
(* collect_control_mode_batch: everything up to the next client event, as  *)
(* far as it has arrived when the window of the batch closes.              *)
(***************************************************************************)
TakeBatch ==
  /\ phase = "idle"
  /\ \E n \in 1..Len(lines) :
       /\ \A i \in 1..n : lines[i].kind # "focus"
       /\ batch' = SubSeq(lines, 1, n)
       /\ lines' = SubSeq(lines, n + 1, Len(lines))
  /\ phase' = "full"
  /\ UNCHANGED <<tmux, silent, scopesBefore, todo, snapshot, shown, recency, focused, ops,
                 focuses, fails>>

PendingScopes ==
  LET later(kind, ids) == {<<kind, id, 0>> : id \in {i \in ids : SequenceOf(kind, i) > Resnapshot}}
  IN  later("session", Sessions) \cup later("window", Windows)

RefreshFull ==
  /\ phase = "full"
  /\ scopesBefore' = PaneScopes(snapshot)
  /\ snapshot' = IF Resnapshot > 0 THEN Rows(Panes) ELSE snapshot
  /\ todo' = PendingScopes
  /\ phase' = "scopes"
  /\ Loop /\ UNCHANGED <<lines, batch, shown, recency, fails>>

(* Sessions first; a scope that cannot be listed makes the whole server be *)
(* listed.                                                                 *)
RefreshScope(kind, id) ==
  /\ phase = "scopes"
  /\ <<kind, id, 0>> \in todo
  /\ kind = "window" => \A other \in todo : other[1] = "window"
  /\ todo' = todo \ {<<kind, id, 0>>}
  /\ \/ snapshot' = Rescoped(kind, id) /\ UNCHANGED fails
     \/ snapshot' = Rows(Panes) /\ Fails
  /\ Loop /\ UNCHANGED <<lines, phase, batch, scopesBefore, shown, recency>>

(* Then the panes: those changed, those whose screen is read and that had  *)
(* output, and the others that announced a title no listing has overtaken. *)
ScopesDone ==
  /\ phase = "scopes" /\ todo = {}
  /\ LET active == Among("activity", Candidates \cap DOMAIN snapshot)
         over(p) == TitleOverride(p, PaneScopes(snapshot), p \in active)
         panes == Among("pane", Panes) \cup active
     IN  todo' = {<<"pane", p, over(p)>> : p \in panes \cup {p \in Panes : over(p) > 0}}
  /\ phase' = "panes"
  /\ Loop /\ UNCHANGED <<lines, batch, scopesBefore, snapshot, shown, recency, fails>>

RefreshPane(p, override) ==
  /\ phase = "panes"
  /\ <<"pane", p, override>> \in todo
  /\ todo' = todo \ {<<"pane", p, override>>}
  /\ \/ snapshot' = Repaned(p, override) /\ UNCHANGED <<phase, fails>>
     \/ phase' = "ended" /\ Fails /\ UNCHANGED snapshot
  /\ Loop /\ UNCHANGED <<lines, batch, scopesBefore, shown, recency>>

BatchDone ==
  /\ phase = "panes" /\ todo = {}
  /\ Publish(snapshot, byPane)
  /\ phase' = "idle"
  /\ batch' = <<>> /\ scopesBefore' = <<>>
  /\ Loop /\ UNCHANGED <<lines, todo, snapshot, recency, fails>>

(***************************************************************************)
(* A focused pane: its session is listed again; a pane the snapshot does   *)
(* not have, or lost by that listing, is found by a full one.              *)
(***************************************************************************)
IsKnown(p) == p \in DOMAIN byPane
IsHead(p) == p \in DOMAIN byPane /\ \A q \in DOMAIN byPane : byPane[q] <= byPane[p]
RecordFrom(p, n) ==
  IF IsHead(p) THEN UNCHANGED recency
  ELSE /\ nextSeq' = n
       /\ byPane' = [q \in DOMAIN byPane \cup {p} |-> IF q = p THEN n ELSE byPane[q]]
Record(p) == RecordFrom(p, nextSeq + 1)
Pruned(pmap) == [p \in DOMAIN byPane \cap DOMAIN pmap |-> byPane[p]]

TakeFocus ==
  /\ phase = "idle"
  /\ lines # <<>> /\ Head(lines).kind = "focus"
  /\ LET p == Head(lines).id IN
       /\ Record(p)
       /\ todo' = {<<"focus", p, 0>>}
       /\ focused' = {<<q, p>> : q \in Panes \ {p}} \cup {f \in focused : p \notin {f[1], f[2]}}
       /\ phase' = IF p \in DOMAIN snapshot THEN "focusSession" ELSE "focusFull"
  /\ lines' = Tail(lines)
  /\ UNCHANGED <<tmux, silent, batch, scopesBefore, snapshot, shown, ops, focuses, fails>>

FocusDone(pmap) ==
  /\ snapshot' = pmap
  /\ byPane' = Pruned(pmap)
  /\ Publish(pmap, Pruned(pmap))
  /\ todo' = {}
  /\ phase' = "idle"
  /\ UNCHANGED nextSeq

NeedsFull(p, pmap) == p \notin DOMAIN pmap

FocusSession(p) ==
  /\ phase = "focusSession" /\ <<"focus", p, 0>> \in todo
  /\ LET pmap == Rescoped("session", snapshot[p].sess) IN
       IF NeedsFull(p, pmap)
         THEN snapshot' = pmap /\ phase' = "focusFull" /\ UNCHANGED <<todo, shown, recency>>
         ELSE FocusDone(pmap)
  /\ Loop /\ UNCHANGED <<lines, batch, scopesBefore, fails>>

FocusFull ==
  /\ phase = "focusFull"
  /\ FocusDone(Rows(Panes))
  /\ Loop /\ UNCHANGED <<lines, batch, scopesBefore, fails>>

ListingFails ==
  /\ \/ phase \in {"focusSession", "focusFull"}
     \/ phase = "full" /\ Resnapshot > 0
  /\ Fails
  /\ phase' = "ended"
  /\ Loop /\ UNCHANGED <<lines, batch, scopesBefore, todo, snapshot, shown, recency>>

Init ==
  /\ home = HomeWindow
  /\ place = HomeSession
  /\ name = [s \in Sessions |-> 0]
  /\ title = [p \in Panes |-> 1]
  /\ silent = {} /\ lines = <<>>
  /\ phase = "idle" /\ batch = <<>> /\ scopesBefore = <<>> /\ todo = {}
  /\ snapshot = Rows(Panes)
  /\ shown = [p \in Panes |-> [row |-> snapshot[p], seq |-> 0]]
  /\ byPane = <<>> /\ nextSeq = 0
  /\ focused = {}
  /\ ops = 0 /\ focuses = 0 /\ fails = 0

TmuxStep ==
  \/ \E p \in Panes : Announce(p) \/ SetTitle(p) \/ Report(p) \/ Output(p) \/ ClosePane(p)
  \/ \E p \in Panes, w \in Windows : MovePane(p, w)
  \/ \E w \in Windows, s \in Sessions : MoveWindow(w, s)
  \/ \E s \in Sessions : RenameSession(s) \/ KillSession(s)

DaemonStep ==
  \/ TakeBatch \/ RefreshFull \/ ScopesDone \/ BatchDone
  \/ TakeFocus \/ FocusFull \/ ListingFails
  \/ \E s \in Sessions : RefreshScope("session", s)
  \/ \E w \in Windows : RefreshScope("window", w)
  \/ \E item \in todo : RefreshPane(item[2], item[3])
  \/ \E p \in Panes : FocusSession(p)

Next == TmuxStep \/ DaemonStep \/ \E p \in Panes : Focus(p)
Spec == Init /\ [][Next]_vars

-----------------------------------------------------------------------------
(* Once tmux has told everything and the daemon has applied it, the        *)
(* published snapshot is tmux's: no announced title survives a later       *)
(* change, no pane that moved is lost or stays where it was, and a listing *)
(* that failed left no gap.                                                *)
Quiet == phase = "idle" /\ lines = <<>> /\ silent = {}
QuietIsCurrent ==
  Quiet => /\ DOMAIN shown = Live
           /\ \A p \in Live : shown[p].row = Row(p)

(* A batch never leaves a pane with a title that is older than one of its  *)
(* own events says, be it about the pane or about the window or session    *)
(* the pane is listed in: the announced title is laid over a row only when *)
(* none of them came after it.  A pane that moved meanwhile is excepted,   *)
(* as long as the news that will list its window again wait: it may have   *)
(* been in neither of the listings that the batch asked for.               *)
Concerns(e, p) ==
  \/ e.kind = "resnapshot"
  \/ e.kind \in {"pane", "activity", "title"} /\ e.id = p
  \/ e.kind \in {"session", "window"} /\ InScope(e.kind, e.id, snapshot[p])
ListedAgain(p) == \E i \in DOMAIN lines : lines[i].kind = "window" /\ lines[i].id = snapshot[p].win
BatchHonoursItsEvents ==
  [][BatchDone => \A p \in DOMAIN snapshot, i \in DOMAIN batch :
                    Concerns(batch[i], p) /\ ~ListedAgain(p)
                      => snapshot[p].title >= batch[i].proves[p]]_vars

(* The published focus order is the order in which the panes were last     *)
(* focused, whatever was closed, pruned and focused again in between.      *)
FocusOrderIsHonest ==
  \A f \in focused :
     phase = "idle" /\ {f[1], f[2]} \subseteq {p \in DOMAIN shown : shown[p].seq > 0}
       => shown[f[1]].seq < shown[f[2]].seq

(* The pane that a client reports as focused is in the snapshot that is    *)
(* published for it if it lives, also when it was moved to another session *)
(* that the daemon has not heard of yet.                                   *)
FocusedPaneIsListed ==
  [][\A p \in Live : <<"focus", p, 0>> \in todo /\ phase' = "idle"
       => p \in DOMAIN shown']_vars

(* What the daemon has been told, what it publishes shows: no row lags     *)
(* behind the news of its own batch, and no focused pane is left out.      *)
EventsAreHonoured == BatchHonoursItsEvents /\ FocusedPaneIsListed
=============================================================================
