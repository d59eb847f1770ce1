--------------------------- MODULE TerminalPicker ---------------------------
(***************************************************************************)
(* The terminal picker: the panes of the last snapshot in pages, a         *)
(* highlighted row, a selection key beside each row, and a search.         *)
(* Snapshots arrive while the user looks, types and resizes.  One thread   *)
(* handles key presses and subscription events in the order of one         *)
(* channel; a handled event changes the state and, unless it had no        *)
(* effect, draws a frame, which normalises the state to what is on screen. *)
(* What the user acts on is the frame.                                     *)
(*                                                                         *)
(* A pane is its number, and tmux lists panes in the order of the numbers. *)
(* A query is its length; per pane a number says how many of the           *)
(* characters that the user goes on to type its row's text matches.        *)
(***************************************************************************)
EXTENDS Naturals, Sequences, SequencesExt, FiniteSets, FiniteSetsExt, Selections

CONSTANTS
  Panes,       \* numbers of panes
  Keys,        \* picker_keys, numbered in the configured order
  Heights,     \* heights the terminal may have
  Places,      \* per pane: its workspaces, in label order, under a grouping by directory
  Texts,       \* per pane: how much of a query the texts of its row may match
  GroupBys,    \* picker_group_by: "session", or "workspace" for git-repo and cwd
  Recency,     \* the panes a snapshot may mark as most recently focused
  Hints,       \* the pane the picker may have been called from
  MaxQuery,    \* bound: characters of a query
  MaxUpdates,  \* bound: snapshots
  MaxPresses   \* bound: key presses

ASSUME PickerAssumption ==
  /\ Panes \subseteq Nat \ {0} /\ Keys \subseteq Nat \ {0} /\ Keys # {}
  /\ IsFiniteSet(Panes) /\ IsFiniteSet(Keys)
  /\ Heights \subseteq Nat
  /\ Places \in [Panes -> SUBSET Nat] /\ Texts \in [Panes -> SUBSET (0..MaxQuery)]
  /\ Recency \subseteq Panes \cup {0} /\ Hints \subseteq Panes \cup {0}
  /\ MaxQuery \in Nat /\ MaxUpdates \in Nat /\ MaxPresses \in Nat

VARIABLES
  groupBy,   \* picker_group_by
  state,     \* TuiState
  terminal,  \* the terminal's height now
  unseen,    \* a resize whose event is still to be handled
  frame,     \* what is on screen
  worker,    \* the subscription worker still sends events
  outcome,   \* Open, Closed, or the pane that was to be focused
  asked,     \* the user moved, paged or searched (history)
  shown,     \* the pane each key was last drawn beside (history)
  updates, presses

pickerVars == <<groupBy, state, terminal, unseen, frame, worker, outcome, asked, shown, updates, presses>>

Nobody == 0
NotSearching == MaxQuery + 1
NoKeys == [k \in Keys |-> Nobody]
NoFrame == [rows |-> <<>>, highlight |-> Nobody, keys |-> NoKeys, pageStart |-> 0]
Open == [kind |-> "open", pane |-> Nobody]
Closed == [kind |-> "closed", pane |-> Nobody]

------------------------------------------------------------------------------
(* Pages and the view.                                                     *)

FOOTER_LINE_COUNT == 2
PageSize(height) ==
  IF height < FOOTER_LINE_COUNT + 1 THEN 0
  ELSE Min({height - FOOTER_LINE_COUNT, Cardinality(Keys)})

LastNonEmptyPageStart(total, size) ==
  IF total = 0 \/ size = 0 THEN 0 ELSE ((total - 1) \div size) * size

Window(rows, start, size) ==
  SubSeq(rows, start + 1, Min({start + size, Len(rows)}))

Searching(s) == s.query # NotSearching

\* Without a query, or with an empty one, every pane is in the view.
View(s) ==
  IF Searching(s) THEN Those(s.panes, {p \in ToSet(s.panes) : s.matches[p] >= s.query})
  ELSE s.panes

\* The page as the handlers see it: page_start is clamped only past the end.
ShownStart(s) ==
  LET n == Len(View(s)) IN
  IF s.pageStart >= n THEN LastNonEmptyPageStart(n, s.pageSize) ELSE s.pageStart
Shown(s) == Window(View(s), ShownStart(s), s.pageSize)

Position(rows, p) == CHOOSE i \in DOMAIN rows : rows[i] = p
FirstOf(rows, ids) == SelectInSeq(rows, LAMBDA p : p \in ids)

------------------------------------------------------------------------------
(* replace_panes.                                                          *)

\* Grouped by workspace, the list is sorted by workspace, then in tmux's order.
PickerSortKeyBefore(workspace, p, q) ==
  workspace[p] < workspace[q] \/ (workspace[p] = workspace[q] /\ p < q)

\* Otherwise the session's order first, then the panes that are new, in tmux's order.
Merged(s, snapshot) ==
  LET before == {pair \in snapshot.ids \X snapshot.ids :
                   PickerSortKeyBefore(snapshot.workspace, pair[1], pair[2])}
  IN IF groupBy = "workspace" THEN Ordered(snapshot.ids, before)
     ELSE Those(s.panes, snapshot.ids)
          \o Ascending(snapshot.ids \ ToSet(s.panes))

\* The first row of the old page that is still listed goes to the top; when none
\* is, the page stays where it was, if there still is one.
ReanchorRows(page, new, start, size) ==
  LET i == FirstOf(page, ToSet(new))
  IN IF new = <<>> \/ size = 0 THEN 0
     ELSE IF i # 0 THEN Position(new, page[i]) - 1
     ELSE Min({start, LastNonEmptyPageStart(Len(new), size)})

Reanchor(old, new, start, size) ==
  ReanchorRows(Window(old, Min({start, Len(old)}), size), new, start, size)

ReanchorToPageBoundary(old, new, start, size) ==
  IF size = 0 THEN 0
  ELSE Min({(Reanchor(old, new, start, size) \div size) * size,
            LastNonEmptyPageStart(Len(new), size)})

\* A pane that is on the page before and after, in another row.
VisibleKeySlotsChanged(old, new, oldStart, newStart, size) ==
  LET before == Window(old, Min({oldStart, Len(old)}), size)
      after  == Window(new, Min({newStart, Len(new)}), size)
  IN \E i \in DOMAIN before, j \in DOMAIN after : before[i] = after[j] /\ i # j

ReplacePanes(s, snapshot) ==
  LET merged    == Merged(s, snapshot)
      reordered == merged # s.panes /\ Len(merged) = Len(s.panes)
                   /\ ToSet(merged) = ToSet(s.panes)
      start     == IF reordered
                   THEN ReanchorToPageBoundary(s.panes, merged, s.pageStart, s.pageSize)
                   ELSE Reanchor(s.panes, merged, s.pageStart, s.pageSize)
      moved     == VisibleKeySlotsChanged(s.panes, merged, s.pageStart, start, s.pageSize)
      listed    == [s EXCEPT !.panes = merged, !.matches = snapshot.matches,
                             !.recent = snapshot.recent, !.error = FALSE]
  IN IF Searching(s)
     THEN [listed EXCEPT !.pageStart =
                          ReanchorRows(Shown(s), View(listed), s.pageStart, s.pageSize)]
     ELSE [listed EXCEPT
             !.pageStart = start,
             !.resetKeys = @ \/ (moved /\ (reordered \/ groupBy # "session"))]

------------------------------------------------------------------------------
(* The frame.                                                              *)

\* Mutant: a row that leaves the page keeps its key.
HeldKeyTargets(targets, rows) ==
  LET kept == {k \in Keys : targets[k] # Nobody}
      free == Ascending(Keys \ kept)
      bare == Those(rows, ToSet(rows) \ {targets[k] : k \in kept})
  IN [k \in Keys |->
        IF k \in kept THEN targets[k]
        ELSE IF Position(free, k) <= Len(bare) THEN bare[Position(free, k)] ELSE Nobody]

\* Keys of rows that stay on the page stay; the other rows take the first free keys.
SynchronizeKeyTargets(targets, rows) ==
  LET kept == {k \in Keys : targets[k] \in ToSet(rows)}
      free == Ascending(Keys \ kept)
      bare == Those(rows, ToSet(rows) \ {targets[k] : k \in kept})
  IN [k \in Keys |->
        IF k \in kept THEN targets[k]
        ELSE IF Position(free, k) <= Len(bare) THEN bare[Position(free, k)] ELSE Nobody]

WithoutKeys(s) == [s EXCEPT !.keyTargets = NoKeys, !.retired = NoKeys]

\* Mutant: without the latch, whenever nothing is highlighted.
ReseedSelection(s, view) ==
  IF s.selected = Nobody /\ s.hint \in ToSet(view) THEN [s EXCEPT !.selected = s.hint] ELSE s

\* Once, when panes are first drawn: the caller's pane, else the one most recently
\* focused, is highlighted and its page is shown.
SeedInitialSelection(s, view) ==
  LET listed == {p \in {s.hint} : p \in ToSet(view)}
      goal   == IF listed # {} THEN s.hint ELSE s.recent
      latched == [s EXCEPT !.seeded = TRUE, !.hint = Nobody]
  IN IF s.seeded THEN s
     ELSE IF s.selected # Nobody \/ Searching(s) \/ goal \notin ToSet(view) THEN latched
     ELSE [latched EXCEPT !.selected = goal,
             !.pageStart = ((Position(view, goal) - 1) \div s.pageSize) * s.pageSize]

DrawnKeys(s, rows) ==
  LET targets == SynchronizeKeyTargets(IF s.resetKeys THEN NoKeys ELSE s.keyTargets, rows)
      gone(k) == targets[k] = Nobody /\ s.keyTargets[k] \notin ToSet(s.panes) \cup {Nobody}
      retired == [k \in Keys |-> IF targets[k] # Nobody THEN Nobody
                                 ELSE IF gone(k) THEN s.keyTargets[k]
                                 ELSE s.retired[k]]
  IN IF Searching(s) THEN [WithoutKeys(s) EXCEPT !.resetKeys = FALSE]
     ELSE [s EXCEPT !.keyTargets = targets, !.retired = retired, !.resetKeys = FALSE]

ReconcileSelection(s, rows) ==
  IF s.selected \in ToSet(rows) THEN s
  ELSE [s EXCEPT !.selected = IF rows = <<>> THEN Nobody ELSE rows[1]]

\* render_tui_frame_for_size_with_icons: the state after the frame is built.
Draw(before, height) ==
  LET s     == [before EXCEPT !.pageSize = PageSize(height)]
      empty == [WithoutKeys(s) EXCEPT !.selected = Nobody, !.query = NotSearching]
      view  == View(s)
      seeded == SeedInitialSelection([s EXCEPT !.pageStart = ShownStart(s)], view)
      rows  == Window(view, seeded.pageStart, s.pageSize)
  IN IF s.error \/ (s.pageSize = 0 /\ s.panes # <<>>) THEN empty
     ELSE IF s.panes = <<>> THEN [empty EXCEPT !.pageStart = 0]
     ELSE IF view = <<>> THEN [s EXCEPT !.pageStart = 0, !.selected = Nobody]
     ELSE ReconcileSelection(DrawnKeys(seeded, rows), rows)

\* What such a state puts on screen.
FrameOf(s) ==
  IF s.error \/ s.pageSize = 0 THEN NoFrame
  ELSE [rows |-> Shown(s), highlight |-> s.selected, keys |-> s.keyTargets,
        pageStart |-> s.pageStart]

\* A handler's result: drawn when it had an effect, otherwise only kept.
Redraw(s) ==
  /\ state' = Draw(s, terminal)
  /\ frame' = FrameOf(state')
  /\ shown' = [k \in Keys |-> IF frame'.keys[k] # Nobody THEN frame'.keys[k] ELSE shown[k]]
Continue(s) == state' = s /\ UNCHANGED <<frame, shown>>

------------------------------------------------------------------------------
(* The user.                                                               *)

CancelSeed(s) == [s EXCEPT !.seeded = TRUE, !.hint = Nobody]

Ready == outcome = Open /\ presses < MaxPresses
Press == presses' = presses + 1
             /\ UNCHANGED <<groupBy, terminal, unseen, worker, updates>>
Moved == asked' = TRUE /\ Press /\ UNCHANGED outcome

NextPageOf(s) ==
  LET n == Len(View(s)) IN
  IF s.pageSize = 0 \/ n = 0 \/ s.pageStart + s.pageSize >= n THEN s
  ELSE [WithoutKeys(s) EXCEPT
          !.pageStart = Min({s.pageStart + s.pageSize, LastNonEmptyPageStart(n, s.pageSize)})]

NextPage ==
  /\ Ready /\ Moved
  /\ LET s == CancelSeed(state)
         t == NextPageOf(s)
     IN IF t = s THEN Continue(s) ELSE Redraw(t)

PreviousPage ==
  /\ Ready /\ Moved
  /\ LET s == CancelSeed(state) IN
     IF s.pageSize = 0 \/ s.pageStart = 0 THEN Continue(s)
     ELSE Redraw([WithoutKeys(s) EXCEPT
                    !.pageStart = IF s.pageStart < s.pageSize THEN 0 ELSE @ - s.pageSize])

\* Below the last row of the page comes the row under it, not the next page's first.
SelectNext ==
  /\ Ready /\ Moved
  /\ LET s    == CancelSeed(state)
         view == View(s)
         rows == Shown(s)
         last == ShownStart(s) + Len(rows)
         t    == NextPageOf(s)
     IN IF rows = <<>> THEN Continue(s)
        ELSE IF s.selected \notin ToSet(rows) THEN Redraw([s EXCEPT !.selected = rows[1]])
        ELSE IF s.selected # Last(rows)
             THEN Redraw([s EXCEPT !.selected = rows[Position(rows, s.selected) + 1]])
        ELSE IF t = s \/ last >= Len(view) THEN Continue(t)
        ELSE Redraw([t EXCEPT !.selected = view[last + 1]])

\* Above the first row of the page comes the row over it, at the end of its page.
SelectPrevious ==
  /\ Ready /\ Moved
  /\ LET s    == CancelSeed(state)
         view == View(s)
         rows == Shown(s)
         top  == ShownStart(s)
     IN IF rows = <<>> THEN Continue(s)
        ELSE IF s.selected \notin ToSet(rows) THEN Redraw([s EXCEPT !.selected = rows[1]])
        ELSE IF s.selected # rows[1]
             THEN Redraw([s EXCEPT !.selected = rows[Position(rows, s.selected) - 1]])
        ELSE IF top = 0 THEN Continue(s)
        ELSE Redraw([WithoutKeys(s) EXCEPT
                       !.pageStart = IF top < s.pageSize THEN 0 ELSE top - s.pageSize,
                       !.selected = view[top]])

BeginSearch ==
  /\ Ready /\ ~Searching(state) /\ Moved
  /\ LET s == CancelSeed(state) IN
     IF s.panes = <<>> \/ s.error THEN Continue(s)
     ELSE Redraw([WithoutKeys(s) EXCEPT !.query = 0])

\* Esc: back to the full list, on the page of the highlighted pane.
CancelSearch ==
  /\ Ready /\ Searching(state) /\ Press /\ UNCHANGED <<outcome, asked>>
  /\ LET s == [WithoutKeys(state) EXCEPT !.query = NotSearching] IN
     Redraw([s EXCEPT !.pageStart =
               IF s.selected \in ToSet(s.panes) /\ s.pageSize > 0
               THEN ((Position(s.panes, s.selected) - 1) \div s.pageSize) * s.pageSize
               ELSE 0])

PushSearchChar ==
  /\ Ready /\ Searching(state) /\ state.query < MaxQuery /\ Press
  /\ Redraw([state EXCEPT !.query = @ + 1, !.pageStart = 0])
  /\ UNCHANGED <<outcome, asked>>

PopSearchChar ==
  /\ Ready /\ Searching(state) /\ Press
  /\ IF state.query = 0 THEN Continue(state)
     ELSE Redraw([state EXCEPT !.query = @ - 1, !.pageStart = 0])
  /\ UNCHANGED <<outcome, asked>>

\* Focusing closes the picker, whether tmux still has the pane or says it is gone.
FocusPaneAndClose(p) ==
  outcome' = [kind |-> "focused", pane |-> p] /\ UNCHANGED <<state, frame, shown>>

Enter ==
  /\ Ready /\ Press /\ UNCHANGED asked
  /\ IF state.selected = Nobody THEN UNCHANGED <<state, frame, shown, outcome>>
     ELSE FocusPaneAndClose(state.selected)

\* Outside search, a key of the list or one whose pane is gone.
Target(k) == IF state.keyTargets[k] # Nobody THEN state.keyTargets[k] ELSE state.retired[k]
Hotkey(k) ==
  /\ Ready /\ ~Searching(state) /\ Press /\ UNCHANGED asked
  /\ IF Target(k) = Nobody THEN UNCHANGED <<state, frame, shown, outcome>>
     ELSE FocusPaneAndClose(Target(k))

\* Esc outside search, Ctrl-C, or an input that cannot be read any more.
Close ==
  /\ Ready /\ Press /\ outcome' = Closed
  /\ UNCHANGED <<state, frame, shown, asked>>

------------------------------------------------------------------------------
(* The daemon and the terminal.                                            *)

FromWorker == outcome = Open /\ worker
Received == UNCHANGED <<groupBy, terminal, unseen, outcome, asked, presses>>

\* A snapshot without the panes that run no agent, unless all were asked for.
Snapshot(ids) ==
  /\ FromWorker /\ updates < MaxUpdates /\ updates' = updates + 1
  /\ \E workspace \in {w \in [ids -> UNION {Places[p] : p \in Panes}] :
                         \A p \in ids : w[p] \in Places[p]},
        matches \in {m \in [ids -> 0..MaxQuery] : \A p \in ids : m[p] \in Texts[p]},
        recent \in IF state.seeded THEN {Nobody} ELSE {Nobody} \cup (Recency \cap ids) :
       Redraw(ReplacePanes(state, [ids |-> ids, workspace |-> workspace,
                                   matches |-> matches, recent |-> recent]))
  /\ Received /\ UNCHANGED worker

\* Connecting, offline and shutdown change the footer only; after a shutdown, or offline
\* without a retry, the worker has ended.
ConnectionEvent(ended) ==
  /\ FromWorker /\ worker' = ~ended
  /\ Redraw(state)
  /\ Received /\ UNCHANGED updates

Fatal ==
  /\ FromWorker /\ worker' = FALSE
  /\ Redraw([WithoutKeys(state) EXCEPT
               !.panes = <<>>, !.matches = <<>>, !.pageStart = 0, !.selected = Nobody,
               !.query = NotSearching, !.error = TRUE])
  /\ Received /\ UNCHANGED updates

\* The terminal has its new size at once; the event comes when it comes.
ResizeTerminal(height) ==
  /\ outcome = Open /\ height # terminal /\ ~unseen
  /\ terminal' = height /\ unseen' = TRUE
  /\ UNCHANGED <<groupBy, state, frame, worker, outcome, asked, shown, updates, presses>>

SeeResize ==
  /\ outcome = Open /\ unseen /\ unseen' = FALSE
  /\ Redraw(state)
  /\ UNCHANGED <<groupBy, terminal, worker, outcome, asked, updates, presses>>

------------------------------------------------------------------------------
NewState(hint) ==
  [panes |-> <<>>, matches |-> <<>>, recent |-> Nobody, keyTargets |-> NoKeys,
   retired |-> NoKeys, error |-> FALSE, pageStart |-> 0, pageSize |-> 0, resetKeys |-> FALSE, selected |-> Nobody, query |-> NotSearching,
   hint |-> hint, seeded |-> FALSE]

PickerInit ==
  /\ groupBy \in GroupBys /\ terminal \in Heights /\ unseen = FALSE
  /\ \E hint \in Hints : state = Draw(NewState(hint), terminal)
  /\ frame = NoFrame /\ worker = TRUE /\ outcome = Open /\ asked = FALSE
  /\ shown = NoKeys
  /\ updates = 0 /\ presses = 0

ByUser ==
  \/ NextPage \/ PreviousPage \/ SelectNext \/ SelectPrevious
  \/ BeginSearch \/ CancelSearch \/ PushSearchChar \/ PopSearchChar
  \/ Enter \/ (\E k \in Keys : Hotkey(k)) \/ Close

ByOthers ==
  \/ (\E ids \in SUBSET Panes : Snapshot(ids))
  \/ (\E ended \in BOOLEAN : ConnectionEvent(ended)) \/ Fatal
  \/ (\E height \in Heights : ResizeTerminal(height)) \/ SeeResize

PickerNext == ByUser \/ ByOthers
PickerSpec == PickerInit /\ [][PickerNext]_pickerVars

------------------------------------------------------------------------------
(* Properties.                                                             *)

Rows == ToSet(frame.rows)
KeyOf(f, p) == {k \in Keys : f.keys[k] = p}
SameSize == state'.pageSize = state.pageSize
UserActs == presses' # presses

\* The state that the next key press meets is the one on screen: Enter focuses the
\* highlighted row, which is one of the rows drawn, and the arrows start from those rows.
\* (A handler that changes the state without a redraw, or a redraw that normalises it
\* otherwise than the handlers do, would break this.)
ActsOnWhatIsDrawn ==
  /\ state.selected = frame.highlight
  /\ frame.rows # <<>> => frame.highlight \in Rows
  /\ state.pageSize > 0 => Shown(state) = frame.rows

\* A key focuses the pane that it was last drawn beside, or nothing, also after that pane
\* has gone and the key is retired; and outside search each row has exactly one key.
KeysMeanWhatTheyShowed ==
  ~Searching(state) =>
    /\ \A k \in Keys : Target(k) \in {Nobody, shown[k]}
    /\ \A p \in Rows : \E k \in Keys : KeyOf(frame, p) = {k}

\* A key pressed just as a snapshot, a reconnect or a resize redraws the screen still means
\* the row it meant, while that row stays: its key changes only under a grouping by
\* workspace, when a row that stays has moved.
KeysStick ==
  [][~UserActs =>
       LET stay  == {p \in Rows : p \in ToSet(frame'.rows)}
           moved == \E p \in stay : Position(frame.rows, p) # Position(frame'.rows, p)
       IN groupBy = "session" \/ ~moved =>
            \A p \in stay : KeyOf(frame, p) \in {{}, KeyOf(frame', p)}]_pickerVars

\* The highlight is the user's: what the daemon or the terminal does takes it from a row
\* only when that row leaves the page, and then to the first row.  The caller's pane and
\* the one most recently focused are highlighted once, before the user has seen a row or
\* pressed a key, and never again after a blip.
HighlightIsTheUsers ==
  [][~UserActs =>
       \/ frame'.highlight \in {frame.highlight, Nobody}
       \/ frame.highlight \notin ToSet(frame'.rows) /\ frame'.highlight = frame'.rows[1]
       \/ ~asked /\ shown = NoKeys]_pickerVars

\* The arrows go through the whole view row by row, over the edges of pages that snapshots
\* have shifted; and neither "/" nor Esc after it loses the highlighted row.
ArrowsMoveByOne ==
  [][UserActs /\ SameSize /\ frame.highlight # Nobody =>
       LET view == View(state)
           at   == Position(view, frame.highlight)
       IN /\ SelectNext => frame'.highlight = view[Min({at + 1, Len(view)})]
          /\ SelectPrevious => frame'.highlight = view[IF at = 1 THEN 1 ELSE at - 1]
          /\ BeginSearch \/ CancelSearch => frame'.highlight = frame.highlight]_pickerVars

\* The screen can be relied on: what is drawn is what keys, Enter and arrows act on.
ScreenIsTrue == ActsOnWhatIsDrawn /\ KeysMeanWhatTheyShowed

\* The keys and the highlight are the user's: nothing that arrives while he reads the
\* screen moves them, and his arrows move the highlight by one row.
HandIsSteady == KeysStick /\ HighlightIsTheUsers /\ ArrowsMoveByOne
=============================================================================
