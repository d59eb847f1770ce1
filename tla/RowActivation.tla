---------------------------- MODULE RowActivation ----------------------------
(***************************************************************************)
(* The rows of the desktop's dock and what the user does with them: the    *)
(* open folders' sources with their live rows, the selection that the      *)
(* keyboard acts on (always of the first open folder, the owner), and the  *)
(* activation of a row, which focuses its pane through the source's        *)
(* runner. At most one activation is under way; one that fails shows its   *)
(* error, has the source's live client connect anew, and hides the rows of *)
(* that source until they come, because the row that failed is dead.       *)
(*                                                                         *)
(* An activation is a fiber: it waits for the focus, settles, and frees    *)
(* the slot in its clean-up. Closing a folder prunes: a running activation *)
(* of the closed source is interrupted without being waited for.           *)
(***************************************************************************)
EXTENDS Naturals, Sequences, SequencesExt, FiniteSets, FiniteSetsExt

CONSTANTS
  Folders,      \* the sources in the dock's order
  RowPanes,     \* numbers of panes, the same for every source, in the order of the rows
  Matching,     \* the panes whose row the filter matches
  Ranked,       \* the panes that carry a focus recency, more recent with the number
  Frames,       \* what a source may send: its rows and the focused pane, if it is one of them
  MaxClicks,    \* bound: activations
  MaxFrames,    \* bound: frames of rows
  MaxUpsets     \* bound: connections lost or made anew, and folders opened or closed

Sources == ToSet(Folders)
NoRow == 0
NoCall == 0

ASSUME RowAssumption ==
  /\ RowPanes \subseteq Nat \ {NoRow} /\ Matching \subseteq RowPanes /\ Ranked \subseteq RowPanes
  /\ \A f \in Frames : f.rows \subseteq RowPanes /\ f.focused \in f.rows \cup {NoRow}
  /\ IsInjective(Folders) /\ {MaxClicks, MaxFrames, MaxUpsets} \subseteq Nat

VARIABLES
  openFolders, \* sources whose folder is open
  live,        \* per source: its connection, its rows and the focused pane among them
  rearm,       \* sources whose supervisor has yet to see that it must connect anew
  calls,       \* the activation fibers
  slot,        \* `running`: the fiber that holds the slot
  activation,  \* PickerActivation: what the dock shows
  pruneDue,    \* the open folders changed and prune has not run yet
  filter,      \* a filter is typed in
  selection,   \* the selected pane, and the focused one last seen on screen
  dead,        \* the row a focus failed on, once its source connects anew (history)
  seen,        \* what has been focused on screen, whoever asks (history)
  clicks, frames, upsets      \* what is left of the bounds

left == <<clicks, frames, upsets>>
rowVars == <<openFolders, live, rearm, calls, slot, activation, pruneDue, filter, selection,
             dead, seen, left>>

Idle == [status |-> "idle", source |-> Folders[1], pane |-> NoRow]
Activating(call) == [status |-> "running", source |-> call.source, pane |-> call.pane]
Failed(call) == [status |-> "failed", source |-> call.source, pane |-> call.pane]
Live(conn, rows, focused) == [conn |-> conn, rows |-> rows, focused |-> focused]
Fresh == Live("connecting", {}, NoRow)
NotDead == <<Folders[1], NoRow>>

\* A fiber is known by how many activations were left when it began.
Call(id, source, pane, step, interrupted) ==
  [id |-> id, source |-> source, pane |-> pane, step |-> step, interrupted |-> interrupted]

SpendClick == clicks > 0 /\ clicks' = clicks - 1 /\ UNCHANGED <<frames, upsets>>
SpendFrame == frames > 0 /\ frames' = frames - 1 /\ UNCHANGED <<clicks, upsets>>
SpendUpset == upsets > 0 /\ upsets' = upsets - 1 /\ UNCHANGED <<clicks, frames>>

------------------------------------------------------------------------------
(* What the dock shows                                                     *)

Owner(folders) == IF folders = {} THEN "none" ELSE SelectSeq(Folders, LAMBDA s : s \in folders)[1]

\* A failed activation hides the rows of its source while that connects anew.
Masked(act, states, s) ==
  act.status = "failed" /\ act.source = s /\ states[s].conn = "connecting"

AllRows(act, states, s) == IF Masked(act, states, s) THEN {} ELSE states[s].rows

RowsStatus(act, states, s) ==
  IF Masked(act, states, s) \/ (states[s].rows = {} /\ states[s].conn = "connecting")
  THEN "loading" ELSE "ready"

Filtered(rows, filtering) == IF filtering THEN rows \cap Matching ELSE rows

\* The rows of the open folders that can be clicked.
Clickable(s) == IF s \in openFolders THEN Filtered(AllRows(activation, live, s), filter) ELSE {}

MruVisible(rows) == IF rows \cap Ranked = {} THEN Min(rows) ELSE Max(rows \cap Ranked)

\* The focused pane counts only while its row is listed.
FocusedPane(focused, rows) == IF focused \in rows THEN focused ELSE NoRow

\* What the selection keeper is given: the owner's view.
OwnerView(folders, states, act, filtering) ==
  IF folders = {} THEN [status |-> "ready", all |-> {}, rows |-> {}, focused |-> NoRow]
  ELSE LET s   == Owner(folders)
           all == AllRows(act, states, s)
       IN [status |-> RowsStatus(act, states, s), all |-> all, rows |-> Filtered(all, filtering),
           focused |-> FocusedPane(states[s].focused, all)]

------------------------------------------------------------------------------
(* The selection keeper                                                    *)

\* Mutant: the selection follows the focus whenever they differ.
FollowsAnyFocus(view, sel) == view.focused # sel.selected

\* A genuine move of the focus: from a pane that was seen focused to another.
Follows(view, sel) == sel.previous # NoRow /\ view.focused # sel.previous

\* reconcileSelection
Kept(view, sel) ==
  LET visible == view.focused \in view.rows IN
  CASE view.status = "loading" -> sel
    [] view.status # "loading" /\ view.all = {} -> [selected |-> NoRow, previous |-> NoRow]
    [] view.all # {} /\ view.rows = {} -> sel
    [] view.rows # {} /\ visible /\ Follows(view, sel) ->
         [selected |-> view.focused, previous |-> view.focused]
    [] view.rows # {} /\ ~(visible /\ Follows(view, sel)) ->
         [selected |-> IF sel.selected \in view.rows THEN sel.selected
                       ELSE IF visible THEN view.focused ELSE MruVisible(view.rows),
          previous |-> IF visible THEN view.focused ELSE sel.previous]

\* The effects of a render: the keeper, then the reset for a new owner, after which the
\* keeper runs once more only if the selection was there to be reset.
Effects(view, sel, handedOver) ==
  LET reset == [selected |-> NoRow, previous |-> NoRow] IN
  IF ~handedOver THEN Kept(view, sel)
  ELSE IF sel.selected = NoRow THEN reset ELSE Kept(view, reset)

\* The end of every step: the dock renders the new state. `chosen` is the selection the
\* step began with or made.
Render(chosen) ==
  LET view == OwnerView(openFolders', live', activation', filter')
      handedOver == Owner(openFolders') # Owner(openFolders)
      was == IF handedOver THEN NoRow ELSE seen
  IN /\ selection' = Effects(view, chosen, handedOver)
     /\ seen' = IF view.focused \in view.rows THEN view.focused ELSE was

------------------------------------------------------------------------------
(* The user                                                                *)

\* activate: nothing happens while another activation holds the slot.
Activate(s, p) ==
  IF slot # NoCall THEN UNCHANGED <<calls, slot, activation, dead, left>>
  ELSE LET call == Call(clicks, s, p, "focusing", FALSE)
       IN /\ SpendClick
          /\ calls' = calls \cup {call} /\ slot' = clicks
          /\ activation' = Activating(call) /\ dead' = NotDead

Chosen(p) == [selected |-> p, previous |-> selection.previous]

Click(s, p) ==
  /\ p \in Clickable(s)
  /\ Activate(s, p)
  /\ UNCHANGED <<openFolders, live, rearm, pruneDue, filter>>
  /\ Render(IF s = Owner(openFolders) THEN Chosen(p) ELSE selection)

\* A row's key acts on the owner's rows only, and on those on screen.
Hotkeyed(p) == Click(Owner(openFolders), p)

\* Enter, with nothing selected, takes the first row.
PressEnter ==
  LET rows == Clickable(Owner(openFolders))
      p    == IF selection.selected \in rows THEN selection.selected ELSE Min(rows)
  IN
  /\ rows # {}
  /\ Activate(Owner(openFolders), p)
  /\ UNCHANGED <<openFolders, live, rearm, pruneDue, filter>>
  /\ Render(selection)

\* Arrows, Home and End: the selection goes to a row of the owner's.
MoveSelection(p) ==
  /\ p \in Clickable(Owner(openFolders))
  /\ UNCHANGED <<openFolders, live, rearm, calls, slot, activation, pruneDue, filter, dead, left>>
  /\ Render(Chosen(p))

ToggleFilter ==
  /\ filter' = ~filter
  /\ UNCHANGED <<openFolders, live, rearm, calls, slot, activation, pruneDue, dead, left>>
  /\ Render(selection)

\* A folder's subscription lives as long as it is open; the dock's effects will prune.
ToggleFolder(s) ==
  /\ SpendUpset
  /\ openFolders' = IF s \in openFolders THEN openFolders \ {s} ELSE openFolders \cup {s}
  /\ live' = [live EXCEPT ![s] = Fresh] /\ rearm' = rearm \ {s}
  /\ pruneDue' = TRUE
  /\ dead' = IF dead[1] = s THEN NotDead ELSE dead
  /\ UNCHANGED <<calls, slot, activation, filter>>
  /\ Render(selection)

\* The header's button has every open source connect anew.
ReconnectAll ==
  /\ SpendUpset /\ rearm' = openFolders
  /\ UNCHANGED <<openFolders, live, calls, slot, activation, pruneDue, filter, dead>>
  /\ Render(selection)

------------------------------------------------------------------------------
(* The activation service                                                  *)

SlotAfter(call) == IF slot = call.id THEN NoCall ELSE slot

\* The clean-up of a fiber that ends frees the slot if it is still its own.
FinishCall(call, rest) == calls' = rest /\ slot' = SlotAfter(call)

FocusSucceeds(call) ==
  /\ call.step = "focusing" /\ ~call.interrupted
  /\ FinishCall(call, calls \ {call}) /\ activation' = Idle
  /\ UNCHANGED <<openFolders, live, rearm, pruneDue, filter, dead, left>>
  /\ Render(selection)

\* Whether the source is still open is asked when the focus settles.
FocusFails(call) ==
  /\ call.step = "focusing" /\ ~call.interrupted
  /\ IF call.source \in openFolders
     THEN /\ activation' = Failed(call)
          /\ calls' = (calls \ {call})
                        \cup {Call(call.id, call.source, call.pane, "reconnecting", FALSE)}
          /\ UNCHANGED slot
     ELSE activation' = Idle /\ FinishCall(call, calls \ {call})
  /\ UNCHANGED <<openFolders, live, rearm, pruneDue, filter, dead, left>>
  /\ Render(selection)

\* lc.reconnect, which does nothing for a source that is gone, and the fiber's end.
ReconnectSource(call) ==
  /\ call.step = "reconnecting"
  /\ FinishCall(call, calls \ {call})
  /\ rearm' = rearm \cup ({call.source} \cap openFolders)
  /\ UNCHANGED <<openFolders, live, activation, pruneDue, filter, dead, left>>
  /\ Render(selection)

\* An interrupted fiber runs its clean-up and nothing else.
CleanUp(call) ==
  /\ call.interrupted
  /\ FinishCall(call, calls \ {call})
  /\ UNCHANGED <<openFolders, live, rearm, activation, pruneDue, filter, dead, left>>
  /\ Render(selection)

InterruptRunning ==
  /\ calls' = {IF c.id = slot THEN Call(c.id, c.source, c.pane, c.step, TRUE) ELSE c : c \in calls}
  /\ slot' = NoCall

Prune ==
  /\ pruneDue /\ pruneDue' = FALSE
  /\ IF activation.status = "idle" \/ activation.source \in openFolders
     THEN UNCHANGED <<calls, slot, activation>>
     ELSE /\ activation' = Idle
          /\ IF activation.status = "running" THEN InterruptRunning ELSE UNCHANGED <<calls, slot>>
  /\ UNCHANGED <<openFolders, live, rearm, filter, dead, left>>
  /\ Render(selection)

\* Mutant: the failure is taken away whatever the source is doing.
LastsWhenever(act) == act.status = "failed"

\* A failure lasts for its time to live from the moment its source is not connecting.
Lasts(act) == act.status = "failed" /\ live[act.source].conn # "connecting"

ExpireFailure ==
  /\ Lasts(activation)
  /\ activation' = Idle
  /\ UNCHANGED <<openFolders, live, rearm, calls, slot, pruneDue, filter, dead, left>>
  /\ Render(selection)

------------------------------------------------------------------------------
(* The live clients                                                        *)

RowsArrive(s, f) ==
  /\ s \in openFolders /\ live[s].conn # "down"
  /\ SpendFrame
  /\ live' = [live EXCEPT ![s] = Live("online", f.rows, f.focused)]
  /\ dead' = IF dead[1] = s THEN NotDead ELSE dead
  /\ UNCHANGED <<openFolders, rearm, calls, slot, activation, pruneDue, filter>>
  /\ Render(selection)

\* The rows stay while a lost connection is made again, and go when there is no daemon.
LoseConnection(s) ==
  /\ s \in openFolders /\ live[s].conn # "down" /\ SpendUpset
  /\ \E conn \in {"connecting", "down"} :
       live' = [live EXCEPT ![s] = IF conn = "down" THEN Live(conn, {}, NoRow)
                                   ELSE Live(conn, live[s].rows, live[s].focused)]
  /\ UNCHANGED <<openFolders, rearm, calls, slot, activation, pruneDue, filter, dead>>
  /\ Render(selection)

\* The poll that waits for a daemon has found one.
TryAgain(s) ==
  /\ s \in openFolders /\ live[s].conn = "down"
  /\ live' = [live EXCEPT ![s] = Fresh]
  /\ UNCHANGED <<openFolders, rearm, calls, slot, activation, pruneDue, filter, dead, left>>
  /\ Render(selection)

\* The supervisor takes up a new target: the rows stay, and what is known to be dead
\* among them must not be offered any more.
Rearm(s) ==
  /\ s \in rearm /\ rearm' = rearm \ {s}
  /\ live' = [live EXCEPT ![s] = Live("connecting", live[s].rows, live[s].focused)]
  /\ dead' = IF activation.status = "failed" /\ activation.source = s
             THEN <<s, activation.pane>> ELSE dead
  /\ UNCHANGED <<openFolders, calls, slot, activation, pruneDue, filter, left>>
  /\ Render(selection)

------------------------------------------------------------------------------
RowsInit ==
  /\ openFolders \in (SUBSET Sources) \ {{}}
  /\ live = [s \in Sources |-> Fresh] /\ rearm = {}
  /\ calls = {} /\ slot = NoCall /\ activation = Idle /\ pruneDue = FALSE
  /\ filter = FALSE /\ selection = [selected |-> NoRow, previous |-> NoRow]
  /\ dead = NotDead /\ seen = NoRow
  /\ clicks = MaxClicks /\ frames = MaxFrames /\ upsets = MaxUpsets

ByTheUser ==
  \/ \E s \in Sources, p \in RowPanes : Click(s, p)
  \/ openFolders # {} /\ (PressEnter \/ \E p \in RowPanes : Hotkeyed(p) \/ MoveSelection(p))
  \/ ToggleFilter \/ ReconnectAll
  \/ \E s \in Sources : ToggleFolder(s)

ByTheServices ==
  \/ \E c \in calls : FocusSucceeds(c) \/ FocusFails(c) \/ ReconnectSource(c) \/ CleanUp(c)
  \/ Prune \/ ExpireFailure
  \/ \E s \in Sources : LoseConnection(s) \/ TryAgain(s) \/ Rearm(s)
  \/ \E s \in Sources, f \in Frames : RowsArrive(s, f)

RowsNext == ByTheUser \/ ByTheServices
RowsSpec == RowsInit /\ [][RowsNext]_rowVars

------------------------------------------------------------------------------
(* Properties                                                              *)

\* No call is under way behind the user's back: the focus that a click would have to wait
\* for is exactly the one the dock shows as running, so no folder that was closed leaves
\* every click of every other one without effect, and no two focuses compete.
CallIsOnScreen ==
  LET underWay == {c \in calls : ~c.interrupted} IN
  /\ {c.id : c \in underWay} = {slot} \ {NoCall}
  /\ {Activating(c) : c \in {d \in underWay : d.step = "focusing"}} =
       (IF activation.status = "running" THEN {activation} ELSE {})

\* A row that was found dead cannot be activated again before its source has sent rows,
\* however long that takes, unless the user has activated something else in between.
DeadRowsAreMasked == dead[2] \notin Clickable(dead[1])

\* The selection is the user's: while the owner stays, nothing that arrives moves it as
\* long as its row is on screen or hidden for a while, except a move of the focus from a
\* pane that was on screen to another that is.
PicksSurvive ==
  [][/\ ~ByTheUser /\ Owner(openFolders') = Owner(openFolders)
      /\ selection'.selected # selection.selected =>
       LET view == OwnerView(openFolders', live', activation', filter') IN
       /\ view.status = "ready"
       /\ \/ view.all = {}
          \/ view.rows # {} /\ selection.selected \notin view.rows
          \/ view.focused \in view.rows /\ view.focused # seen]_rowVars

\* The rows offered are live: a call in flight is of a row on screen, and a row known to
\* be dead is not offered.
RowsAreLive == CallIsOnScreen /\ DeadRowsAreMasked
=============================================================================
