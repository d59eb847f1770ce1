---------------------------- MODULE InterfaceProofs ----------------------------
(***************************************************************************)
(* Proofs about what the interfaces keep: the rows of the dock             *)
(* (RowActivation), the edits in the settings form and the storage of the  *)
(* two windows (DesktopWindows), the workspaces by which the terminal      *)
(* picker groups (WorkspaceCache) and its screen (TerminalPicker).  They   *)
(* hold for any sources, rows, frames, hosts, trees of directories, times  *)
(* to live, panes and keys, and any number of clicks, key presses and      *)
(* messages.                                                               *)
(***************************************************************************)
EXTENDS RowActivation, DesktopWindows, WorkspaceCache, TerminalPicker, SequenceTheorems,
        FiniteSetTheorems, WellFoundedInduction, TLAPS

------------------------------------------------------------------------------
(* The invariants                                                          *)

LiveStates == [conn : {"connecting", "online", "down"}, rows : SUBSET RowPanes,
               focused : RowPanes \cup {NoRow}]

RowsType ==
  /\ openFolders \subseteq Sources /\ live \in [Sources -> LiveStates] /\ rearm \subseteq openFolders
  /\ clicks \in Nat /\ frames \in Nat /\ upsets \in Nat /\ slot \in Nat

\* The fibers are told apart by their numbers, and the one that was not abandoned
\* holds the slot. Its focus is what the dock shows as running.
CallsInv ==
  /\ \A c \in calls : c.id \in Nat /\ c.id > clicks /\ c.interrupted \in BOOLEAN
  /\ \A c, d \in calls : c.id = d.id => c = d
  /\ \A c \in calls : ~c.interrupted => c.id = slot
  /\ slot # NoCall => \E c \in calls : c.id = slot /\ ~c.interrupted
  /\ \A c \in calls : ~c.interrupted /\ c.step = "focusing" => activation = Activating(c)
  /\ activation.status = "running" =>
       \E c \in calls : ~c.interrupted /\ c.step = "focusing"

\* The source of a dead row has no rows, or it is open and connecting and its failure
\* is shown: no step takes the failure away before rows come.
DeadInv ==
  dead[2] # NoRow =>
    /\ dead[1] \in openFolders
    /\ \/ live[dead[1]].rows = {}
       \/ /\ activation.status = "failed" /\ activation.source = dead[1]
          /\ live[dead[1]].conn = "connecting"

RowsInv == RowsType /\ CallsInv /\ DeadInv

------------------------------------------------------------------------------
(* What the invariants say                                                 *)

LEMMA SlotIsOnScreen ==
  ASSUME RowsType, CallsInv
  PROVE  CallIsOnScreen
<1> DEFINE underWay == {c \in calls : ~c.interrupted}
           focusing == {d \in underWay : d.step = "focusing"}
<1>1. {c.id : c \in underWay} = {slot} \ {NoCall}
  <2>1. \A c \in underWay : c.id = slot /\ c.id # NoCall
    BY DEF RowsType, CallsInv, NoCall
  <2>2. slot # NoCall => \E c \in underWay : c.id = slot
    BY DEF CallsInv
  <2> QED
    BY <2>1, <2>2
<1>2. {Activating(c) : c \in focusing} =
        (IF activation.status = "running" THEN {activation} ELSE {})
  <2>1. \A c \in focusing : Activating(c) = activation /\ activation.status = "running"
    BY DEF CallsInv, Activating
  <2>2. activation.status = "running" => focusing # {}
    BY DEF CallsInv
  <2> QED
    BY <2>1, <2>2
<1> QED
  BY <1>1, <1>2 DEF CallIsOnScreen

LEMMA DeadIsMasked ==
  ASSUME RowsType, DeadInv
  PROVE  DeadRowsAreMasked
<1>1. SUFFICES ASSUME dead[1] \in openFolders
               PROVE  dead[2] \notin Filtered(AllRows(activation, live, dead[1]), filter)
  BY DEF DeadRowsAreMasked, Clickable
<1>2. \A rows : Filtered(rows, filter) \subseteq rows
  BY DEF Filtered
<1>3. CASE dead[2] = NoRow
  <2>1. live[dead[1]].rows \subseteq RowPanes
    BY <1>1 DEF RowsType, LiveStates
  <2>2. NoRow \notin AllRows(activation, live, dead[1])
    BY <2>1, RowAssumption DEF AllRows
  <2> QED
    BY <1>2, <1>3, <2>2
<1>4. CASE dead[2] # NoRow
  <2>1. AllRows(activation, live, dead[1]) = {}
    BY <1>4 DEF DeadInv, AllRows, Masked
  <2> QED
    BY <1>2, <2>1
<1> QED
  BY <1>3, <1>4

------------------------------------------------------------------------------
(* The beginning                                                           *)

LEMMA RowsInvInit == RowsInit => RowsInv
<1> SUFFICES ASSUME RowsInit
             PROVE  RowsInv
  OBVIOUS
<1>1. Fresh \in LiveStates
  BY DEF Fresh, Live, LiveStates
<1>2. RowsType
  BY <1>1, RowAssumption DEF RowsInit, RowsType, NoCall
<1>3. CallsInv
  BY DEF RowsInit, CallsInv, Idle
<1>4. DeadInv
  BY DEF RowsInit, DeadInv, NotDead
<1> QED
  BY <1>2, <1>3, <1>4 DEF RowsInv

------------------------------------------------------------------------------
(* Steps: the fibers                                                       *)

LEMMA CallsAreKept ==
  ASSUME CallsInv, UNCHANGED <<calls, slot, activation, clicks>>
  PROVE  CallsInv'
BY DEF CallsInv, Activating

\* A new fiber finds only abandoned ones.
LEMMA ActivateCalls ==
  ASSUME RowsType, CallsInv, NEW s, NEW p, Activate(s, p)
  PROVE  CallsInv' /\ clicks' \in Nat /\ slot' \in Nat
<1>1. CASE slot # NoCall
  BY <1>1, CallsAreKept DEF Activate, left, RowsType
<1>2. CASE slot = NoCall
  <2> DEFINE call == Call(clicks, s, p, "focusing", FALSE)
  <2>1. /\ clicks \in Nat /\ clicks > 0 /\ clicks' = clicks - 1
        /\ calls' = calls \cup {call} /\ slot' = clicks /\ activation' = Activating(call)
    BY <1>2 DEF Activate, SpendClick, RowsType
  <2>2. call.id = clicks /\ call.interrupted = FALSE /\ call.step = "focusing"
    BY DEF Call
  <2>3. \A c \in calls : c.id \in Nat /\ c.id > clicks /\ c.interrupted = TRUE
    BY <1>2, <2>1 DEF CallsInv, NoCall
  <2>4. clicks' \in Nat /\ slot' \in Nat /\ clicks > clicks'
        /\ \A c \in calls : c.id > clicks'
    BY <2>1, <2>3
  <2> HIDE DEF call
  <2>5. \A c, d \in calls' : c.id = d.id => c = d
    <3>1. \A c \in calls : c.id # call.id
      BY <2>1, <2>2, <2>3
    <3> QED
      BY <2>1, <3>1 DEF CallsInv
  <2>6. /\ \A c \in calls' : c.id \in Nat /\ c.id > clicks' /\ c.interrupted \in BOOLEAN
        /\ \A c \in calls' : ~c.interrupted => c = call
        /\ call \in calls'
    BY <2>1, <2>2, <2>3, <2>4
  <2> QED
    BY <2>1, <2>2, <2>4, <2>5, <2>6 DEF CallsInv
<1> QED
  BY <1>1, <1>2

\* A fiber that ends frees the slot if and only if it held it.
LEMMA FinishedCalls ==
  ASSUME RowsType, CallsInv, NEW call \in calls, FinishCall(call, calls \ {call}),
         clicks' = clicks,
         activation' \in {activation, Idle},
         activation' # activation => ~call.interrupted /\ call.step = "focusing",
         call.interrupted \/ call.step # "focusing" \/ activation' = Idle
  PROVE  CallsInv' /\ slot' \in Nat
<1>1. calls' = calls \ {call} /\ slot' = IF slot = call.id THEN NoCall ELSE slot
  BY DEF FinishCall, SlotAfter
<1>2. slot' \in Nat
  BY <1>1 DEF RowsType, NoCall
<1>3. /\ \A c \in calls' : c.id \in Nat /\ c.id > clicks' /\ c.interrupted \in BOOLEAN
      /\ \A c, d \in calls' : c.id = d.id => c = d
  BY <1>1 DEF CallsInv
<1>4. \A c \in calls' : ~c.interrupted => c.id = slot'
  BY <1>1 DEF CallsInv
<1>5. slot' # NoCall => \E c \in calls' : c.id = slot' /\ ~c.interrupted
  BY <1>1 DEF CallsInv
<1>6. ASSUME NEW c \in calls', ~c.interrupted, c.step = "focusing"
      PROVE  activation' = Activating(c)
  <2>1. c \in calls /\ c # call /\ activation = Activating(c)
    BY <1>1, <1>6 DEF CallsInv
  <2>2. activation' = activation
    BY <1>6, <2>1 DEF CallsInv
  <2> QED
    BY <2>1, <2>2
<1>7. activation'.status = "running" => \E c \in calls' : ~c.interrupted /\ c.step = "focusing"
  <2>1. SUFFICES ASSUME activation'.status = "running"
                 PROVE  \E c \in calls' : ~c.interrupted /\ c.step = "focusing"
    OBVIOUS
  <2>2. activation' = activation /\ (call.interrupted \/ call.step # "focusing")
    BY <2>1 DEF Idle
  <2> QED
    BY <1>1, <2>1, <2>2 DEF CallsInv
<1> QED
  BY <1>2, <1>3, <1>4, <1>5, <1>6, <1>7 DEF CallsInv

LEMMA FocusFailsCalls ==
  ASSUME RowsType, CallsInv, NEW call \in calls, FocusFails(call)
  PROVE  CallsInv' /\ slot' \in Nat
<1>1. /\ call.step = "focusing" /\ ~call.interrupted /\ clicks' = clicks
  BY DEF FocusFails, left
<1>2. CASE call.source \notin openFolders
  <2>1. activation' = Idle /\ FinishCall(call, calls \ {call})
    BY <1>2 DEF FocusFails
  <2> QED
    BY <1>1, <2>1, FinishedCalls
<1>3. CASE call.source \in openFolders
  <2> DEFINE next == Call(call.id, call.source, call.pane, "reconnecting", FALSE)
  <2>1. /\ activation' = Failed(call) /\ slot' = slot
        /\ calls' = (calls \ {call}) \cup {next}
    BY <1>3 DEF FocusFails
  <2>2. next.id = call.id /\ next.interrupted = FALSE /\ next.step = "reconnecting"
    BY DEF Call
  <2>3. call.id = slot
    BY <1>1 DEF CallsInv
  <2> HIDE DEF next
  <2>4. \A c \in calls \ {call} : c.id # call.id
    BY DEF CallsInv
  <2>5. \A c \in calls \ {call} : c.interrupted = TRUE
    BY <2>3, <2>4 DEF CallsInv
  <2>6. activation'.status = "failed"
    BY <2>1 DEF Failed
  <2>7. /\ \A c \in calls' : c.id \in Nat /\ c.id > clicks' /\ c.interrupted \in BOOLEAN
        /\ \A c, d \in calls' : c.id = d.id => c = d
    <3>1. \A c \in calls : c.id \in Nat /\ c.id > clicks' /\ c.interrupted \in BOOLEAN
      BY <1>1 DEF CallsInv
    <3>2. next.id \in Nat /\ next.id > clicks' /\ next.interrupted \in BOOLEAN
      BY <2>2, <3>1
    <3>3. \A c, d \in calls : c.id = d.id => c = d
      BY DEF CallsInv
    <3> QED
      BY <2>1, <2>2, <2>4, <3>1, <3>2, <3>3
  <2>8. /\ \A c \in calls' : ~c.interrupted => c = next
        /\ next \in calls'
    BY <2>1, <2>5
  <2> QED
    BY <2>1, <2>2, <2>3, <2>6, <2>7, <2>8 DEF CallsInv, RowsType
<1> QED
  BY <1>2, <1>3

\* Pruning abandons the fiber of a closed source and frees the slot at once.
LEMMA PruneCalls ==
  ASSUME RowsType, CallsInv, Prune
  PROVE  CallsInv' /\ slot' \in Nat
<1>1. clicks' = clicks
  BY DEF Prune, left
<1>2. CASE activation.status = "idle" \/ activation.source \in openFolders
  BY <1>1, <1>2, CallsAreKept DEF Prune, RowsType
<1>3. CASE activation.status # "running" /\ UNCHANGED <<calls, slot>> /\ activation' = Idle
  BY <1>1, <1>3 DEF CallsInv, Activating, Idle, RowsType
<1>4. CASE activation.status = "running" /\ InterruptRunning /\ activation' = Idle
  <2> DEFINE Cut(c) == IF c.id = slot THEN Call(c.id, c.source, c.pane, c.step, TRUE) ELSE c
  <2>1. calls' = {Cut(c) : c \in calls} /\ slot' = NoCall
    BY <1>4 DEF InterruptRunning
  <2>2. \A c \in calls : Cut(c).id = c.id /\ Cut(c).interrupted = TRUE
    BY DEF CallsInv, Call
  <2> HIDE DEF Cut
  <2>3. \A c \in calls' : c.id \in Nat /\ c.id > clicks' /\ c.interrupted = TRUE
    BY <1>1, <2>1, <2>2 DEF CallsInv
  <2>4. \A c, d \in calls' : c.id = d.id => c = d
    BY <2>1, <2>2 DEF CallsInv
  <2> QED
    BY <1>4, <2>1, <2>3, <2>4 DEF CallsInv, Idle, NoCall
<1> QED
  BY <1>2, <1>3, <1>4 DEF Prune

------------------------------------------------------------------------------
(* Steps: the dead row                                                     *)

LEMMA DeadIsKept ==
  ASSUME DeadInv, UNCHANGED <<openFolders, live, dead>>,
         \/ activation' = activation
         \/ activation.status # "failed"
         \/ live[activation.source].conn # "connecting"
         \/ activation.source \notin openFolders
  PROVE  DeadInv'
<1>1. CASE activation' = activation
  BY <1>1 DEF DeadInv
<1>2. CASE dead[2] # NoRow /\ live[dead[1]].rows = {}
  BY <1>2 DEF DeadInv
<1>3. CASE dead[2] # NoRow /\ live[dead[1]].rows # {} /\ activation' # activation
  BY <1>3 DEF DeadInv
<1> QED
  BY <1>1, <1>2, <1>3 DEF DeadInv

LEMMA ActivateDead ==
  ASSUME DeadInv, NEW s, NEW p, Activate(s, p), UNCHANGED <<openFolders, live>>
  PROVE  DeadInv'
<1>1. CASE UNCHANGED <<dead, activation>>
  BY <1>1, DeadIsKept
<1>2. CASE dead' = NotDead
  <2>1. dead'[2] = NoRow
    BY <1>2 DEF NotDead
  <2> QED
    BY <2>1 DEF DeadInv
<1> QED
  BY <1>1, <1>2 DEF Activate

\* A focus that settles is the one that runs, so no failure is shown that it could hide.
LEMMA FocusDead ==
  ASSUME CallsInv, DeadInv, NEW call \in calls, FocusSucceeds(call) \/ FocusFails(call)
  PROVE  DeadInv'
<1>1. ~call.interrupted /\ call.step = "focusing"
  BY DEF FocusSucceeds, FocusFails
<1>2. activation.status = "running"
  BY <1>1 DEF CallsInv, Activating
<1>3. UNCHANGED <<openFolders, live, dead>>
  BY DEF FocusSucceeds, FocusFails
<1> QED
  BY <1>2, <1>3, DeadIsKept

LEMMA FolderDead ==
  ASSUME RowsType, DeadInv, NEW s \in Sources, ToggleFolder(s)
  PROVE  DeadInv'
<1>1. /\ live' = [live EXCEPT ![s] = Fresh]
      /\ openFolders' = IF s \in openFolders THEN openFolders \ {s} ELSE openFolders \cup {s}
      /\ dead' = (IF dead[1] = s THEN NotDead ELSE dead) /\ activation' = activation
  BY DEF ToggleFolder
<1>2. CASE dead[1] = s
  BY <1>1, <1>2 DEF DeadInv, NotDead
<1>3. CASE dead[1] # s
  <2>1. dead' = dead /\ (dead[1] \in openFolders => dead[1] \in openFolders')
        /\ (dead[1] \in openFolders => live'[dead[1]] = live[dead[1]])
    BY <1>1, <1>3 DEF RowsType
  <2> QED
    BY <1>1, <2>1 DEF DeadInv
<1> QED
  BY <1>2, <1>3

\* What a source's connection does to its own dead row.
LEMMA ConnectionDead ==
  ASSUME RowsType, DeadInv, NEW s \in openFolders,
         \/ \E f \in Frames : RowsArrive(s, f)
         \/ LoseConnection(s) \/ TryAgain(s)
  PROVE  DeadInv'
<1>0. openFolders' = openFolders /\ activation' = activation /\ s \in Sources
  BY DEF RowsArrive, LoseConnection, TryAgain, RowsType
<1>1. ASSUME NEW f \in Frames, RowsArrive(s, f)
      PROVE  DeadInv'
  <2>1. /\ live' = [live EXCEPT ![s] = Live("online", f.rows, f.focused)]
        /\ dead' = IF dead[1] = s THEN NotDead ELSE dead
    BY <1>1 DEF RowsArrive
  <2>2. dead[1] \in openFolders /\ dead[1] # s => live'[dead[1]] = live[dead[1]]
    BY <2>1 DEF RowsType
  <2> QED
    BY <1>0, <2>1, <2>2 DEF DeadInv, NotDead
<1>2. CASE LoseConnection(s)
  <2>1. PICK conn \in {"connecting", "down"} :
          live' = [live EXCEPT ![s] = IF conn = "down" THEN Live(conn, {}, NoRow)
                                      ELSE Live(conn, live[s].rows, live[s].focused)]
    BY <1>2 DEF LoseConnection
  <2>2. dead' = dead
    BY <1>2 DEF LoseConnection
  <2>3. /\ dead[1] \in openFolders /\ dead[1] # s => live'[dead[1]] = live[dead[1]]
        /\ live'[s].rows = {} \/ (live'[s].rows = live[s].rows /\ live'[s].conn = "connecting")
    BY <1>0, <2>1 DEF RowsType, Live
  <2> QED
    BY <1>0, <2>2, <2>3 DEF DeadInv
<1>3. CASE TryAgain(s)
  <2>1. live' = [live EXCEPT ![s] = Fresh] /\ dead' = dead
    BY <1>3 DEF TryAgain
  <2>2. /\ dead[1] \in openFolders /\ dead[1] # s => live'[dead[1]] = live[dead[1]]
        /\ live'[s].rows = {}
    BY <1>0, <2>1 DEF RowsType, Fresh, Live
  <2> QED
    BY <1>0, <2>1, <2>2 DEF DeadInv
<1> QED
  BY <1>1, <1>2, <1>3

\* The rows that stay while a source connects anew are hidden with their failure.
LEMMA RearmDead ==
  ASSUME RowsType, DeadInv, NEW s \in Sources, Rearm(s)
  PROVE  DeadInv'
<1>1. /\ live' = [live EXCEPT ![s] = Live("connecting", live[s].rows, live[s].focused)]
      /\ dead' = IF activation.status = "failed" /\ activation.source = s
                 THEN <<s, activation.pane>> ELSE dead
      /\ UNCHANGED <<openFolders, activation>> /\ s \in openFolders
  BY DEF Rearm, RowsType
<1>2. /\ dead[1] \in openFolders /\ dead[1] # s => live'[dead[1]] = live[dead[1]]
      /\ live'[s].rows = live[s].rows /\ live'[s].conn = "connecting"
  BY <1>1 DEF RowsType, Live
<1>3. CASE activation.status = "failed" /\ activation.source = s
  <2>1. dead'[1] = s
    BY <1>1, <1>3
  <2> QED
    BY <1>1, <1>2, <1>3, <2>1 DEF DeadInv
<1>4. CASE ~(activation.status = "failed" /\ activation.source = s)
  <2>1. dead' = dead
    BY <1>1, <1>4
  <2> QED
    BY <1>1, <1>2, <2>1 DEF DeadInv
<1> QED
  BY <1>3, <1>4

------------------------------------------------------------------------------
(* Steps: types                                                            *)

LEMMA TypeIsKept ==
  ASSUME RowsType, UNCHANGED <<openFolders, live>>, rearm' \subseteq openFolders,
         clicks' \in Nat, frames' \in Nat, upsets' \in Nat, slot' \in Nat
  PROVE  RowsType'
BY DEF RowsType

LEMMA LiveType ==
  ASSUME RowsType, NEW s \in Sources
  PROVE  /\ Fresh \in LiveStates
         /\ \A f \in Frames : Live("online", f.rows, f.focused) \in LiveStates
         /\ \A conn \in {"connecting", "down"} :
              /\ Live(conn, {}, NoRow) \in LiveStates
              /\ Live(conn, live[s].rows, live[s].focused) \in LiveStates
<1>1. \A f \in Frames : f.rows \subseteq RowPanes /\ f.focused \in RowPanes \cup {NoRow}
  BY RowAssumption
<1>2. live[s].rows \subseteq RowPanes /\ live[s].focused \in RowPanes \cup {NoRow}
  BY DEF RowsType, LiveStates
<1> QED
  BY <1>1, <1>2 DEF Fresh, Live, LiveStates

LEMMA SpendType ==
  ASSUME RowsType, SpendClick \/ SpendFrame \/ SpendUpset
  PROVE  clicks' \in Nat /\ frames' \in Nat /\ upsets' \in Nat
BY DEF RowsType, SpendClick, SpendFrame, SpendUpset

------------------------------------------------------------------------------
(* Steps: all of them                                                      *)

LEMMA QuietStep ==
  ASSUME RowsInv,
         UNCHANGED <<openFolders, live, calls, slot, activation, dead, clicks, frames>>,
         rearm' \subseteq openFolders, upsets' \in Nat
  PROVE  RowsInv'
BY TypeIsKept, CallsAreKept, DeadIsKept DEF RowsInv, RowsType

LEMMA ClickStep ==
  ASSUME RowsInv, NEW s, NEW p, Activate(s, p), UNCHANGED <<openFolders, live, rearm>>
  PROVE  RowsInv'
<1>1. RowsType /\ CallsInv /\ DeadInv
  BY DEF RowsInv
<1>2. CallsInv' /\ clicks' \in Nat /\ slot' \in Nat
  BY <1>1, ActivateCalls
<1>3. frames' = frames /\ upsets' = upsets
  BY DEF Activate, SpendClick, left
<1>4. RowsType'
  BY <1>1, <1>2, <1>3, TypeIsKept DEF RowsType
<1>5. DeadInv'
  BY <1>1, ActivateDead
<1> QED
  BY <1>2, <1>4, <1>5 DEF RowsInv

LEMMA UserStep ==
  ASSUME RowsInv, ByTheUser
  PROVE  RowsInv'
<1>0. RowsType /\ CallsInv /\ DeadInv
  BY DEF RowsInv
<1>1. ASSUME NEW s, NEW p, Click(s, p)
      PROVE  RowsInv'
  BY <1>1, ClickStep DEF Click
<1>2. CASE PressEnter
  <2>1. PICK p : Activate(Owner(openFolders), p)
    BY <1>2 DEF PressEnter
  <2> QED
    BY <1>2, <2>1, ClickStep DEF PressEnter
<1>3. ASSUME NEW p, MoveSelection(p)
      PROVE  RowsInv'
  BY <1>0, <1>3, QuietStep DEF MoveSelection, left, RowsType
<1>4. CASE ToggleFilter
  BY <1>0, <1>4, QuietStep DEF ToggleFilter, left, RowsType
<1>5. CASE ReconnectAll
  <2>1. upsets' \in Nat
    BY <1>0, <1>5, SpendType DEF ReconnectAll
  <2> QED
    BY <1>5, <2>1, QuietStep DEF ReconnectAll, SpendUpset
<1>6. ASSUME NEW s \in Sources, ToggleFolder(s)
      PROVE  RowsInv'
  <2>1. /\ UNCHANGED <<calls, slot, activation>> /\ SpendUpset
        /\ openFolders' = IF s \in openFolders THEN openFolders \ {s} ELSE openFolders \cup {s}
        /\ live' = [live EXCEPT ![s] = Fresh] /\ rearm' = rearm \ {s}
    BY <1>6 DEF ToggleFolder
  <2>2. upsets' \in Nat /\ clicks' = clicks /\ frames' = frames
    BY <1>0, <2>1, SpendType DEF SpendUpset
  <2>3. live' \in [Sources -> LiveStates]
    BY <1>0, <2>1, LiveType DEF RowsType
  <2>4. openFolders' \subseteq Sources /\ rearm' \subseteq openFolders'
    BY <1>0, <2>1 DEF RowsType
  <2>5. RowsType'
    BY <1>0, <2>1, <2>2, <2>3, <2>4 DEF RowsType
  <2> QED
    BY <1>0, <1>6, <2>1, <2>2, <2>5, CallsAreKept, FolderDead DEF RowsInv
<1> QED
  BY <1>1, <1>2, <1>3, <1>4, <1>5, <1>6 DEF ByTheUser, Hotkeyed

\* A focus that settles, a clean-up, a pruning or the end of a failure.
LEMMA ServiceStep ==
  ASSUME RowsInv, UNCHANGED <<openFolders, live, rearm, left>>, CallsInv', DeadInv', slot' \in Nat
  PROVE  RowsInv'
BY TypeIsKept DEF RowsInv, RowsType, left

LEMMA FiberStep ==
  ASSUME RowsInv, NEW c \in calls,
         FocusSucceeds(c) \/ FocusFails(c) \/ ReconnectSource(c) \/ CleanUp(c)
  PROVE  RowsInv'
<1>0. RowsType /\ CallsInv /\ DeadInv
  BY DEF RowsInv
<1>1. CASE FocusSucceeds(c)
  <2>1. CallsInv' /\ slot' \in Nat
    BY <1>0, <1>1, FinishedCalls DEF FocusSucceeds, left
  <2>2. DeadInv'
    BY <1>0, <1>1, FocusDead
  <2> QED
    BY <1>1, <2>1, <2>2, ServiceStep DEF FocusSucceeds
<1>2. CASE FocusFails(c)
  <2>1. CallsInv' /\ slot' \in Nat
    BY <1>0, <1>2, FocusFailsCalls
  <2>2. DeadInv'
    BY <1>0, <1>2, FocusDead
  <2> QED
    BY <1>2, <2>1, <2>2, ServiceStep DEF FocusFails
<1>3. CASE ReconnectSource(c)
  <2>1. c.step # "focusing"
    BY <1>3 DEF ReconnectSource
  <2>2. CallsInv' /\ slot' \in Nat
    BY <1>0, <1>3, <2>1, FinishedCalls DEF ReconnectSource, left
  <2>3. DeadInv'
    BY <1>0, <1>3, DeadIsKept DEF ReconnectSource
  <2>4. rearm' \subseteq openFolders
    BY <1>0, <1>3 DEF ReconnectSource, RowsType
  <2>5. RowsType'
    BY <1>0, <1>3, <2>2, <2>4, TypeIsKept DEF ReconnectSource, left, RowsType
  <2> QED
    BY <2>2, <2>3, <2>5 DEF RowsInv
<1>4. CASE CleanUp(c)
  <2>1. CallsInv' /\ slot' \in Nat
    BY <1>0, <1>4, FinishedCalls DEF CleanUp, left
  <2>2. DeadInv'
    BY <1>0, <1>4, DeadIsKept DEF CleanUp
  <2> QED
    BY <1>4, <2>1, <2>2, ServiceStep DEF CleanUp
<1> QED
  BY <1>1, <1>2, <1>3, <1>4

LEMMA OtherSteps ==
  ASSUME RowsInv, Prune \/ ExpireFailure
  PROVE  RowsInv'
<1>0. RowsType /\ CallsInv /\ DeadInv
  BY DEF RowsInv
<1>1. CASE Prune
  <2>1. CallsInv' /\ slot' \in Nat
    BY <1>0, <1>1, PruneCalls
  <2>2. DeadInv'
    BY <1>0, <1>1, DeadIsKept DEF Prune, Idle
  <2> QED
    BY <1>1, <2>1, <2>2, ServiceStep DEF Prune
<1>2. CASE ExpireFailure
  <2>1. activation.status = "failed" /\ activation' = Idle
    BY <1>2 DEF ExpireFailure, Lasts
  <2>2. UNCHANGED <<calls, slot, left>>
    BY <1>2 DEF ExpireFailure
  <2>3. CallsInv'
    BY <1>0, <2>1, <2>2 DEF CallsInv, Activating, Idle, left
  <2>4. DeadInv'
    BY <1>0, <1>2, DeadIsKept DEF ExpireFailure, Lasts
  <2> QED
    BY <1>0, <1>2, <2>3, <2>4, ServiceStep DEF ExpireFailure, RowsType
<1> QED
  BY <1>1, <1>2

LEMMA ConnectionStep ==
  ASSUME RowsInv, NEW s \in Sources,
         \/ \E f \in Frames : RowsArrive(s, f)
         \/ LoseConnection(s) \/ TryAgain(s) \/ Rearm(s)
  PROVE  RowsInv'
<1>0. RowsType /\ CallsInv /\ DeadInv
  BY DEF RowsInv
<1>1. UNCHANGED <<openFolders, calls, slot, activation, clicks>> /\ rearm' \subseteq rearm
  BY DEF RowsArrive, LoseConnection, TryAgain, Rearm, SpendFrame, SpendUpset, left
<1>2. frames' \in Nat /\ upsets' \in Nat
  BY <1>0, SpendType DEF RowsArrive, LoseConnection, TryAgain, Rearm, left, RowsType
<1>3. live' \in [Sources -> LiveStates]
  <2>1. \E standing \in LiveStates : live' = [live EXCEPT ![s] = standing]
    BY <1>0, LiveType DEF RowsArrive, LoseConnection, TryAgain, Rearm
  <2> QED
    BY <1>0, <2>1 DEF RowsType
<1>4. RowsType'
  BY <1>0, <1>1, <1>2, <1>3 DEF RowsType
<1>5. CallsInv'
  BY <1>0, <1>1, CallsAreKept
<1>6. DeadInv'
  BY <1>0, ConnectionDead, RearmDead DEF RowsArrive, LoseConnection, TryAgain
<1> QED
  BY <1>4, <1>5, <1>6 DEF RowsInv

LEMMA RowsInvStep == RowsInv /\ [RowsNext]_rowVars => RowsInv'
<1> SUFFICES ASSUME RowsInv, [RowsNext]_rowVars
             PROVE  RowsInv'
  OBVIOUS
<1>1. CASE UNCHANGED rowVars
  BY <1>1, QuietStep DEF rowVars, left, RowsInv, RowsType
<1>2. CASE ByTheUser
  BY <1>2, UserStep
<1>3. CASE ByTheServices
  BY <1>3, FiberStep, OtherSteps, ConnectionStep DEF ByTheServices
<1> QED
  BY <1>1, <1>2, <1>3 DEF RowsNext

LEMMA RowsInvHolds == RowsSpec => []RowsInv
BY RowsInvInit, RowsInvStep, PTL DEF RowsSpec

\* A call in flight is of the row on screen, however folders are closed under it and
\* whenever abandoned focuses end; and a row known to be dead is not offered, over any
\* number of lost connections, until its source sends rows.
THEOREM RowsStayLive == RowsSpec => []RowsAreLive
<1>1. RowsInv => RowsAreLive
  BY SlotIsOnScreen, DeadIsMasked DEF RowsInv, RowsAreLive
<1> QED
  BY <1>1, RowsInvHolds, PTL

------------------------------------------------------------------------------
(* The selection                                                           *)

\* A pane on screen is one of rows that are shown and not hidden.
LEMMA ViewOfTheOwner ==
  ASSUME NEW folders, NEW states, NEW act, NEW filtering
  PROVE  LET view == OwnerView(folders, states, act, filtering) IN
         /\ view.rows \subseteq view.all
         /\ view.all # {} => view.status = "ready"
         /\ view.status \in {"loading", "ready"}
<1> DEFINE s == Owner(folders)  all == AllRows(act, states, s)
<1>1. Filtered(all, filtering) \subseteq all
  BY DEF Filtered
<1>2. all # {} => RowsStatus(act, states, s) = "ready"
  BY DEF AllRows, RowsStatus
<1>3. CASE folders = {}
  <2>1. OwnerView(folders, states, act, filtering) =
          [status |-> "ready", all |-> {}, rows |-> {}, focused |-> NoRow]
    BY <1>3 DEF OwnerView
  <2> QED
    BY <2>1
<1>4. CASE folders # {}
  <2> DEFINE view == OwnerView(folders, states, act, filtering)
  <2>1. /\ view.status = RowsStatus(act, states, s) /\ view.all = all
        /\ view.rows = Filtered(all, filtering)
    BY <1>4 DEF OwnerView
  <2> HIDE DEF view, s, all
  <2>3. view.rows \subseteq view.all /\ (view.all # {} => view.status = "ready")
    BY <1>1, <1>2, <2>1
  <2>4. view.status \in {"loading", "ready"}
    BY <2>1 DEF RowsStatus
  <2> QED
    BY <2>3, <2>4 DEF view
<1> QED
  BY <1>3, <1>4

\* What the keeper does with a selection, of which it may remember the focused pane.
LEMMA KeeperKeeps ==
  ASSUME NEW view, NEW sel, view.rows \subseteq view.all,
         view.all # {} => view.status = "ready"
  PROVE  LET kept == Kept(view, sel) IN
         /\ IF view.focused \in view.rows THEN kept.previous = view.focused
            ELSE kept.previous \in {NoRow, sel.previous}
         /\ kept.selected # sel.selected =>
              /\ view.status # "loading"
              /\ \/ view.all = {}
                 \/ view.rows # {} /\ sel.selected \notin view.rows
                 \/ view.focused \in view.rows /\ sel.previous # NoRow
                      /\ view.focused # sel.previous
<1> DEFINE kept == Kept(view, sel)  visible == view.focused \in view.rows
<1>1. CASE view.status = "loading"
  <2>1. kept = sel /\ ~visible
    BY <1>1 DEF Kept
  <2> QED
    BY <2>1
<1>2. CASE view.status # "loading" /\ view.all = {}
  <2>1. kept = [selected |-> NoRow, previous |-> NoRow] /\ ~visible
    BY <1>2 DEF Kept
  <2> QED
    BY <1>2, <2>1
<1>3. CASE view.status # "loading" /\ view.all # {} /\ view.rows = {}
  <2>1. kept = sel /\ ~visible
    BY <1>3 DEF Kept
  <2> QED
    BY <2>1
<1>4. CASE view.status # "loading" /\ view.rows # {} /\ visible /\ Follows(view, sel)
  <2>1. kept = [selected |-> view.focused, previous |-> view.focused]
    BY <1>4 DEF Kept
  <2> QED
    BY <1>4, <2>1 DEF Follows
<1>5. CASE view.status # "loading" /\ view.rows # {} /\ ~(visible /\ Follows(view, sel))
  <2>1. kept = [selected |-> IF sel.selected \in view.rows THEN sel.selected
                             ELSE IF visible THEN view.focused ELSE MruVisible(view.rows),
                previous |-> IF visible THEN view.focused ELSE sel.previous]
    BY <1>5 DEF Kept
  <2> QED
    BY <1>5, <2>1
<1> QED
  BY <1>1, <1>2, <1>3, <1>4, <1>5

\* What the keeper remembers as focused is what was last seen so.
PreviousWasSeen == selection.previous \in {NoRow, seen}

LEMMA RenderRemembers ==
  ASSUME NEW chosen, Render(chosen), chosen.previous \in {NoRow, seen}
  PROVE  PreviousWasSeen'
<1>1. PICK view : view = OwnerView(openFolders', live', activation', filter')
  OBVIOUS
<1> DEFINE handedOver == Owner(openFolders') # Owner(openFolders)
           was == IF handedOver THEN NoRow ELSE seen
           reset == [selected |-> NoRow, previous |-> NoRow]
<1>2. /\ selection' = Effects(view, chosen, handedOver)
      /\ seen' = IF view.focused \in view.rows THEN view.focused ELSE was
  BY <1>1 DEF Render
<1>3. view.rows \subseteq view.all /\ (view.all # {} => view.status = "ready")
  BY <1>1, ViewOfTheOwner
<1>4. \A sel : IF view.focused \in view.rows THEN Kept(view, sel).previous = view.focused
               ELSE Kept(view, sel).previous \in {NoRow, sel.previous}
  BY <1>3, KeeperKeeps
<1>5. CASE ~handedOver
  <2>1. selection' = Kept(view, chosen) /\ was = seen
    BY <1>2, <1>5 DEF Effects
  <2> QED
    BY <1>2, <1>4, <2>1 DEF PreviousWasSeen
<1>6. CASE handedOver /\ chosen.selected = NoRow
  <2>1. selection' = reset
    BY <1>2, <1>6 DEF Effects
  <2> QED
    BY <2>1 DEF PreviousWasSeen
<1>7. CASE handedOver /\ chosen.selected # NoRow
  <2>1. selection' = Kept(view, reset) /\ reset.previous = NoRow
    BY <1>2, <1>7 DEF Effects
  <2> QED
    BY <1>2, <1>4, <2>1 DEF PreviousWasSeen
<1> QED
  BY <1>5, <1>6, <1>7

\* Every step ends in a render, of the selection as it was unless the user chose.
LEMMA ServicesRender ==
  ASSUME ByTheServices
  PROVE  Render(selection)
BY DEF ByTheServices, FocusSucceeds, FocusFails, ReconnectSource, CleanUp, Prune, ExpireFailure,
       LoseConnection, TryAgain, Rearm, RowsArrive

LEMMA StepsRender ==
  ASSUME RowsNext
  PROVE  \E chosen : Render(chosen) /\ chosen.previous = selection.previous
<1>1. \A p : Chosen(p).previous = selection.previous
  BY DEF Chosen
<1>2. ASSUME NEW s, NEW p, Click(s, p)
      PROVE  \E chosen : Render(chosen) /\ chosen.previous = selection.previous
  BY <1>1, <1>2 DEF Click
<1>3. CASE \E p \in RowPanes : MoveSelection(p)
  BY <1>1, <1>3 DEF MoveSelection
<1>4. CASE PressEnter \/ ToggleFilter \/ ReconnectAll \/ \E s \in Sources : ToggleFolder(s)
  BY <1>4 DEF PressEnter, ToggleFilter, ReconnectAll, ToggleFolder
<1>5. CASE ByTheServices
  BY <1>5, ServicesRender
<1> QED
  BY <1>2, <1>3, <1>4, <1>5 DEF RowsNext, ByTheUser, Hotkeyed

LEMMA PreviousHolds == RowsSpec => []PreviousWasSeen
<1>1. RowsInit => PreviousWasSeen
  BY DEF RowsInit, PreviousWasSeen
<1>2. PreviousWasSeen /\ [RowsNext]_rowVars => PreviousWasSeen'
  <2>1. CASE UNCHANGED rowVars
    BY <2>1 DEF rowVars, PreviousWasSeen
  <2>2. ASSUME PreviousWasSeen, RowsNext
        PROVE  PreviousWasSeen'
    BY <2>2, StepsRender, RenderRemembers DEF PreviousWasSeen
  <2> QED
    BY <2>1, <2>2
<1> QED
  BY <1>1, <1>2, PTL DEF RowsSpec

\* What the user picked stays picked, whatever arrives, unless its row is gone or the
\* focus really moved from one pane to another that is on screen.
THEOREM PicksAlwaysSurvive == RowsSpec => PicksSurvive
<1> DEFINE Picked == ~ByTheUser /\ Owner(openFolders') = Owner(openFolders)
                       /\ selection'.selected # selection.selected =>
                     LET view == OwnerView(openFolders', live', activation', filter') IN
                     /\ view.status = "ready"
                     /\ \/ view.all = {}
                        \/ view.rows # {} /\ selection.selected \notin view.rows
                        \/ view.focused \in view.rows /\ view.focused # seen
<1>1. PreviousWasSeen /\ [RowsNext]_rowVars => [Picked]_rowVars
  <2>1. SUFFICES ASSUME PreviousWasSeen, ByTheServices,
                        Owner(openFolders') = Owner(openFolders),
                        selection'.selected # selection.selected,
                        NEW view, view = OwnerView(openFolders', live', activation', filter')
                 PROVE  /\ view.status = "ready"
                        /\ \/ view.all = {}
                           \/ view.rows # {} /\ selection.selected \notin view.rows
                           \/ view.focused \in view.rows /\ view.focused # seen
    BY DEF RowsNext
  <2>2. selection' = Kept(view, selection)
    BY <2>1, ServicesRender DEF Render, Effects
  <2>3. view.rows \subseteq view.all /\ (view.all # {} => view.status = "ready")
    BY <2>1, ViewOfTheOwner
  <2>4. /\ view.status # "loading"
        /\ \/ view.all = {}
           \/ view.rows # {} /\ selection.selected \notin view.rows
           \/ view.focused \in view.rows /\ selection.previous # NoRow
                /\ view.focused # selection.previous
    BY <2>1, <2>2, <2>3, KeeperKeeps
  <2>5. view.status \in {"loading", "ready"}
    BY <2>1, ViewOfTheOwner
  <2> QED
    BY <2>1, <2>4, <2>5 DEF PreviousWasSeen
<1> QED
  BY <1>1, PreviousHolds, PTL DEF RowsSpec, PicksSurvive


------------------------------------------------------------------------------
(* The settings form                                                       *)

LEMMA CommandIsCounted ==
  ASSUME commands \in [dock : Nat, settings : Nat], Command("settings")
  PROVE  commands'.settings # commands.settings
BY DEF Command

LEMMA CommandsStayNumbers ==
  ASSUME commands \in [dock : Nat, settings : Nat], [Next]_vars
  PROVE  commands' \in [dock : Nat, settings : Nat]
<1>1. ASSUME NEW w \in {"dock", "settings"}, Command(w)
      PROVE  commands' \in [dock : Nat, settings : Nat]
  BY <1>1 DEF Command
<1>2. CASE commands' = commands
  BY <1>2
<1>3. \/ Command("dock") \/ Command("settings") \/ commands' = commands
  BY DEF Next, vars, shared, form, probe, spent, Typed, Launch,
     DockSelect, DockToggle, DockEnable, DockReorder, TypeInForm, ApplyForm, ResetForm,
     SelectCard, AddCard, DeleteCard, ReorderCards, ToggleCard, Focus, Hide, ReloadWhenClean,
     Commit, StoreThrows, HearProfiles, HearPreflight, Miss, DockHears,
     Configure, ProbeResolves, Emit, RecordDriverProbe, ProbeInBackground,
     BackgroundProbeResolves
<1> QED
  BY <1>1, <1>2, <1>3

\* What the dock does leaves the drafts alone.
LEMMA DockKeepsDrafts ==
  ASSUME NEW next, MutatesOrAdopts("dock", next) \/ Mutates("dock", next)
  PROVE  draft' = draft
BY DEF MutatesOrAdopts, Mutates, Begin, Reload, Adopt, form

LEMMA EditsStep ==
  ASSUME commands \in [dock : Nat, settings : Nat], [Next]_vars,
         IsDirty, draft' # draft, Free("settings")
  PROVE  focused /\ commands'.settings # commands.settings
<1>1. CASE Typed
  BY <1>1, CommandIsCounted DEF Typed
<1>2. CASE DockSelect \/ DockToggle \/ DockEnable \/ DockReorder
  BY <1>2, DockKeepsDrafts DEF DockSelect, DockToggle, DockEnable, DockReorder
<1>3. CASE Focus
  BY <1>3 DEF Focus
<1>4. CASE ReloadWhenClean
  BY <1>4 DEF ReloadWhenClean
<1>5. CASE \E w \in {"dock", "settings"} : Commit(w) \/ StoreThrows(w)
  BY <1>5 DEF Commit, StoreThrows, Adopt, form
<1>6. CASE HearProfiles
  BY <1>6 DEF HearProfiles, AdoptsSync
<1>7. CASE HearPreflight \/ Miss \/ DockHears
  BY <1>7 DEF HearPreflight, Miss, DockHears, Adopt, form
<1>8. CASE \/ Configure \/ ProbeResolves \/ Emit \/ RecordDriverProbe
           \/ ProbeInBackground \/ BackgroundProbeResolves \/ UNCHANGED vars
  BY <1>8
  DEF Configure, ProbeResolves, Emit, RecordDriverProbe, ProbeInBackground,
      BackgroundProbeResolves, vars, shared, form
<1>9. ASSUME \/ TypeInForm \/ ApplyForm \/ ResetForm \/ SelectCard \/ AddCard \/ DeleteCard
             \/ ReorderCards \/ ToggleCard \/ Hide
      PROVE  Typed
  BY <1>9
  DEF TypeInForm, ApplyForm, ResetForm, SelectCard, AddCard, DeleteCard, ReorderCards,
      ToggleCard, Hide
<1> QED
  BY <1>1, <1>2, <1>3, <1>4, <1>5, <1>6, <1>7, <1>8, <1>9 DEF Next

\* What the user has typed into the settings form is lost to no message, no probe, no
\* refocus and nothing that is done in the dock, for every set of sources and hosts and
\* every order of messages (useSettingsForm.ts and the reconcilers of Profiles.ts).
THEOREM EditsAlwaysSurvive == Spec => EditsSurviveTheDock
<1> DEFINE counted == commands \in [dock : Nat, settings : Nat]
           kept ==
             (IsDirty /\ draft' # draft) =>
               ((focused /\ commands'.settings # commands.settings) \/ ~Free("settings"))
<1>1. Init => counted
  BY DEF Init
<1>2. counted /\ [Next]_vars => [kept]_vars
  BY EditsStep
<1>3. counted /\ [Next]_vars => counted'
  BY CommandsStayNumbers
<1>4. Spec => [][kept]_vars
  BY <1>1, <1>2, <1>3, PTL DEF Spec
<1> QED
  BY <1>4 DEF EditsSurviveTheDock


------------------------------------------------------------------------------
(* Directories and those above them                                        *)

LEMMA UpOf ==
  ASSUME NEW d \in Dirs, NEW e \in Up(d)
  PROVE  e \in Seq(STRING) /\ Len(e) \in 0..Len(d) /\ e = SubSeq(d, 1, Len(e))
<1>1. PICK n \in 0..Len(d) : e = SubSeq(d, 1, n)
  BY DEF Up
<1>2. d \in Seq(STRING)
  BY WorkspaceAssumption
<1>3. Len(e) = n /\ e \in Seq(STRING)
  BY <1>1, <1>2, SubSeqProperties
<1> QED
  BY <1>1, <1>3

LEMMA UpContainsItself ==
  ASSUME NEW d \in Dirs
  PROVE  d \in Up(d)
<1>1. d \in Seq(STRING)
  BY WorkspaceAssumption
<1>2. d = SubSeq(d, 1, Len(d)) /\ Len(d) \in 0..Len(d)
  BY <1>1, SubSeqFull
<1> QED
  BY <1>2 DEF Up

\* What is above a directory on the way up is on the way up too.
LEMMA UpOfUp ==
  ASSUME NEW d \in Dirs, NEW e \in Up(d)
  PROVE  Up(e) = {f \in Up(d) : Len(f) <= Len(e)}
<1>1. /\ d \in Seq(STRING) /\ e \in Seq(STRING)
      /\ Len(e) \in 0..Len(d) /\ e = SubSeq(d, 1, Len(e))
  BY WorkspaceAssumption, UpOf
<1>2. \A n \in 0..Len(e) : SubSeq(e, 1, n) = SubSeq(d, 1, n)
  <2>1. SUFFICES ASSUME NEW n \in 0..Len(e)
                 PROVE  SubSeq(e, 1, n) = SubSeq(d, 1, n)
    OBVIOUS
  <2>2. CASE n = 0
    BY <1>1, <2>2, SubSeqEmpty
  <2>3. CASE n # 0
    <3>1. /\ 1 \in 1..Len(d) /\ Len(e) \in 1..Len(d)
          /\ 1 \in 1..(Len(e) - 1 + 1) /\ n \in 1..(Len(e) - 1 + 1)
      BY <1>1, <2>3
    <3>2. SubSeq(SubSeq(d, 1, Len(e)), 1, n) = SubSeq(d, 1 + 1 - 1, 1 + n - 1)
      BY <1>1, <3>1, SubSeqOfSubSeq
    <3> QED
      BY <1>1, <3>1, <3>2
  <2> QED
    BY <2>2, <2>3
<1>3. ASSUME NEW f \in Up(e)
      PROVE  f \in Up(d) /\ Len(f) <= Len(e)
  <2>1. PICK n \in 0..Len(e) : f = SubSeq(e, 1, n)
    BY DEF Up
  <2>2. f = SubSeq(d, 1, n) /\ n \in 0..Len(d)
    BY <1>1, <1>2, <2>1
  <2>3. f \in Up(d)
    BY <2>2 DEF Up
  <2>4. Len(f) = n
    BY <1>1, <2>1, SubSeqProperties
  <2> QED
    BY <2>3, <2>4, <1>1
<1>4. ASSUME NEW f \in Up(d), Len(f) <= Len(e)
      PROVE  f \in Up(e)
  <2>1. Len(f) \in 0..Len(e) /\ f = SubSeq(d, 1, Len(f))
    BY <1>1, <1>4, UpOf
  <2>2. f = SubSeq(e, 1, Len(f))
    BY <1>2, <2>1
  <2> QED
    BY <2>1, <2>2 DEF Up
<1> QED
  BY <1>3, <1>4

LEMMA LeastNatural ==
  ASSUME NEW T, T \subseteq Nat, T # {}
  PROVE  \E x \in T : \A y \in T : x <= y
<1> DEFINE R == OpToRel(<, Nat)
<1>1. IsWellFoundedOn(R, Nat)
  BY NatLessThanWellFounded
<1>2. \A x, y \in Nat : <<y, x>> \in R <=> y < x
  BY DEF OpToRel
<1> HIDE DEF R
<1>3. PICK x \in T : \A y \in T : ~ (<<y, x>> \in R)
  BY <1>1, WFMin
<1>4. \A y \in T : x \in Nat /\ y \in Nat /\ ~(y < x)
  BY <1>2, <1>3
<1>5. \A y \in T : x <= y
  BY <1>4
<1> QED
  BY <1>3, <1>5

\* Of some directories on the way up one is the deepest.
LEMMA DeepestIsOne ==
  ASSUME NEW d \in Dirs, NEW ds \in SUBSET Up(d), ds # {}
  PROVE  Deepest(ds) \in ds /\ \A e \in ds : Len(e) <= Len(Deepest(ds))
<1>1. \A e \in ds : Len(e) \in Nat /\ Len(d) \in Nat /\ Len(e) <= Len(d)
  <2>1. d \in Seq(STRING)
    BY WorkspaceAssumption
  <2> QED
    BY <2>1, UpOf
<1> DEFINE T == {Len(d) - Len(e) : e \in ds}
<1>2. T \subseteq Nat /\ T # {}
  BY <1>1
<1>3. PICK x \in T : \A y \in T : x <= y
  BY <1>2, LeastNatural
<1>4. PICK f \in ds : x = Len(d) - Len(f)
  BY <1>3
<1>5. ASSUME NEW e \in ds
      PROVE  Len(e) <= Len(f)
  <2>1. Len(d) - Len(f) <= Len(d) - Len(e)
    BY <1>3, <1>4
  <2> QED
    BY <1>1, <2>1
<1> QED
  BY <1>5 DEF Deepest

------------------------------------------------------------------------------
(* The invariant                                                           *)

AnyWorkspace == Workspaces \cup {Workspace("none", <<>>)}
Entries == [workspace : AnyWorkspace, age : 0..WORKSPACE_CACHE_TTL]

CacheType ==
  /\ grouping \in {"git-repo", "cwd"}
  /\ git \in [Dirs -> {"none", "repo", "worktree"}]
  /\ \A d \in Dirs : git[d] = "worktree" => d \in DOMAIN Common
  /\ entries \in [PanePlaces -> Entries] /\ ancestors \in [Dirs -> Entries]
  /\ since \in [PlacesAbove -> [Workspaces -> 0..WORKSPACE_CACHE_TTL]]

\* A usable entry is an answer that was given for its own place no longer ago than the
\* entry is old. For the entries kept on the way to a repository that holds of every
\* session.
Dated(e, q) ==
  Unexpired(e) => e.workspace \in Workspaces /\ since[q][e.workspace] <= e.age

CacheInv ==
  /\ CacheType
  /\ \A q \in PlacesAbove : since[q][Computed(q)] = 0
  /\ \A p \in PanePlaces : Dated(entries[p], <<p[1], p[2]>>)
  /\ \A q \in PlacesAbove : Dated(ancestors[q[2]], q)

LEMMA PlaceFacts ==
  /\ \A q \in PlacesAbove : /\ q = <<q[1], q[2]>> /\ q[2] \in Dirs
                            /\ Workspace("session", <<q[1]>>) \in Workspaces
  /\ \A p \in PanePlaces : p[2] \in Dirs /\ \A d \in Up(p[2]) : <<p[1], d>> \in PlacesAbove
  /\ \A p \in PanePlaces : <<p[1], p[2]>> \in PlacesAbove
<1>1. \A p \in PanePlaces : /\ p[2] \in Dirs /\ Up(p[2]) \subseteq Dirs /\ p[2] \in Up(p[2])
                            /\ Workspace("session", <<p[1]>>) \in Workspaces
  BY WorkspaceAssumption, UpContainsItself DEF Workspaces
<1>2. ASSUME NEW q \in PlacesAbove
      PROVE  /\ q = <<q[1], q[2]>> /\ q[2] \in Dirs
             /\ Workspace("session", <<q[1]>>) \in Workspaces
  <2>1. PICK p \in PanePlaces : q \in {<<p[1], d>> : d \in Up(p[2])}
    BY DEF PlacesAbove
  <2>2. PICK d \in Up(p[2]) : q = <<p[1], d>>
    BY <2>1
  <2> QED
    BY <1>1, <2>2
<1>3. \A p \in PanePlaces : \A d \in Up(p[2]) : <<p[1], d>> \in PlacesAbove
  BY DEF PlacesAbove
<1> QED
  BY <1>1, <1>2, <1>3

\* What the tree says of a place is a workspace.
LEMMA ComputedType ==
  ASSUME CacheType, NEW q, q[2] \in Dirs, Workspace("session", <<q[1]>>) \in Workspaces
  PROVE  Computed(q) \in Workspaces
<1>1. CASE grouping = "git-repo" /\ WithGit(q[2]) # {} /\ RepositoryAt(Holder(q[2])) # <<>>
  <2>1. Holder(q[2]) \in WithGit(q[2])
    BY <1>1, DeepestIsOne DEF Holder, WithGit
  <2>2. Holder(q[2]) \in Dirs
    BY <2>1, WorkspaceAssumption DEF WithGit
  <2>3. RepositoryAt(Holder(q[2])) \in Dirs \cup {Common[w] : w \in DOMAIN Common}
    BY <2>2 DEF RepositoryAt, CacheType
  <2> QED
    BY <1>1, <2>3 DEF Computed, Workspaces
<1>2. CASE ~(grouping = "git-repo" /\ WithGit(q[2]) # {} /\ RepositoryAt(Holder(q[2])) # <<>>)
  BY <1>2 DEF Computed, CwdWorkspace, SessionWorkspace, Workspaces
<1> QED
  BY <1>1, <1>2

\* A directory between a pane's and its repository's is of that repository.
LEMMA HolderOnTheWay ==
  ASSUME NEW d \in Dirs, WithGit(d) # {}, NEW e \in OnTheWay(d)
  PROVE  e \in Dirs /\ WithGit(e) # {} /\ Holder(e) = Holder(d)
<1>1. /\ Holder(d) \in WithGit(d)
      /\ \A f \in WithGit(d) : Len(f) <= Len(Holder(d))
  BY DeepestIsOne DEF Holder, WithGit
<1>2. e \in Up(d) /\ Len(Holder(d)) <= Len(e) /\ e \in Dirs
  <2>1. e \in Up(d) /\ Len(Holder(d)) <= Len(e)
    BY <1>1, UpOf DEF OnTheWay, WithGit
  <2> QED
    BY <2>1, WorkspaceAssumption
<1>3. Up(e) = {f \in Up(d) : Len(f) <= Len(e)}
  BY <1>2, UpOfUp
<1>4. Holder(d) \in WithGit(e) /\ WithGit(e) \subseteq WithGit(d)
  BY <1>1, <1>2, <1>3 DEF WithGit
<1>5. /\ Holder(e) \in WithGit(e)
      /\ \A f \in WithGit(e) : Len(f) <= Len(Holder(e))
  BY <1>2, <1>4, DeepestIsOne DEF Holder, WithGit
<1>6. Holder(e) \in Up(d) /\ Holder(d) \in Up(d)
  BY <1>1, <1>4, <1>5 DEF WithGit
<1>7. Len(Holder(e)) \in Nat /\ Len(Holder(d)) \in Nat /\ Len(d) \in Nat
  <2>1. d \in Seq(STRING)
    BY WorkspaceAssumption
  <2> QED
    BY <1>6, <2>1, UpOf
<1>8. Len(Holder(e)) <= Len(Holder(d)) /\ Len(Holder(d)) <= Len(Holder(e))
  BY <1>1, <1>4, <1>5
<1>9. Len(Holder(e)) = Len(Holder(d))
  BY <1>7, <1>8
<1>10. Holder(e) = SubSeq(d, 1, Len(Holder(e))) /\ Holder(d) = SubSeq(d, 1, Len(Holder(d)))
  BY <1>6, UpOf
<1> QED
  BY <1>2, <1>4, <1>9, <1>10

------------------------------------------------------------------------------
(* The steps                                                               *)

LEMMA NoEntryFacts ==
  /\ NoEntry \in Entries
  /\ \A q : Dated(NoEntry, q)
<1>1. ~Unexpired(NoEntry)
  BY WorkspaceAssumption DEF NoEntry, Entry, Unexpired
<1> QED
  BY <1>1, WorkspaceAssumption DEF NoEntry, Entry, Entries, AnyWorkspace, Dated

LEMMA CacheInit == WorkspaceInit => CacheInv
<1> SUFFICES ASSUME WorkspaceInit
             PROVE  CacheInv
  OBVIOUS
<1>1. CacheType
  <2>1. entries \in [PanePlaces -> Entries] /\ ancestors \in [Dirs -> Entries]
    BY NoEntryFacts DEF WorkspaceInit
  <2>2. since \in [PlacesAbove -> [Workspaces -> 0..WORKSPACE_CACHE_TTL]]
    BY WorkspaceAssumption DEF WorkspaceInit
  <2> QED
    BY <2>1, <2>2 DEF WorkspaceInit, CacheType
<1>2. \A q \in PlacesAbove : Computed(q) \in Workspaces
  BY <1>1, PlaceFacts, ComputedType
<1>3. \A q \in PlacesAbove : since[q][Computed(q)] = 0
  BY <1>2 DEF WorkspaceInit
<1>4. \A p \in PanePlaces : Dated(entries[p], <<p[1], p[2]>>)
  BY NoEntryFacts DEF WorkspaceInit
<1>5. \A q \in PlacesAbove : Dated(ancestors[q[2]], q)
  BY NoEntryFacts, PlaceFacts DEF WorkspaceInit
<1> QED
  BY <1>1, <1>3, <1>4, <1>5 DEF CacheInv

LEMMA ComputedIsOfItsPlace ==
  ASSUME NEW p
  PROVE  Computed(<<p[1], p[2]>>) = Computed(p)
<1> DEFINE q == <<p[1], p[2]>>
<1>1. q[1] = p[1] /\ q[2] = p[2]
  OBVIOUS
<1> HIDE DEF q
<1> QED
  BY <1>1 DEF Computed, q

\* What is found for a pane is what the tree says of every directory on the way.
LEMMA AskStep ==
  ASSUME CacheInv, NEW p \in PanePlaces, Ask(p)
  PROVE  CacheInv'
<1> PICK found : found = Entry(Computed(p), 0)
  OBVIOUS
<1>0. CacheType
  BY DEF CacheInv
<1>1. /\ entries' = [entries EXCEPT ![p] = found]
      /\ ancestors' = IF found.workspace.source # "git-repo" THEN ancestors
                      ELSE [e \in Dirs |-> IF e \in OnTheWay(p[2]) THEN found ELSE ancestors[e]]
      /\ UNCHANGED <<grouping, git, since>>
  BY DEF Ask
<1>2. p[2] \in Dirs /\ <<p[1], p[2]>> \in PlacesAbove
  BY PlaceFacts
<1>3. Computed(p) \in Workspaces
  <2>1. Workspace("session", <<p[1]>>) \in Workspaces
    BY DEF Workspaces
  <2> QED
    BY <1>0, <1>2, <2>1, ComputedType
<1>4. found \in Entries /\ found.workspace = Computed(p) /\ found.age = 0
  BY <1>3, WorkspaceAssumption DEF Entry, Entries, AnyWorkspace
<1>5. CacheType'
  BY <1>0, <1>1, <1>4 DEF CacheType
<1>6. ASSUME NEW q \in PlacesAbove, Computed(q) = Computed(p)
      PROVE  found.workspace \in Workspaces /\ since'[q][found.workspace] <= found.age
  <2>1. since'[q][Computed(p)] = 0
    BY <1>1, <1>6 DEF CacheInv
  <2>2. found.workspace \in Workspaces /\ since'[q][found.workspace] = 0 /\ found.age = 0
    BY <1>3, <1>4, <2>1
  <2> QED
    BY <2>2
<1>7. \A q \in PlacesAbove : (since[q][Computed(q)] = 0)'
  BY <1>1 DEF CacheInv, Computed, WithGit, RepositoryAt, Holder
<1>8. ASSUME NEW r \in PanePlaces
      PROVE  Dated(entries[r], <<r[1], r[2]>>)'
  <2>1. CASE r = p
    <3>1. entries'[r] = found
      BY <1>0, <1>1, <2>1 DEF CacheType
    <3>2. Computed(<<p[1], p[2]>>) = Computed(p)
      BY ComputedIsOfItsPlace
    <3> QED
      BY <1>2, <1>6, <2>1, <3>1, <3>2 DEF Dated
  <2>2. CASE r # p
    BY <1>0, <1>1, <2>2 DEF CacheInv, CacheType, Dated
  <2> QED
    BY <2>1, <2>2
<1>9. ASSUME NEW q \in PlacesAbove
      PROVE  Dated(ancestors[q[2]], q)'
  <2>0. q[2] \in Dirs /\ Dated(ancestors[q[2]], q)
    BY PlaceFacts DEF CacheInv
  <2>1. CASE found.workspace.source # "git-repo"
    BY <1>1, <2>0, <2>1 DEF Dated
  <2>2. CASE found.workspace.source = "git-repo" /\ q[2] \notin OnTheWay(p[2])
    BY <1>1, <2>0, <2>2 DEF Dated
  <2>3. CASE found.workspace.source = "git-repo" /\ q[2] \in OnTheWay(p[2])
    <3>1. /\ grouping = "git-repo" /\ WithGit(p[2]) # {}
          /\ RepositoryAt(Holder(p[2])) # <<>>
          /\ Computed(p) = Workspace("git-repo", RepositoryAt(Holder(p[2])))
      BY <1>4, <2>3 DEF Computed, CwdWorkspace, SessionWorkspace, Workspace
    <3>2. WithGit(q[2]) # {} /\ Holder(q[2]) = Holder(p[2])
      BY <1>2, <2>3, <3>1, HolderOnTheWay
    <3>3. Computed(q) = Computed(p)
      BY <3>1, <3>2 DEF Computed
    <3>4. ancestors'[q[2]] = found
      BY <1>1, <2>0, <2>3
    <3> QED
      BY <1>6, <3>3, <3>4 DEF Dated
  <2> QED
    BY <2>1, <2>2, <2>3
<1> QED
  BY <1>5, <1>7, <1>8, <1>9 DEF CacheInv

LEMMA ClearStep ==
  ASSUME CacheInv, Clear
  PROVE  CacheInv'
<1>1. /\ entries' = [p \in PanePlaces |-> NoEntry] /\ ancestors' = [d \in Dirs |-> NoEntry]
      /\ UNCHANGED <<grouping, git, since>>
  BY DEF Clear
<1>2. CacheType'
  BY <1>1, NoEntryFacts DEF CacheInv, CacheType
<1>3. \A q \in PlacesAbove : (since[q][Computed(q)] = 0)'
  BY <1>1 DEF CacheInv, Computed, WithGit, RepositoryAt, Holder
<1>4. \A p \in PanePlaces : Dated(entries[p], <<p[1], p[2]>>)'
  BY <1>1, NoEntryFacts DEF Dated
<1>5. \A q \in PlacesAbove : Dated(ancestors[q[2]], q)'
  BY <1>1, NoEntryFacts, PlaceFacts DEF Dated
<1> QED
  BY <1>2, <1>3, <1>4, <1>5 DEF CacheInv

LEMMA ComputedTypes == CacheType => \A q \in PlacesAbove : Computed(q) \in Workspaces
BY PlaceFacts, ComputedType

LEMMA ChangeTreeStep ==
  ASSUME CacheInv, NEW d \in Dirs, ChangeTree(d)
  PROVE  CacheInv'
<1>0. CacheType
  BY DEF CacheInv
<1>1. PICK kind \in {"none", "repo"} \cup (IF d \in DOMAIN Common THEN {"worktree"} ELSE {}) :
        git' = [git EXCEPT ![d] = kind]
  BY DEF ChangeTree
<1>2. UNCHANGED <<grouping, entries, ancestors>>
  BY DEF ChangeTree
<1>3. PICK now : now = [q \in PlacesAbove |-> Computed(q)']
  OBVIOUS
<1>4. since' = [q \in PlacesAbove |-> [since[q] EXCEPT ![now[q]] = 0]]
  BY <1>3 DEF ChangeTree
<1>5. since' \in [PlacesAbove -> [Workspaces -> 0..WORKSPACE_CACHE_TTL]]
  <2>1. \A q \in PlacesAbove : [since[q] EXCEPT ![now[q]] = 0]
                                 \in [Workspaces -> 0..WORKSPACE_CACHE_TTL]
    <3>1. 0 \in 0..WORKSPACE_CACHE_TTL
      BY WorkspaceAssumption
    <3> QED
      BY <1>0, <3>1 DEF CacheType
  <2> QED
    BY <1>4, <2>1
<1>6. CacheType'
  BY <1>0, <1>1, <1>2, <1>5 DEF CacheType
<1>7. \A q \in PlacesAbove : Computed(q)' \in Workspaces
  <2>1. (CacheType => \A q \in PlacesAbove : Computed(q) \in Workspaces)'
    BY ComputedTypes, PTL
  <2> QED
    BY <1>6, <2>1
<1>8. \A q \in PlacesAbove : (since[q][Computed(q)] = 0)'
  <2>1. \A q \in PlacesAbove : since'[q][now[q]] = 0
    BY <1>0, <1>3, <1>4, <1>7 DEF CacheType
  <2> QED
    BY <1>3, <2>1
<1>9. \A q \in PlacesAbove : \A w \in Workspaces : since'[q][w] \in {0, since[q][w]}
  BY <1>0, <1>4 DEF CacheType
<1>10. ASSUME NEW e \in Entries, NEW q \in PlacesAbove, Dated(e, q)
       PROVE  Unexpired(e) => e.workspace \in Workspaces /\ since'[q][e.workspace] <= e.age
  <2>1. CASE Unexpired(e)
    <3>1. e.workspace \in Workspaces /\ since[q][e.workspace] <= e.age
      BY <1>10, <2>1 DEF Dated
    <3>2. e.age \in Nat
      BY DEF Entries
    <3> QED
      BY <1>9, <3>1, <3>2
  <2> QED
    BY <2>1
<1>11. \A p \in PanePlaces : Dated(entries[p], <<p[1], p[2]>>)'
  BY <1>0, <1>2, <1>10, PlaceFacts DEF CacheInv, CacheType, Dated, Unexpired
<1>12. \A q \in PlacesAbove : Dated(ancestors[q[2]], q)'
  BY <1>0, <1>2, <1>10, PlaceFacts DEF CacheInv, CacheType, Dated, Unexpired
<1> QED
  BY <1>6, <1>8, <1>11, <1>12 DEF CacheInv

\* Answers and entries grow older together.
LEMMA TickTreeStep ==
  ASSUME CacheInv, TickTree
  PROVE  CacheInv'
<1>0. CacheType /\ WORKSPACE_CACHE_TTL \in Nat
  BY WorkspaceAssumption DEF CacheInv
<1> DEFINE Older1(e) == Entry(e.workspace, Older(e.age))
<1>1. /\ entries' = [p \in PanePlaces |-> Older1(entries[p])]
      /\ ancestors' = [d \in Dirs |-> Older1(ancestors[d])]
      /\ UNCHANGED <<grouping, git>>
  BY <1>0 DEF TickTree, Aged, CacheType
<1>2. since' = [q \in PlacesAbove |->
                  [w \in Workspaces |-> IF w = Computed(q) THEN 0 ELSE Older(since[q][w])]]
  BY DEF TickTree
<1>3. \A n \in 0..WORKSPACE_CACHE_TTL : /\ Older(n) \in 0..WORKSPACE_CACHE_TTL
                                        /\ n < WORKSPACE_CACHE_TTL => Older(n) = n + 1
                                        /\ Older(n) < WORKSPACE_CACHE_TTL => n < WORKSPACE_CACHE_TTL
  BY <1>0 DEF Older
<1>4. \A e \in Entries : Older1(e) \in Entries
  BY <1>3 DEF Entries, Entry
<1>5. since' \in [PlacesAbove -> [Workspaces -> 0..WORKSPACE_CACHE_TTL]]
  BY <1>0, <1>2, <1>3 DEF CacheType
<1>6. CacheType'
  BY <1>0, <1>1, <1>4, <1>5 DEF CacheType
<1>7. \A q \in PlacesAbove : (since[q][Computed(q)] = 0)'
  <2>1. \A q \in PlacesAbove : Computed(q) \in Workspaces
    BY <1>0, ComputedTypes
  <2>2. \A q \in PlacesAbove : since'[q][Computed(q)] = 0
    BY <1>2, <2>1
  <2>3. \A q \in PlacesAbove : Computed(q)' = Computed(q)
    BY <1>1 DEF Computed, WithGit, RepositoryAt, Holder
  <2> QED
    BY <2>2, <2>3
<1>8. ASSUME NEW e \in Entries, NEW q \in PlacesAbove, Dated(e, q), Unexpired(Older1(e))
      PROVE  /\ Older1(e).workspace \in Workspaces
             /\ since'[q][Older1(e).workspace] <= Older1(e).age
  <2>1. Older1(e).workspace = e.workspace /\ Older1(e).age = Older(e.age)
    BY DEF Entry
  <2>2. e.age \in 0..WORKSPACE_CACHE_TTL /\ e.age < WORKSPACE_CACHE_TTL
    BY <1>3, <1>8, <2>1 DEF Entries, Unexpired
  <2>3. e.workspace \in Workspaces /\ since[q][e.workspace] <= e.age
    BY <1>8, <2>2 DEF Dated, Unexpired
  <2>4. since[q][e.workspace] \in 0..WORKSPACE_CACHE_TTL
    BY <1>0, <2>3 DEF CacheType
  <2>5. since'[q][e.workspace] \in {0, since[q][e.workspace] + 1}
    <3>1. since[q][e.workspace] < WORKSPACE_CACHE_TTL
      BY <1>0, <2>2, <2>3, <2>4
    <3> QED
      BY <1>2, <1>3, <2>3, <2>4, <3>1
  <2>6. Older(e.age) = e.age + 1
    BY <1>3, <2>2
  <2> QED
    BY <2>1, <2>2, <2>3, <2>4, <2>5, <2>6
<1>9. \A p \in PanePlaces : Dated(entries[p], <<p[1], p[2]>>)'
  <2>1. SUFFICES ASSUME NEW p \in PanePlaces
                 PROVE  Dated(entries[p], <<p[1], p[2]>>)'
    OBVIOUS
  <2>2. /\ entries[p] \in Entries /\ <<p[1], p[2]>> \in PlacesAbove
        /\ Dated(entries[p], <<p[1], p[2]>>) /\ entries'[p] = Older1(entries[p])
    BY <1>0, <1>1, PlaceFacts DEF CacheInv, CacheType
  <2> HIDE DEF Older1
  <2> QED
    BY <1>8, <2>2 DEF Dated, Unexpired
<1>10. \A q \in PlacesAbove : Dated(ancestors[q[2]], q)'
  <2>1. SUFFICES ASSUME NEW q \in PlacesAbove
                 PROVE  Dated(ancestors[q[2]], q)'
    OBVIOUS
  <2>2. /\ ancestors[q[2]] \in Entries
        /\ Dated(ancestors[q[2]], q) /\ ancestors'[q[2]] = Older1(ancestors[q[2]])
    BY <1>0, <1>1, PlaceFacts DEF CacheInv, CacheType
  <2> HIDE DEF Older1
  <2> QED
    BY <1>8, <2>2 DEF Dated, Unexpired
<1> QED
  BY <1>6, <1>7, <1>9, <1>10 DEF CacheInv

LEMMA CacheStep == CacheInv /\ [WorkspaceNext]_workspaceVars => CacheInv'
<1> SUFFICES ASSUME CacheInv, [WorkspaceNext]_workspaceVars
             PROVE  CacheInv'
  OBVIOUS
<1>1. CASE UNCHANGED workspaceVars
  BY <1>1 DEF workspaceVars, CacheInv, CacheType, Computed, WithGit, RepositoryAt, Holder, Dated,
     Unexpired
<1> QED
  BY <1>1, AskStep, ClearStep, TickTreeStep, ChangeTreeStep DEF WorkspaceNext

------------------------------------------------------------------------------
(* The theorem                                                             *)

LEMMA AnswerIsRecent ==
  ASSUME CacheInv, NEW p \in PanePlaces
  PROVE  \E d \in Up(p[2]) :
           /\ \A e \in WithGit(p[2]) : Len(e) <= Len(d)
           /\ since[<<p[1], d>>][WorkspaceForPane(p)] < WORKSPACE_CACHE_TTL
<1>0. /\ CacheType /\ WORKSPACE_CACHE_TTL \in Nat \ {0}
      /\ p[2] \in Dirs /\ p[2] \in Up(p[2])
      /\ \A d \in Up(p[2]) : d \in Dirs /\ <<p[1], d>> \in PlacesAbove
  BY PlaceFacts, UpContainsItself, WorkspaceAssumption DEF CacheInv
<1>1. ASSUME NEW e \in Entries, NEW q \in PlacesAbove, Unexpired(e), Dated(e, q)
      PROVE  since[q][e.workspace] < WORKSPACE_CACHE_TTL
  <2>1. e.workspace \in Workspaces /\ since[q][e.workspace] <= e.age /\ e.age < WORKSPACE_CACHE_TTL
    BY <1>1 DEF Dated, Unexpired
  <2>2. since[q][e.workspace] \in Nat /\ e.age \in Nat
    BY <1>0, <2>1 DEF CacheType, Entries
  <2> QED
    BY <1>0, <2>1, <2>2
<1>2. \A e \in WithGit(p[2]) : Len(e) <= Len(p[2])
  <2>1. p[2] \in Seq(STRING)
    BY <1>0, WorkspaceAssumption
  <2> QED
    BY <1>0, <2>1, UpOf DEF WithGit
<1>3. CASE Unexpired(entries[p])
  <2>1. entries[p] \in Entries /\ Dated(entries[p], <<p[1], p[2]>>)
    BY <1>0 DEF CacheInv, CacheType
  <2>2. WorkspaceForPane(p) = entries[p].workspace
    BY <1>3 DEF WorkspaceForPane
  <2> QED
    BY <1>0, <1>1, <1>2, <1>3, <2>1, <2>2
<1>4. CASE ~Unexpired(entries[p]) /\ Hit(p[2])
  <2>1. PICK d : d = Deepest(KnownAbove(p[2]))
    OBVIOUS
  <2>2. d \in KnownAbove(p[2])
    BY <1>0, <1>4, <2>1, DeepestIsOne DEF Hit, KnownAbove
  <2>3. d \in Up(p[2]) /\ Unexpired(ancestors[d]) /\ \A f \in WithGit(p[2]) : Len(f) <= Len(d)
    BY <2>2 DEF KnownAbove
  <2>4. <<p[1], d>> \in PlacesAbove /\ ancestors[d] \in Entries /\ Dated(ancestors[d], <<p[1], d>>)
    BY <1>0, <2>3 DEF CacheInv, CacheType
  <2>5. WorkspaceForPane(p) = ancestors[d].workspace
    BY <1>4, <2>1 DEF WorkspaceForPane
  <2> QED
    BY <1>1, <2>3, <2>4, <2>5
<1>5. CASE ~Unexpired(entries[p]) /\ ~Hit(p[2])
  <2>1. WorkspaceForPane(p) = Computed(<<p[1], p[2]>>)
    BY <1>5, ComputedIsOfItsPlace DEF WorkspaceForPane
  <2>2. since[<<p[1], p[2]>>][WorkspaceForPane(p)] = 0
    BY <1>0, <2>1 DEF CacheInv
  <2>3. since[<<p[1], p[2]>>][WorkspaceForPane(p)] < WORKSPACE_CACHE_TTL
    BY <1>0, <2>2
  <2> QED
    BY <1>0, <1>2, <2>3
<1> QED
  BY <1>3, <1>4, <1>5

\* However the cache was filled and whatever happened in the tree since, an answer was true
\* less than the time to live ago, of a directory with no repository between it and the pane.
THEOREM AnswersStayRecent == WorkspaceSpec => []AnswersAreRecent
<1>1. CacheInv => AnswersAreRecent
  BY AnswerIsRecent DEF AnswersAreRecent
<1> QED
  BY <1>1, CacheInit, CacheStep, PTL DEF WorkspaceSpec

------------------------------------------------------------------------------
(* The picker's lists: the rows of a set, in their order                     *)

\* One step of the recursion by which Those goes through its rows.
Cut(rows, S, f, i) ==
  IF i = 0 THEN <<>>
  ELSE IF rows[i] \in S THEN Append(f[i - 1], rows[i]) ELSE f[i - 1]

\* The recursive function of Those exists, for any number of rows.
LEMMA CutExists ==
  ASSUME NEW rows, NEW S, NEW n \in Nat
  PROVE  \E f : f = [i \in 0..n |-> Cut(rows, S, f, i)]
<1> DEFINE Good(m) == \E f : f = [i \in 0..m |-> Cut(rows, S, f, i)]
           Bad == {m \in Nat : ~Good(m)}
<1>1. SUFFICES ASSUME Bad # {} PROVE FALSE
  OBVIOUS
<1>2. PICK m \in Bad : \A y \in Bad : m <= y
  BY <1>1, LeastNatural
<1>3. CASE m = 0
  <2> DEFINE f == [i \in 0..0 |-> <<>>]
  <2>1. f = [i \in 0..0 |-> Cut(rows, S, f, i)]
    BY DEF Cut
  <2> QED
    BY <1>2, <1>3, <2>1
<1>4. CASE m # 0
  <2>1. m - 1 \in Nat /\ m - 1 \notin Bad
    BY <1>2, <1>4
  <2>2. PICK f : f = [i \in 0..(m - 1) |-> Cut(rows, S, f, i)]
    BY <2>1
  <2> DEFINE g == [i \in 0..m |-> IF i = m THEN Cut(rows, S, f, m) ELSE f[i]]
  <2>3. ASSUME NEW i \in 0..m
        PROVE  g[i] = Cut(rows, S, g, i)
    <3>1. CASE i = 0
      BY <3>1, <2>1, <2>2 DEF Cut
    <3>2. CASE i # 0
      <4>1. i - 1 \in 0..(m - 1) /\ g[i - 1] = f[i - 1]
        BY <3>2, <2>1
      <4>2. Cut(rows, S, g, i) = Cut(rows, S, f, i)
        BY <3>2, <4>1 DEF Cut
      <4>3. i # m => i \in 0..(m - 1) /\ f[i] = Cut(rows, S, f, i)
        BY <2>1, <2>2
      <4> QED
        BY <4>2, <4>3
    <3> QED
      BY <3>1, <3>2
  <2>4. g = [i \in 0..m |-> Cut(rows, S, g, i)]
    BY <2>3
  <2> QED
    BY <1>2, <2>4
<1> QED
  BY <1>3, <1>4

\* p, of n rows, holds the rows of S in their order: its k-th is the row at m[k].
Holds(p, rows, S, n, m) ==
  /\ m \in [1..Len(p) -> 1..n]
  /\ \A k \in 1..Len(p) : p[k] = rows[m[k]] /\ p[k] \in S
  /\ \A k, l \in 1..Len(p) : k < l => m[k] < m[l]
  /\ \A j \in 1..n : rows[j] \in S => \E k \in 1..Len(p) : m[k] = j

LEMMA ThoseAre ==
  ASSUME NEW T, NEW rows \in Seq(T), NEW S
  PROVE  /\ Those(rows, S) \in Seq(T)
         /\ \E m : Holds(Those(rows, S), rows, S, Len(rows), m)
<1> DEFINE F == CHOOSE f : f = [i \in 0..Len(rows) |-> Cut(rows, S, f, i)]
<1>1. Those(rows, S) = F[Len(rows)]
  BY DEF Those, Cut
<1>0. Len(rows) \in Nat /\ DOMAIN rows = 1..Len(rows) /\ \A i \in 1..Len(rows) : rows[i] \in T
  BY LenProperties, ElementOfSeq
<1>2. F = [i \in 0..Len(rows) |-> Cut(rows, S, F, i)]
  <2>1. \E f : f = [i \in 0..Len(rows) |-> Cut(rows, S, f, i)]
    BY <1>0, CutExists
  <2> QED
    BY <2>1
<1> HIDE DEF F
<1> DEFINE Good(i) == F[i] \in Seq(T) /\ \E m : Holds(F[i], rows, S, i, m)
           Bad == {i \in 0..Len(rows) : ~Good(i)}
<1>3. ASSUME Bad # {} PROVE FALSE
  <2>1. Bad \subseteq Nat
    BY <1>0
  <2>2. PICK i \in Bad : \A y \in Bad : i <= y
    BY <1>3, <2>1, LeastNatural
  <2>3. F[i] = Cut(rows, S, F, i)
    BY <1>2
  <2>4. CASE i = 0
    <3>1. F[0] = <<>>
      BY <2>3, <2>4 DEF Cut
    <3>3. F[0] \in Seq(T) /\ Len(F[0]) = 0
      BY <3>1
    <3>2. Holds(F[0], rows, S, 0, [k \in 1..0 |-> 0])
      BY <3>3 DEF Holds
    <3> QED
      BY <2>2, <2>4, <3>3, <3>2
  <2>5. CASE i # 0
    <3>1. i - 1 \in 0..Len(rows) /\ i \in 1..Len(rows) /\ i - 1 \notin Bad
      BY <1>0, <2>2, <2>5
    <3>2. F[i - 1] \in Seq(T)
      BY <3>1
    <3>3. PICK m : Holds(F[i - 1], rows, S, i - 1, m)
      BY <3>1
    <3> DEFINE p == F[i - 1]  n == Len(p)
    <3>4. n \in Nat
      BY <3>2, LenProperties
    <3>5. CASE rows[i] \notin S
      <4>1. F[i] = p
        BY <2>3, <2>5, <3>5 DEF Cut
      <4>2. Holds(p, rows, S, i, m)
        BY <3>1, <3>3, <3>4, <3>5 DEF Holds
      <4> QED
        BY <2>2, <3>2, <4>1, <4>2
    <3>6. CASE rows[i] \in S
      <4> DEFINE q == Append(p, rows[i])
                 l == [k \in 1..(n + 1) |-> IF k = n + 1 THEN i ELSE m[k]]
      <4>1. F[i] = q
        BY <2>3, <2>5, <3>6 DEF Cut
      <4>2. q \in Seq(T) /\ Len(q) = n + 1 /\ q[n + 1] = rows[i] /\ \A k \in 1..n : q[k] = p[k]
        BY <1>0, <3>1, <3>2, AppendProperties
      <4> HIDE DEF q, p
      <4>3. l \in [1..(n + 1) -> 1..i]
        BY <3>1, <3>3, <3>4 DEF Holds, p
      <4>10. /\ m \in [1..n -> 1..(i - 1)]
             /\ \A k \in 1..n : p[k] = rows[m[k]] /\ p[k] \in S
             /\ \A k, j \in 1..n : k < j => m[k] < m[j]
        BY <3>3 DEF Holds, p
      <4>8. /\ l[n + 1] = i /\ \A k \in 1..n : l[k] = m[k] /\ m[k] \in 1..(i - 1)
            /\ \A k \in 1..n : p[k] = rows[m[k]] /\ p[k] \in S
            /\ \A k, j \in 1..n : k < j => m[k] < m[j]
        <5> HIDE DEF n
        <5> QED
          BY <4>10, <3>4
      <4>9. \A k \in 1..(n + 1) : k = n + 1 \/ k \in 1..n
        BY <3>4
      <4> HIDE DEF l
      <4>4. \A k \in 1..(n + 1) : q[k] = rows[l[k]] /\ q[k] \in S
        BY <3>6, <4>2, <4>8, <4>9
      <4>5. \A k, j \in 1..(n + 1) : k < j => l[k] < l[j]
        <5> SUFFICES ASSUME NEW k \in 1..(n + 1), NEW j \in 1..(n + 1), k < j PROVE l[k] < l[j]
          OBVIOUS
        <5>1. k \in 1..n
          BY <3>4
        <5> QED
          BY <3>1, <4>8, <4>9, <5>1
      <4>6. \A j \in 1..i : rows[j] \in S => \E k \in 1..(n + 1) : l[k] = j
        <5> SUFFICES ASSUME NEW j \in 1..i, rows[j] \in S PROVE \E k \in 1..(n + 1) : l[k] = j
          OBVIOUS
        <5>1. CASE j = i
          BY <5>1, <3>4, <4>8
        <5>2. CASE j # i
          <6>1. PICK k \in 1..n : m[k] = j
            BY <5>2, <3>1, <3>3 DEF Holds, p
          <6> QED
            BY <6>1, <3>4, <4>8
        <5> QED
          BY <5>1, <5>2
      <4>7. Holds(q, rows, S, i, l)
        BY <4>2, <4>3, <4>4, <4>5, <4>6 DEF Holds
      <4> QED
        BY <2>2, <4>1, <4>2, <4>7
    <3> QED
      BY <3>5, <3>6
  <2> QED
    BY <2>4, <2>5
<1>4. Good(Len(rows))
  BY <1>0, <1>3
<1> QED
  BY <1>1, <1>4

\* No row is listed twice.
Distinct(rows) == \A i, j \in DOMAIN rows : rows[i] = rows[j] => i = j

LEMMA ThoseAreTheSet ==
  ASSUME NEW T, NEW rows \in Seq(T), NEW S
  PROVE  LET those == Those(rows, S)
         IN  /\ those \in Seq(T) /\ ToSet(those) = ToSet(rows) \cap S
             /\ Distinct(rows) => Distinct(those)
<1> DEFINE p == Those(rows, S)
<1>1. p \in Seq(T)
  BY ThoseAre
<1>2. PICK m : Holds(p, rows, S, Len(rows), m)
  BY ThoseAre
<1> HIDE DEF p
<1>3. DOMAIN p = 1..Len(p) /\ DOMAIN rows = 1..Len(rows) /\ Len(p) \in Nat /\ Len(rows) \in Nat
  BY <1>1, LenProperties
<1>4. ToSet(p) = ToSet(rows) \cap S
  <2>1. ASSUME NEW x \in ToSet(p) PROVE x \in ToSet(rows) \cap S
    <3>1. PICK k \in DOMAIN p : x = p[k]
      BY <2>1 DEF ToSet
    <3>2. m[k] \in DOMAIN rows /\ x = rows[m[k]] /\ x \in S
      BY <1>2, <1>3, <3>1 DEF Holds
    <3> QED
      BY <3>2 DEF ToSet
  <2>2. ASSUME NEW x \in ToSet(rows) \cap S PROVE x \in ToSet(p)
    <3>1. PICK j \in DOMAIN rows : x = rows[j]
      BY <2>2 DEF ToSet
    <3>2. PICK k \in DOMAIN p : m[k] = j
      BY <1>2, <1>3, <2>2, <3>1 DEF Holds
    <3>3. p[k] = x
      BY <1>2, <1>3, <3>1, <3>2 DEF Holds
    <3> QED
      BY <3>3 DEF ToSet
  <2> QED
    BY <2>1, <2>2
<1>5. ASSUME Distinct(rows), NEW k \in DOMAIN p, NEW l \in DOMAIN p, p[k] = p[l]
      PROVE  k = l
  <2>1. /\ m[k] \in DOMAIN rows /\ m[l] \in DOMAIN rows /\ rows[m[k]] = rows[m[l]]
        /\ (k < l => m[k] < m[l]) /\ (l < k => m[l] < m[k])
    BY <1>2, <1>3, <1>5 DEF Holds
  <2>2. m[k] = m[l] /\ m[k] \in Nat
    BY <1>3, <1>5, <2>1 DEF Distinct
  <2> QED
    BY <1>3, <2>1, <2>2
<1> QED
  BY <1>1, <1>4, <1>5 DEF p, Distinct

-----------------------------------------------------------------------------
(* What Ordered makes of a finite set                                       *)

\* A list of a set names each of its elements once.
Lists(list, S) ==
  list \in Seq(S) /\ Len(list) = Cardinality(S) /\ Distinct(list) /\ ToSet(list) = S

\* By a strict total order the elements have as many others before them as there
\* are places before theirs, so each place is taken by exactly one.
LEMMA OrderedIs ==
  ASSUME NEW S, IsFiniteSet(S), NEW R,
         \A p \in S : <<p, p>> \notin R,
         \A p, q \in S : p # q => <<p, q>> \in R \/ <<q, p>> \in R,
         \A p, q, r \in S : <<p, q>> \in R /\ <<q, r>> \in R => <<p, r>> \in R
  PROVE  Lists(Ordered(S, R), S)
<1> DEFINE n == Cardinality(S)
           Before(p) == {q \in S : <<q, p>> \in R}
           rank == [p \in S |-> Cardinality(Before(p))]
           list == Ordered(S, R)
<1>1. n \in Nat
  BY FS_CardinalityType
<1>2. ASSUME NEW p \in S
      PROVE  IsFiniteSet(Before(p)) /\ Cardinality(Before(p)) \in Nat
             /\ Cardinality(Before(p)) < n
  <2>1. Before(p) \in SUBSET S /\ Before(p) # S
    OBVIOUS
  <2>2. IsFiniteSet(Before(p)) /\ Cardinality(Before(p)) <= n /\ Cardinality(Before(p)) # n
    BY <2>1, FS_Subset
  <2>3. Cardinality(Before(p)) \in Nat
    BY <2>2, FS_CardinalityType
  <2> HIDE DEF n, Before
  <2> QED
    BY <2>2, <2>3, <1>1
<1>3. ASSUME NEW p \in S, NEW q \in S, <<p, q>> \in R
      PROVE  rank[p] # rank[q]
  <2>1. Before(p) \in SUBSET Before(q) /\ p \in Before(q) /\ p \notin Before(p)
    BY <1>3
  <2>2. Cardinality(Before(p)) # Cardinality(Before(q))
    BY <1>2, <2>1, FS_Subset
  <2> QED
    BY <2>2
<1>4. rank \in Injection(S, 0..(n - 1))
  <2>1. rank \in [S -> 0..(n - 1)]
    <3>1. \A p \in S : Cardinality(Before(p)) \in 0..(n - 1)
      <4> HIDE DEF n, Before
      <4> QED
        BY <1>1, <1>2
    <3> HIDE DEF n, Before
    <3> QED
      BY <3>1
  <2>2. \A p, q \in S : rank[p] = rank[q] => p = q
    BY <1>3
  <2> HIDE DEF rank
  <2> QED
    BY <2>1, <2>2 DEF Injection, IsInjective
<1>5. IsFiniteSet(0..(n - 1)) /\ Cardinality(0..(n - 1)) = n
  <2> HIDE DEF n
  <2>1. 0 \in Int /\ n - 1 \in Int
    BY <1>1
  <2>2. IsFiniteSet(0..(n - 1))
        /\ Cardinality(0..(n - 1)) = IF 0 > n - 1 THEN 0 ELSE (n - 1) - 0 + 1
    BY <2>1, FS_Interval
  <2>3. (IF 0 > n - 1 THEN 0 ELSE (n - 1) - 0 + 1) = n
    BY <1>1
  <2> QED
    BY <2>2, <2>3
<1>6. rank \in Surjection(S, 0..(n - 1))
  BY <1>4, <1>5, FS_Injection
<1>7. \A i \in 1..n : \E p \in S : Cardinality(Before(p)) = i - 1
  <2> TAKE i \in 1..n
  <2>1. i - 1 \in 0..(n - 1)
    BY <1>1
  <2>2. \E p \in S : rank[p] = i - 1
    BY <1>6, <2>1 DEF Surjection
  <2> QED
    BY <2>2
<1>8. /\ DOMAIN list = 1..n /\ list = [i \in 1..n |-> list[i]]
      /\ \A i \in 1..n : list[i] \in S /\ Cardinality(Before(list[i])) = i - 1
  <2>1. list = [i \in 1..n |-> CHOOSE p \in S : Cardinality(Before(p)) = i - 1]
    BY DEF Ordered
  <2> HIDE DEF list, n, Before
  <2>2. ASSUME NEW i \in 1..n
        PROVE  list[i] \in S /\ Cardinality(Before(list[i])) = i - 1
    <3>1. \E p \in S : Cardinality(Before(p)) = i - 1
      BY <1>7
    <3>2. list[i] = CHOOSE p \in S : Cardinality(Before(p)) = i - 1
      BY <2>1
    <3> QED
      BY <3>1, <3>2
  <2> QED
    BY <2>1, <2>2
<1> HIDE DEF list
<1>9. ASSUME NEW p \in S
      PROVE  \E i \in 1..n : list[i] = p
  <2> DEFINE i == Cardinality(Before(p)) + 1
  <2>1. i \in 1..n /\ i - 1 = Cardinality(Before(p))
    <3> HIDE DEF n, Before
    <3> QED
      BY <1>1, <1>2
  <2> HIDE DEF i
  <2>2. list[i] \in S /\ Cardinality(Before(list[i])) = Cardinality(Before(p))
    BY <1>8, <2>1
  <2>3. rank[list[i]] = rank[p]
    BY <2>2
  <2>4. list[i] = p
    BY <1>3, <2>2, <2>3
  <2> QED
    BY <2>1, <2>4
<1>10. \A i, j \in 1..n : list[i] = list[j] => i = j
  <2> SUFFICES ASSUME NEW i \in 1..n, NEW j \in 1..n, list[i] = list[j] PROVE i = j
    OBVIOUS
  <2>1. i - 1 = j - 1
    BY <1>8
  <2> QED
    BY <2>1, <1>1
<1>11. list \in Seq(S) /\ Len(list) = n
  <2> HIDE DEF n
  <2>1. list \in [1..n -> S]
    BY <1>8
  <2> QED
    BY <1>1, <2>1
<1>12. Distinct(list)
  BY <1>8, <1>10 DEF Distinct
<1>13. ToSet(list) = S
  <2>1. ToSet(list) = {list[i] : i \in 1..n}
    BY <1>8 DEF ToSet
  <2>2. ASSUME NEW x \in {list[i] : i \in 1..n} PROVE x \in S
    BY <1>8
  <2>3. ASSUME NEW x \in S PROVE x \in {list[i] : i \in 1..n}
    BY <1>9
  <2> HIDE DEF n
  <2> QED
    BY <2>1, <2>2, <2>3
<1> QED
  BY <1>11, <1>12, <1>13 DEF list, Lists

LEMMA AscendingLists ==
  ASSUME NEW S, S \subseteq Nat, IsFiniteSet(S)
  PROVE  Lists(Ascending(S), S)
<1> DEFINE R == {pair \in S \X S : pair[1] < pair[2]}
<1>1. /\ \A p \in S : <<p, p>> \notin R
      /\ \A p, q \in S : p # q => <<p, q>> \in R \/ <<q, p>> \in R
      /\ \A p, q, r \in S : <<p, q>> \in R /\ <<q, r>> \in R => <<p, r>> \in R
  OBVIOUS
<1>2. Ascending(S) = Ordered(S, R)
  BY DEF Ascending
<1> HIDE DEF R
<1>3. Lists(Ordered(S, R), S)
  BY <1>1, OrderedIs
<1> QED
  BY <1>2, <1>3

LEMMA ByWorkspaceLists ==
  ASSUME NEW S, S \subseteq Nat, IsFiniteSet(S), NEW w \in [S -> Nat]
  PROVE  Lists(Ordered(S, {pair \in S \X S : PickerSortKeyBefore(w, pair[1], pair[2])}), S)
<1> DEFINE R == {pair \in S \X S : PickerSortKeyBefore(w, pair[1], pair[2])}
<1>1. /\ \A p \in S : <<p, p>> \notin R
      /\ \A p, q \in S : p # q => <<p, q>> \in R \/ <<q, p>> \in R
      /\ \A p, q, r \in S : <<p, q>> \in R /\ <<q, r>> \in R => <<p, r>> \in R
  BY DEF PickerSortKeyBefore
<1> HIDE DEF R
<1>2. Lists(Ordered(S, R), S)
  BY <1>1, OrderedIs
<1> QED
  BY <1>2 DEF R

\* A sequence without repetitions is as long as it has elements.
LEMMA DistinctCounts ==
  ASSUME NEW T, NEW rows \in Seq(T), Distinct(rows)
  PROVE  IsFiniteSet(ToSet(rows)) /\ Cardinality(ToSet(rows)) = Len(rows)
<1>1. Len(rows) \in Nat /\ DOMAIN rows = 1..Len(rows)
  BY LenProperties
<1>2. IsFiniteSet(1..Len(rows)) /\ Cardinality(1..Len(rows)) = Len(rows)
  <2>1. /\ IsFiniteSet(1..Len(rows))
        /\ Cardinality(1..Len(rows)) = IF 1 > Len(rows) THEN 0 ELSE Len(rows) - 1 + 1
    BY <1>1, FS_Interval
  <2> QED
    BY <1>1, <2>1
<1> DEFINE f == [i \in 1..Len(rows) |-> rows[i]]
<1>3. f \in Bijection(1..Len(rows), ToSet(rows))
  <2>1. f \in [1..Len(rows) -> ToSet(rows)]
    BY <1>1 DEF ToSet
  <2>2. \A i, j \in 1..Len(rows) : f[i] = f[j] => i = j
    BY <1>1 DEF Distinct
  <2>3. \A t \in ToSet(rows) : \E i \in 1..Len(rows) : f[i] = t
    BY <1>1 DEF ToSet
  <2> HIDE DEF f
  <2> QED
    BY <2>1, <2>2, <2>3 DEF Bijection, Injection, Surjection, IsInjective
<1>4. ExistsBijection(1..Len(rows), ToSet(rows))
  BY <1>3 DEF ExistsBijection
<1> QED
  BY <1>2, <1>4, FS_Bijection

-----------------------------------------------------------------------------
(* Pages                                                                    *)

LEMMA Floor ==
  ASSUME NEW a \in Nat, NEW b \in Nat \ {0}
  PROVE  (a \div b) * b \in Nat /\ (a \div b) * b <= a
OBVIOUS

LEMMA LastPageIs ==
  ASSUME NEW total \in Nat, NEW size \in Nat
  PROVE  /\ LastNonEmptyPageStart(total, size) \in Nat
         /\ total > 0 => LastNonEmptyPageStart(total, size) < total
<1>1. CASE total = 0 \/ size = 0
  BY <1>1 DEF LastNonEmptyPageStart
<1>2. CASE total # 0 /\ size # 0
  <2>1. total - 1 \in Nat /\ size \in Nat \ {0}
    BY <1>2
  <2>2. ((total - 1) \div size) * size \in Nat /\ ((total - 1) \div size) * size <= total - 1
    BY <2>1, Floor
  <2>3. LastNonEmptyPageStart(total, size) = ((total - 1) \div size) * size
    BY <1>2 DEF LastNonEmptyPageStart
  <2> QED
    BY <2>2, <2>3
<1> QED
  BY <1>1, <1>2

LEMMA MinOfTwo ==
  ASSUME NEW a \in Nat, NEW b \in Nat
  PROVE  Min({a, b}) = IF a <= b THEN a ELSE b
<1>1. \E x \in {a, b} : \A y \in {a, b} : x <= y
  OBVIOUS
<1>2. Min({a, b}) \in {a, b} /\ \A y \in {a, b} : Min({a, b}) <= y
  BY <1>1 DEF Min
<1> QED
  BY <1>2

LEMMA WindowIs ==
  ASSUME NEW T, NEW rows \in Seq(T), NEW start \in Nat, NEW size \in Nat
  PROVE  LET page == Window(rows, start, size)
         IN  /\ page \in Seq(T)
             /\ Len(page) = IF start >= Len(rows) THEN 0
                            ELSE IF start + size <= Len(rows) THEN size ELSE Len(rows) - start
             /\ \A k \in DOMAIN page : start + k \in DOMAIN rows /\ page[k] = rows[start + k]
             /\ ToSet(page) \subseteq ToSet(rows)
             /\ Distinct(rows) => Distinct(page)
<1> DEFINE end == IF start + size <= Len(rows) THEN start + size ELSE Len(rows)
           page == Window(rows, start, size)
<1>1. Len(rows) \in Nat /\ DOMAIN rows = 1..Len(rows) /\ start + size \in Nat
  BY LenProperties
<1>2. page = SubSeq(rows, start + 1, end)
  BY <1>1, MinOfTwo DEF Window
<1>3. start + 1 \in 1..(Len(rows) + 1) \/ start + 1 > Len(rows)
  BY <1>1
<1>4. end \in 0..Len(rows)
  BY <1>1
<1>5. /\ page \in Seq(T) /\ Len(page) = IF start + 1 <= end THEN end - start ELSE 0
      /\ \A k \in 1..Len(page) : start + k \in 1..Len(rows) /\ page[k] = rows[start + k]
  <2> HIDE DEF end, page
  <2>1. start + 1 \in Int /\ end \in Int
    BY <1>4
  <2>2. \A i \in (start + 1)..end : rows[i] \in T
    BY <1>1, <1>4, ElementOfSeq
  <2>3. page = [k \in 1..(IF start + 1 <= end THEN end - start ELSE 0) |-> rows[start + k]]
    BY <1>2, <1>4
  <2>4. \A k \in 1..(IF start + 1 <= end THEN end - start ELSE 0) :
          start + k \in (start + 1)..end /\ start + k \in 1..Len(rows)
    BY <1>1, <1>4
  <2>5. (IF start + 1 <= end THEN end - start ELSE 0) \in Nat
    BY <1>4
  <2>6. page \in [1..(IF start + 1 <= end THEN end - start ELSE 0) -> T]
    BY <2>2, <2>3, <2>4
  <2> QED
    BY <2>3, <2>4, <2>5, <2>6
<1>6. Len(page) = IF start >= Len(rows) THEN 0
                  ELSE IF start + size <= Len(rows) THEN size ELSE Len(rows) - start
  <2>1. Len(page) = IF start + 1 <= end THEN end - start ELSE 0
    BY <1>5
  <2> DEFINE n == Len(rows)  l == Len(page)
  <2>2. n \in Nat /\ l = IF start + 1 <= end THEN end - start ELSE 0
    BY <1>1, <2>1
  <2> HIDE DEF n, l
  <2>3. (l = IF start + 1 <= (IF start + size <= n THEN start + size ELSE n)
            THEN (IF start + size <= n THEN start + size ELSE n) - start ELSE 0)
    BY <2>2 DEF n
  <2>4. l = IF start >= n THEN 0 ELSE IF start + size <= n THEN size ELSE n - start
    BY <2>2, <2>3
  <2> QED
    BY <2>4 DEF n, l
<1> HIDE DEF page
<1>7. DOMAIN page = 1..Len(page)
  BY <1>5, LenProperties
<1>8. ToSet(page) \subseteq ToSet(rows)
  BY <1>1, <1>5, <1>7 DEF ToSet
<1>9. ASSUME Distinct(rows), NEW k \in DOMAIN page, NEW l \in DOMAIN page, page[k] = page[l]
      PROVE  k = l
  <2>1. start + k \in DOMAIN rows /\ start + l \in DOMAIN rows /\ rows[start + k] = rows[start + l]
    BY <1>1, <1>5, <1>7, <1>9
  <2>2. start + k = start + l
    BY <1>9, <2>1 DEF Distinct
  <2>3. k \in Nat /\ l \in Nat
    BY <1>5, <1>7
  <2> QED
    BY <2>2, <2>3
<1> QED
  BY <1>1, <1>5, <1>6, <1>7, <1>8, <1>9 DEF Distinct, page

-----------------------------------------------------------------------------
(* The keys beside the rows                                                 *)

\* No two keys focus the same pane.
Apart(targets) ==
  \A j, k \in Keys : targets[j] = targets[k] /\ targets[j] # Nobody => j = k

\* Each row has exactly one key.
OneKeyEach(targets, rows) ==
  \A p \in ToSet(rows) : \E k \in Keys : {j \in Keys : targets[j] = p} = {k}

LEMMA SynchronizeIs ==
  ASSUME NEW targets \in [Keys -> Panes \cup {Nobody}], Apart(targets),
         NEW rows \in Seq(Panes), Distinct(rows), Len(rows) <= Cardinality(Keys)
  PROVE  LET handed == SynchronizeKeyTargets(targets, rows)
         IN  /\ handed \in [Keys -> Panes \cup {Nobody}] /\ Apart(handed)
             /\ \A k \in Keys : handed[k] \in ToSet(rows) \cup {Nobody}
             /\ OneKeyEach(handed, rows)
<1> DEFINE kept == {k \in Keys : targets[k] \in ToSet(rows)}
           held == {targets[k] : k \in kept}
           others == ToSet(rows) \ held
           free == Ascending(Keys \ kept)
           bare == Those(rows, others)
           handed == SynchronizeKeyTargets(targets, rows)
<1>1. /\ ToSet(rows) \subseteq Panes /\ Nobody \notin ToSet(rows)
      /\ IsFiniteSet(ToSet(rows)) /\ Cardinality(ToSet(rows)) = Len(rows)
  <2>1. ToSet(rows) \subseteq Panes
    BY DEF ToSet
  <2> QED
    BY <2>1, DistinctCounts, PickerAssumption DEF Nobody
<1>2. IsFiniteSet(Keys) /\ Keys \subseteq Nat /\ kept \in SUBSET Keys
  BY PickerAssumption
<1>3. IsFiniteSet(kept) /\ IsFiniteSet(Keys \ kept)
      /\ Cardinality(Keys \ kept) = Cardinality(Keys) - Cardinality(kept)
  <2>1. IsFiniteSet(kept)
    BY <1>2, FS_Subset
  <2>2. IsFiniteSet(Keys \ kept)
        /\ Cardinality(Keys \ kept) = Cardinality(Keys) - Cardinality(Keys \cap kept)
    BY <1>2, FS_Difference
  <2>3. Keys \cap kept = kept
    BY <1>2
  <2> QED
    BY <2>1, <2>2, <2>3
<1>4. IsFiniteSet(held) /\ Cardinality(held) = Cardinality(kept)
  <2> DEFINE f == [k \in kept |-> targets[k]]
  <2>1. f \in [kept -> held]
    OBVIOUS
  <2>2. \A j, k \in kept : f[j] = f[k] => j = k
    BY <1>1, <1>2 DEF Apart
  <2>3. \A p \in held : \E k \in kept : f[k] = p
    OBVIOUS
  <2> HIDE DEF f, kept, held
  <2>4. f \in Bijection(kept, held)
    BY <2>1, <2>2, <2>3 DEF Bijection, Injection, Surjection, IsInjective
  <2>5. ExistsBijection(kept, held)
    BY <2>4 DEF ExistsBijection
  <2> QED
    BY <1>3, <2>5, FS_Bijection
<1>5. Lists(free, Keys \ kept)
  BY <1>2, <1>3, AscendingLists
<1>6. /\ bare \in Seq(Panes) /\ Distinct(bare) /\ ToSet(bare) = others
  <2>1. ToSet(rows) \cap others = others
    OBVIOUS
  <2> HIDE DEF others
  <2> QED
    BY <2>1, ThoseAreTheSet
<1>7. Len(bare) = Cardinality(others) /\ Cardinality(others) = Len(rows) - Cardinality(kept)
  <2>1. Len(bare) = Cardinality(others)
    BY <1>6, DistinctCounts
  <2>2. Cardinality(others) = Cardinality(ToSet(rows)) - Cardinality(ToSet(rows) \cap held)
    BY <1>1, FS_Difference
  <2>3. ToSet(rows) \cap held = held
    OBVIOUS
  <2> QED
    BY <1>1, <1>4, <2>1, <2>2, <2>3
<1>8. /\ Len(bare) \in Nat /\ Len(free) \in Nat /\ Len(bare) <= Len(free)
      /\ DOMAIN bare = 1..Len(bare) /\ DOMAIN free = 1..Len(free)
      /\ \A i \in 1..Len(free) : free[i] \in Keys \ kept
      /\ \A k \in Keys \ kept : \E i \in 1..Len(free) : free[i] = k
      /\ \A i, j \in 1..Len(free) : free[i] = free[j] => i = j
  <2>1. /\ free \in Seq(Keys \ kept) /\ Len(free) = Cardinality(Keys \ kept)
        /\ Distinct(free) /\ ToSet(free) = Keys \ kept
    BY <1>5 DEF Lists
  <2>2. Cardinality(Keys) \in Nat /\ Cardinality(kept) \in Nat
    BY <1>2, <1>3, FS_CardinalityType
  <2> HIDE DEF free, bare, kept, others
  <2>3. /\ Len(bare) \in Nat /\ Len(free) \in Nat
        /\ DOMAIN bare = 1..Len(bare) /\ DOMAIN free = 1..Len(free)
    BY <1>6, <2>1, LenProperties
  <2>4. Len(rows) \in Nat
    BY LenProperties
  <2>5. Len(bare) <= Len(free)
    BY <1>3, <1>7, <2>1, <2>2, <2>3, <2>4
  <2>6. \A i \in 1..Len(free) : free[i] \in Keys \ kept
    BY <2>1, <2>3
  <2>7. \A k \in Keys \ kept : \E i \in 1..Len(free) : free[i] = k
    BY <2>1, <2>3 DEF ToSet
  <2> QED
    BY <2>1, <2>3, <2>5, <2>6, <2>7 DEF Distinct
<1>9. handed = [k \in Keys |-> IF k \in kept THEN targets[k]
                               ELSE IF Position(free, k) <= Len(bare) THEN bare[Position(free, k)]
                               ELSE Nobody]
  BY DEF SynchronizeKeyTargets
<1>10. /\ \A k \in kept : k \in Keys /\ targets[k] \in ToSet(rows) /\ targets[k] \in held
       /\ held \subseteq ToSet(rows) /\ \A p \in held : \E k \in kept : targets[k] = p
       /\ \A p \in ToSet(rows) : p \in held \/ p \in others
       /\ others \cap held = {} /\ others \subseteq ToSet(rows)
  OBVIOUS
<1> HIDE DEF handed, kept, held, others, free, bare
<1>11. \A i \in 1..Len(bare) : bare[i] \in others
  BY <1>6, <1>8 DEF ToSet
<1>12. \A k \in Keys \ kept : Position(free, k) \in 1..Len(free) /\ free[Position(free, k)] = k
  BY <1>8 DEF Position
<1>13. \A k \in Keys :
         \/ k \in kept /\ handed[k] = targets[k] /\ handed[k] \in held
         \/ /\ k \notin kept /\ Position(free, k) \in 1..Len(bare)
            /\ handed[k] = bare[Position(free, k)] /\ handed[k] \in others
         \/ k \notin kept /\ handed[k] = Nobody
  BY <1>8, <1>9, <1>10, <1>11, <1>12
<1>14. handed \in [Keys -> Panes \cup {Nobody}]
       /\ \A k \in Keys : handed[k] \in ToSet(rows) \cup {Nobody}
  BY <1>1, <1>9, <1>10, <1>13
<1>15. ASSUME NEW j \in Keys, NEW k \in Keys, handed[j] = handed[k], handed[j] # Nobody
       PROVE  j = k
  <2>1. CASE j \in kept
    <3>1. k \in kept
      BY <1>10, <1>13, <1>15, <2>1
    <3> QED
      BY <1>1, <1>10, <1>13, <1>15, <2>1, <3>1 DEF Apart
  <2>2. CASE j \notin kept
    <3>1. k \notin kept
      BY <1>10, <1>13, <1>15, <2>2
    <3>2. Position(free, j) \in 1..Len(bare) /\ Position(free, k) \in 1..Len(bare)
          /\ bare[Position(free, j)] = bare[Position(free, k)]
      BY <1>13, <1>15, <2>2, <3>1
    <3>3. Position(free, j) = Position(free, k)
      BY <1>6, <1>8, <3>2 DEF Distinct
    <3> QED
      BY <1>12, <2>2, <3>1, <3>3
  <2> QED
    BY <2>1, <2>2
<1>16. ASSUME NEW p \in ToSet(rows)
       PROVE  \E k \in Keys : handed[k] = p
  <2>1. CASE p \in held
    <3>1. PICK k \in kept : targets[k] = p
      BY <1>10, <2>1
    <3> QED
      BY <1>10, <1>13, <3>1
  <2>2. CASE p \in others
    <3>1. PICK i \in 1..Len(bare) : bare[i] = p
      BY <1>6, <1>8, <2>2 DEF ToSet
    <3>2. i \in 1..Len(free) /\ free[i] \in Keys \ kept
      BY <1>8, <3>1
    <3>3. Position(free, free[i]) = i
      BY <1>8, <1>12, <3>2
    <3>4. handed[free[i]] = bare[i]
      BY <1>8, <1>9, <3>1, <3>2, <3>3
    <3> QED
      BY <3>1, <3>2, <3>4
  <2> QED
    BY <1>10, <2>1, <2>2
<1>17. OneKeyEach(handed, rows)
  BY <1>1, <1>15, <1>16 DEF OneKeyEach
<1> QED
  BY <1>14, <1>15, <1>17 DEF Apart, handed

-----------------------------------------------------------------------------
(* The invariant: whatever a handler hands to Draw is orderly, and what Draw *)
(* leaves is what is on the screen.                                          *)

Fields == {"panes", "matches", "recent", "keyTargets", "retired", "error", "pageStart", "pageSize",
           "resetKeys", "selected", "query", "hint", "seeded"}

Orderly(s) ==
  /\ DOMAIN s = Fields
  /\ s.panes \in Seq(Panes) /\ Distinct(s.panes)
  /\ s.keyTargets \in [Keys -> Panes \cup {Nobody}] /\ Apart(s.keyTargets)
  /\ s.retired \in [Keys -> Panes \cup {Nobody}]
  /\ s.pageStart \in Nat /\ s.pageSize \in 0..Cardinality(Keys)
  /\ s.error => s.panes = <<>>

\* A key of s focuses the pane that it was last drawn beside, or nothing.
AsShown(s, drawn) ==
  \A k \in Keys : s.keyTargets[k] \in {Nobody, drawn[k]} /\ s.retired[k] \in {Nobody, drawn[k]}

OnScreen(s, f) ==
  /\ s.selected = f.highlight /\ s.keyTargets = f.keys
  /\ f.rows # <<>> => f.highlight \in ToSet(f.rows)
  /\ s.pageSize > 0 => Shown(s) = f.rows
  /\ ~Searching(s) => OneKeyEach(f.keys, f.rows)

PickerInv ==
  /\ terminal \in Nat /\ shown \in [Keys -> Panes \cup {Nobody}]
  /\ Orderly(state) /\ AsShown(state, shown) /\ OnScreen(state, frame)

LEMMA KeyCount == Cardinality(Keys) \in Nat
BY FS_CardinalityType, PickerAssumption

LEMMA PageSizeIs ==
  ASSUME NEW height \in Nat
  PROVE  PageSize(height) \in 0..Cardinality(Keys)
<1>1. CASE height < FOOTER_LINE_COUNT + 1
  BY <1>1, KeyCount DEF PageSize
<1>2. CASE ~(height < FOOTER_LINE_COUNT + 1)
  <2>1. height - FOOTER_LINE_COUNT \in Nat
    BY <1>2 DEF FOOTER_LINE_COUNT
  <2>2. PageSize(height) = IF height - FOOTER_LINE_COUNT <= Cardinality(Keys)
                           THEN height - FOOTER_LINE_COUNT ELSE Cardinality(Keys)
    BY <1>2, <2>1, KeyCount, MinOfTwo DEF PageSize
  <2> QED
    BY <2>1, <2>2, KeyCount
<1> QED
  BY <1>1, <1>2

LEMMA ViewIs ==
  ASSUME NEW s, s.panes \in Seq(Panes), Distinct(s.panes)
  PROVE  /\ View(s) \in Seq(Panes) /\ Distinct(View(s)) /\ Len(View(s)) \in Nat
         /\ DOMAIN View(s) = 1..Len(View(s))
         /\ ToSet(View(s)) \subseteq ToSet(s.panes) /\ ToSet(View(s)) \subseteq Panes
         /\ ~Searching(s) => View(s) = s.panes
<1>1. /\ View(s) \in Seq(Panes) /\ Distinct(View(s))
      /\ ToSet(View(s)) \subseteq ToSet(s.panes)
  <2>1. CASE Searching(s)
    <3> DEFINE S == {p \in ToSet(s.panes) : s.matches[p] >= s.query}
    <3>1. View(s) = Those(s.panes, S)
      BY <2>1 DEF View
    <3> HIDE DEF S
    <3> QED
      BY <3>1, ThoseAreTheSet
  <2>2. CASE ~Searching(s)
    BY <2>2 DEF View
  <2> QED
    BY <2>1, <2>2
<1>2. Len(View(s)) \in Nat /\ DOMAIN View(s) = 1..Len(View(s))
  BY <1>1, LenProperties
<1>3. ToSet(View(s)) \subseteq Panes
  BY <1>1 DEF ToSet
<1> QED
  BY <1>1, <1>2, <1>3 DEF View

LEMMA ShownStartIs ==
  ASSUME NEW s, s.panes \in Seq(Panes), Distinct(s.panes), s.pageStart \in Nat, s.pageSize \in Nat
  PROVE  /\ ShownStart(s) \in Nat
         /\ Len(View(s)) > 0 => ShownStart(s) < Len(View(s))
         /\ s.pageStart < Len(View(s)) => ShownStart(s) = s.pageStart
<1> DEFINE n == Len(View(s))
<1>1. n \in Nat
  BY ViewIs
<1>2. ShownStart(s) = IF s.pageStart >= n THEN LastNonEmptyPageStart(n, s.pageSize) ELSE s.pageStart
  BY DEF ShownStart
<1> HIDE DEF n
<1>3. LastNonEmptyPageStart(n, s.pageSize) \in Nat
      /\ (n > 0 => LastNonEmptyPageStart(n, s.pageSize) < n)
  BY <1>1, LastPageIs
<1>4. /\ ShownStart(s) \in Nat
      /\ n > 0 => ShownStart(s) < n
      /\ s.pageStart < n => ShownStart(s) = s.pageStart
  BY <1>1, <1>2, <1>3
<1> QED
  BY <1>4 DEF n

LEMMA ShownIs ==
  ASSUME NEW s, s.panes \in Seq(Panes), Distinct(s.panes), s.pageStart \in Nat, s.pageSize \in Nat
  PROVE  /\ Shown(s) \in Seq(Panes) /\ Distinct(Shown(s)) /\ Len(Shown(s)) \in Nat
         /\ DOMAIN Shown(s) = 1..Len(Shown(s))
         /\ ToSet(Shown(s)) \subseteq ToSet(View(s))
         /\ Len(Shown(s)) = IF ShownStart(s) >= Len(View(s)) THEN 0
                            ELSE IF ShownStart(s) + s.pageSize <= Len(View(s)) THEN s.pageSize
                            ELSE Len(View(s)) - ShownStart(s)
         /\ \A k \in DOMAIN Shown(s) : Shown(s)[k] = View(s)[ShownStart(s) + k]
<1>1. ShownStart(s) \in Nat /\ View(s) \in Seq(Panes) /\ Distinct(View(s))
  BY ShownStartIs, ViewIs
<1>2. Shown(s) = Window(View(s), ShownStart(s), s.pageSize)
  BY DEF Shown
<1>3. /\ Shown(s) \in Seq(Panes) /\ Distinct(Shown(s))
      /\ ToSet(Shown(s)) \subseteq ToSet(View(s))
      /\ Len(Shown(s)) = IF ShownStart(s) >= Len(View(s)) THEN 0
                         ELSE IF ShownStart(s) + s.pageSize <= Len(View(s)) THEN s.pageSize
                         ELSE Len(View(s)) - ShownStart(s)
      /\ \A k \in DOMAIN Shown(s) : Shown(s)[k] = View(s)[ShownStart(s) + k]
  <2> DEFINE v == View(s)  start == ShownStart(s)  size == s.pageSize
             page == Window(v, start, size)
  <2>1. v \in Seq(Panes) /\ Distinct(v) /\ start \in Nat /\ size \in Nat
    BY <1>1
  <2> HIDE DEF v, start, size
  <2>2. /\ page \in Seq(Panes)
        /\ Len(page) = IF start >= Len(v) THEN 0
                       ELSE IF start + size <= Len(v) THEN size ELSE Len(v) - start
        /\ \A k \in DOMAIN page : start + k \in DOMAIN v /\ page[k] = v[start + k]
        /\ ToSet(page) \subseteq ToSet(v)
        /\ Distinct(v) => Distinct(page)
    BY <2>1, WindowIs, Zenon
  <2> HIDE DEF page
  <2>3. Shown(s) = page
    BY <1>2 DEF page, v, start, size
  <2> QED
    BY <2>1, <2>2, <2>3 DEF v, start, size
<1> QED
  BY <1>3, LenProperties

\* A sequence without elements is empty.
LEMMA NoneIsEmpty ==
  ASSUME NEW T, NEW rows \in Seq(T), ToSet(rows) = {}
  PROVE  rows = <<>>
<1>1. Len(rows) \in Nat /\ DOMAIN rows = 1..Len(rows)
  BY LenProperties
<1>2. \A i \in DOMAIN rows : rows[i] \in ToSet(rows)
  BY DEF ToSet
<1>3. \A i \in DOMAIN rows : FALSE
  BY <1>2
<1>4. Len(rows) # 0 => 1 \in DOMAIN rows
  BY <1>1
<1> QED
  BY <1>3, <1>4, EmptySeq

LEMMA NothingShown ==
  ASSUME NEW s, s.panes = <<>>, s.pageStart \in Nat, s.pageSize \in Nat
  PROVE  View(s) = <<>> /\ Shown(s) = <<>>
<1>1. s.panes \in Seq(Panes) /\ Distinct(s.panes) /\ ToSet(s.panes) = {}
  BY DEF Distinct, ToSet
<1>2. View(s) \in Seq(Panes) /\ ToSet(View(s)) = {}
  BY <1>1, ViewIs
<1>3. Shown(s) \in Seq(Panes) /\ ToSet(Shown(s)) = {}
  BY <1>1, <1>2, ShownIs
<1> QED
  BY <1>2, <1>3, NoneIsEmpty

\* What is shown depends on these fields only.
SameView(s, t) ==
  /\ t.panes = s.panes /\ t.query = s.query /\ t.matches = s.matches
  /\ t.pageStart = s.pageStart /\ t.pageSize = s.pageSize

LEMMA ShownAlike ==
  ASSUME NEW s, NEW t, SameView(s, t)
  PROVE  View(t) = View(s) /\ ShownStart(t) = ShownStart(s) /\ Shown(t) = Shown(s)
         /\ (Searching(t) <=> Searching(s))
<1>1. View(t) = View(s) /\ (Searching(t) <=> Searching(s))
  BY DEF SameView, View, Searching
<1>2. ShownStart(t) = ShownStart(s)
  BY <1>1 DEF SameView, ShownStart
<1> QED
  BY <1>1, <1>2 DEF SameView, Shown

-----------------------------------------------------------------------------
(* What Draw leaves                                                         *)

ShownAfter(drawn, f) ==
  [k \in Keys |-> IF f.keys[k] # Nobody THEN f.keys[k] ELSE drawn[k]]

Drawable(s, drawn) == Orderly(s) /\ AsShown(s, drawn)

Drawn(d, drawn, height) ==
  /\ Orderly(d) /\ d.pageSize = PageSize(height)
  /\ AsShown(d, ShownAfter(drawn, FrameOf(d))) /\ OnScreen(d, FrameOf(d))

LEMMA NoKeysApart ==
  NoKeys \in [Keys -> Panes \cup {Nobody}] /\ Apart(NoKeys) /\ \A k \in Keys : NoKeys[k] = Nobody
BY DEF NoKeys, Apart

\* A screen without rows.
LEMMA DrawnEmpty ==
  ASSUME NEW d, Orderly(d), NEW drawn \in [Keys -> Panes \cup {Nobody}], NEW height,
         d.pageSize = PageSize(height), d.keyTargets = NoKeys, d.retired = NoKeys,
         d.selected = Nobody, d.error \/ d.pageSize = 0 \/ d.panes = <<>>
  PROVE  Drawn(d, drawn, height)
<1>1. d.pageSize \in Nat /\ d.pageStart \in Nat
  BY KeyCount DEF Orderly
<1>2. d.pageSize > 0 => d.panes = <<>> /\ Shown(d) = <<>>
  BY <1>1, NothingShown DEF Orderly
<1>3. /\ FrameOf(d).rows = <<>> /\ FrameOf(d).highlight = Nobody /\ FrameOf(d).keys = NoKeys
  BY <1>1, <1>2 DEF FrameOf, NoFrame
<1>4. OneKeyEach(FrameOf(d).keys, FrameOf(d).rows)
  BY <1>3 DEF OneKeyEach, ToSet
<1>5. OnScreen(d, FrameOf(d))
  BY <1>2, <1>3, <1>4 DEF OnScreen
<1>6. AsShown(d, ShownAfter(drawn, FrameOf(d)))
  BY NoKeysApart DEF AsShown
<1> QED
  BY <1>5, <1>6 DEF Drawn

LEMMA SeedIs ==
  ASSUME NEW s, Orderly(s), s.pageSize > 0, s.pageStart < Len(View(s))
  PROVE  LET b == SeedInitialSelection(s, View(s))
         IN  /\ DOMAIN b = Fields /\ b.panes = s.panes /\ b.matches = s.matches /\ b.query = s.query
             /\ b.keyTargets = s.keyTargets /\ b.retired = s.retired /\ b.error = s.error
             /\ b.resetKeys = s.resetKeys /\ b.pageSize = s.pageSize
             /\ b.pageStart \in Nat /\ b.pageStart < Len(View(s))
<1> DEFINE view == View(s)
           b == SeedInitialSelection(s, view)
           goal == IF s.hint \in ToSet(view) THEN s.hint ELSE s.recent
           latched == [s EXCEPT !.seeded = TRUE, !.hint = Nobody]
           moved == [latched EXCEPT !.selected = goal,
                       !.pageStart = ((Position(view, goal) - 1) \div s.pageSize) * s.pageSize]
<1>1. b = s \/ b = latched \/ (goal \in ToSet(view) /\ b = moved)
  <2>1. (IF {p \in {s.hint} : p \in ToSet(view)} # {} THEN s.hint ELSE s.recent) = goal
    OBVIOUS
  <2> HIDE DEF view
  <2> QED
    BY <2>1 DEF SeedInitialSelection
<1>2. DOMAIN s = Fields /\ s.pageSize \in Nat /\ s.pageStart \in Nat /\ s.pageSize \in Nat \ {0}
  BY KeyCount DEF Orderly
<1>3. view \in Seq(Panes) /\ Len(view) \in Nat /\ DOMAIN view = 1..Len(view)
  BY ViewIs DEF Orderly
<1> HIDE DEF view, goal
<1>4. CASE b = s \/ b = latched
  BY <1>2, <1>4 DEF Fields, view
<1>5. CASE goal \in ToSet(view) /\ b = moved
  <2> DEFINE at == Position(view, goal)
             start == ((at - 1) \div s.pageSize) * s.pageSize
  <2>1. at \in 1..Len(view)
    <3>1. \E i \in DOMAIN view : view[i] = goal
      BY <1>5 DEF ToSet
    <3> QED
      BY <1>3, <3>1 DEF Position
  <2>2. start \in Nat /\ start <= at - 1
    <3> HIDE DEF at
    <3>1. at - 1 \in Nat
      BY <1>3, <2>1
    <3> QED
      BY <1>2, <3>1, Floor
  <2>3. start < Len(view)
    <3> HIDE DEF at
    <3> QED
      BY <1>3, <2>1, <2>2
  <2>4. b = [latched EXCEPT !.selected = goal, !.pageStart = start]
    BY <1>5
  <2> HIDE DEF start
  <2> QED
    BY <1>2, <2>2, <2>3, <2>4 DEF Fields, view
<1> QED
  BY <1>1, <1>4, <1>5

LEMMA DrawnKeysAre ==
  ASSUME NEW b, DOMAIN b = Fields, NEW drawn,
         b.keyTargets \in [Keys -> Panes \cup {Nobody}], Apart(b.keyTargets),
         b.retired \in [Keys -> Panes \cup {Nobody}], AsShown(b, drawn),
         NEW rows \in Seq(Panes), Distinct(rows), Len(rows) <= Cardinality(Keys)
  PROVE  LET c == DrawnKeys(b, rows)
         IN  /\ DOMAIN c = Fields /\ c.panes = b.panes /\ c.matches = b.matches /\ c.query = b.query
             /\ c.error = b.error /\ c.pageSize = b.pageSize /\ c.pageStart = b.pageStart
             /\ c.keyTargets \in [Keys -> Panes \cup {Nobody}] /\ Apart(c.keyTargets)
             /\ c.retired \in [Keys -> Panes \cup {Nobody}]
             /\ ~Searching(b) => OneKeyEach(c.keyTargets, rows)
             /\ \A k \in Keys : c.keyTargets[k] # Nobody => c.retired[k] = Nobody
             /\ \A k \in Keys : c.keyTargets[k] = Nobody => c.retired[k] \in {Nobody, drawn[k]}
<1> DEFINE c == DrawnKeys(b, rows)
           old == IF b.resetKeys THEN NoKeys ELSE b.keyTargets
           targets == SynchronizeKeyTargets(old, rows)
           gone(k) == targets[k] = Nobody /\ b.keyTargets[k] \notin ToSet(b.panes) \cup {Nobody}
           retired == [k \in Keys |-> IF targets[k] # Nobody THEN Nobody
                                      ELSE IF gone(k) THEN b.keyTargets[k]
                                      ELSE b.retired[k]]
<1>1. CASE Searching(b)
  <2>1. c = [[b EXCEPT !.keyTargets = NoKeys, !.retired = NoKeys] EXCEPT !.resetKeys = FALSE]
    BY <1>1 DEF DrawnKeys, WithoutKeys
  <2>2. /\ DOMAIN c = Fields /\ c.panes = b.panes /\ c.matches = b.matches /\ c.query = b.query
        /\ c.error = b.error /\ c.pageSize = b.pageSize /\ c.pageStart = b.pageStart
        /\ c.keyTargets = NoKeys /\ c.retired = NoKeys
    BY <2>1 DEF Fields
  <2> HIDE DEF c
  <2>3. c.keyTargets \in [Keys -> Panes \cup {Nobody}] /\ Apart(c.keyTargets)
        /\ \A k \in Keys : c.keyTargets[k] = Nobody /\ c.retired[k] = Nobody
    BY <2>2, NoKeysApart
  <2>4. c.retired \in [Keys -> Panes \cup {Nobody}]
    BY <2>2, NoKeysApart
  <2> QED
    BY <1>1, <2>2, <2>3, <2>4 DEF c
<1>2. CASE ~Searching(b)
  <2>1. old \in [Keys -> Panes \cup {Nobody}] /\ Apart(old)
    BY NoKeysApart
  <2> HIDE DEF old
  <2>2. targets \in [Keys -> Panes \cup {Nobody}] /\ Apart(targets) /\ OneKeyEach(targets, rows)
    BY <2>1, SynchronizeIs
  <2>3. c = [b EXCEPT !.keyTargets = targets, !.retired = retired, !.resetKeys = FALSE]
    BY <1>2 DEF DrawnKeys, old
  <2> HIDE DEF targets
  <2>4. /\ retired \in [Keys -> Panes \cup {Nobody}]
        /\ \A k \in Keys : targets[k] # Nobody => retired[k] = Nobody
        /\ \A k \in Keys : targets[k] = Nobody => retired[k] \in {Nobody, drawn[k]}
    BY <2>2 DEF AsShown
  <2> HIDE DEF retired
  <2>5. /\ DOMAIN c = Fields /\ c.panes = b.panes /\ c.matches = b.matches /\ c.query = b.query
        /\ c.error = b.error /\ c.pageSize = b.pageSize /\ c.pageStart = b.pageStart
        /\ c.keyTargets = targets /\ c.retired = retired
    BY <2>3 DEF Fields
  <2> QED
    BY <2>2, <2>4, <2>5
<1> QED
  BY <1>1, <1>2

\* A screen with rows, as the last arm of Draw leaves it.
LEMMA DrawnRows ==
  ASSUME NEW s, Orderly(s), ~s.error, s.pageSize > 0, View(s) # <<>>,
         NEW drawn \in [Keys -> Panes \cup {Nobody}], AsShown(s, drawn), NEW height,
         s.pageSize = PageSize(height)
  PROVE  LET seeded == SeedInitialSelection([s EXCEPT !.pageStart = ShownStart(s)], View(s))
             rows == Window(View(s), seeded.pageStart, s.pageSize)
         IN  Drawn(ReconcileSelection(DrawnKeys(seeded, rows), rows), drawn, height)
<1> DEFINE view == View(s)
           a == [s EXCEPT !.pageStart = ShownStart(s)]
           b == SeedInitialSelection(a, view)
           rows == Window(view, b.pageStart, s.pageSize)
           c == DrawnKeys(b, rows)
           d == ReconcileSelection(c, rows)
<1>1. /\ view \in Seq(Panes) /\ Distinct(view) /\ Len(view) \in Nat /\ Len(view) > 0
      /\ s.pageSize \in Nat /\ s.pageStart \in Nat /\ Cardinality(Keys) \in Nat
      /\ s.pageSize <= Cardinality(Keys)
  <2>1. s.pageSize \in Nat /\ s.pageStart \in Nat /\ Cardinality(Keys) \in Nat
        /\ s.pageSize <= Cardinality(Keys)
    BY KeyCount DEF Orderly
  <2>2. view \in Seq(Panes) /\ Distinct(view)
    BY ViewIs DEF Orderly
  <2>3. Len(view) \in Nat \ {0}
    BY <2>2, EmptySeq
  <2> QED
    BY <2>1, <2>2, <2>3
<1>2. ShownStart(s) \in Nat /\ ShownStart(s) < Len(view)
  BY <1>1, ShownStartIs DEF Orderly
<1>3. /\ DOMAIN a = Fields /\ a.panes = s.panes /\ a.matches = s.matches /\ a.query = s.query
      /\ a.keyTargets = s.keyTargets /\ a.retired = s.retired /\ a.error = s.error
      /\ a.pageSize = s.pageSize /\ a.pageStart = ShownStart(s)
  BY DEF Orderly, Fields
<1> HIDE DEF a
<1>4. Orderly(a)
  BY <1>2, <1>3 DEF Orderly
<1>5. View(a) = view
  BY <1>3 DEF View, Searching
<1>6. /\ DOMAIN b = Fields /\ b.panes = s.panes /\ b.matches = s.matches /\ b.query = s.query
      /\ b.keyTargets = s.keyTargets /\ b.retired = s.retired /\ b.error = s.error
      /\ b.pageSize = s.pageSize /\ b.pageStart \in Nat /\ b.pageStart < Len(view)
  <2>1. a.pageSize > 0 /\ a.pageStart < Len(View(a))
    BY <1>2, <1>3, <1>5
  <2>2. LET e == SeedInitialSelection(a, View(a))
        IN  /\ DOMAIN e = Fields /\ e.panes = a.panes /\ e.matches = a.matches /\ e.query = a.query
            /\ e.keyTargets = a.keyTargets /\ e.retired = a.retired /\ e.error = a.error
            /\ e.pageSize = a.pageSize
            /\ e.pageStart \in Nat /\ e.pageStart < Len(View(a))
    BY <1>4, <2>1, SeedIs
  <2> HIDE DEF view
  <2> QED
    BY <1>3, <1>5, <2>2
<1> HIDE DEF b, view
<1>7. /\ rows \in Seq(Panes) /\ Distinct(rows)
      /\ Len(rows) = IF b.pageStart + s.pageSize <= Len(view) THEN s.pageSize
                     ELSE Len(view) - b.pageStart
  <2>1. ~(b.pageStart >= Len(view))
    BY <1>1, <1>6
  <2>2. b.pageStart \in Nat
    BY <1>6
  <2> DEFINE start == b.pageStart  page == Window(view, start, s.pageSize)
  <2> HIDE DEF start
  <2>3. start \in Nat /\ ~(start >= Len(view))
    BY <2>1, <2>2 DEF start
  <2>4. /\ page \in Seq(Panes) /\ Distinct(view) => Distinct(page)
        /\ Len(page) = IF start >= Len(view) THEN 0
                       ELSE IF start + s.pageSize <= Len(view) THEN s.pageSize ELSE Len(view) - start
    BY <1>1, <2>3, WindowIs
  <2>5. page \in Seq(Panes)
    BY <1>1, <2>3, WindowIs
  <2> HIDE DEF page
  <2>6. rows = page
    BY DEF page, start
  <2> HIDE DEF rows
  <2>7. Distinct(rows) /\ rows \in Seq(Panes)
    BY <1>1, <2>4, <2>5, <2>6
  <2>8. Len(page) = IF start + s.pageSize <= Len(view) THEN s.pageSize ELSE Len(view) - start
    BY <2>3, <2>4
  <2> QED
    BY <2>6, <2>7, <2>8 DEF start
<1>8. Len(rows) \in Nat /\ Len(rows) > 0 /\ Len(rows) <= Cardinality(Keys)
  <2> HIDE DEF rows
  <2> QED
    BY <1>1, <1>6, <1>7
<1> HIDE DEF rows
<1>9. /\ DOMAIN c = Fields /\ c.panes = s.panes /\ c.matches = s.matches /\ c.query = s.query
      /\ c.error = s.error /\ c.pageSize = s.pageSize /\ c.pageStart = b.pageStart
      /\ c.keyTargets \in [Keys -> Panes \cup {Nobody}] /\ Apart(c.keyTargets)
      /\ c.retired \in [Keys -> Panes \cup {Nobody}]
      /\ ~Searching(b) => OneKeyEach(c.keyTargets, rows)
      /\ \A k \in Keys : c.keyTargets[k] # Nobody => c.retired[k] = Nobody
      /\ \A k \in Keys : c.keyTargets[k] = Nobody => c.retired[k] \in {Nobody, drawn[k]}
  <2>1. /\ b.keyTargets \in [Keys -> Panes \cup {Nobody}] /\ Apart(b.keyTargets)
        /\ b.retired \in [Keys -> Panes \cup {Nobody}] /\ AsShown(b, drawn)
    BY <1>6 DEF Orderly, AsShown
  <2>2. /\ DOMAIN c = Fields /\ c.panes = b.panes /\ c.matches = b.matches /\ c.query = b.query
        /\ c.error = b.error /\ c.pageSize = b.pageSize /\ c.pageStart = b.pageStart
        /\ c.keyTargets \in [Keys -> Panes \cup {Nobody}] /\ Apart(c.keyTargets)
        /\ c.retired \in [Keys -> Panes \cup {Nobody}]
        /\ ~Searching(b) => OneKeyEach(c.keyTargets, rows)
        /\ \A k \in Keys : c.keyTargets[k] # Nobody => c.retired[k] = Nobody
        /\ \A k \in Keys : c.keyTargets[k] = Nobody => c.retired[k] \in {Nobody, drawn[k]}
    BY <1>6, <1>7, <1>8, <2>1, DrawnKeysAre
  <2> HIDE DEF c
  <2> QED
    BY <1>6, <2>2
<1> HIDE DEF c
<1>10. /\ DOMAIN d = Fields /\ d.panes = s.panes /\ d.matches = s.matches /\ d.query = s.query
       /\ d.error = s.error /\ d.pageSize = s.pageSize /\ d.pageStart = b.pageStart
       /\ d.keyTargets = c.keyTargets /\ d.retired = c.retired /\ d.selected \in ToSet(rows)
  <2>1. rows[1] \in ToSet(rows) /\ rows # <<>>
    <3>1. DOMAIN rows = 1..Len(rows)
      BY <1>7, LenProperties
    <3>2. 1 \in DOMAIN rows
      BY <1>8, <3>1
    <3> QED
      BY <3>2, <1>8, EmptySeq DEF ToSet
  <2> QED
    BY <1>9, <2>1 DEF ReconcileSelection, Fields
<1> HIDE DEF d
<1>11. Orderly(d)
  BY <1>6, <1>9, <1>10 DEF Orderly
<1>12. View(d) = view /\ (Searching(d) <=> Searching(s)) /\ (Searching(b) <=> Searching(s))
  BY <1>6, <1>10 DEF View, Searching, view
<1>13. ShownStart(d) = b.pageStart
  BY <1>6, <1>10, <1>11, <1>12, <1>1, ShownStartIs DEF Orderly
<1>14. Shown(d) = rows
  BY <1>10, <1>12, <1>13 DEF Shown, rows
<1>15. FrameOf(d).rows = rows /\ FrameOf(d).highlight = d.selected /\ FrameOf(d).keys = d.keyTargets
  BY <1>1, <1>10, <1>14 DEF FrameOf
<1>16. OnScreen(d, FrameOf(d))
  BY <1>9, <1>10, <1>12, <1>14, <1>15 DEF OnScreen
<1>17. AsShown(d, ShownAfter(drawn, FrameOf(d)))
  BY <1>9, <1>10, <1>15 DEF AsShown, ShownAfter
<1>18. d.pageSize = PageSize(height)
  BY <1>10
<1>19. Drawn(d, drawn, height)
  BY <1>11, <1>16, <1>17, <1>18 DEF Drawn
<1> QED
  BY <1>19 DEF a, b, c, d, rows, view

LEMMA DrawIs ==
  ASSUME NEW before, Orderly(before), NEW drawn \in [Keys -> Panes \cup {Nobody}],
         AsShown(before, drawn), NEW height \in Nat
  PROVE  Drawn(Draw(before, height), drawn, height)
<1> DEFINE s == [before EXCEPT !.pageSize = PageSize(height)]
           empty == [WithoutKeys(s) EXCEPT !.selected = Nobody, !.query = NotSearching]
           view == View(s)
           seeded == SeedInitialSelection([s EXCEPT !.pageStart = ShownStart(s)], view)
           rows == Window(view, seeded.pageStart, s.pageSize)
           d == Draw(before, height)
<1>1. d = IF s.error \/ (s.pageSize = 0 /\ s.panes # <<>>) THEN empty
          ELSE IF s.panes = <<>> THEN [empty EXCEPT !.pageStart = 0]
          ELSE IF view = <<>> THEN [s EXCEPT !.pageStart = 0, !.selected = Nobody]
          ELSE ReconcileSelection(DrawnKeys(seeded, rows), rows)
  BY DEF Draw
<1>2. /\ Orderly(s) /\ AsShown(s, drawn) /\ s.pageSize = PageSize(height)
      /\ s.pageSize \in Nat /\ DOMAIN s = Fields
  <2>1. /\ DOMAIN s = Fields /\ s.panes = before.panes /\ s.keyTargets = before.keyTargets
        /\ s.retired = before.retired /\ s.error = before.error /\ s.pageStart = before.pageStart
        /\ s.pageSize = PageSize(height)
    BY DEF Orderly, Fields
  <2>2. s.pageSize \in 0..Cardinality(Keys)
    BY <2>1, PageSizeIs
  <2> HIDE DEF s
  <2>3. Orderly(s) /\ AsShown(s, drawn)
    BY <2>1, <2>2 DEF Orderly, AsShown
  <2> QED
    BY <2>1, <2>2, <2>3, KeyCount
<1> HIDE DEF d, s
<1>3. /\ DOMAIN empty = Fields /\ empty.panes = s.panes /\ empty.error = s.error
      /\ empty.pageStart = s.pageStart /\ empty.pageSize = s.pageSize
      /\ empty.keyTargets = NoKeys /\ empty.retired = NoKeys /\ empty.selected = Nobody
  BY <1>2 DEF WithoutKeys, Fields
<1> HIDE DEF empty
<1>4. Orderly(empty)
  BY <1>2, <1>3, NoKeysApart DEF Orderly
<1>5. CASE s.error \/ (s.pageSize = 0 /\ s.panes # <<>>)
  <2>1. d = empty
    BY <1>1, <1>5
  <2> QED
    BY <1>2, <1>3, <1>4, <1>5, <2>1, DrawnEmpty DEF d
<1>6. CASE ~(s.error \/ (s.pageSize = 0 /\ s.panes # <<>>)) /\ s.panes = <<>>
  <2>1. d = [empty EXCEPT !.pageStart = 0]
    BY <1>1, <1>6
  <2>2. /\ DOMAIN d = Fields /\ d.panes = s.panes /\ d.error = s.error
        /\ d.pageStart = 0 /\ d.pageSize = s.pageSize
        /\ d.keyTargets = NoKeys /\ d.retired = NoKeys /\ d.selected = Nobody
    BY <1>3, <2>1 DEF Fields
  <2>3. Orderly(d)
    BY <1>2, <2>2, NoKeysApart DEF Orderly
  <2> QED
    BY <1>2, <1>6, <2>2, <2>3, DrawnEmpty DEF d
<1>7. CASE ~(s.error \/ (s.pageSize = 0 /\ s.panes # <<>>)) /\ s.panes # <<>> /\ view = <<>>
  <2>1. d = [s EXCEPT !.pageStart = 0, !.selected = Nobody]
    BY <1>1, <1>7
  <2>2. /\ DOMAIN d = Fields /\ d.panes = s.panes /\ d.error = s.error /\ d.query = s.query
        /\ d.matches = s.matches /\ d.pageStart = 0 /\ d.pageSize = s.pageSize
        /\ d.keyTargets = s.keyTargets /\ d.retired = s.retired /\ d.selected = Nobody
    BY <1>2, <2>1 DEF Fields
  <2>3. Orderly(d)
    BY <1>2, <2>2 DEF Orderly
  <2>4. View(d) = <<>> /\ Searching(d)
    <3>1. View(d) = <<>>
      BY <1>7, <2>2 DEF View, Searching
    <3>2. ~Searching(d) => View(d) = d.panes
      BY DEF View
    <3> QED
      BY <1>7, <2>2, <3>1, <3>2
  <2>5. Shown(d) = <<>>
    <3>1. Shown(d) \in Seq(Panes) /\ ToSet(Shown(d)) \subseteq ToSet(View(d))
      BY <1>2, <2>2, <2>3, ShownIs DEF Orderly
    <3>2. ToSet(View(d)) = {}
      BY <2>4 DEF ToSet
    <3> QED
      BY <3>1, <3>2, NoneIsEmpty
  <2>6. FrameOf(d).rows = <<>> /\ FrameOf(d).highlight = Nobody /\ FrameOf(d).keys = d.keyTargets
    BY <1>7, <2>2, <2>5 DEF FrameOf
  <2>7. OnScreen(d, FrameOf(d))
    BY <2>2, <2>4, <2>5, <2>6 DEF OnScreen
  <2>8. AsShown(d, ShownAfter(drawn, FrameOf(d)))
    BY <1>2, <2>2, <2>6 DEF AsShown, ShownAfter
  <2> QED
    BY <1>2, <2>2, <2>3, <2>7, <2>8 DEF Drawn, d
<1>8. CASE ~(s.error \/ (s.pageSize = 0 /\ s.panes # <<>>)) /\ s.panes # <<>> /\ view # <<>>
  <2>1. d = ReconcileSelection(DrawnKeys(seeded, rows), rows)
    BY <1>1, <1>8
  <2>2. ~s.error /\ s.pageSize > 0
    BY <1>2, <1>8
  <2>3. Drawn(ReconcileSelection(DrawnKeys(seeded, rows), rows), drawn, height)
    BY <1>2, <1>8, <2>2, DrawnRows
  <2> QED
    BY <2>1, <2>3 DEF d
<1> QED
  BY <1>5, <1>6, <1>7, <1>8

-----------------------------------------------------------------------------
(* A snapshot's panes                                                       *)

LEMMA ConcatDistinct ==
  ASSUME NEW T, NEW p \in Seq(T), NEW q \in Seq(T), Distinct(p), Distinct(q),
         ToSet(p) \cap ToSet(q) = {}
  PROVE  p \o q \in Seq(T) /\ Distinct(p \o q)
<1> DEFINE r == p \o q
<1>1. /\ r \in Seq(T) /\ DOMAIN r = 1..(Len(p) + Len(q))
      /\ DOMAIN p = 1..Len(p) /\ DOMAIN q = 1..Len(q) /\ Len(p) \in Nat /\ Len(q) \in Nat
      /\ \A i \in 1..(Len(p) + Len(q)) : r[i] = IF i <= Len(p) THEN p[i] ELSE q[i - Len(p)]
  OBVIOUS
<1> HIDE DEF r
<1>2. ASSUME NEW i \in DOMAIN r
      PROVE  \/ i \in DOMAIN p /\ r[i] = p[i] /\ r[i] \in ToSet(p)
             \/ i - Len(p) \in DOMAIN q /\ i > Len(p) /\ r[i] = q[i - Len(p)] /\ r[i] \in ToSet(q)
  <2>1. CASE i <= Len(p)
    <3>1. i \in DOMAIN p /\ r[i] = p[i]
      BY <1>1, <1>2, <2>1
    <3> QED
      BY <3>1 DEF ToSet
  <2>2. CASE ~(i <= Len(p))
    <3>1. i - Len(p) \in DOMAIN q /\ i > Len(p) /\ r[i] = q[i - Len(p)]
      BY <1>1, <1>2, <2>2
    <3> QED
      BY <3>1 DEF ToSet
  <2> QED
    BY <2>1, <2>2
<1>3. ASSUME NEW i \in DOMAIN r, NEW j \in DOMAIN r, r[i] = r[j]
      PROVE  i = j
  <2>1. CASE i \in DOMAIN p /\ r[i] = p[i] /\ r[i] \in ToSet(p)
    <3>1. j \in DOMAIN p /\ r[j] = p[j]
      BY <1>2, <1>3, <2>1
    <3> QED
      BY <1>3, <2>1, <3>1 DEF Distinct
  <2>2. CASE i - Len(p) \in DOMAIN q /\ r[i] = q[i - Len(p)] /\ r[i] \in ToSet(q)
    <3>1. j - Len(p) \in DOMAIN q /\ r[j] = q[j - Len(p)]
      BY <1>2, <1>3, <2>2
    <3>2. i - Len(p) = j - Len(p)
      BY <1>3, <2>2, <3>1 DEF Distinct
    <3>3. i \in Nat /\ j \in Nat /\ Len(p) \in Nat
      BY <1>1
    <3> QED
      BY <3>2, <3>3
  <2> QED
    BY <1>2, <2>1, <2>2
<1> QED
  BY <1>1, <1>3 DEF r, Distinct

Said(snapshot) ==
  /\ snapshot.ids \subseteq Panes /\ snapshot.workspace \in [snapshot.ids -> Nat]

LEMMA MergedIs ==
  ASSUME NEW s, Orderly(s), NEW snapshot, Said(snapshot)
  PROVE  Merged(s, snapshot) \in Seq(Panes) /\ Distinct(Merged(s, snapshot))
<1> DEFINE ids == snapshot.ids
<1>1. ids \subseteq Nat /\ IsFiniteSet(ids) /\ ids \subseteq Panes
      /\ snapshot.workspace \in [ids -> Nat]
  BY PickerAssumption, FS_Subset DEF Said
<1>2. CASE groupBy = "workspace"
  <2> DEFINE before == {pair \in ids \X ids :
                          PickerSortKeyBefore(snapshot.workspace, pair[1], pair[2])}
  <2>1. Merged(s, snapshot) = Ordered(ids, before)
    BY <1>2 DEF Merged
  <2>2. Lists(Ordered(ids, before), ids)
    BY <1>1, ByWorkspaceLists
  <2> HIDE DEF before
  <2>3. Ordered(ids, before) \in Seq(ids) /\ Distinct(Ordered(ids, before))
    BY <2>2 DEF Lists
  <2>4. Ordered(ids, before) \in Seq(Panes)
    BY <1>1, <2>3, SeqMonotonic
  <2> QED
    BY <2>1, <2>3, <2>4
<1>3. CASE groupBy # "workspace"
  <2> DEFINE stay == Those(s.panes, ids)
             come == Ascending(ids \ ToSet(s.panes))
  <2>1. Merged(s, snapshot) = stay \o come
    BY <1>3 DEF Merged
  <2>2. stay \in Seq(Panes) /\ Distinct(stay) /\ ToSet(stay) = ToSet(s.panes) \cap ids
    BY ThoseAreTheSet DEF Orderly
  <2>3. IsFiniteSet(ids \ ToSet(s.panes)) /\ ids \ ToSet(s.panes) \subseteq Nat
    BY <1>1, FS_Difference
  <2>4. Lists(come, ids \ ToSet(s.panes))
    BY <2>3, AscendingLists
  <2>5. come \in Seq(ids \ ToSet(s.panes)) /\ Distinct(come) /\ ToSet(come) = ids \ ToSet(s.panes)
    BY <2>4 DEF Lists
  <2>6. come \in Seq(Panes)
    BY <1>1, <2>5, SeqMonotonic
  <2>7. ToSet(stay) \cap ToSet(come) = {}
    BY <2>2, <2>5
  <2> HIDE DEF stay, come
  <2> QED
    BY <2>1, <2>2, <2>5, <2>6, <2>7, ConcatDistinct
<1> QED
  BY <1>2, <1>3

LEMMA ReanchorRowsIs ==
  ASSUME NEW page \in Seq(Panes), NEW new \in Seq(Panes), NEW start \in Nat, NEW size \in Nat
  PROVE  ReanchorRows(page, new, start, size) \in Nat
<1> DEFINE i == FirstOf(page, ToSet(new))
           last == LastNonEmptyPageStart(Len(new), size)
<1>1. Len(new) \in Nat /\ DOMAIN new = 1..Len(new) /\ Len(page) \in Nat
  BY LenProperties
<1>2. i = 0 \/ (i \in 1..Len(page) /\ page[i] \in ToSet(new))
  <2> DEFINE I == {k \in 1..Len(page) : page[k] \in ToSet(new)}
  <2>1. i = IF I # {} THEN Min(I) ELSE 0
    BY DEF FirstOf, SelectInSeq
  <2>2. I # {} => Min(I) \in I
    <3>1. I \subseteq Nat
      OBVIOUS
    <3>2. I # {} => \E x \in I : \A y \in I : x <= y
      BY <3>1, LeastNatural
    <3> HIDE DEF I
    <3> QED
      BY <3>2 DEF Min
  <2> QED
    BY <2>1, <2>2
<1>3. last \in Nat
  BY <1>1, LastPageIs
<1> HIDE DEF i, last
<1>4. i # 0 => Position(new, page[i]) - 1 \in Nat
  <2> SUFFICES ASSUME i # 0 PROVE Position(new, page[i]) - 1 \in Nat
    OBVIOUS
  <2>1. \E k \in DOMAIN new : new[k] = page[i]
    BY <1>2 DEF ToSet
  <2>2. Position(new, page[i]) \in DOMAIN new
    BY <2>1 DEF Position
  <2> QED
    BY <1>1, <2>2
<1>5. Min({start, last}) \in Nat
  BY <1>3, MinOfTwo
<1> QED
  BY <1>4, <1>5 DEF ReanchorRows, i, last

LEMMA ReanchorIs ==
  ASSUME NEW old \in Seq(Panes), NEW new \in Seq(Panes), NEW start \in Nat, NEW size \in Nat
  PROVE  /\ Reanchor(old, new, start, size) \in Nat
         /\ ReanchorToPageBoundary(old, new, start, size) \in Nat
<1> DEFINE last == LastNonEmptyPageStart(Len(new), size)
<1>1. Len(old) \in Nat /\ Len(new) \in Nat
  BY LenProperties
<1>2. Min({start, Len(old)}) \in Nat
  BY <1>1, MinOfTwo
<1>3. Reanchor(old, new, start, size) \in Nat
  BY <1>2, WindowIs, ReanchorRowsIs DEF Reanchor
<1>4. last \in Nat
  BY <1>1, LastPageIs
<1> HIDE DEF last
<1>5. ReanchorToPageBoundary(old, new, start, size) \in Nat
  <2>1. CASE size = 0
    BY <2>1 DEF ReanchorToPageBoundary
  <2>2. CASE size # 0
    <3> DEFINE at == (Reanchor(old, new, start, size) \div size) * size
    <3>1. at \in Nat
      BY <1>3, <2>2, Floor
    <3>2. ReanchorToPageBoundary(old, new, start, size) = Min({at, last})
      BY <2>2 DEF ReanchorToPageBoundary, last
    <3> HIDE DEF at
    <3>3. Min({at, last}) \in Nat
      BY <1>4, <3>1, MinOfTwo
    <3> QED
      BY <3>2, <3>3
  <2> QED
    BY <2>1, <2>2
<1> QED
  BY <1>3, <1>5

LEMMA ReplaceIs ==
  ASSUME NEW s, Orderly(s), NEW drawn, AsShown(s, drawn), NEW snapshot, Said(snapshot)
  PROVE  Orderly(ReplacePanes(s, snapshot)) /\ AsShown(ReplacePanes(s, snapshot), drawn)
<1> DEFINE merged == Merged(s, snapshot)
           listed == [s EXCEPT !.panes = merged, !.matches = snapshot.matches,
                               !.recent = snapshot.recent, !.error = FALSE]
           t == ReplacePanes(s, snapshot)
<1>1. merged \in Seq(Panes) /\ Distinct(merged)
  BY MergedIs
<1> HIDE DEF merged
<1>2. /\ DOMAIN listed = Fields /\ listed.panes = merged /\ listed.keyTargets = s.keyTargets
      /\ listed.retired = s.retired /\ listed.pageStart = s.pageStart
      /\ listed.pageSize = s.pageSize /\ listed.error = FALSE
  BY DEF Orderly, Fields
<1>3. s.pageSize \in Nat /\ s.pageStart \in Nat /\ s.panes \in Seq(Panes) /\ Distinct(s.panes)
  BY KeyCount DEF Orderly
<1>4. \E start \in Nat : \E reset :
         \/ t = [listed EXCEPT !.pageStart = start]
         \/ t = [listed EXCEPT !.pageStart = start, !.resetKeys = reset]
  <2>1. CASE Searching(s)
    <3>1. Shown(s) \in Seq(Panes) /\ View(listed) \in Seq(Panes)
      BY <1>1, <1>2, <1>3, ShownIs, ViewIs
    <3> DEFINE start == ReanchorRows(Shown(s), View(listed), s.pageStart, s.pageSize)
    <3>2. start \in Nat
      BY <1>3, <3>1, ReanchorRowsIs
    <3>3. t = [listed EXCEPT !.pageStart = start]
      BY <2>1 DEF ReplacePanes, merged
    <3> HIDE DEF start, listed, t
    <3> QED
      BY <3>2, <3>3
  <2>2. CASE ~Searching(s)
    <3> DEFINE a == ReanchorToPageBoundary(s.panes, merged, s.pageStart, s.pageSize)
               b == Reanchor(s.panes, merged, s.pageStart, s.pageSize)
               reordered == merged # s.panes /\ Len(merged) = Len(s.panes)
                            /\ ToSet(merged) = ToSet(s.panes)
               start == IF reordered THEN a ELSE b
               moved == VisibleKeySlotsChanged(s.panes, merged, s.pageStart, start, s.pageSize)
               reset == s.resetKeys \/ (moved /\ (reordered \/ groupBy # "session"))
    <3>1. a \in Nat /\ b \in Nat
      BY <1>1, <1>3, ReanchorIs
    <3>2. start \in Nat
      BY <3>1
    <3>3. t = [listed EXCEPT !.pageStart = start,
                             !.resetKeys = @ \/ (moved /\ (reordered \/ groupBy # "session"))]
      BY <2>2 DEF ReplacePanes, merged
    <3>4. listed.resetKeys = s.resetKeys
      BY DEF Orderly, Fields
    <3> HIDE DEF a, b, start, reordered, moved, listed, t
    <3>5. t = [listed EXCEPT !.pageStart = start, !.resetKeys = reset]
      BY <3>3, <3>4, <1>2 DEF Fields
    <3> QED
      BY <3>2, <3>5
  <2> QED
    BY <2>1, <2>2
<1> HIDE DEF listed, t
<1>5. PICK start \in Nat : \E reset :
         \/ t = [listed EXCEPT !.pageStart = start]
         \/ t = [listed EXCEPT !.pageStart = start, !.resetKeys = reset]
  BY <1>4
<1>6. /\ DOMAIN t = Fields /\ t.panes = merged /\ t.keyTargets = s.keyTargets
      /\ t.retired = s.retired /\ t.pageStart \in Nat
      /\ t.pageSize = s.pageSize /\ t.error = FALSE
  BY <1>2, <1>5 DEF Fields
<1> QED
  BY <1>1, <1>6 DEF Orderly, AsShown, t

-----------------------------------------------------------------------------
(* The handlers                                                             *)

\* What a handler may change of the state that it hands to Draw.
LEMMA Handed ==
  ASSUME NEW s, Orderly(s), NEW drawn, AsShown(s, drawn), NEW t,
         DOMAIN t = Fields, t.panes = s.panes, t.error = s.error, t.pageSize = s.pageSize,
         t.pageStart \in Nat,
         \/ t.keyTargets = s.keyTargets /\ t.retired = s.retired
         \/ t.keyTargets = NoKeys /\ t.retired = NoKeys
  PROVE  Orderly(t) /\ AsShown(t, drawn)
<1>1. CASE t.keyTargets = s.keyTargets /\ t.retired = s.retired
  BY <1>1 DEF Orderly, AsShown
<1>2. CASE t.keyTargets = NoKeys /\ t.retired = NoKeys
  BY <1>2, NoKeysApart DEF Orderly, AsShown
<1> QED
  BY <1>1, <1>2

LEMMA CancelIs ==
  ASSUME NEW s, Orderly(s), NEW drawn, AsShown(s, drawn)
  PROVE  LET t == CancelSeed(s)
         IN  /\ Orderly(t) /\ AsShown(t, drawn) /\ SameView(s, t) /\ DOMAIN t = Fields
             /\ t.keyTargets = s.keyTargets /\ t.retired = s.retired /\ t.selected = s.selected
             /\ t.error = s.error
<1> DEFINE t == CancelSeed(s)
<1>1. /\ DOMAIN t = Fields /\ t.panes = s.panes /\ t.query = s.query /\ t.matches = s.matches
      /\ t.pageStart = s.pageStart /\ t.pageSize = s.pageSize /\ t.error = s.error
      /\ t.keyTargets = s.keyTargets /\ t.retired = s.retired /\ t.selected = s.selected
  BY DEF CancelSeed, Orderly, Fields
<1> HIDE DEF t
<1>2. Orderly(t) /\ AsShown(t, drawn)
  BY <1>1, Handed DEF Orderly
<1> QED
  BY <1>1, <1>2 DEF SameView, t

LEMMA WithoutKeysIs ==
  ASSUME NEW s, DOMAIN s = Fields
  PROVE  LET t == WithoutKeys(s)
         IN  /\ DOMAIN t = Fields /\ t.keyTargets = NoKeys /\ t.retired = NoKeys
             /\ SameView(s, t) /\ t.error = s.error /\ t.selected = s.selected
BY DEF WithoutKeys, Fields, SameView

LEMMA RedrawKeeps ==
  ASSUME PickerInv, NEW s, Orderly(s), AsShown(s, shown), Redraw(s), terminal' = terminal
  PROVE  PickerInv'
<1>1. shown \in [Keys -> Panes \cup {Nobody}] /\ terminal \in Nat
  BY DEF PickerInv
<1>2. Drawn(Draw(s, terminal), shown, terminal)
  BY <1>1, DrawIs
<1>3. /\ Orderly(Draw(s, terminal))
      /\ AsShown(Draw(s, terminal), ShownAfter(shown, FrameOf(Draw(s, terminal))))
      /\ OnScreen(Draw(s, terminal), FrameOf(Draw(s, terminal)))
  BY <1>2 DEF Drawn
<1>4. state' = Draw(s, terminal) /\ frame' = FrameOf(Draw(s, terminal))
      /\ shown' = ShownAfter(shown, FrameOf(Draw(s, terminal)))
  BY DEF Redraw, ShownAfter
<1>5. Orderly(state') /\ AsShown(state', shown') /\ OnScreen(state', frame')
  BY <1>3, <1>4
<1>6. frame'.keys \in [Keys -> Panes \cup {Nobody}]
  BY <1>5 DEF OnScreen, Orderly
<1>7. shown' = [k \in Keys |-> IF frame'.keys[k] # Nobody THEN frame'.keys[k] ELSE shown[k]]
  BY DEF Redraw
<1>8. shown' \in [Keys -> Panes \cup {Nobody}]
  BY <1>1, <1>6, <1>7
<1> QED
  BY <1>1, <1>5, <1>8 DEF PickerInv

LEMMA ContinueKeeps ==
  ASSUME PickerInv, Continue(CancelSeed(state)), terminal' = terminal
  PROVE  PickerInv'
<1> DEFINE t == CancelSeed(state)
<1>1. /\ Orderly(t) /\ AsShown(t, shown) /\ SameView(state, t)
      /\ t.keyTargets = state.keyTargets /\ t.retired = state.retired /\ t.selected = state.selected
  BY CancelIs DEF PickerInv
<1>2. state' = t /\ frame' = frame /\ shown' = shown
  BY DEF Continue
<1> HIDE DEF t
<1>3. OnScreen(t, frame)
  BY <1>1, ShownAlike DEF PickerInv, OnScreen, SameView
<1>4. Orderly(state') /\ AsShown(state', shown') /\ OnScreen(state', frame')
  BY <1>1, <1>2, <1>3
<1> QED
  BY <1>2, <1>4 DEF PickerInv

LEMMA StayKeeps ==
  ASSUME PickerInv, UNCHANGED <<state, frame, shown, terminal>>
  PROVE  PickerInv'
<1>1. Orderly(state') /\ AsShown(state', shown') /\ OnScreen(state', frame')
  BY DEF PickerInv
<1> QED
  BY <1>1 DEF PickerInv

LEMMA NextPageIs ==
  ASSUME NEW s, Orderly(s), NEW drawn, AsShown(s, drawn)
  PROVE  LET t == NextPageOf(s)
         IN  /\ Orderly(t) /\ AsShown(t, drawn) /\ t.error = s.error
             /\ t # s => s.pageSize # 0 /\ s.pageStart + s.pageSize < Len(View(s))
<1> DEFINE n == Len(View(s))
           t == NextPageOf(s)
           next == Min({s.pageStart + s.pageSize, LastNonEmptyPageStart(n, s.pageSize)})
<1>1. n \in Nat /\ s.pageSize \in Nat /\ s.pageStart \in Nat /\ DOMAIN s = Fields
  BY ViewIs, KeyCount DEF Orderly
<1>2. t = IF s.pageSize = 0 \/ n = 0 \/ s.pageStart + s.pageSize >= n THEN s
          ELSE [WithoutKeys(s) EXCEPT !.pageStart = next]
  BY DEF NextPageOf
<1>3. next \in Nat
  <2> DEFINE size == s.pageSize  last == LastNonEmptyPageStart(n, size)  sum == s.pageStart + size
  <2>1. n \in Nat /\ size \in Nat /\ sum \in Nat
    BY <1>1
  <2> HIDE DEF n, size, sum
  <2>2. last \in Nat
    BY <2>1, LastPageIs
  <2> HIDE DEF last
  <2>3. Min({sum, last}) \in Nat
    BY <2>1, <2>2, MinOfTwo
  <2> QED
    BY <2>3 DEF sum, last, size
<1> HIDE DEF n, t, next
<1>4. CASE s.pageSize = 0 \/ n = 0 \/ s.pageStart + s.pageSize >= n
  BY <1>2, <1>4 DEF t, n
<1>5. CASE ~(s.pageSize = 0 \/ n = 0 \/ s.pageStart + s.pageSize >= n)
  <2> DEFINE w == WithoutKeys(s)
  <2>1. /\ DOMAIN w = Fields /\ w.keyTargets = NoKeys /\ w.retired = NoKeys
        /\ SameView(s, w) /\ w.error = s.error
    BY <1>1, WithoutKeysIs
  <2>2. t = [w EXCEPT !.pageStart = next]
    BY <1>2, <1>5
  <2> HIDE DEF w
  <2>3. /\ DOMAIN t = Fields /\ t.panes = s.panes /\ t.error = s.error /\ t.pageSize = s.pageSize
        /\ t.pageStart \in Nat /\ t.keyTargets = NoKeys /\ t.retired = NoKeys
    BY <1>3, <2>1, <2>2 DEF Fields, SameView
  <2>4. Orderly(t) /\ AsShown(t, drawn)
    BY <2>3, Handed
  <2>5. s.pageStart + s.pageSize < n
    BY <1>1, <1>5
  <2> QED
    BY <1>5, <2>3, <2>4, <2>5 DEF t, n
<1> QED
  BY <1>4, <1>5

LEMMA NextPageStep ==
  ASSUME PickerInv, NextPage PROVE PickerInv'
<1> DEFINE s == CancelSeed(state)  t == NextPageOf(s)
<1>1. Orderly(s) /\ AsShown(s, shown)
  BY CancelIs DEF PickerInv
<1>2. terminal' = terminal
  BY DEF NextPage, Moved, Press
<1>3. t # s => Redraw(t)
  BY DEF NextPage
<1>4. t = s => Continue(CancelSeed(state))
  BY DEF NextPage
<1> HIDE DEF s
<1>5. Orderly(t) /\ AsShown(t, shown)
  BY <1>1, NextPageIs
<1> QED
  BY <1>2, <1>3, <1>4, <1>5, RedrawKeeps, ContinueKeeps

LEMMA PreviousPageStep ==
  ASSUME PickerInv, PreviousPage PROVE PickerInv'
<1> DEFINE s == CancelSeed(state)
           start == IF s.pageStart < s.pageSize THEN 0 ELSE s.pageStart - s.pageSize
           t == [WithoutKeys(s) EXCEPT !.pageStart = start]
<1>1. Orderly(s) /\ AsShown(s, shown) /\ DOMAIN s = Fields
  BY CancelIs DEF PickerInv
<1>2. terminal' = terminal
  BY DEF PreviousPage, Moved, Press
<1>3. \/ Continue(CancelSeed(state))
      \/ Redraw([WithoutKeys(s) EXCEPT !.pageStart = IF s.pageStart < s.pageSize THEN 0
                                                    ELSE @ - s.pageSize])
  BY DEF PreviousPage
<1> HIDE DEF s
<1>4. /\ DOMAIN WithoutKeys(s) = Fields /\ WithoutKeys(s).keyTargets = NoKeys
      /\ WithoutKeys(s).retired = NoKeys /\ SameView(s, WithoutKeys(s))
      /\ WithoutKeys(s).error = s.error
  BY <1>1, WithoutKeysIs
<1>5. [WithoutKeys(s) EXCEPT !.pageStart = IF s.pageStart < s.pageSize THEN 0 ELSE @ - s.pageSize] = t
  BY <1>4 DEF SameView, Fields
<1>6. start \in Nat
  BY <1>1, KeyCount DEF Orderly
<1> HIDE DEF start
<1>7. /\ DOMAIN t = Fields /\ t.panes = s.panes /\ t.error = s.error /\ t.pageSize = s.pageSize
      /\ t.pageStart \in Nat /\ t.keyTargets = NoKeys /\ t.retired = NoKeys
  BY <1>4, <1>6 DEF Fields, SameView
<1>8. Orderly(t) /\ AsShown(t, shown)
  BY <1>1, <1>7, Handed
<1> QED
  BY <1>2, <1>3, <1>5, <1>8, RedrawKeeps, ContinueKeeps

\* Another highlight: any, since Draw looks after it.
LEMMA Highlighted ==
  ASSUME NEW s, Orderly(s), NEW drawn, AsShown(s, drawn), NEW p
  PROVE  Orderly([s EXCEPT !.selected = p]) /\ AsShown([s EXCEPT !.selected = p], drawn)
<1> DEFINE t == [s EXCEPT !.selected = p]
<1>1. /\ DOMAIN t = Fields /\ t.panes = s.panes /\ t.error = s.error /\ t.pageSize = s.pageSize
      /\ t.pageStart \in Nat /\ t.keyTargets = s.keyTargets /\ t.retired = s.retired
  BY DEF Orderly, Fields
<1> HIDE DEF t
<1>2. Orderly(t) /\ AsShown(t, drawn)
  BY <1>1, Handed
<1> QED
  BY <1>2 DEF t

LEMMA SelectNextStep ==
  ASSUME PickerInv, SelectNext PROVE PickerInv'
<1> DEFINE s == CancelSeed(state)  view == View(s)  rows == Shown(s)
           last == ShownStart(s) + Len(rows)
           t == NextPageOf(s)
<1>1. Orderly(s) /\ AsShown(s, shown)
  BY CancelIs DEF PickerInv
<1>2. terminal' = terminal
  BY DEF SelectNext, Moved, Press
<1>3. \/ Continue(CancelSeed(state))
      \/ \E p : Redraw([s EXCEPT !.selected = p])
      \/ rows # <<>> /\ (t = s \/ last >= Len(view)) /\ Continue(t)
      \/ \E p : Redraw([t EXCEPT !.selected = p])
  BY DEF SelectNext
<1>0. s = CancelSeed(state)
  OBVIOUS
<1> HIDE DEF s
<1>4. Orderly(t) /\ AsShown(t, shown)
      /\ (t # s => s.pageSize # 0 /\ s.pageStart + s.pageSize < Len(View(s)))
  BY <1>1, NextPageIs
<1>5. rows # <<>> /\ last >= Len(view) => t = s
  <2> SUFFICES ASSUME rows # <<>>, last >= Len(view), t # s PROVE FALSE
    OBVIOUS
  <2>1. s.pageSize \in Nat /\ s.pageStart \in Nat /\ Len(view) \in Nat
        /\ s.pageStart + s.pageSize < Len(view)
    BY <1>1, <1>4, ViewIs, KeyCount DEF Orderly
  <2>2. s.pageStart < Len(view)
    <3> HIDE DEF view
    <3> QED
      BY <2>1
  <2>3. ShownStart(s) = s.pageStart
    BY <1>1, <2>1, <2>2, ShownStartIs DEF Orderly
  <2>4. Len(rows) = IF ShownStart(s) >= Len(view) THEN 0
                    ELSE IF ShownStart(s) + s.pageSize <= Len(view) THEN s.pageSize
                    ELSE Len(view) - ShownStart(s)
    BY <1>1, <2>1, ShownIs DEF Orderly
  <2> HIDE DEF rows, view
  <2>5. Len(rows) = s.pageSize
    BY <2>1, <2>2, <2>3, <2>4
  <2> QED
    BY <2>1, <2>3, <2>5
<1> HIDE DEF rows, view, last, t
<1>6. CASE Continue(CancelSeed(state))
  BY <1>2, <1>6, ContinueKeeps
<1>7. CASE \E p : Redraw([s EXCEPT !.selected = p])
  BY <1>1, <1>2, <1>7, Highlighted, RedrawKeeps
<1>8. CASE rows # <<>> /\ (t = s \/ last >= Len(view)) /\ Continue(t)
  BY <1>0, <1>2, <1>5, <1>8, ContinueKeeps
<1>9. CASE \E p : Redraw([t EXCEPT !.selected = p])
  BY <1>2, <1>4, <1>9, Highlighted, RedrawKeeps
<1> QED
  BY <1>3, <1>6, <1>7, <1>8, <1>9

LEMMA SelectPreviousStep ==
  ASSUME PickerInv, SelectPrevious PROVE PickerInv'
<1> DEFINE s == CancelSeed(state)  view == View(s)  rows == Shown(s)
           top == ShownStart(s)
           start == IF top < s.pageSize THEN 0 ELSE top - s.pageSize
           t == [WithoutKeys(s) EXCEPT !.pageStart = start, !.selected = view[top]]
<1>1. Orderly(s) /\ AsShown(s, shown) /\ DOMAIN s = Fields
  BY CancelIs DEF PickerInv
<1>2. terminal' = terminal
  BY DEF SelectPrevious, Moved, Press
<1>3. \/ Continue(CancelSeed(state))
      \/ \E p : Redraw([s EXCEPT !.selected = p])
      \/ Redraw(t)
  BY DEF SelectPrevious
<1> HIDE DEF s
<1>4. /\ DOMAIN WithoutKeys(s) = Fields /\ WithoutKeys(s).keyTargets = NoKeys
      /\ WithoutKeys(s).retired = NoKeys /\ SameView(s, WithoutKeys(s))
      /\ WithoutKeys(s).error = s.error
  BY <1>1, WithoutKeysIs
<1>5. start \in Nat
  <2>1. top \in Nat /\ s.pageSize \in Nat
    BY <1>1, ShownStartIs, KeyCount DEF Orderly
  <2> HIDE DEF top
  <2> QED
    BY <2>1
<1> HIDE DEF start, view, top
<1>6. /\ DOMAIN t = Fields /\ t.panes = s.panes /\ t.error = s.error /\ t.pageSize = s.pageSize
      /\ t.pageStart \in Nat /\ t.keyTargets = NoKeys /\ t.retired = NoKeys
  BY <1>4, <1>5 DEF Fields, SameView
<1> HIDE DEF t
<1>7. Orderly(t) /\ AsShown(t, shown)
  BY <1>1, <1>6, Handed
<1>8. CASE \E p : Redraw([s EXCEPT !.selected = p])
  BY <1>1, <1>2, <1>8, Highlighted, RedrawKeeps
<1> QED
  BY <1>2, <1>3, <1>7, <1>8, RedrawKeeps, ContinueKeeps

LEMMA BeginSearchStep ==
  ASSUME PickerInv, BeginSearch PROVE PickerInv'
<1> DEFINE s == CancelSeed(state)  t == [WithoutKeys(s) EXCEPT !.query = 0]
<1>1. Orderly(s) /\ AsShown(s, shown) /\ DOMAIN s = Fields
  BY CancelIs DEF PickerInv
<1>2. terminal' = terminal
  BY DEF BeginSearch, Moved, Press
<1>3. Continue(CancelSeed(state)) \/ Redraw(t)
  BY DEF BeginSearch
<1> HIDE DEF s
<1>4. /\ DOMAIN WithoutKeys(s) = Fields /\ WithoutKeys(s).keyTargets = NoKeys
      /\ WithoutKeys(s).retired = NoKeys /\ SameView(s, WithoutKeys(s))
      /\ WithoutKeys(s).error = s.error
  BY <1>1, WithoutKeysIs
<1>5. /\ DOMAIN t = Fields /\ t.panes = s.panes /\ t.error = s.error /\ t.pageSize = s.pageSize
      /\ t.pageStart \in Nat /\ t.keyTargets = NoKeys /\ t.retired = NoKeys
  BY <1>1, <1>4 DEF Fields, SameView, Orderly
<1> HIDE DEF t
<1>6. Orderly(t) /\ AsShown(t, shown)
  BY <1>1, <1>5, Handed
<1> QED
  BY <1>2, <1>3, <1>6, RedrawKeeps, ContinueKeeps

LEMMA CancelSearchStep ==
  ASSUME PickerInv, CancelSearch PROVE PickerInv'
<1> DEFINE w == WithoutKeys(state)
           s == [w EXCEPT !.query = NotSearching]
           start == IF s.selected \in ToSet(s.panes) /\ s.pageSize > 0
                    THEN ((Position(s.panes, s.selected) - 1) \div s.pageSize) * s.pageSize
                    ELSE 0
           t == [s EXCEPT !.pageStart = start]
<1>1. Orderly(state) /\ AsShown(state, shown) /\ DOMAIN state = Fields
  BY DEF PickerInv, Orderly
<1>2. terminal' = terminal /\ Redraw(t)
  BY DEF CancelSearch, Press
<1>3. /\ DOMAIN w = Fields /\ w.keyTargets = NoKeys /\ w.retired = NoKeys
      /\ SameView(state, w) /\ w.error = state.error
  BY <1>1, WithoutKeysIs
<1> HIDE DEF w
<1>4. /\ DOMAIN s = Fields /\ s.panes = state.panes /\ s.error = state.error
      /\ s.pageSize = state.pageSize /\ s.keyTargets = NoKeys /\ s.retired = NoKeys
  BY <1>3 DEF Fields, SameView
<1>5. s.pageSize \in Nat /\ s.panes \in Seq(Panes)
  BY <1>1, <1>4, KeyCount DEF Orderly
<1> HIDE DEF s
<1>6. start \in Nat
  <2>1. CASE s.selected \in ToSet(s.panes) /\ s.pageSize > 0
    <3>1. \E i \in DOMAIN s.panes : s.panes[i] = s.selected
      BY <2>1 DEF ToSet
    <3>2. Position(s.panes, s.selected) \in DOMAIN s.panes
      BY <3>1 DEF Position
    <3>3. Position(s.panes, s.selected) - 1 \in Nat
      BY <1>5, <3>2, LenProperties
    <3>4. ((Position(s.panes, s.selected) - 1) \div s.pageSize) * s.pageSize \in Nat
      BY <1>5, <2>1, <3>3, Floor
    <3> QED
      BY <2>1, <3>4
  <2>2. CASE ~(s.selected \in ToSet(s.panes) /\ s.pageSize > 0)
    BY <2>2
  <2> QED
    BY <2>1, <2>2
<1> HIDE DEF start
<1>7. /\ DOMAIN t = Fields /\ t.panes = state.panes /\ t.error = state.error
      /\ t.pageSize = state.pageSize
      /\ t.pageStart \in Nat /\ t.keyTargets = NoKeys /\ t.retired = NoKeys
  BY <1>4, <1>6 DEF Fields
<1>8. Orderly(t) /\ AsShown(t, shown)
  <2> HIDE DEF t
  <2> QED
    BY <1>1, <1>7, Handed
<1> QED
  BY <1>2, <1>8, RedrawKeeps

LEMMA SearchCharSteps ==
  ASSUME PickerInv, PushSearchChar \/ PopSearchChar PROVE PickerInv'
<1>1. Orderly(state) /\ AsShown(state, shown) /\ DOMAIN state = Fields
  BY DEF PickerInv, Orderly
<1>2. terminal' = terminal
  BY DEF PushSearchChar, PopSearchChar, Press
<1>3. \/ \E q : Redraw([state EXCEPT !.query = q, !.pageStart = 0])
      \/ UNCHANGED <<state, frame, shown>>
  <2>1. CASE PushSearchChar
    BY <1>1, <2>1 DEF PushSearchChar, Fields
  <2>2. CASE PopSearchChar
    BY <1>1, <2>2 DEF PopSearchChar, Continue, Fields
  <2> QED
    BY <2>1, <2>2
<1>4. ASSUME NEW q, Redraw([state EXCEPT !.query = q, !.pageStart = 0])
      PROVE  PickerInv'
  <2> DEFINE t == [state EXCEPT !.query = q, !.pageStart = 0]
  <2>1. /\ DOMAIN t = Fields /\ t.panes = state.panes /\ t.error = state.error
        /\ t.pageSize = state.pageSize /\ t.pageStart \in Nat
        /\ t.keyTargets = state.keyTargets /\ t.retired = state.retired
    BY <1>1 DEF Fields
  <2>2. Redraw(t)
    BY <1>4
  <2> HIDE DEF t
  <2>3. Orderly(t) /\ AsShown(t, shown)
    BY <1>1, <2>1, Handed
  <2> QED
    BY <1>2, <2>2, <2>3, RedrawKeeps
<1> QED
  BY <1>2, <1>3, <1>4, StayKeeps

LEMMA SnapshotStep ==
  ASSUME PickerInv, NEW ids \in SUBSET Panes, Snapshot(ids) PROVE PickerInv'
<1>1. Orderly(state) /\ AsShown(state, shown) /\ terminal' = terminal
  BY DEF PickerInv, Snapshot, Received
<1>2. PICK workspace \in [ids -> UNION {Places[p] : p \in Panes}] : \E matches, recent :
        /\ \A p \in ids : workspace[p] \in Places[p]
        /\ Redraw(ReplacePanes(state, [ids |-> ids, workspace |-> workspace,
                                       matches |-> matches, recent |-> recent]))
  BY DEF Snapshot
<1>9. PICK matches, recent :
        Redraw(ReplacePanes(state, [ids |-> ids, workspace |-> workspace,
                                    matches |-> matches, recent |-> recent]))
  BY <1>2
<1> DEFINE snapshot == [ids |-> ids, workspace |-> workspace, matches |-> matches, recent |-> recent]
<1>3. Said(snapshot)
  <2>1. \A p \in ids : workspace[p] \in Nat
    BY <1>2, PickerAssumption
  <2>2. workspace \in [ids -> Nat]
    BY <1>2, <2>1
  <2> QED
    BY <2>2 DEF Said
<1>4. Redraw(ReplacePanes(state, snapshot))
  BY <1>9
<1> HIDE DEF snapshot
<1>5. Orderly(ReplacePanes(state, snapshot)) /\ AsShown(ReplacePanes(state, snapshot), shown)
  BY <1>1, <1>3, ReplaceIs
<1> QED
  BY <1>1, <1>4, <1>5, RedrawKeeps

LEMMA FatalStep ==
  ASSUME PickerInv, Fatal PROVE PickerInv'
<1> DEFINE w == WithoutKeys(state)
           t == [w EXCEPT !.panes = <<>>, !.matches = <<>>, !.pageStart = 0, !.selected = Nobody,
                          !.query = NotSearching, !.error = TRUE]
<1>1. Orderly(state) /\ AsShown(state, shown) /\ DOMAIN state = Fields
  BY DEF PickerInv, Orderly
<1>2. terminal' = terminal /\ Redraw(t)
  BY DEF Fatal, Received
<1>3. /\ DOMAIN w = Fields /\ w.keyTargets = NoKeys /\ w.retired = NoKeys /\ SameView(state, w)
  BY <1>1, WithoutKeysIs
<1> HIDE DEF w
<1>4. /\ DOMAIN t = Fields /\ t.panes = <<>> /\ t.pageSize = state.pageSize
      /\ t.pageStart = 0 /\ t.keyTargets = NoKeys /\ t.retired = NoKeys
  BY <1>3 DEF Fields, SameView
<1> HIDE DEF t
<1>5. Orderly(t) /\ AsShown(t, shown)
  <2>1. t.panes \in Seq(Panes) /\ Distinct(t.panes)
    BY <1>4 DEF Distinct
  <2> QED
    BY <1>1, <1>4, <2>1, NoKeysApart DEF Orderly, AsShown
<1> QED
  BY <1>2, <1>5, RedrawKeeps

LEMMA PickerStep ==
  ASSUME PickerInv, [PickerNext]_pickerVars PROVE PickerInv'
<1>1. Orderly(state) /\ AsShown(state, shown)
  BY DEF PickerInv
<1>2. CASE NextPage \/ PreviousPage \/ SelectNext \/ SelectPrevious
  BY <1>2, NextPageStep, PreviousPageStep, SelectNextStep, SelectPreviousStep
<1>3. CASE BeginSearch \/ CancelSearch \/ PushSearchChar \/ PopSearchChar
  BY <1>3, BeginSearchStep, CancelSearchStep, SearchCharSteps
<1>4. CASE Enter \/ (\E k \in Keys : Hotkey(k)) \/ Close
  <2>1. UNCHANGED <<state, frame, shown, terminal>>
    BY <1>4 DEF Enter, Hotkey, Close, FocusPaneAndClose, Press
  <2> QED
    BY <2>1, StayKeeps
<1>5. CASE \E ids \in SUBSET Panes : Snapshot(ids)
  BY <1>5, SnapshotStep
<1>6. CASE (\E ended \in BOOLEAN : ConnectionEvent(ended)) \/ SeeResize
  <2>1. Redraw(state) /\ terminal' = terminal
    BY <1>6 DEF ConnectionEvent, SeeResize, Received
  <2> QED
    BY <1>1, <2>1, RedrawKeeps
<1>7. CASE Fatal
  BY <1>7, FatalStep
<1>8. CASE \E height \in Heights : ResizeTerminal(height)
  <2>1. terminal' \in Nat /\ UNCHANGED <<state, frame, shown>>
    BY <1>8, PickerAssumption DEF ResizeTerminal
  <2>2. Orderly(state') /\ AsShown(state', shown') /\ OnScreen(state', frame')
    BY <2>1 DEF PickerInv
  <2> QED
    BY <2>1, <2>2 DEF PickerInv
<1>9. CASE UNCHANGED pickerVars
  BY <1>9, StayKeeps DEF pickerVars
<1> QED
  BY <1>2, <1>3, <1>4, <1>5, <1>6, <1>7, <1>8, <1>9 DEF PickerNext, ByUser, ByOthers

LEMMA PickerStarts == PickerInit => PickerInv
<1> SUFFICES ASSUME PickerInit PROVE PickerInv
  OBVIOUS
<1>1. PICK hint : state = Draw(NewState(hint), terminal)
  BY DEF PickerInit
<1> DEFINE s == NewState(hint)
<1>2. /\ DOMAIN s = Fields /\ s.panes = <<>> /\ s.keyTargets = NoKeys /\ s.retired = NoKeys
      /\ s.pageStart = 0 /\ s.pageSize = 0 /\ s.error = FALSE
  BY DEF NewState, Fields
<1> HIDE DEF s
<1>3. terminal \in Nat /\ frame = NoFrame /\ shown = NoKeys
  BY PickerAssumption DEF PickerInit
<1>4. shown \in [Keys -> Panes \cup {Nobody}]
  BY <1>3, NoKeysApart
<1>5. Orderly(s) /\ AsShown(s, shown)
  <2>1. s.panes \in Seq(Panes) /\ Distinct(s.panes)
    BY <1>2 DEF Distinct
  <2> QED
    BY <1>2, <2>1, NoKeysApart, KeyCount DEF Orderly, AsShown
<1>6. Drawn(state, shown, terminal)
  BY <1>1, <1>3, <1>4, <1>5, DrawIs DEF s
<1>7. state.panes = <<>> /\ state.keyTargets = NoKeys /\ state.retired = NoKeys
      /\ state.selected = Nobody
  <2> DEFINE e == [s EXCEPT !.pageSize = PageSize(terminal)]
             w == WithoutKeys(e)
             empty == [w EXCEPT !.selected = Nobody, !.query = NotSearching]
  <2>1. state = empty \/ state = [empty EXCEPT !.pageStart = 0]
    <3>1. state = Draw(s, terminal)
      BY <1>1 DEF s
    <3>2. e.panes = <<>>
      BY <1>2 DEF Fields
    <3> QED
      BY <3>1, <3>2 DEF Draw
  <2>2. DOMAIN e = Fields /\ e.panes = <<>>
    BY <1>2 DEF Fields
  <2> HIDE DEF e
  <2>3. /\ DOMAIN w = Fields /\ w.keyTargets = NoKeys /\ w.retired = NoKeys /\ w.panes = <<>>
    BY <2>2, WithoutKeysIs DEF SameView
  <2> HIDE DEF w
  <2> QED
    BY <2>1, <2>3 DEF Fields
<1>8. Orderly(state)
  BY <1>6 DEF Drawn
<1>9. AsShown(state, shown)
  BY <1>7, NoKeysApart DEF AsShown
<1>10. state.pageSize \in Nat /\ state.pageStart \in Nat
  BY <1>8, KeyCount DEF Orderly
<1>11. OnScreen(state, frame)
  BY <1>3, <1>7, <1>10, NothingShown DEF OnScreen, NoFrame, OneKeyEach, ToSet
<1> QED
  BY <1>3, <1>4, <1>8, <1>9, <1>11 DEF PickerInv

(***************************************************************************)
(* What the picker draws is what it acts on: Enter focuses the highlighted *)
(* row of the screen, the arrows start from the rows of the screen, and a  *)
(* key focuses the pane it was last drawn beside; outside search each row  *)
(* has exactly one key.  With any panes, keys and heights of the terminal, *)
(* and however snapshots, key presses and resizes follow each other.       *)
THEOREM ScreenAlwaysTrue == PickerSpec => []ScreenIsTrue
<1>1. PickerInv => ScreenIsTrue
  <2> SUFFICES ASSUME PickerInv PROVE ScreenIsTrue
    OBVIOUS
  <2>1. ActsOnWhatIsDrawn
    BY DEF PickerInv, OnScreen, ActsOnWhatIsDrawn, Rows
  <2>2. KeysMeanWhatTheyShowed
    BY DEF PickerInv, OnScreen, AsShown, KeysMeanWhatTheyShowed, Rows, Target, KeyOf, OneKeyEach
  <2> QED
    BY <2>1, <2>2 DEF ScreenIsTrue
<1> QED
  BY <1>1, PickerStarts, PickerStep, PTL DEF PickerSpec

-----------------------------------------------------------------------------
(* The storage of the two windows: selections from lists of profiles        *)

\* A list whose rows all are in the set is taken whole.
LEMMA ThoseOfAll ==
  ASSUME NEW T, NEW rows \in Seq(T), NEW S, \A i \in DOMAIN rows : rows[i] \in S
  PROVE  Those(rows, S) = rows
<1> DEFINE p == Those(rows, S)  n == Len(rows)
<1>1. p \in Seq(T)
  BY ThoseAre
<1>2. PICK m : Holds(p, rows, S, n, m)
  BY ThoseAre
<1> HIDE DEF p
<1>3. Len(p) \in Nat /\ n \in Nat /\ DOMAIN p = 1..Len(p) /\ DOMAIN rows = 1..n
  BY <1>1, LenProperties
<1> HIDE DEF n
<1> DEFINE Bad == {k \in 1..Len(p) : m[k] # k}
<1>4. ASSUME Bad # {} PROVE FALSE
  <2>0. Bad \subseteq Nat
    BY <1>3
  <2>1. PICK k \in Bad : \A j \in Bad : k <= j
    BY <2>0, <1>4, LeastNatural
  <2>2. \A j \in 1..(k - 1) : m[j] = j
    BY <1>3, <2>1
  <2>3. m[k] \in 1..n /\ m[k] > k
    <3>1. CASE k = 1
      BY <1>2, <1>3, <2>1, <3>1 DEF Holds
    <3>2. CASE k # 1
      <4>1. k - 1 \in 1..Len(p) /\ m[k - 1] = k - 1 /\ m[k - 1] < m[k] /\ m[k] \in 1..n
        BY <1>2, <1>3, <2>1, <2>2, <3>2 DEF Holds
      <4> QED
        BY <1>3, <2>1, <4>1
    <3> QED
      BY <3>1, <3>2
  <2>7. k \in 1..n
    BY <1>3, <2>3
  <2>8. rows[k] \in S
    BY <1>3, <2>7
  <2>4. PICK l \in 1..Len(p) : m[l] = k
    BY <1>2, <2>7, <2>8 DEF Holds
  <2>5. l > k
    BY <1>3, <2>1, <2>2, <2>4
  <2>6. m[k] < m[l]
    BY <1>2, <2>1, <2>5 DEF Holds
  <2> QED
    BY <1>3, <2>1, <2>3, <2>4, <2>6
<1>5. \A k \in 1..Len(p) : m[k] = k
  BY <1>4
<1>6. Len(p) = n
  <2>1. \A j \in 1..n : j \in 1..Len(p)
    BY <1>2, <1>3, <1>5 DEF Holds
  <2>2. \A k \in 1..Len(p) : k \in 1..n
    BY <1>2, <1>5 DEF Holds
  <2>3. n = 0 \/ (n \in 1..n /\ n \in 1..Len(p))
    BY <1>3, <2>1
  <2>4. Len(p) = 0 \/ (Len(p) \in 1..Len(p) /\ Len(p) \in 1..n)
    BY <1>3, <2>2
  <2> DEFINE l == Len(p)
  <2>5. l \in Nat /\ n \in Nat
    BY <1>3
  <2>6. (n = 0 \/ n \in 1..l) /\ (l = 0 \/ l \in 1..n)
    BY <2>3, <2>4
  <2> HIDE DEF Bad, l
  <2>7. l = n
    BY <2>5, <2>6
  <2> QED
    BY <2>7 DEF l
<1>7. \A k \in 1..Len(p) : p[k] = rows[k]
  BY <1>2, <1>5 DEF Holds
<1>8. p = rows
  <2>1. Len(p) = Len(rows)
    BY <1>6 DEF n
  <2> QED
    BY <1>1, <1>7, <2>1, SeqEqual
<1> QED
  BY <1>8 DEF p

-----------------------------------------------------------------------------
(* Profile states                                                          *)

\* No id twice.
Unique(rows) == \A i, j \in DOMAIN rows : rows[i].id = rows[j].id => i = j

\* What is left of the profiles when others are taken out.
LEMMA SomeProfiles ==
  ASSUME NEW T, NEW rows \in Seq(T), NEW S, Unique(rows)
  PROVE  LET fewer == Those(rows, S)
         IN  /\ fewer \in Seq(T) /\ Unique(fewer)
             /\ ToSet(fewer) = ToSet(rows) \cap S
<1> DEFINE p == Those(rows, S)
<1>1. p \in Seq(T) /\ ToSet(p) = ToSet(rows) \cap S
  BY ThoseAreTheSet
<1>2. PICK m : Holds(p, rows, S, Len(rows), m)
  BY ThoseAre
<1> HIDE DEF p
<1>3. DOMAIN p = 1..Len(p) /\ DOMAIN rows = 1..Len(rows) /\ Len(p) \in Nat /\ Len(rows) \in Nat
  BY <1>1, LenProperties
<1>4. ASSUME NEW k \in DOMAIN p, NEW l \in DOMAIN p, p[k].id = p[l].id
      PROVE  k = l
  <2>1. /\ m[k] \in DOMAIN rows /\ m[l] \in DOMAIN rows /\ rows[m[k]].id = rows[m[l]].id
        /\ (k < l => m[k] < m[l]) /\ (l < k => m[l] < m[k])
    BY <1>2, <1>3, <1>4 DEF Holds
  <2>2. m[k] = m[l] /\ m[k] \in Nat
    BY <1>3, <2>1 DEF Unique
  <2> QED
    BY <1>3, <1>4, <2>1, <2>2
<1> QED
  BY <1>1, <1>4 DEF p, Unique

IsProfiles(rows) ==
  /\ rows \in Seq(ToSet(rows)) /\ Unique(rows)
  /\ \A p \in ToSet(rows) : IsProfile(p)
  /\ \E p \in ToSet(rows) : p.id = LocalId

LEMMA MembersAre == ASSUME NEW s PROVE Members(s) = ToSet(s.profiles)
BY DEF Members, ToSet

LEMMA StateIs ==
  ASSUME NEW s
  PROVE  IsProfileState(s) <=>
           DOMAIN s = {"active", "profiles", "open"} /\ IsProfiles(s.profiles)
BY MembersAre DEF IsProfileState, IsProfiles, Unique, Ids

\* A sequence is one of its own elements.
LEMMA OwnSeq ==
  ASSUME NEW T, NEW rows \in Seq(T)
  PROVE  rows \in Seq(ToSet(rows)) /\ ToSet(rows) \subseteq T
         /\ DOMAIN rows = 1..Len(rows) /\ Len(rows) \in Nat
<1>1. Len(rows) \in Nat /\ DOMAIN rows = 1..Len(rows) /\ rows \in [1..Len(rows) -> T]
  BY LenProperties
<1>2. rows = [i \in 1..Len(rows) |-> rows[i]]
  BY <1>1
<1>3. \A i \in 1..Len(rows) : rows[i] \in ToSet(rows)
  BY <1>1 DEF ToSet
<1>4. rows \in [1..Len(rows) -> ToSet(rows)]
  BY <1>2, <1>3
<1>5. ToSet(rows) \subseteq T
  BY <1>1 DEF ToSet
<1> QED
  BY <1>1, <1>4, <1>5

LEMMA FirstIs ==
  ASSUME NEW s, IsProfileState(s), NEW P, P \subseteq Members(s), P # {}
  PROVE  First(s, P) \in P
<1> DEFINE at == {i \in DOMAIN s.profiles : s.profiles[i] \in P}
<1>1. DOMAIN s.profiles \subseteq Nat
  BY OwnSeq DEF IsProfileState
<1>2. at # {} /\ at \subseteq Nat
  BY <1>1 DEF Members
<1>3. PICK i \in at : \A j \in at : i <= j
  BY <1>2, LeastNatural
<1>6. DOMAIN s.profiles = 1..Len(s.profiles) /\ Len(s.profiles) \in Nat
  BY OwnSeq DEF IsProfileState
<1>4. /\ i \in DOMAIN s.profiles /\ s.profiles[i] \in P
      /\ \A j \in 1..(i - 1) : s.profiles[j] \notin P
  BY <1>1, <1>3, <1>6
<1> QED
  BY <1>4 DEF First

LEMMA NamedIs ==
  ASSUME NEW s, NEW id \in Ids(s)
  PROVE  Named(s, id) \in Members(s) /\ Named(s, id).id = id
BY DEF Ids, Named

\* A profile state with other profiles.
LEMMA OtherProfiles ==
  ASSUME NEW s, IsProfileState(s), NEW rows, IsProfiles(rows), NEW t,
         DOMAIN t = DOMAIN s, t.profiles = rows
  PROVE  IsProfileState(t)
BY StateIs

LEMMA SameProfiles ==
  ASSUME NEW s, IsProfileState(s), NEW t, DOMAIN t = DOMAIN s, t.profiles = s.profiles
  PROVE  IsProfileState(t)
BY StateIs

\* Profiles without some, but with the local one.
LEMMA FewerProfiles ==
  ASSUME NEW rows, IsProfiles(rows), NEW S, \A p \in ToSet(rows) : p.id = LocalId => p \in S
  PROVE  IsProfiles(Those(rows, S)) /\ ToSet(Those(rows, S)) = ToSet(rows) \cap S
<1> DEFINE fewer == Those(rows, S)
<1>1. fewer \in Seq(ToSet(rows)) /\ Unique(fewer) /\ ToSet(fewer) = ToSet(rows) \cap S
  BY SomeProfiles DEF IsProfiles
<1> HIDE DEF fewer
<1>2. fewer \in Seq(ToSet(fewer))
  BY <1>1, OwnSeq
<1> QED
  BY <1>1, <1>2 DEF IsProfiles, fewer

-----------------------------------------------------------------------------
(* What a load makes of the storage                                        *)

Twins(s, p) == {q \in Members(s) : q.kind = "ssh" /\ q.host = p.host}
Survivors(s) == {p \in Members(s) : Survivor(s, p) = p}

LEMMA SurvivorIs ==
  ASSUME NEW s, IsProfileState(s), NEW p \in Members(s)
  PROVE  \/ p.kind = "local" /\ Survivor(s, p) = p
         \/ p.kind = "ssh" /\ Survivor(s, p) \in Twins(s, p)
<1>1. p.kind \in {"local", "ssh"}
  BY DEF IsProfileState, IsProfile
<1>2. CASE p.kind = "local"
  BY <1>2 DEF Survivor
<1>3. CASE p.kind = "ssh"
  <2> DEFINE alive == {q \in Twins(s, p) : Runnable(q)}
             chosen == IF alive # {} THEN alive ELSE Twins(s, p)
  <2>1. Survivor(s, p) = First(s, chosen)
    BY <1>3 DEF Survivor, Twins
  <2>2. chosen \subseteq Twins(s, p) /\ p \in Twins(s, p) /\ Twins(s, p) \subseteq Members(s)
    BY <1>3 DEF Twins
  <2>3. chosen # {} /\ chosen \subseteq Members(s)
    BY <2>2
  <2>4. First(s, chosen) \in chosen
    BY <2>3, FirstIs
  <2> QED
    BY <1>3, <2>1, <2>2, <2>4
<1> QED
  BY <1>1, <1>2, <1>3

\* Profiles with one host survive as one.
LEMMA TwinsAgree ==
  ASSUME NEW s, NEW p, NEW q, p.kind = "ssh", q.kind = "ssh", p.host = q.host
  PROVE  Survivor(s, p) = Survivor(s, q)
BY DEF Survivor

LEMMA NormalizeIs ==
  ASSUME NEW s, IsProfileState(s)
  PROVE  LET next == Normalize(s)
         IN  /\ IsProfileState(next)
             /\ Members(next) = Survivors(s) /\ Survivors(s) \subseteq Members(s)
             /\ Members(next) = Survivors(next)
<1> DEFINE next == Normalize(s)
<1>1. IsProfiles(s.profiles) /\ Members(s) = ToSet(s.profiles)
  BY StateIs, MembersAre
<1>2. \A p \in ToSet(s.profiles) : p.id = LocalId => p \in Survivors(s)
  BY <1>1, SurvivorIs DEF Survivors, IsProfiles, IsProfile
<1>3. next.profiles = Those(s.profiles, Survivors(s))
      /\ DOMAIN next = {"active", "profiles", "open"}
  <2>1. \E a, o : next = [active |-> a, profiles |-> Those(s.profiles, Survivors(s)), open |-> o]
    BY DEF Normalize, Survivors
  <2> HIDE DEF next
  <2> QED
    BY <2>1
<1>4. IsProfiles(next.profiles)
      /\ ToSet(next.profiles) = ToSet(s.profiles) \cap Survivors(s)
  BY <1>1, <1>2, <1>3, FewerProfiles
<1>5. IsProfileState(next)
  BY <1>3, <1>4, StateIs
<1>6. Members(next) = Survivors(s) /\ Survivors(s) \subseteq Members(s)
  BY <1>1, <1>4, MembersAre DEF Survivors
<1> HIDE DEF next
<1>7. ASSUME NEW p \in Members(next) PROVE Survivor(next, p) = p
  <2>1. CASE p.kind = "local"
    BY <2>1 DEF Survivor
  <2>2. CASE p.kind # "local"
    <3>1. p.kind = "ssh" /\ Survivor(next, p) \in Twins(next, p)
      BY <1>5, <1>7, <2>2, SurvivorIs
    <3> DEFINE q == Survivor(next, p)
    <3>2. q \in Members(next) /\ q.kind = "ssh" /\ q.host = p.host
      BY <3>1 DEF Twins
    <3> HIDE DEF q
    <3>3. Survivor(s, q) = q /\ Survivor(s, p) = p
      BY <1>6, <1>7, <3>2 DEF Survivors
    <3>4. Survivor(s, q) = Survivor(s, p)
      BY <3>1, <3>2, TwinsAgree
    <3> QED
      BY <3>3, <3>4 DEF q
  <2> QED
    BY <2>1, <2>2
<1>8. Members(next) = Survivors(next)
  BY <1>7 DEF Survivors
<1> QED
  BY <1>5, <1>6, <1>8 DEF next

\* What has been loaded is loaded again as it is.
LEMMA NormalizeTwice ==
  ASSUME NEW s, IsProfileState(s)
  PROVE  Normalize(Normalize(s)) = Normalize(s)
<1> DEFINE next == Normalize(s)
           runnable == {p \in Survivors(s) : Runnable(p)}
           running == {p.id : p \in runnable}
<1>1. /\ IsProfileState(next) /\ Members(next) = Survivors(s) /\ Survivors(s) \subseteq Members(s)
      /\ Members(next) = Survivors(next)
  BY NormalizeIs
<1>2. /\ next.active = IF Remap(s, s.active) \in running THEN Remap(s, s.active)
                        ELSE First(s, runnable).id
      /\ next.open = {Remap(s, id) : id \in s.open} \cap running
      /\ next = [active |-> next.active, profiles |-> next.profiles, open |-> next.open]
  BY DEF Normalize, Survivors
<1>3. Normalize(next) =
        [ active   |-> IF Remap(next, next.active) \in running THEN Remap(next, next.active)
                       ELSE First(next, runnable).id,
          profiles |-> Those(next.profiles, Members(next)),
          open     |-> {Remap(next, id) : id \in next.open} \cap running ]
  BY <1>1 DEF Normalize, Survivors
<1> HIDE DEF next
<1>4. ASSUME NEW id PROVE Remap(next, id) = id
  <2>1. CASE id \in Ids(next)
    <3>1. Named(next, id) \in Members(next) /\ Named(next, id).id = id
      BY <2>1, NamedIs
    <3>2. Survivor(next, Named(next, id)) = Named(next, id)
      BY <1>1, <3>1 DEF Survivors
    <3> QED
      BY <2>1, <3>1, <3>2 DEF Remap
  <2> QED
    BY <2>1 DEF Remap
<1>5. runnable # {}
  <2>1. PICK p \in Members(next) : p.id = LocalId
    BY <1>1 DEF IsProfileState, Ids
  <2>2. p.kind = "local"
    BY <1>1, <2>1 DEF IsProfileState, IsProfile
  <2> QED
    BY <1>1, <2>1, <2>2 DEF Runnable
<1>6. next.active \in running
  <2>1. runnable \subseteq Members(s)
    BY <1>1
  <2>2. First(s, runnable) \in runnable
    BY <1>5, <2>1, FirstIs
  <2>3. First(s, runnable).id \in running
    BY <2>2
  <2> HIDE DEF running, runnable
  <2> QED
    BY <1>2, <2>3
<1>7. {Remap(next, id) : id \in next.open} \cap running = next.open
  <2>1. {Remap(next, id) : id \in next.open} = next.open
    BY <1>4
  <2>2. next.open \cap running = next.open
    <3> HIDE DEF running
    <3> QED
      BY <1>2
  <2> HIDE DEF running
  <2> QED
    BY <2>1, <2>2
<1>8. Those(next.profiles, Members(next)) = next.profiles
  <2>1. \A i \in DOMAIN next.profiles : next.profiles[i] \in Members(next)
    BY DEF Members
  <2> QED
    BY <1>1, <2>1, ThoseOfAll DEF IsProfileState
<1>9. Remap(next, next.active) = next.active
  BY <1>4
<1> HIDE DEF running, runnable
<1>10. Normalize(next) = [active |-> next.active, profiles |-> next.profiles, open |-> next.open]
  BY <1>3, <1>6, <1>7, <1>8, <1>9
<1> QED
  BY <1>2, <1>10 DEF next

-----------------------------------------------------------------------------
(* What the mutators commit                                                *)

LEMMA ReplaceKeeps ==
  ASSUME NEW s, IsProfileState(s), NEW p, IsProfile(p), NEW id, p.id = id
  PROVE  IsProfileState(Replace(s, id, p))
<1> DEFINE old == s.profiles
           rows == [i \in DOMAIN old |-> IF old[i].id = id THEN p ELSE old[i]]
<1>1. IsProfiles(old) /\ DOMAIN s = {"active", "profiles", "open"}
  BY StateIs
<1>2. DOMAIN old = 1..Len(old) /\ Len(old) \in Nat
  BY <1>1, OwnSeq DEF IsProfiles
<1>3. \A i \in DOMAIN old : old[i] \in ToSet(old)
  BY DEF ToSet
<1> HIDE DEF old
<1>4. rows \in Seq(ToSet(old) \cup {p})
  <2>1. rows \in [1..Len(old) -> ToSet(old) \cup {p}]
    BY <1>2, <1>3
  <2> QED
    BY <1>2, <2>1
<1>5. DOMAIN rows = DOMAIN old /\ \A i \in DOMAIN old : rows[i].id = old[i].id
  BY <1>2
<1>6. \A i \in DOMAIN old : rows[i] = p \/ rows[i] = old[i]
  OBVIOUS
<1> HIDE DEF rows
<1>7. rows \in Seq(ToSet(rows))
  BY <1>4, OwnSeq
<1>8. Unique(rows)
  BY <1>1, <1>5 DEF IsProfiles, Unique
<1>9. \A q \in ToSet(rows) : IsProfile(q)
  BY <1>1, <1>3, <1>5, <1>6 DEF IsProfiles, ToSet
<1>10. \E q \in ToSet(rows) : q.id = LocalId
  BY <1>1, <1>5 DEF IsProfiles, ToSet
<1>11. IsProfiles(rows)
  BY <1>7, <1>8, <1>9, <1>10 DEF IsProfiles
<1>12. DOMAIN Replace(s, id, p) = DOMAIN s /\ Replace(s, id, p).profiles = rows
  BY <1>1 DEF Replace, rows, old
<1> QED
  BY <1>11, <1>12, OtherProfiles

LEMMA NamedIsProfile ==
  ASSUME NEW s, IsProfileState(s), NEW id \in Ids(s)
  PROVE  IsProfile(Named(s, id)) /\ Named(s, id).id = id
BY NamedIs DEF IsProfileState

LEMMA SelectKeeps ==
  ASSUME NEW s, IsProfileState(s), NEW id
  PROVE  Select(s, id) = None \/ IsProfileState(Select(s, id))
<1> DEFINE t == [s EXCEPT !.active = id]
<1>1. IsProfileState(t)
  <2>1. DOMAIN t = DOMAIN s /\ t.profiles = s.profiles
    BY DEF IsProfileState
  <2> HIDE DEF t
  <2> QED
    BY <2>1, SameProfiles
<1> QED
  BY <1>1 DEF Select

LEMMA ToggleKeeps ==
  ASSUME NEW s, IsProfileState(s), NEW id
  PROVE  ToggleOpen(s, id) = None \/ IsProfileState(ToggleOpen(s, id))
<1> DEFINE t == [s EXCEPT !.open = IF id \in @ THEN @ \ {id} ELSE @ \cup {id}]
<1>1. IsProfileState(t)
  <2>1. DOMAIN t = DOMAIN s /\ t.profiles = s.profiles
    BY DEF IsProfileState
  <2> HIDE DEF t
  <2> QED
    BY <2>1, SameProfiles
<1> QED
  BY <1>1 DEF ToggleOpen

LEMMA EnableKeeps ==
  ASSUME NEW s, IsProfileState(s), NEW id, NEW on
  PROVE  SetEnabled(s, id, on) = None \/ IsProfileState(SetEnabled(s, id, on))
<1> SUFFICES ASSUME id \in Ids(s) PROVE IsProfileState(SetEnabled(s, id, on)) \/ SetEnabled(s, id, on) = None
  BY DEF SetEnabled
<1> DEFINE p == [Named(s, id) EXCEPT !.enabled = on]
           next == Replace(s, id, p)
           t == [next EXCEPT !.open = IF on THEN @ \cup {id} ELSE @ \ {id}]
<1>1. IsProfile(p) /\ p.id = id
  BY NamedIsProfile DEF IsProfile, IsLabelled
<1> HIDE DEF p
<1>2. IsProfileState(next)
  BY <1>1, ReplaceKeeps
<1> HIDE DEF next
<1>3. IsProfileState(t)
  <2>1. DOMAIN t = DOMAIN next /\ t.profiles = next.profiles
    BY <1>2 DEF IsProfileState
  <2> HIDE DEF t
  <2> QED
    BY <1>2, <2>1, SameProfiles
<1> HIDE DEF t
<1>4. IsProfileState(Normalize(t))
  BY <1>3, NormalizeIs
<1> QED
  BY <1>4 DEF SetEnabled, t, next, p

LEMMA DeleteKeeps ==
  ASSUME NEW s, IsProfileState(s), NEW id, id # LocalId
  PROVE  IsProfileState(Delete(s, id))
<1> DEFINE t == [s EXCEPT !.profiles = Those(@, {p \in Members(s) : p.id # id}),
                          !.active = IF @ \in Ids(s) \ {id} THEN @ ELSE LocalId]
           rows == Those(s.profiles, {p \in Members(s) : p.id # id})
<1>1. IsProfiles(s.profiles)
  BY StateIs
<1>2. IsProfiles(rows)
  <2>1. \A p \in ToSet(s.profiles) : p.id = LocalId => p \in {q \in Members(s) : q.id # id}
    BY MembersAre
  <2> QED
    BY <1>1, <2>1, FewerProfiles
<1>3. DOMAIN t = DOMAIN s /\ t.profiles = rows
  BY DEF IsProfileState
<1> HIDE DEF rows, t
<1>4. IsProfileState(t)
  BY <1>2, <1>3, OtherProfiles
<1>5. IsProfileState(Normalize(t))
  BY <1>4, NormalizeIs
<1> QED
  BY <1>5 DEF Delete, t

LEMMA RecordKeeps ==
  ASSUME NEW s, IsProfileState(s), NEW id, NEW label, NEW key,
         label # None => label = MachineOf(key.host)
  PROVE  LET next == RecordProbedHost(s, id, label, key)
         IN  next = None \/ IsProfileState(next)
<1> SUFFICES ASSUME id \in Ids(s), label # None, IsStillProbed(Named(s, id), key)
             PROVE  IsProfileState(Replace(s, id, [Named(s, id) EXCEPT !.probed = label]))
  BY DEF RecordProbedHost
<1> DEFINE p == [Named(s, id) EXCEPT !.probed = label]
<1>1. key.host = Named(s, id).host
  BY DEF IsStillProbed, RunnerKey
<1>2. IsProfile(p) /\ p.id = id
  BY <1>1, NamedIsProfile DEF IsProfile, IsLabelled
<1> QED
  BY <1>2, ReplaceKeeps

LEMMA EditKeeps ==
  ASSUME NEW s, IsProfileState(s), NEW id, NEW d
  PROVE  IsProfileState(ApplyEdit(s, id, d))
<1> SUFFICES ASSUME id \in Ids(s) PROVE IsProfileState(ApplyEdit(s, id, d))
  BY DEF ApplyEdit
<1> DEFINE p == Named(s, id)
           next == [p EXCEPT
                !.runner = d.runner,
                !.host = IF p.kind = "ssh" THEN d.host ELSE @,
                !.enabled = TRUE,
                !.probed = IF p.kind = "ssh" /\ d.host # p.host THEN None ELSE @]
<1>1. IsProfile(p) /\ p.id = id
  BY NamedIsProfile
<1> HIDE DEF p
<1>2. /\ DOMAIN next = DOMAIN p /\ next.id = p.id /\ next.kind = p.kind
      /\ next.host = (IF p.kind = "ssh" THEN d.host ELSE p.host)
      /\ next.probed = (IF p.kind = "ssh" /\ d.host # p.host THEN None ELSE p.probed)
  BY <1>1 DEF IsProfile
<1> HIDE DEF next
<1>3. IsProfile(next) /\ next.id = id
  BY <1>1, <1>2 DEF IsProfile, IsLabelled
<1>4. IsProfileState(Replace(s, id, next))
  BY <1>3, ReplaceKeeps
<1> QED
  BY <1>4 DEF ApplyEdit, next, p

LEMMA AddKeeps ==
  ASSUME NEW s, IsProfileState(s), NEW id, Drafts(s) = {} => id \notin Ids(s)
  PROVE  AddSsh(s, id) = None \/ IsProfileState(AddSsh(s, id))
<1>1. CASE Drafts(s) # {}
  <2> DEFINE d == First(s, Drafts(s)).id
             t == [s EXCEPT !.active = d, !.open = @ \cup {d}]
  <2>1. DOMAIN t = DOMAIN s /\ t.profiles = s.profiles
    BY DEF IsProfileState
  <2> HIDE DEF t
  <2>2. IsProfileState(t)
    BY <2>1, SameProfiles
  <2> QED
    BY <1>1, <2>2 DEF AddSsh, t
<1>2. CASE Drafts(s) = {}
  <2> DEFINE old == s.profiles
             p == SshProfile(id)
             rows == Append(old, p)
             t == [active |-> id, profiles |-> rows, open |-> s.open \cup {id}]
  <2>1. IsProfiles(old) /\ Members(s) = ToSet(old)
    BY StateIs, MembersAre
  <2>2. DOMAIN old = 1..Len(old) /\ Len(old) \in Nat
    BY <2>1, OwnSeq DEF IsProfiles
  <2>3. \A i \in DOMAIN old : old[i] \in ToSet(old) /\ old[i].id # id
    BY <1>2, <2>1 DEF ToSet, Ids
  <2>4. IsProfile(p) /\ p.id = id
    <3>1. id # LocalId
      BY <1>2 DEF IsProfileState
    <3> QED
      BY <3>1 DEF SshProfile, IsProfile, IsLabelled
  <2> HIDE DEF old, p
  <2>5. old \in Seq(ToSet(old) \cup {p})
    BY <2>1, SeqMonotonic DEF IsProfiles
  <2>6. /\ rows \in Seq(ToSet(old) \cup {p}) /\ Len(rows) = Len(old) + 1
        /\ rows[Len(old) + 1] = p /\ \A i \in 1..Len(old) : rows[i] = old[i]
    BY <2>5, AppendProperties
  <2>7. DOMAIN rows = 1..(Len(old) + 1) /\ rows \in Seq(ToSet(rows))
        /\ ToSet(rows) \subseteq ToSet(old) \cup {p}
    BY <2>6, OwnSeq
  <2> HIDE DEF rows
  <2>8. Unique(rows)
    <3> SUFFICES ASSUME NEW i \in DOMAIN rows, NEW j \in DOMAIN rows, rows[i].id = rows[j].id
                 PROVE  i = j
      BY DEF Unique
    <3>1. (i \in 1..Len(old) \/ i = Len(old) + 1) /\ (j \in 1..Len(old) \/ j = Len(old) + 1)
      BY <2>2, <2>7
    <3> QED
      BY <2>1, <2>2, <2>3, <2>4, <2>6, <3>1 DEF IsProfiles, Unique
  <2>9. \E q \in ToSet(rows) : q.id = LocalId
    BY <2>1, <2>2, <2>6, <2>7 DEF IsProfiles, ToSet
  <2>10. IsProfiles(rows)
    BY <2>1, <2>4, <2>7, <2>8, <2>9 DEF IsProfiles
  <2>11. IsProfileState(t)
    BY <2>10, StateIs
  <2> QED
    BY <1>2, <2>11 DEF AddSsh, rows, p, old
<1> QED
  BY <1>1, <1>2

\* One profile is put into a list that does not have it.
LEMMA InsertedIs ==
  ASSUME NEW T, NEW rest \in Seq(T), NEW p \in T, NEW at \in 1..(Len(rest) + 1),
         Unique(rest), \A q \in ToSet(rest) : q.id # p.id
  PROVE  LET rows == SubSeq(rest, 1, at - 1) \o <<p>> \o SubSeq(rest, at, Len(rest))
         IN  rows \in Seq(ToSet(rows)) /\ Unique(rows) /\ ToSet(rows) = ToSet(rest) \cup {p}
<1> DEFINE n == Len(rest)
           one == SubSeq(rest, 1, at - 1)
           three == SubSeq(rest, at, n)
           rows == one \o <<p>> \o three
<1>0. n \in Nat /\ DOMAIN rest = 1..n /\ \A i \in 1..n : rest[i] \in T
  BY OwnSeq, ElementOfSeq
<1>1. one \in Seq(T) /\ Len(one) = at - 1 /\ \A i \in 1..(at - 1) : one[i] = rest[i]
  <2>1. 1 \in Int /\ at - 1 \in Int /\ \A i \in 1..(at - 1) : rest[i] \in T
    BY <1>0
  <2>2. /\ one \in Seq(T) /\ Len(one) = IF 1 <= at - 1 THEN (at - 1) - 1 + 1 ELSE 0
        /\ \A i \in 1..((at - 1) - 1 + 1) : one[i] = rest[1 + i - 1]
    BY <2>1, SubSeqProperties
  <2> HIDE DEF one
  <2> QED
    BY <1>0, <2>2
<1>2. three \in Seq(T) /\ Len(three) = n - at + 1
      /\ \A i \in 1..(n - at + 1) : three[i] = rest[at + i - 1]
  <2>1. at \in Int /\ n \in Int /\ \A i \in at..n : rest[i] \in T
    BY <1>0
  <2>2. /\ three \in Seq(T) /\ Len(three) = IF at <= n THEN n - at + 1 ELSE 0
        /\ \A i \in 1..(n - at + 1) : three[i] = rest[at + i - 1]
    BY <2>1, SubSeqProperties
  <2> HIDE DEF three
  <2> QED
    BY <1>0, <2>2
<1>3. <<p>> \in Seq(T) /\ Len(<<p>>) = 1 /\ <<p>>[1] = p
  OBVIOUS
<1> HIDE DEF one, three
<1> DEFINE two == one \o <<p>>
<1>4. two \in Seq(T) /\ Len(two) = at
      /\ \A i \in 1..at : two[i] = IF i <= at - 1 THEN one[i] ELSE p
  <2> DEFINE single == <<p>>
  <2>1. /\ two \in Seq(T) /\ Len(two) = Len(one) + Len(single)
        /\ \A i \in 1..(Len(one) + Len(single)) :
             two[i] = IF i <= Len(one) THEN one[i] ELSE single[i - Len(one)]
    BY <1>1, <1>3, ConcatProperties
  <2>4. Len(single) = 1 /\ single[1] = p
    BY <1>3
  <2> HIDE DEF single
  <2> HIDE DEF two
  <2>2. Len(two) = at
    BY <1>0, <1>1, <2>1, <2>4
  <2>3. ASSUME NEW i \in 1..at PROVE two[i] = IF i <= at - 1 THEN one[i] ELSE p
    <3>1. two[i] = IF i <= at - 1 THEN one[i] ELSE single[i - (at - 1)]
      BY <1>0, <1>1, <2>1, <2>3, <2>4
    <3>2. CASE i <= at - 1
      BY <3>1, <3>2
    <3>3. CASE ~(i <= at - 1)
      <4>1. i - (at - 1) = 1
        BY <1>0, <3>3
      <4> QED
        BY <2>4, <3>1, <3>3, <4>1
    <3> QED
      BY <3>2, <3>3
  <2> QED
    BY <2>1, <2>2, <2>3
<1>5. rows \in Seq(T) /\ Len(rows) = n + 1
      /\ \A i \in 1..(n + 1) : rows[i] = IF i <= at THEN two[i] ELSE three[i - at]
  <2> HIDE DEF two
  <2>1. /\ two \o three \in Seq(T) /\ Len(two \o three) = Len(two) + Len(three)
        /\ \A i \in 1..(Len(two) + Len(three)) :
             (two \o three)[i] = IF i <= Len(two) THEN two[i] ELSE three[i - Len(two)]
    BY <1>2, <1>4, ConcatProperties
  <2>2. Len(two) + Len(three) = n + 1
    BY <1>0, <1>2, <1>4
  <2>3. rows = two \o three
    BY DEF two
  <2> HIDE DEF rows
  <2> QED
    BY <1>4, <2>1, <2>2, <2>3
<1> HIDE DEF rows, two
<1>6. ASSUME NEW i \in 1..(n + 1)
      PROVE  /\ i < at => i \in 1..n /\ rows[i] = rest[i]
             /\ i = at => rows[i] = p
             /\ i > at => i - 1 \in 1..n /\ rows[i] = rest[i - 1]
  <2>1. CASE i < at
    BY <1>0, <1>1, <1>4, <1>5, <2>1
  <2>2. CASE i = at
    BY <1>0, <1>4, <1>5, <2>2
  <2>3. CASE i > at
    <3>0. ~(i <= at) /\ i - at \in 1..(n - at + 1) /\ at + (i - at) - 1 = i - 1
      <4> HIDE DEF n
      <4> QED
        BY <1>0, <2>3
    <3>1. rows[i] = three[i - at] /\ i - at \in 1..(n - at + 1) /\ at + (i - at) - 1 = i - 1
      BY <1>5, <3>0
    <3>2. three[i - at] = rest[at + (i - at) - 1]
      BY <1>2, <3>1
    <3> QED
      BY <1>0, <2>3, <3>1, <3>2
  <2> QED
    BY <1>0, <2>1, <2>2, <2>3
<1>7. DOMAIN rows = 1..(n + 1) /\ rows \in Seq(ToSet(rows))
  BY <1>5, OwnSeq
<1>8. at \in 1..(n + 1) /\ n \in Nat
  BY <1>0
<1> HIDE DEF n
<1>9. \A i \in 1..n : rest[i].id # p.id
  BY <1>0 DEF ToSet
<1>10. Unique(rows)
  <2> SUFFICES ASSUME NEW i \in 1..(n + 1), NEW j \in 1..(n + 1), rows[i].id = rows[j].id, i < j
               PROVE  FALSE
    BY <1>7, <1>8 DEF Unique
  <2>1. CASE j < at
    BY <1>0, <1>6, <1>8, <2>1 DEF Unique
  <2>2. CASE i > at
    <3>1. i - 1 \in 1..n /\ j - 1 \in 1..n /\ rest[i - 1].id = rest[j - 1].id
      BY <1>6, <1>8, <2>2
    <3>2. i - 1 = j - 1
      BY <1>0, <3>1 DEF Unique
    <3> QED
      BY <1>8, <3>2
  <2>3. CASE i < at /\ j > at
    <3>1. i \in 1..n /\ j - 1 \in 1..n /\ rest[i].id = rest[j - 1].id
      BY <1>6, <1>8, <2>3
    <3>2. i = j - 1
      BY <1>0, <3>1 DEF Unique
    <3> QED
      BY <1>8, <2>3, <3>2
  <2>4. CASE i = at \/ j = at
    BY <1>6, <1>8, <1>9, <2>4
  <2> QED
    BY <1>8, <2>1, <2>2, <2>3, <2>4
<1>11. ToSet(rows) = ToSet(rest) \cup {p}
  <2>1. \A i \in 1..(n + 1) : rows[i] \in ToSet(rest) \cup {p}
    <3>1. \A i \in 1..n : rest[i] \in ToSet(rest)
      BY <1>0 DEF ToSet
    <3>2. \A i \in 1..(n + 1) : i < at \/ i = at \/ i > at
      BY <1>8
    <3> QED
      BY <1>6, <3>1, <3>2
  <2>2. p \in ToSet(rows)
    BY <1>6, <1>7, <1>8 DEF ToSet
  <2>3. ASSUME NEW i \in 1..n PROVE rest[i] \in ToSet(rows)
    <3>1. CASE i < at
      <4>1. i \in 1..(n + 1) /\ rows[i] = rest[i]
        BY <1>6, <1>8, <3>1
      <4> QED
        BY <1>7, <4>1 DEF ToSet
    <3>2. CASE ~(i < at)
      <4>1. i + 1 \in 1..(n + 1) /\ i + 1 > at /\ (i + 1) - 1 = i
        BY <1>8, <3>2
      <4>2. rows[i + 1] = rest[i]
        BY <1>6, <4>1
      <4> QED
        BY <1>7, <4>1, <4>2 DEF ToSet
    <3> QED
      BY <3>1, <3>2
  <2> QED
    BY <1>0, <1>7, <2>1, <2>2, <2>3 DEF ToSet
<1> QED
  BY <1>7, <1>10, <1>11 DEF rows, one, three, n

\* Without one of the profiles the list is shorter by one at most.
LEMMA OneLess ==
  ASSUME NEW rows, IsProfiles(rows), NEW id
  PROVE  Len(rows) - 1 <= Len(Those(rows, {p \in ToSet(rows) : p.id # id}))
<1> DEFINE S == {p \in ToSet(rows) : p.id # id}
           rest == Those(rows, S)
           n == Len(rows)  l == Len(rest)
<1>1. rows \in Seq(ToSet(rows)) /\ Unique(rows) /\ n \in Nat /\ DOMAIN rows = 1..n
  BY OwnSeq DEF IsProfiles
<1>2. rest \in Seq(ToSet(rows))
  BY <1>1, ThoseAre
<1>3. PICK m : Holds(rest, rows, S, n, m)
  BY <1>1, ThoseAre
<1>4. l \in Nat
  BY <1>2, OwnSeq
<1> DEFINE here == {i \in 1..n : rows[i].id # id}
<1>5. m \in [1..l -> 1..n] /\ (\A k \in 1..l : rows[m[k]] \in S)
      /\ (\A j \in 1..n : rows[j] \in S => \E k \in 1..l : m[k] = j)
  <2> HIDE DEF S, rest, n
  <2> QED
    BY <1>3 DEF Holds
<1>6. \A j \in 1..n : rows[j] \in S <=> j \in here
  BY <1>1 DEF ToSet
<1> HIDE DEF S, rest, n, l, here
<1>7. m \in Surjection(1..l, here)
  <2>1. \A k \in 1..l : m[k] \in here
    BY <1>5, <1>6
  <2>2. m \in [1..l -> here]
    BY <1>5, <2>1
  <2>3. \A j \in here : \E k \in 1..l : m[k] = j
    BY <1>5, <1>6 DEF here
  <2> QED
    BY <2>2, <2>3 DEF Surjection
<1>8. IsFiniteSet(1..l) /\ Cardinality(1..l) = l
  <2>1. 1 \in Int /\ l \in Int
    BY <1>4
  <2>2. IsFiniteSet(1..l) /\ Cardinality(1..l) = IF 1 > l THEN 0 ELSE l - 1 + 1
    BY <2>1, FS_Interval
  <2>3. (IF 1 > l THEN 0 ELSE l - 1 + 1) = l
    BY <1>4
  <2> QED
    BY <2>2, <2>3
<1>9. IsFiniteSet(here) /\ Cardinality(here) <= l
  BY <1>7, <1>8, FS_Surjection
<1>10. IsFiniteSet(1..n) /\ Cardinality(1..n) = n
  <2>1. 1 \in Int /\ n \in Int
    BY <1>1
  <2>2. IsFiniteSet(1..n) /\ Cardinality(1..n) = IF 1 > n THEN 0 ELSE n - 1 + 1
    BY <2>1, FS_Interval
  <2>3. (IF 1 > n THEN 0 ELSE n - 1 + 1) = n
    BY <1>1
  <2> QED
    BY <2>2, <2>3
<1>11. n - 1 <= Cardinality(here)
  <2>1. CASE \E i \in 1..n : rows[i].id = id
    <3>1. PICK i \in 1..n : rows[i].id = id
      BY <2>1
    <3>2. here = (1..n) \ {i}
      BY <1>1, <3>1 DEF here, Unique
    <3>3. Cardinality((1..n) \ {i}) = n - 1
      BY <1>10, <3>1, FS_RemoveElement
    <3> QED
      BY <1>1, <3>2, <3>3
  <2>2. CASE ~\E i \in 1..n : rows[i].id = id
    <3>1. here = 1..n
      BY <2>2 DEF here
    <3> QED
      BY <1>1, <1>10, <3>1
  <2> QED
    BY <2>1, <2>2
<1>12. Cardinality(here) \in Nat
  BY <1>9, FS_CardinalityType
<1>13. n - 1 <= l
  BY <1>1, <1>4, <1>9, <1>11, <1>12
<1> QED
  BY <1>13 DEF n, l, rest, S

LEMMA ReorderKeeps ==
  ASSUME NEW s, IsProfileState(s), NEW id, NEW target
  PROVE  Reorder(s, id, target) = None \/ IsProfileState(Reorder(s, id, target))
<1> SUFFICES ASSUME id \in Ids(s), target \in Ids(s), id # target
             PROVE  IsProfileState(Reorder(s, id, target))
  BY DEF Reorder
<1> DEFINE old == s.profiles  S == {p \in Members(s) : p.id # id}
           at == CHOOSE i \in DOMAIN old : old[i].id = target
           rest == Those(old, S)
           p == Named(s, id)
           rows == SubSeq(rest, 1, at - 1) \o <<p>> \o SubSeq(rest, at, Len(rest))
<1>1. IsProfiles(old) /\ Members(s) = ToSet(old)
  BY StateIs, MembersAre
<1>2. p \in ToSet(old) /\ p.id = id
  BY <1>1, NamedIs
<1>3. DOMAIN old = 1..Len(old) /\ Len(old) \in Nat /\ old \in Seq(ToSet(old))
  BY <1>1, OwnSeq DEF IsProfiles
<1>4. at \in DOMAIN old
  BY <1>1 DEF Ids, ToSet
<1>5. rest \in Seq(ToSet(old)) /\ Unique(rest) /\ ToSet(rest) = ToSet(old) \cap S
  BY <1>1, SomeProfiles DEF IsProfiles
<1>6. Len(old) - 1 <= Len(rest)
  BY <1>1, OneLess
<1>7. Len(rest) \in Nat
  BY <1>5, OwnSeq
<1>8. \A q \in ToSet(rest) : q.id # p.id
  BY <1>2, <1>5
<1>12. ToSet(rest) \cup {p} = ToSet(old)
  <2>1. ASSUME NEW q \in ToSet(old) PROVE q \in ToSet(rest) \cup {p}
    <3>1. CASE q.id = id
      <4>1. PICK i, j \in DOMAIN old : old[i] = q /\ old[j] = p
        BY <1>2, <2>1 DEF ToSet
      <4>2. i = j
        BY <1>1, <1>2, <3>1, <4>1 DEF IsProfiles, Unique
      <4> QED
        BY <4>1, <4>2
    <3>2. CASE q.id # id
      BY <1>1, <1>5, <2>1, <3>2
    <3> QED
      BY <3>1, <3>2
  <2> HIDE DEF rest, S, p
  <2> QED
    BY <1>2, <1>5, <2>1
<1> HIDE DEF old, S, at, rest, p
<1>9. at \in 1..(Len(rest) + 1)
  BY <1>3, <1>4, <1>6, <1>7
<1>10. rows \in Seq(ToSet(rows)) /\ Unique(rows) /\ ToSet(rows) = ToSet(rest) \cup {p}
  BY <1>2, <1>5, <1>8, <1>9, InsertedIs
<1> HIDE DEF rows
<1>11. IsProfiles(rows)
  BY <1>1, <1>10, <1>12 DEF IsProfiles
<1> DEFINE t == [s EXCEPT !.profiles = rows]
<1>13. DOMAIN t = DOMAIN s /\ t.profiles = rows
  BY DEF IsProfileState
<1> HIDE DEF t
<1>14. IsProfileState(t)
  BY <1>11, <1>13, OtherProfiles
<1> QED
  BY <1>14 DEF Reorder, t, rows, p, rest, at, S, old

-----------------------------------------------------------------------------
(* The invariant: whatever is stored, shown or about to be stored is a       *)
(* profile state, and a window that does not show the storage has a message  *)
(* on its way, edits or a reload to come.                                    *)

Windows == {"dock", "settings"}

ProbeIsOfItsKey ==
  resolved.status = "ready" /\ resolved.label # None =>
    resolved.label = MachineOf(resolved.key.host)

StatesInv ==
  /\ DOMAIN ref = Windows /\ DOMAIN writing = Windows
  /\ IsProfileState(storage)
  /\ \A w \in Windows : /\ IsProfileState(ref[w])
                        /\ writing[w] = None \/ IsProfileState(writing[w])
  /\ ProbeIsOfItsKey

DockHeard == "profiles" \notin ToSet(toDock)
SettingsHeard == \A m \in ToSet(toSettings) : m.kind # "profiles"

MessagesInv == toDock \in Seq(ToSet(toDock)) /\ toSettings \in Seq(ToSet(toSettings))
DockInv == DockHeard => Normalize(ref.dock) = Latest
SettingsInv == focused /\ ~IsDirty /\ ~reloadDue /\ SettingsHeard => Normalize(ref.settings) = Latest

StorageInv == StatesInv /\ MessagesInv /\ DockInv /\ SettingsInv

LEMMA LatestIs ==
  ASSUME StatesInv
  PROVE  /\ IsProfileState(Latest) /\ Normalize(Latest) = Latest
         /\ Ids(Latest) \subseteq Ids(storage)
BY NormalizeIs, NormalizeTwice DEF Latest, StatesInv, Ids

LEMMA AppendIs ==
  ASSUME NEW q, q \in Seq(ToSet(q)), NEW e
  PROVE  /\ Append(q, e) \in Seq(ToSet(Append(q, e)))
         /\ ToSet(Append(q, e)) = ToSet(q) \cup {e}
<1> DEFINE r == Append(q, e)  T == ToSet(q) \cup {e}
<1>1. q \in Seq(T)
  BY SeqMonotonic
<1>2. DOMAIN q = 1..Len(q) /\ Len(q) \in Nat
  BY <1>1, LenProperties
<1>3. r \in Seq(T) /\ Len(r) = Len(q) + 1 /\ r[Len(q) + 1] = e /\ \A i \in 1..Len(q) : r[i] = q[i]
  BY <1>1, AppendProperties
<1> HIDE DEF r, T
<1>4. r \in Seq(ToSet(r)) /\ ToSet(r) \subseteq T /\ DOMAIN r = 1..(Len(q) + 1)
  BY <1>3, OwnSeq
<1>5. e \in ToSet(r) /\ \A i \in 1..Len(q) : q[i] \in ToSet(r)
  BY <1>2, <1>3, <1>4 DEF ToSet
<1>6. T \subseteq ToSet(r)
  BY <1>2, <1>5 DEF T, ToSet
<1> QED
  BY <1>4, <1>6 DEF r, T

LEMMA TailIs ==
  ASSUME NEW q, q \in Seq(ToSet(q)), q # <<>>
  PROVE  /\ Tail(q) \in Seq(ToSet(Tail(q)))
         /\ ToSet(q) = ToSet(Tail(q)) \cup {Head(q)}
<1> DEFINE r == Tail(q)  T == ToSet(q)
<1>1. DOMAIN q = 1..Len(q) /\ Len(q) \in Nat /\ Len(q) # 0
  BY LenProperties, EmptySeq
<1>2. r \in Seq(T) /\ Len(r) = Len(q) - 1 /\ \A i \in 1..Len(r) : r[i] = q[i + 1]
  BY HeadTailProperties
<1>3. Head(q) = q[1]
  OBVIOUS
<1> HIDE DEF r
<1>4. r \in Seq(ToSet(r)) /\ ToSet(r) \subseteq T /\ DOMAIN r = 1..(Len(q) - 1)
  BY <1>2, OwnSeq
<1>5. ASSUME NEW i \in 1..Len(q) PROVE q[i] \in ToSet(r) \cup {Head(q)}
  <2>1. CASE i = 1
    BY <1>3, <2>1
  <2>2. CASE i # 1
    <3>1. i - 1 \in 1..Len(r) /\ (i - 1) + 1 = i
      BY <1>1, <1>2, <2>2
    <3>2. r[i - 1] = q[i]
      BY <1>2, <3>1
    <3> QED
      BY <1>2, <1>4, <3>1, <3>2 DEF ToSet
  <2> QED
    BY <2>1, <2>2
<1>6. Head(q) \in ToSet(q)
  BY <1>1, <1>3 DEF ToSet
<1>7. ToSet(q) = ToSet(r) \cup {Head(q)}
  BY <1>1, <1>4, <1>5, <1>6 DEF ToSet
<1> QED
  BY <1>4, <1>7 DEF r

\* The dock shows what is stored: it has loaded it, or neither has changed.
LEMMA DockKeeps ==
  ASSUME StatesInv, DockInv, storage' = storage,
         \/ ref'.dock = Latest
         \/ ref'.dock = ref.dock /\ (DockHeard' => DockHeard)
  PROVE  DockInv'
<1>1. Latest' = Latest
  BY DEF Latest
<1> QED
  BY <1>1, LatestIs DEF DockInv

LEMMA SettingsKeeps ==
  ASSUME StatesInv, SettingsInv, storage' = storage,
         \/ ref'.settings = Latest
         \/ ~focused' \/ IsDirty'
         \/ /\ ref'.settings = ref.settings /\ focused' = focused /\ (SettingsHeard' => SettingsHeard)
            /\ UNCHANGED <<draft, reloadDue>> \/ \E d : Shows(ref.settings, d)
  PROVE  SettingsInv'
<1>1. Latest' = Latest
  BY DEF Latest
<1>2. CASE ref'.settings = Latest
  BY <1>1, <1>2, LatestIs DEF SettingsInv
<1>3. CASE ~focused' \/ IsDirty'
  BY <1>3 DEF SettingsInv
<1>4. CASE /\ ref'.settings = ref.settings /\ focused' = focused
           /\ (SettingsHeard' => SettingsHeard) /\ UNCHANGED <<draft, reloadDue>>
  <2>1. IsDirty' <=> IsDirty
    BY <1>4 DEF IsDirty
  <2> QED
    BY <1>1, <1>4, <2>1 DEF SettingsInv
<1>5. ASSUME ref'.settings = ref.settings, focused' = focused, SettingsHeard' => SettingsHeard,
             NEW d, Shows(ref.settings, d)
      PROVE  SettingsInv'
  <2>1. draft' = d /\ reloadDue' = (reloadDue \/ BecomesClean(IsDirty, Dirty(ref.settings, d)))
    BY <1>5 DEF Shows
  <2>2. IsDirty' <=> Dirty(ref.settings, d)
    BY <1>5, <2>1 DEF IsDirty
  <2>3. ~IsDirty' /\ ~reloadDue' => ~IsDirty /\ ~reloadDue
    BY <2>1, <2>2 DEF BecomesClean
  <2> QED
    BY <1>1, <1>5, <2>3 DEF SettingsInv
<1> QED
  BY <1>2, <1>3, <1>4, <1>5

\* The storage, the messages and what was probed stay.
LEMMA QuietKeeps ==
  ASSUME StorageInv, UNCHANGED <<storage, toDock, toSettings, resolved>>,
         DOMAIN ref' = Windows, DOMAIN writing' = Windows,
         \A w \in Windows : /\ writing'[w] \in {writing[w], None} \/ IsProfileState(writing'[w])
                            /\ ref'[w] \in {ref[w], Latest},
         \/ ref'.settings = Latest
         \/ ~focused' \/ IsDirty'
         \/ /\ ref'.settings = ref.settings /\ focused' = focused
            /\ UNCHANGED <<draft, reloadDue>> \/ \E d : Shows(ref.settings, d)
  PROVE  StorageInv'
<1>1. StatesInv /\ MessagesInv /\ DockInv /\ SettingsInv
  BY DEF StorageInv
<1>2. StatesInv'
  BY <1>1, LatestIs DEF StatesInv, ProbeIsOfItsKey
<1>3. MessagesInv'
  BY <1>1 DEF MessagesInv
<1>4. DockHeard' = DockHeard /\ SettingsHeard' = SettingsHeard
  BY DEF DockHeard, SettingsHeard
<1>5. DockInv'
  <2>1. ref'.dock \in {ref.dock, Latest}
    BY DEF Windows
  <2> QED
    BY <1>1, <1>4, <2>1, DockKeeps
<1>6. SettingsInv'
  BY <1>1, <1>4, SettingsKeeps
<1> QED
  BY <1>2, <1>3, <1>5, <1>6 DEF StorageInv

LEMMA BeginKeeps ==
  ASSUME StorageInv, NEW w \in Windows, NEW next, next = None \/ IsProfileState(next),
         Begin(w, next), resolved' = resolved
  PROVE  StorageInv'
<1>1. DOMAIN writing = Windows /\ DOMAIN ref = Windows
  BY DEF StorageInv, StatesInv
<1>2. UNCHANGED <<storage, toDock, toSettings, ref, draft, reloadDue, focused>>
  BY DEF Begin, form
<1>3. DOMAIN writing' = Windows
      /\ \A v \in Windows : writing'[v] \in {writing[v], None} \/ IsProfileState(writing'[v])
  BY <1>1 DEF Begin
<1> QED
  BY <1>1, <1>2, <1>3, QuietKeeps

LEMMA AdoptIs ==
  ASSUME DOMAIN ref = Windows, NEW w \in Windows, NEW s, Adopt(w, s)
  PROVE  /\ DOMAIN ref' = Windows /\ ref'[w] = s
         /\ \A v \in Windows \ {w} : ref'[v] = ref[v]
         /\ w = "dock" => UNCHANGED <<draft, reloadDue>>
BY DEF Adopt, Windows

LEMMA ReloadKeeps ==
  ASSUME StorageInv, NEW w \in Windows, Reload(w), resolved' = resolved
  PROVE  StorageInv'
<1>1. DOMAIN writing = Windows /\ DOMAIN ref = Windows
  BY DEF StorageInv, StatesInv
<1>2. UNCHANGED <<storage, toDock, toSettings, writing, focused>> /\ Adopt(w, Latest)
  BY DEF Reload
<1>3. /\ DOMAIN ref' = Windows /\ ref'[w] = Latest
      /\ \A v \in Windows \ {w} : ref'[v] = ref[v]
      /\ w = "dock" => UNCHANGED <<draft, reloadDue>>
  BY <1>1, <1>2, AdoptIs
<1>4. \/ ref'.settings = Latest
      \/ ref'.settings = ref.settings /\ UNCHANGED <<draft, reloadDue>>
  BY <1>3 DEF Windows
<1> QED
  BY <1>1, <1>2, <1>3, <1>4, QuietKeeps

LEMMA MutatesKeeps ==
  ASSUME StorageInv, NEW w \in Windows, NEW next, next = None \/ IsProfileState(next),
         MutatesOrAdopts(w, next) \/ Mutates(w, next), resolved' = resolved
  PROVE  StorageInv'
BY BeginKeeps, ReloadKeeps DEF MutatesOrAdopts, Mutates

LEMMA DockCommands ==
  ASSUME StorageInv, DockSelect \/ DockToggle \/ DockEnable \/ DockReorder
  PROVE  StorageInv'
<1>1. resolved' = resolved
  BY DEF DockSelect, DockToggle, DockEnable, DockReorder, Command, probe
<1>2. "dock" \in Windows /\ IsProfileState(Latest)
  BY LatestIs DEF StorageInv, Windows
<1>3. CASE DockSelect
  BY <1>1, <1>2, <1>3, SelectKeeps, MutatesKeeps DEF DockSelect
<1>4. CASE DockToggle
  BY <1>1, <1>2, <1>4, ToggleKeeps, MutatesKeeps DEF DockToggle
<1>5. CASE DockEnable
  BY <1>1, <1>2, <1>5, EnableKeeps, MutatesKeeps DEF DockEnable
<1>6. CASE DockReorder
  BY <1>1, <1>2, <1>6, ReorderKeeps, MutatesKeeps DEF DockReorder
<1> QED
  BY <1>3, <1>4, <1>5, <1>6

LEMMA ActiveIs ==
  ASSUME NEW s, IsProfileState(s)
  PROVE  Active(s) \in Members(s)
<1> DEFINE runnable == {p \in Members(s) : Runnable(p)}
           chosen == {p \in runnable : p.id = s.active}
           P == IF chosen # {} THEN chosen ELSE runnable
<1>1. runnable # {}
  BY DEF IsProfileState, IsProfile, Ids, Runnable
<1>2. P # {} /\ P \subseteq Members(s)
  BY <1>1
<1>3. Active(s) = First(s, P)
  BY DEF Active
<1> HIDE DEF P
<1> QED
  BY <1>2, <1>3, FirstIs

LEMMA CardCommands ==
  ASSUME StorageInv,
         SelectCard \/ AddCard \/ DeleteCard \/ ReorderCards \/ ToggleCard \/ ApplyForm
  PROVE  StorageInv'
<1>1. resolved' = resolved
  BY DEF SelectCard, AddCard, DeleteCard, ReorderCards, ToggleCard, ApplyForm, Typed, Command, probe
<1>2. /\ "settings" \in Windows /\ IsProfileState(Latest) /\ IsProfileState(ref.settings)
      /\ Ids(Latest) \subseteq Ids(storage)
  BY LatestIs DEF StorageInv, Windows, StatesInv
<1>3. CASE SelectCard
  BY <1>1, <1>2, <1>3, SelectKeeps, MutatesKeeps DEF SelectCard
<1>4. CASE AddCard
  <2>1. PICK id \in SshIds : /\ Drafts(Latest) = {} => id \notin Known
                             /\ MutatesOrAdopts("settings", AddSsh(Latest, id))
    BY <1>4 DEF AddCard
  <2>2. Ids(storage) \subseteq Known
    BY DEF Known
  <2>3. AddSsh(Latest, id) = None \/ IsProfileState(AddSsh(Latest, id))
    BY <1>2, <2>1, <2>2, AddKeeps
  <2> QED
    BY <1>1, <1>2, <2>1, <2>3, MutatesKeeps
<1>5. CASE DeleteCard
  <2>1. Active(ref.settings).id # LocalId
    BY <1>2, <1>5, ActiveIs DEF DeleteCard, IsProfileState, IsProfile
  <2> QED
    BY <1>1, <1>2, <1>5, <2>1, DeleteKeeps, MutatesKeeps DEF DeleteCard
<1>6. CASE ReorderCards
  BY <1>1, <1>2, <1>6, ReorderKeeps, MutatesKeeps DEF ReorderCards
<1>7. CASE ToggleCard
  BY <1>1, <1>2, <1>7, ToggleKeeps, MutatesKeeps DEF ToggleCard
<1>8. CASE ApplyForm
  BY <1>1, <1>2, <1>8, EditKeeps, BeginKeeps, ReloadKeeps DEF ApplyForm
<1> QED
  BY <1>3, <1>4, <1>5, <1>6, <1>7, <1>8

LEMMA FormCommands ==
  ASSUME StorageInv, TypeInForm \/ ResetForm \/ Hide
  PROVE  StorageInv'
<1>1. resolved' = resolved /\ UNCHANGED shared
  BY DEF TypeInForm, ResetForm, Hide, Typed, Command, probe
<1>2. DOMAIN writing = Windows /\ DOMAIN ref = Windows
  BY DEF StorageInv, StatesInv
<1>3. UNCHANGED <<storage, ref, writing, toDock, toSettings>>
  BY <1>1 DEF shared
<1>4. ~focused' \/ (focused' = focused /\ \E d : Shows(ref.settings, d))
  BY DEF TypeInForm, ResetForm, Hide
<1> QED
  BY <1>1, <1>2, <1>3, <1>4, QuietKeeps

LEMMA CommitKeeps ==
  ASSUME StorageInv, NEW w \in Windows, Commit(w)
  PROVE  StorageInv'
<1>1. /\ DOMAIN writing = Windows /\ DOMAIN ref = Windows /\ MessagesInv /\ StatesInv
      /\ IsProfileState(writing[w])
  BY DEF StorageInv, StatesInv, Commit, Free
<1>2. /\ storage' = writing[w] /\ writing' = [writing EXCEPT ![w] = None] /\ Adopt(w, writing[w])
      /\ resolved' = resolved
  BY DEF Commit, probe
<1>3. /\ DOMAIN ref' = Windows /\ ref'[w] = writing[w]
      /\ \A v \in Windows \ {w} : ref'[v] = ref[v]
  BY <1>1, <1>2, AdoptIs
<1>4. StatesInv'
  BY <1>1, <1>2, <1>3 DEF StatesInv, ProbeIsOfItsKey
<1>5. CASE w = "dock"
  <2> DEFINE message == [kind |-> "profiles"]
  <2>1. toSettings' = Append(toSettings, message) /\ toDock' = toDock
    BY <1>5 DEF Commit
  <2>2. ToSet(toSettings') = ToSet(toSettings) \cup {message} /\ MessagesInv'
    BY <1>1, <2>1, AppendIs DEF MessagesInv
  <2>5. message \in ToSet(toSettings') /\ message.kind = "profiles"
    BY <2>2
  <2> HIDE DEF message
  <2>3. ~SettingsHeard'
    BY <2>5 DEF SettingsHeard
  <2>4. DockInv'
    BY <1>2, <1>3, <1>5 DEF DockInv, Latest
  <2> QED
    BY <1>4, <2>2, <2>3, <2>4 DEF StorageInv, SettingsInv
<1>6. CASE w = "settings"
  <2>1. toDock' = Append(toDock, "profiles") /\ toSettings' = toSettings
    BY <1>6 DEF Commit
  <2>2. ToSet(toDock') = ToSet(toDock) \cup {"profiles"} /\ MessagesInv'
    BY <1>1, <2>1, AppendIs DEF MessagesInv
  <2>3. ~DockHeard'
    BY <2>2 DEF DockHeard
  <2>4. SettingsInv'
    BY <1>2, <1>3, <1>6 DEF SettingsInv, Latest
  <2> QED
    BY <1>4, <2>2, <2>3, <2>4 DEF StorageInv, DockInv
<1> QED
  BY <1>5, <1>6 DEF Windows

LEMMA StoreThrowsKeeps ==
  ASSUME StorageInv, NEW w \in Windows, StoreThrows(w)
  PROVE  StorageInv'
<1>1. DOMAIN writing = Windows /\ DOMAIN ref = Windows
  BY DEF StorageInv, StatesInv
<1>2. /\ UNCHANGED <<storage, ref, toDock, toSettings, draft, reloadDue, focused, resolved>>
      /\ writing' = [writing EXCEPT ![w] = None]
  BY DEF StoreThrows, form, probe
<1>3. DOMAIN writing' = Windows /\ \A v \in Windows : writing'[v] \in {writing[v], None}
  BY <1>1, <1>2
<1> QED
  BY <1>1, <1>2, <1>3, QuietKeeps

\* The storage and what is about to be stored stay; the messages do not.
LEMMA MessagesKeep ==
  ASSUME StorageInv, UNCHANGED <<storage, writing, resolved>>, MessagesInv',
         DOMAIN ref' = Windows, \A w \in Windows : ref'[w] \in {ref[w], Latest},
         ref'.dock = Latest \/ (DockHeard' => DockHeard),
         \/ ref'.settings = Latest
         \/ ~focused' \/ IsDirty'
         \/ /\ ref'.settings = ref.settings /\ focused' = focused /\ (SettingsHeard' => SettingsHeard)
            /\ UNCHANGED <<draft, reloadDue>>
  PROVE  StorageInv'
<1>1. StatesInv /\ DockInv /\ SettingsInv
  BY DEF StorageInv
<1>2. StatesInv'
  BY <1>1, LatestIs DEF StatesInv, ProbeIsOfItsKey
<1>3. DockInv'
  <2>1. ref'.dock \in {ref.dock, Latest}
    BY DEF Windows
  <2> QED
    BY <1>1, <2>1, DockKeeps
<1>4. SettingsInv'
  BY <1>1, SettingsKeeps
<1> QED
  BY <1>2, <1>3, <1>4 DEF StorageInv

LEMMA FocusKeeps == ASSUME StorageInv, Focus PROVE StorageInv'
<1>1. DOMAIN ref = Windows /\ MessagesInv
  BY DEF StorageInv, StatesInv
<1>2. UNCHANGED <<storage, writing, toSettings, resolved>> /\ toDock' = Append(toDock, "request")
  BY DEF Focus, Command, probe
<1>3. ToSet(toDock') = ToSet(toDock) \cup {"request"} /\ MessagesInv'
  BY <1>1, <1>2, AppendIs DEF MessagesInv
<1>4. DockHeard' => DockHeard
  BY <1>3 DEF DockHeard
<1>5. CASE IsDirty
  <2>1. UNCHANGED <<ref, draft, reloadDue>>
    BY <1>5 DEF Focus
  <2>2. IsDirty'
    BY <1>5, <2>1 DEF IsDirty
  <2> QED
    BY <1>1, <1>2, <1>3, <1>4, <2>1, <2>2, MessagesKeep
<1>6. CASE ~IsDirty
  <2>1. Adopt("settings", Latest) /\ "settings" \in Windows
    BY <1>6 DEF Focus, Windows
  <2>2. /\ DOMAIN ref' = Windows /\ ref'["settings"] = Latest
        /\ \A v \in Windows \ {"settings"} : ref'[v] = ref[v]
    BY <1>1, <2>1, AdoptIs
  <2> QED
    BY <1>2, <1>3, <1>4, <2>2, MessagesKeep
<1> QED
  BY <1>5, <1>6

LEMMA CleanKeeps == ASSUME StorageInv, ReloadWhenClean PROVE StorageInv'
<1>1. DOMAIN ref = Windows /\ DOMAIN writing = Windows
  BY DEF StorageInv, StatesInv
<1>2. UNCHANGED <<storage, writing, toDock, toSettings, resolved>>
  BY DEF ReloadWhenClean, probe
<1>3. CASE IsDirty
  <2>1. ref' = [ref EXCEPT !.settings = ref.settings] /\ draft' = draft
    BY <1>3 DEF ReloadWhenClean
  <2>2. DOMAIN ref' = Windows /\ ref'.settings = ref.settings /\ ref'.dock = ref.dock
    BY <1>1, <2>1 DEF Windows
  <2>3. IsDirty'
    BY <1>3, <2>1, <2>2 DEF IsDirty
  <2>4. \A w \in Windows : ref'[w] = ref[w]
    BY <2>2 DEF Windows
  <2> QED
    BY <1>1, <1>2, <2>2, <2>3, <2>4, QuietKeeps
<1>4. CASE ~IsDirty
  <2>1. ref' = [ref EXCEPT !.settings = Latest]
    BY <1>4 DEF ReloadWhenClean
  <2>2. /\ DOMAIN ref' = Windows /\ ref'.settings = Latest
        /\ \A w \in Windows : ref'[w] \in {ref[w], Latest}
    BY <1>1, <2>1 DEF Windows
  <2> QED
    BY <1>1, <1>2, <2>2, QuietKeeps
<1> QED
  BY <1>3, <1>4

LEMMA HearProfilesKeeps == ASSUME StorageInv, HearProfiles PROVE StorageInv'
<1>1. DOMAIN ref = Windows /\ MessagesInv
  BY DEF StorageInv, StatesInv
<1>2. /\ UNCHANGED <<storage, writing, toDock, resolved>> /\ toSettings # <<>>
      /\ toSettings' = Tail(toSettings)
  BY DEF HearProfiles, probe
<1>3. MessagesInv' /\ (DockHeard' => DockHeard)
  BY <1>1, <1>2, TailIs DEF MessagesInv, DockHeard
<1>4. CASE AdoptsSync
  <2>1. Adopt("settings", Latest) /\ "settings" \in Windows
    BY <1>4 DEF HearProfiles, Windows
  <2>2. /\ DOMAIN ref' = Windows /\ ref'["settings"] = Latest
        /\ \A v \in Windows \ {"settings"} : ref'[v] = ref[v]
    BY <1>1, <2>1, AdoptIs
  <2> QED
    BY <1>2, <1>3, <2>2, MessagesKeep
<1>5. CASE ~AdoptsSync
  <2>1. UNCHANGED <<ref, draft, reloadDue>> /\ IsDirty
    BY <1>5 DEF HearProfiles, AdoptsSync
  <2>2. IsDirty'
    BY <2>1 DEF IsDirty
  <2> QED
    BY <1>1, <1>2, <1>3, <2>1, <2>2, MessagesKeep
<1> QED
  BY <1>4, <1>5

LEMMA SettingsMessages ==
  ASSUME StorageInv, HearPreflight \/ Miss PROVE StorageInv'
<1>1. DOMAIN ref = Windows /\ MessagesInv
  BY DEF StorageInv, StatesInv
<1>2. /\ UNCHANGED <<storage, writing, ref, toDock, draft, reloadDue, focused, resolved>>
      /\ toSettings # <<>> /\ toSettings' = Tail(toSettings)
  BY DEF HearPreflight, Miss, form, probe
<1>3. /\ MessagesInv' /\ (DockHeard' => DockHeard)
      /\ ToSet(toSettings) = ToSet(toSettings') \cup {Head(toSettings)}
  BY <1>1, <1>2, TailIs DEF MessagesInv, DockHeard
<1>4. ~focused' \/ Head(toSettings).kind # "profiles"
  BY <1>2 DEF HearPreflight, Miss
<1>5. ~focused' \/ (SettingsHeard' => SettingsHeard)
  BY <1>3, <1>4 DEF SettingsHeard
<1> QED
  BY <1>1, <1>2, <1>3, <1>5, MessagesKeep

LEMMA DockHearsKeeps == ASSUME StorageInv, DockHears PROVE StorageInv'
<1>1. DOMAIN ref = Windows /\ MessagesInv
  BY DEF StorageInv, StatesInv
<1>2. /\ UNCHANGED <<storage, writing, focused, resolved>>
      /\ toDock # <<>> /\ toDock' = Tail(toDock)
  BY DEF DockHears, probe
<1>3. /\ toDock' \in Seq(ToSet(toDock'))
      /\ ToSet(toDock) = ToSet(toDock') \cup {Head(toDock)}
  BY <1>1, <1>2, TailIs DEF MessagesInv
<1>4. CASE Head(toDock) = "profiles"
  <2>1. Adopt("dock", Latest) /\ "dock" \in Windows /\ toSettings' = toSettings
    BY <1>4 DEF DockHears, Windows
  <2>2. /\ DOMAIN ref' = Windows /\ ref'["dock"] = Latest
        /\ \A v \in Windows \ {"dock"} : ref'[v] = ref[v]
        /\ UNCHANGED <<draft, reloadDue>>
    BY <1>1, <2>1, AdoptIs
  <2>3. MessagesInv' /\ (SettingsHeard' => SettingsHeard)
    BY <1>1, <1>3, <2>1 DEF MessagesInv, SettingsHeard
  <2>4. ref'.settings = ref.settings
    BY <2>2 DEF Windows
  <2> QED
    BY <1>2, <2>2, <2>3, <2>4, MessagesKeep
<1>5. CASE Head(toDock) # "profiles"
  <2>1. toSettings' = Append(toSettings, wire) /\ UNCHANGED <<ref, draft, reloadDue>>
    BY <1>5 DEF DockHears
  <2>2. /\ ToSet(toSettings') = ToSet(toSettings) \cup {wire}
        /\ toSettings' \in Seq(ToSet(toSettings'))
    BY <1>1, <2>1, AppendIs DEF MessagesInv
  <2>3. MessagesInv' /\ (SettingsHeard' => SettingsHeard) /\ (DockHeard' => DockHeard)
    BY <1>3, <1>5, <2>2 DEF MessagesInv, SettingsHeard, DockHeard
  <2> QED
    BY <1>1, <1>2, <2>1, <2>3, MessagesKeep
<1> QED
  BY <1>4, <1>5

LEMMA EmitKeeps == ASSUME StorageInv, Emit PROVE StorageInv'
<1>1. DOMAIN ref = Windows /\ MessagesInv
  BY DEF StorageInv, StatesInv
<1>2. /\ UNCHANGED <<storage, writing, ref, toDock, draft, reloadDue, focused, resolved>>
      /\ toSettings' = Append(toSettings, wire)
  BY DEF Emit, form
<1>3. /\ ToSet(toSettings') = ToSet(toSettings) \cup {wire}
      /\ toSettings' \in Seq(ToSet(toSettings'))
  BY <1>1, <1>2, AppendIs DEF MessagesInv
<1>4. MessagesInv' /\ (SettingsHeard' => SettingsHeard) /\ (DockHeard' => DockHeard)
  BY <1>1, <1>2, <1>3 DEF MessagesInv, SettingsHeard, DockHeard
<1> QED
  BY <1>1, <1>2, <1>4, MessagesKeep

\* What the dock's probe finds is a label of the key it was made for.
LEMMA ProbesKeep ==
  ASSUME StorageInv, Configure \/ ProbeResolves \/ ProbeInBackground
  PROVE  StorageInv'
<1>1. UNCHANGED <<storage, ref, writing, toDock, toSettings, draft, reloadDue, focused>>
  BY DEF Configure, ProbeResolves, ProbeInBackground, shared, form
<1>2. ProbeIsOfItsKey'
  <2>1. CASE resolved' = resolved
    BY <2>1 DEF StorageInv, StatesInv, ProbeIsOfItsKey
  <2>2. CASE Publish(Wire("loading", None, None))
    BY <2>2 DEF Publish, Wire, ProbeIsOfItsKey
  <2>3. CASE ProbeResolves
    <3>1. PICK next \in {Wire("ready", armed, None), Wire("failed", None, None)} \cup
                        {Wire("ready", armed, MachineOf(h)) : h \in {armed.host} \ {NoHost}} :
            Publish(next)
      BY <2>3 DEF ProbeResolves
    <3>2. resolved' = next
      BY <3>1 DEF Publish
    <3>3. \/ next = Wire("ready", armed, None) \/ next = Wire("failed", None, None)
          \/ next = Wire("ready", armed, MachineOf(armed.host))
      BY <3>1
    <3> QED
      BY <3>2, <3>3 DEF Wire, ProbeIsOfItsKey
  <2> QED
    BY <2>1, <2>2, <2>3 DEF Configure, ProbeInBackground
<1>3. DockHeard' = DockHeard /\ SettingsHeard' = SettingsHeard /\ Latest' = Latest
      /\ IsDirty' = IsDirty
  BY <1>1 DEF DockHeard, SettingsHeard, Latest, IsDirty
<1> QED
  BY <1>1, <1>2, <1>3 DEF StorageInv, StatesInv, MessagesInv, DockInv, SettingsInv

\* It is filed under a profile with that key, or nowhere.
LEMMA RecordsKeep ==
  ASSUME StorageInv, RecordDriverProbe \/ BackgroundProbeResolves
  PROVE  StorageInv'
<1>1. /\ DOMAIN ref = Windows /\ DOMAIN writing = Windows /\ IsProfileState(Latest)
      /\ ProbeIsOfItsKey
  BY LatestIs DEF StorageInv, StatesInv
<1>2. UNCHANGED <<storage, ref, toDock, toSettings, draft, reloadDue, focused, resolved>>
  BY DEF RecordDriverProbe, BackgroundProbeResolves, form
<1>3. \E next : /\ next = None \/ IsProfileState(next)
                /\ writing' = [writing EXCEPT !.dock = next]
  <2>1. CASE RecordDriverProbe
    <3> DEFINE owners == {p \in Members(ref.dock) : RunnerKey(p) = resolved.key}
               id == (CHOOSE p \in owners : TRUE).id
               record == RecordProbedHost(Latest, id, resolved.label, resolved.key)
               next == IF owners = {} \/ resolved.status # "ready" THEN None ELSE record
    <3>1. writing' = [writing EXCEPT !.dock = next]
      BY <2>1 DEF RecordDriverProbe
    <3>2. resolved.status = "ready" => record = None \/ IsProfileState(record)
      BY <1>1, RecordKeeps DEF ProbeIsOfItsKey
    <3> HIDE DEF record, owners
    <3>3. next = None \/ IsProfileState(next)
      BY <3>2
    <3> QED
      BY <3>1, <3>3
  <2>2. CASE BackgroundProbeResolves
    <3>1. PICK f \in inFlight, label \in {None, "found"} :
            writing' = [writing EXCEPT !.dock =
                 RecordProbedHost(Latest, f.id,
                                  IF label = None THEN None ELSE MachineOf(f.key.host), f.key)]
      BY <2>2 DEF BackgroundProbeResolves
    <3> DEFINE found == IF label = None THEN None ELSE MachineOf(f.key.host)
               next == RecordProbedHost(Latest, f.id, found, f.key)
    <3>2. found # None => found = MachineOf(f.key.host)
      OBVIOUS
    <3> HIDE DEF found
    <3>3. next = None \/ IsProfileState(next)
      BY <1>1, <3>2, RecordKeeps
    <3> QED
      BY <3>1, <3>3 DEF found
  <2> QED
    BY <2>1, <2>2
<1>4. PICK next : /\ next = None \/ IsProfileState(next)
                  /\ writing' = [writing EXCEPT !.dock = next]
  BY <1>3
<1>5. /\ DOMAIN writing' = Windows
      /\ \A w \in Windows : writing'[w] \in {writing[w], None} \/ IsProfileState(writing'[w])
  BY <1>1, <1>4 DEF Windows
<1> QED
  BY <1>1, <1>2, <1>5, QuietKeeps

LEMMA StorageStep == StorageInv /\ [Next]_vars => StorageInv'
<1> SUFFICES ASSUME StorageInv, [Next]_vars PROVE StorageInv'
  OBVIOUS
<1>1. CASE UNCHANGED vars
  <2>1. UNCHANGED <<storage, ref, writing, toDock, toSettings, draft, reloadDue, focused, resolved>>
    BY <1>1 DEF vars, shared, form, probe
  <2>2. DOMAIN writing = Windows /\ DOMAIN ref = Windows
    BY DEF StorageInv, StatesInv
  <2> QED
    BY <2>1, <2>2, QuietKeeps
<1>2. CASE DockSelect \/ DockToggle \/ DockEnable \/ DockReorder
  BY <1>2, DockCommands
<1>3. CASE SelectCard \/ AddCard \/ DeleteCard \/ ReorderCards \/ ToggleCard \/ ApplyForm
  BY <1>3, CardCommands
<1>4. CASE TypeInForm \/ ResetForm \/ Hide
  BY <1>4, FormCommands
<1>5. CASE \E w \in Windows : Commit(w) \/ StoreThrows(w)
  BY <1>5, CommitKeeps, StoreThrowsKeeps
<1>6. CASE Focus \/ ReloadWhenClean \/ HearProfiles \/ HearPreflight \/ Miss \/ DockHears
  BY <1>6, FocusKeeps, CleanKeeps, HearProfilesKeeps, SettingsMessages, DockHearsKeeps
<1>7. CASE Configure \/ ProbeResolves \/ ProbeInBackground \/ Emit
           \/ RecordDriverProbe \/ BackgroundProbeResolves
  BY <1>7, ProbesKeep, EmitKeeps, RecordsKeep
<1> QED
  BY <1>1, <1>2, <1>3, <1>4, <1>5, <1>6, <1>7 DEF Next, Windows

LEMMA StorageStarts == Init => StorageInv
<1> SUFFICES ASSUME Init PROVE StorageInv
  OBVIOUS
<1>1. PICK start \in Starts :
        /\ storage = start.stored
        /\ ref = [dock |-> storage, settings |-> storage]
        /\ writing = [dock |-> None, settings |-> None]
        /\ toDock = <<>> /\ toSettings = <<>>
        /\ resolved = Wire("loading", None, None)
  BY DEF Init
<1>2. IsProfileState(storage)
  BY <1>1, StartsAssumption
<1>3. StatesInv
  BY <1>1, <1>2 DEF StatesInv, ProbeIsOfItsKey, Wire, Windows
<1>4. MessagesInv
  BY <1>1 DEF MessagesInv
<1>5. DockInv /\ SettingsInv
  BY <1>1 DEF DockInv, SettingsInv, Latest
<1> QED
  BY <1>3, <1>4, <1>5 DEF StorageInv

(***************************************************************************)
(* What is stored about a source was found out about its connection, and a *)
(* window without edits, and with no message still to hear, shows what is  *)
(* stored.  With any sources, hosts, runners, probes, refused stores and   *)
(* missed messages, and although neither window locks what it loads,       *)
(* changes and stores.                                                     *)
THEOREM StorageAlwaysTrue == Spec => []StorageIsTrueAndShown
<1>1. StorageInv => StorageIsTrueAndShown
  <2> SUFFICES ASSUME StorageInv PROVE StorageIsTrueAndShown
    OBVIOUS
  <2>1. StatesInv /\ DockInv /\ SettingsInv /\ MessagesInv
    BY DEF StorageInv
  <2>2. LabelsAreOfTheirConnection
    BY <2>1 DEF StatesInv, LabelsAreOfTheirConnection, Windows, IsProfileState, IsProfile
  <2>3. "profiles" \notin {toDock[i] : i \in DOMAIN toDock} => DockHeard
    BY DEF DockHeard, ToSet
  <2>4. (\A i \in DOMAIN toSettings : toSettings[i].kind # "profiles") => SettingsHeard
    BY DEF SettingsHeard, ToSet
  <2>5. WindowsFollowStorage
    BY <2>1, <2>3, <2>4 DEF WindowsFollowStorage, DockInv, SettingsInv
  <2> QED
    BY <2>2, <2>5 DEF StorageIsTrueAndShown
<1> QED
  BY <1>1, StorageStarts, StorageStep, PTL DEF Spec
================================================================================
