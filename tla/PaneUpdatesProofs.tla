------------------------- MODULE PaneUpdatesProofs -------------------------
(* Proofs about what the daemon knows of its panes, for any panes, windows    *)
(* and sessions, any agents and any intervals: EventBatch, then StatusPolling.*)
EXTENDS EventBatch, StatusPolling, FiniteSetTheorems, SequenceTheorems, WellFoundedInduction,
        TLAPS

-----------------------------------------------------------------------------
(* The batch: what the variables hold                                        *)

PaneKinds == {"title", "pane", "activity", "focus"}
EventKinds == PaneKinds \cup {"window", "session", "resnapshot"}
Events ==
  {e \in [kind : EventKinds, id : Panes \cup Windows \cup Sessions \cup {"server"},
          title : Nat, proves : [Panes -> Nat]] :
     /\ e.kind \in PaneKinds => e.id \in Panes
     /\ e.kind = "window" => e.id \in Windows
     /\ e.kind = "session" => e.id \in Sessions
     /\ e.kind = "resnapshot" => e.id = "server"}

\* Those that prove no more than the titles that the panes have, and an announced
\* title is the one that its pane has.
Attested(t) ==
  {e \in Events : /\ \A p \in Panes : e.proves[p] <= t[p]
                  /\ e.kind = "title" => e.title = t[e.id]
                  /\ e.kind = "activity" /\ e.id \notin Candidates => e.proves[e.id] = 0}
PaneRows == [win : Windows, sess : Sessions, name : Nat, title : Nat]

TodoTypes ==
  /\ phase \in {"idle", "full"} => todo = {}
  /\ phase = "scopes" => todo \subseteq ({"session"} \X Sessions \X {0})
                                        \cup ({"window"} \X Windows \X {0})
  /\ phase = "panes" => todo \subseteq {"pane"} \X Panes \X Nat
  /\ phase \in {"focusSession", "focusFull"} => \E p \in Panes : todo = {<<"focus", p, 0>>}

BatchTypes ==
  /\ home \in [Panes -> Windows \cup {"gone"}] /\ place \in [Windows -> Sessions]
  /\ name \in [Sessions -> Nat] /\ title \in [Panes -> Nat \ {0}]
  /\ lines \in Seq(Events) /\ batch \in Seq(Events)
  /\ phase \in {"idle", "full", "scopes", "panes", "focusSession", "focusFull", "ended"}
  /\ TodoTypes
  /\ DOMAIN snapshot \subseteq Panes /\ snapshot \in [DOMAIN snapshot -> PaneRows]
  /\ DOMAIN byPane \subseteq Panes /\ byPane \in [DOMAIN byPane -> Nat] /\ nextSeq \in Nat

LEMMA LeastNatural ==
  ASSUME NEW T, T \subseteq Nat, T # {}
  PROVE  \E x \in T : \A y \in T : x <= y
<1> DEFINE R == OpToRel(<, Nat)
<1>1. IsWellFoundedOn(R, Nat)
  BY NatLessThanWellFounded
<1>2. \A x, y \in Nat : <<y, x>> \in R <=> y < x
  BY DEF OpToRel
<1> HIDE DEF R
<1>3. PICK x \in T : \A y \in T : ~ (<<y, x>> \in R)
  BY <1>1, WFMin
<1>4. \A y \in T : x \in Nat /\ y \in Nat /\ ~(y < x)
  BY <1>2, <1>3
<1>5. \A y \in T : x <= y
  BY <1>4
<1> QED
  BY <1>3, <1>5

\* Of some numbers that none exceeds, Max is the greatest.
LEMMA MaxOfNaturals ==
  ASSUME NEW S, S \subseteq Nat, S # {}, NEW b \in Nat, \A x \in S : x <= b
  PROVE  Max(S) \in S /\ \A x \in S : x <= Max(S)
<1> DEFINE T == {b - x : x \in S}
<1>1. \A x \in S : b - x \in Nat
  OBVIOUS
<1>a. T \subseteq Nat /\ T # {}
  BY <1>1
<1>2. PICK t \in T : \A y \in T : t <= y
  BY <1>a, LeastNatural
<1>3. PICK m \in S : t = b - m
  BY <1>2
<1>4. \A x \in S : m >= x
  <2> TAKE x \in S
  <2>1. t <= b - x
    BY <1>2
  <2> QED
    BY <2>1, <1>3
<1> QED
  BY <1>4 DEF Max

\* The number of an event is that of its last occurrence in the batch, and 0 of
\* an event that the batch does not have.
Taken(kind, id) == \E i \in DOMAIN batch : batch[i].kind = kind /\ batch[i].id = id
LEMMA SequenceOfIs ==
  ASSUME BatchTypes, NEW kind, NEW id
  PROVE  /\ SequenceOf(kind, id) \in Nat
         /\ SequenceOf(kind, id) > 0
              => /\ SequenceOf(kind, id) \in DOMAIN batch
                 /\ batch[SequenceOf(kind, id)].kind = kind
                 /\ batch[SequenceOf(kind, id)].id = id
         /\ \A i \in DOMAIN batch : batch[i].kind = kind /\ batch[i].id = id
              => i <= SequenceOf(kind, id)
         /\ Taken(kind, id) <=> SequenceOf(kind, id) > 0
<1> DEFINE S == {0} \cup {i \in DOMAIN batch : batch[i].kind = kind /\ batch[i].id = id}
<1>1. DOMAIN batch = 1..Len(batch) /\ Len(batch) \in Nat
  BY LenProperties DEF BatchTypes
<1>2. S \subseteq Nat /\ S # {} /\ \A x \in S : x <= Len(batch)
  BY <1>1
<1>3. Max(S) \in S /\ \A x \in S : x <= Max(S)
  BY <1>1, <1>2, MaxOfNaturals
<1>4. SequenceOf(kind, id) = Max(S)
  BY DEF SequenceOf
<1> HIDE DEF S
<1>5. /\ Max(S) \in Nat
      /\ Max(S) > 0 => Max(S) \in DOMAIN batch /\ batch[Max(S)].kind = kind /\ batch[Max(S)].id = id
      /\ \A i \in DOMAIN batch : batch[i].kind = kind /\ batch[i].id = id => i <= Max(S)
  BY <1>1, <1>3 DEF S
<1>6. Taken(kind, id) <=> Max(S) > 0
  BY <1>1, <1>5 DEF Taken
<1> QED
  BY <1>4, <1>5, <1>6

\* The greatest of up to five numbers of events.
LEMMA MaxOfFew ==
  ASSUME NEW a \in Nat, NEW b \in Nat, NEW c \in Nat, NEW d \in Nat, NEW e \in Nat
  PROVE  /\ Max({a, b, c, d, e}) \in Nat
         /\ a <= Max({a, b, c, d, e}) /\ b <= Max({a, b, c, d, e}) /\ c <= Max({a, b, c, d, e})
         /\ d <= Max({a, b, c, d, e}) /\ e <= Max({a, b, c, d, e})
         /\ Max({a, b, c, d, e}) \in {a, b, c, d, e}
         /\ Max({a, b}) \in {a, b} /\ a <= Max({a, b}) /\ b <= Max({a, b})
<1>1. \A x \in {a, b, c, d, e} : x <= a + b + c + d + e
  OBVIOUS
<1>2. a + b + c + d + e \in Nat
  OBVIOUS
<1>3. Max({a, b, c, d, e}) \in {a, b, c, d, e}
      /\ \A x \in {a, b, c, d, e} : x <= Max({a, b, c, d, e})
  BY <1>1, <1>2, MaxOfNaturals
<1>4. \A x \in {a, b} : x <= a + b
  OBVIOUS
<1>5. Max({a, b}) \in {a, b} /\ \A x \in {a, b} : x <= Max({a, b})
  BY <1>4, MaxOfNaturals
<1> QED
  BY <1>3, <1>5

LEMMA NewsIsAnEvent ==
  ASSUME BatchTypes, NEW kind \in EventKinds \ {"title"},
         NEW id \in Panes \cup Windows \cup Sessions \cup {"server"},
         kind \in PaneKinds => id \in Panes, kind = "window" => id \in Windows,
         kind = "session" => id \in Sessions, kind = "resnapshot" => id = "server",
         NEW about, kind = "activity" => id \in Candidates \/ about = {}
  PROVE  News(kind, id, about) \in Attested(title)
<1> DEFINE proves == [p \in Panes |-> IF p \in about THEN title[p] ELSE 0]
           e == Event(kind, id, 0, proves)
<1>1. proves \in [Panes -> Nat] /\ \A p \in Panes : proves[p] <= title[p]
  BY DEF BatchTypes
<1>2. kind = "activity" /\ id \notin Candidates => proves[id] = 0
  BY DEF PaneKinds
<1> HIDE DEF proves
<1>3. e \in Events /\ e.kind = kind /\ e.id = id /\ e.proves = proves
  BY <1>1 DEF Event, Events
<1> HIDE DEF e
<1>4. e \in Attested(title)
  BY <1>1, <1>2, <1>3 DEF Attested
<1> QED
  BY <1>4 DEF News, e, proves

LEMMA RowsAreTyped ==
  ASSUME BatchTypes
  PROVE  /\ \A p \in Live : Row(p) \in PaneRows /\ home[p] \in Windows
         /\ \A p \in Live, t \in Nat : Titled(p, t) \in PaneRows
         /\ \A ps : /\ DOMAIN Rows(ps) = ps \cap Live
                     /\ Rows(ps) \in [DOMAIN Rows(ps) -> PaneRows]
                     /\ \A p \in ps \cap Live : Rows(ps)[p] = Row(p)
<1>1. \A p \in Live, t \in Nat : Titled(p, t) \in PaneRows /\ home[p] \in Windows
  BY DEF BatchTypes, Live, Titled, PaneRows
<1>2. \A p \in Live : Row(p) \in PaneRows
  BY <1>1 DEF Row, BatchTypes, Live
<1> QED
  BY <1>1, <1>2 DEF Rows

\* What a listing of a window or of a session makes of the snapshot: the panes
\* it lists are current, those it was listed for and did not find are dropped.
LEMMA RescopedFacts ==
  ASSUME BatchTypes, NEW kind, NEW id
  PROVE  LET r == Rescoped(kind, id)
             found == IF kind = "window" THEN InWindow(id) ELSE InSession(id)
         IN  /\ DOMAIN r = found \cup {p \in DOMAIN snapshot : ~InScope(kind, id, snapshot[p])}
             /\ \A p \in found : r[p] = Row(p)
             /\ \A p \in DOMAIN r : p \notin found => r[p] = snapshot[p]
             /\ DOMAIN r \subseteq Panes /\ r \in [DOMAIN r -> PaneRows]
<1> DEFINE found == IF kind = "window" THEN InWindow(id) ELSE InSession(id)
           old == {p \in DOMAIN snapshot : ~InScope(kind, id, snapshot[p])}
           r == Rescoped(kind, id)
<1>1. found \subseteq Live
  BY DEF InWindow, InSession
<1>2. /\ DOMAIN ScopeRows(kind, id) = found
      /\ \A p \in found : ScopeRows(kind, id)[p] = Row(p)
  BY <1>1, RowsAreTyped DEF ScopeRows
<1>3. r = [p \in found \cup old |-> IF p \in found THEN ScopeRows(kind, id)[p] ELSE snapshot[p]]
  BY <1>2 DEF Rescoped, Overlay, Without
<1>4. \A p \in found : r[p] = Row(p) /\ r[p] \in PaneRows
  BY <1>1, <1>2, <1>3, RowsAreTyped
<1>5. \A p \in old : p \notin found => r[p] = snapshot[p] /\ r[p] \in PaneRows
  BY <1>3 DEF BatchTypes
<1>6. DOMAIN r \subseteq Panes
  BY <1>1, <1>3 DEF Live, BatchTypes
<1> QED
  BY <1>3, <1>4, <1>5, <1>6

LEMMA RepanedFacts ==
  ASSUME BatchTypes, NEW p \in Panes, NEW override \in Nat
  PROVE  LET r == Repaned(p, override) IN
             /\ DOMAIN r = IF p \in Live THEN DOMAIN snapshot \cup {p} ELSE DOMAIN snapshot \ {p}
             /\ p \in Live => r[p] = Titled(p, IF override = 0 THEN title[p] ELSE override)
             /\ \A q \in DOMAIN r \ {p} : r[q] = snapshot[q]
             /\ DOMAIN r \subseteq Panes /\ r \in [DOMAIN r -> PaneRows]
<1> DEFINE r == Repaned(p, override)
           row == Titled(p, IF override = 0 THEN title[p] ELSE override)
<1>1. CASE p \in Live
  <2>1. r = [q \in {p} \cup DOMAIN snapshot |-> IF q \in {p} THEN row ELSE snapshot[q]]
    BY <1>1 DEF Repaned, Overlay
  <2>2. (IF override = 0 THEN title[p] ELSE override) \in Nat
    BY DEF BatchTypes
  <2>3. row \in PaneRows
    BY <1>1, <2>2, RowsAreTyped
  <2> QED
    BY <1>1, <2>1, <2>3 DEF BatchTypes
<1>2. CASE p \notin Live
  BY <1>2 DEF Repaned, Without, BatchTypes
<1> QED
  BY <1>1, <1>2

\* tmux and its users leave what the daemon holds alone, and only add events.
Untouched == UNCHANGED <<phase, batch, scopesBefore, todo, snapshot, shown, recency, focused>>

LEMMA TmuxOnlyAdds ==
  ASSUME BatchTypes, TmuxStep \/ \E p \in Panes : Focus(p)
  PROVE  /\ Untouched
         /\ \E events \in Seq(Attested(title')) : lines' = lines \o events
         /\ home' \in [Panes -> Windows \cup {"gone"}] /\ place' \in [Windows -> Sessions]
         /\ name' \in [Sessions -> Nat] /\ title' \in [Panes -> Nat \ {0}]
<1>t. /\ home \in [Panes -> Windows \cup {"gone"}] /\ place \in [Windows -> Sessions]
      /\ name \in [Sessions -> Nat] /\ title \in [Panes -> Nat \ {0}]
  BY DEF BatchTypes
<1>l. \A p \in Live : p \in Panes /\ home[p] \in Windows
  BY <1>t DEF Live
<1>n. \A lns : lines' = lines => lines' = lines \o <<>> /\ <<>> \in Seq(Attested(title'))
  BY ConcatEmptySeq, EmptySeq DEF BatchTypes
<1>s. \A e \in Attested(title') : <<e>> \in Seq(Attested(title'))
  OBVIOUS
<1>r. \A e, f \in Attested(title') : <<e, f>> \in Seq(Attested(title'))
  OBVIOUS
<1>1. ASSUME NEW p \in Panes, Announce(p)
      PROVE  \E events \in Seq(Attested(title')) : lines' = lines \o events
  <2> DEFINE proves == [q \in Panes |-> IF q = p THEN title[p] + 1 ELSE 0]
             e == Event("title", p, title[p] + 1, proves)
  <2>1. title[p] + 1 \in Nat
    BY <1>t
  <2>2. proves \in [Panes -> Nat]
    BY <2>1
  <2>3. e \in Attested(title')
    <3>1. title'[p] = title[p] + 1 /\ \A q \in Panes : title'[q] \in Nat /\ proves[q] <= title'[q]
      BY <1>1, <1>t DEF Announce
    <3> HIDE DEF proves
    <3>2. /\ e \in Events
          /\ e.kind = "title"
          /\ e.id = p
          /\ e.title = title[p] + 1
          /\ e.proves = proves
      BY <2>1, <2>2 DEF Event, Events, EventKinds, PaneKinds
    <3> HIDE DEF e
    <3> QED
      BY <3>1, <3>2 DEF Attested
  <2>4. lines' = lines \o <<e>>
    BY <1>1 DEF Announce, Notify
  <2> HIDE DEF e
  <2> QED
    BY <2>3, <2>4, <1>s
<1>2. ASSUME NEW p \in Panes, Report(p)
      PROVE  \E events \in Seq(Attested(title')) : lines' = lines \o events
  <2> DEFINE e == News("pane", p, {p})
  <2>0. title' = title
    BY <1>2 DEF Report, tmux
  <2>1. e \in Attested(title')
    BY <2>0, NewsIsAnEvent DEF EventKinds, PaneKinds
  <2>2. lines' = lines \o <<e>> \/ lines' = lines \o <<>>
    BY <1>2 DEF Report, Notify
  <2> HIDE DEF e
  <2> QED
    BY <2>1, <2>2, <1>s, EmptySeq
<1>3. ASSUME NEW p \in Panes, Output(p)
      PROVE  \E events \in Seq(Attested(title')) : lines' = lines \o events
  <2> DEFINE e == News("activity", p, IF p \in Candidates THEN {p} ELSE {})
  <2>0. title' = title
    BY <1>3 DEF Output, tmux
  <2>1. e \in Attested(title')
    BY <2>0, NewsIsAnEvent DEF EventKinds, PaneKinds
  <2>2. lines' = lines \o <<e>>
    BY <1>3 DEF Output, Notify
  <2> HIDE DEF e
  <2> QED
    BY <2>1, <2>2, <1>s
<1>w. \A w \in Windows : \A about : News("window", w, about) \in Attested(title)
  BY NewsIsAnEvent DEF EventKinds, PaneKinds
<1>4. ASSUME NEW p \in Panes, NEW w \in Windows, MovePane(p, w)
      PROVE  \E events \in Seq(Attested(title')) : lines' = lines \o events
  <2> DEFINE e == News("window", home[p], InWindow(home[p]) \ {p})
             f == News("window", w, InWindow(w) \cup {p})
  <2>0. title' = title
    BY <1>4 DEF MovePane
  <2>1. e \in Attested(title') /\ f \in Attested(title')
    BY <2>0, <1>l, <1>w, <1>4 DEF MovePane
  <2>2. lines' = lines \o <<e, f>>
    BY <1>4 DEF MovePane, Notify
  <2> HIDE DEF e, f
  <2> QED
    BY <2>1, <2>2, <1>r
<1>5. ASSUME NEW p \in Panes, ClosePane(p)
      PROVE  \E events \in Seq(Attested(title')) : lines' = lines \o events
  <2> DEFINE e == News("window", home[p], InWindow(home[p]) \ {p})
  <2>0. title' = title
    BY <1>5 DEF ClosePane
  <2>1. e \in Attested(title')
    BY <2>0, <1>l, <1>w, <1>5 DEF ClosePane
  <2>2. lines' = lines \o <<e>>
    BY <1>5 DEF ClosePane, Notify
  <2> HIDE DEF e
  <2> QED
    BY <2>1, <2>2, <1>s
<1>6. ASSUME NEW w \in Windows, NEW s \in Sessions, MoveWindow(w, s)
      PROVE  \E events \in Seq(Attested(title')) : lines' = lines \o events
  <2> DEFINE e == News("window", w, InWindow(w))
  <2>0. title' = title
    BY <1>6 DEF MoveWindow
  <2>1. e \in Attested(title')
    BY <2>0, <1>w
  <2>2. lines' = lines \o <<e>>
    BY <1>6 DEF MoveWindow, Notify
  <2> HIDE DEF e
  <2> QED
    BY <2>1, <2>2, <1>s
<1>7. ASSUME NEW s \in Sessions, RenameSession(s)
      PROVE  \E events \in Seq(Attested(title')) : lines' = lines \o events
  <2> DEFINE e == News("session", s, InSession(s))
  <2>0. title' = title
    BY <1>7 DEF RenameSession
  <2>1. e \in Attested(title')
    BY <2>0, NewsIsAnEvent DEF EventKinds, PaneKinds
  <2>2. lines' = lines \o <<e>>
    BY <1>7 DEF RenameSession, Notify
  <2> HIDE DEF e
  <2> QED
    BY <2>1, <2>2, <1>s
<1>8. ASSUME NEW s \in Sessions, KillSession(s)
      PROVE  \E events \in Seq(Attested(title')) : lines' = lines \o events
  <2> DEFINE e == News("resnapshot", "server", Live \ InSession(s))
  <2>0. title' = title
    BY <1>8 DEF KillSession
  <2>1. e \in Attested(title')
    BY <2>0, NewsIsAnEvent DEF EventKinds, PaneKinds
  <2>2. lines' = lines \o <<e>>
    BY <1>8 DEF KillSession, Notify
  <2> HIDE DEF e
  <2> QED
    BY <2>1, <2>2, <1>s
<1>9. ASSUME NEW p \in Panes, Focus(p)
      PROVE  \E events \in Seq(Attested(title')) : lines' = lines \o events
  <2> DEFINE e == News("focus", p, {})
  <2>0. title' = title
    BY <1>9 DEF Focus, tmux
  <2>1. e \in Attested(title')
    BY <2>0, NewsIsAnEvent DEF EventKinds, PaneKinds
  <2>2. lines' = lines \o <<e>>
    BY <1>9 DEF Focus, Notify
  <2> HIDE DEF e
  <2> QED
    BY <2>1, <2>2, <1>s
<1>10. ASSUME NEW p \in Panes, SetTitle(p)
       PROVE  \E events \in Seq(Attested(title')) : lines' = lines \o events
  BY <1>10, <1>n DEF SetTitle
<1>11. \E events \in Seq(Attested(title')) : lines' = lines \o events
  BY <1>1, <1>2, <1>3, <1>4, <1>5, <1>6, <1>7, <1>8, <1>9, <1>10 DEF TmuxStep
<1>12. /\ home' \in [Panes -> Windows \cup {"gone"}] /\ place' \in [Windows -> Sessions]
       /\ name' \in [Sessions -> Nat] /\ title' \in [Panes -> Nat \ {0}]
  <2>1. home' \in [Panes -> Windows \cup {"gone"}]
    BY <1>t
       DEF TmuxStep, Focus, Announce, SetTitle, Report, Output, MovePane, ClosePane, MoveWindow,
                RenameSession, KillSession, tmux
  <2>2. place' \in [Windows -> Sessions]
    BY <1>t
       DEF TmuxStep, Focus, Announce, SetTitle, Report, Output, MovePane, ClosePane, MoveWindow,
                RenameSession, KillSession, tmux
  <2>a. \A t \in Nat : t + 1 \in Nat \ {0}
    OBVIOUS
  <2>b. \A s \in Sessions : [name EXCEPT ![s] = @ + 1] \in [Sessions -> Nat]
    BY <1>t, <2>a
  <2>c. \A p \in Panes : [title EXCEPT ![p] = @ + 1] \in [Panes -> Nat \ {0}]
    BY <1>t, <2>a
  <2>3. name' \in [Sessions -> Nat]
    BY <1>t, <2>b
       DEF TmuxStep, Focus, Announce, SetTitle, Report, Output, MovePane, ClosePane, MoveWindow,
                RenameSession, KillSession, tmux
  <2>4. title' \in [Panes -> Nat \ {0}]
    BY <1>t, <2>c
       DEF TmuxStep, Focus, Announce, SetTitle, Report, Output, MovePane, ClosePane, MoveWindow,
                RenameSession, KillSession, tmux
  <2> QED
    BY <2>1, <2>2, <2>3, <2>4
<1>13. Untouched
  BY DEF Untouched, TmuxStep, Focus, Announce, SetTitle, Report, Output, MovePane, ClosePane,
         MoveWindow, RenameSession, KillSession, Do
<1> QED
  BY <1>11, <1>12, <1>13

\* Where the listings of the next events come from.
LEMMA TodoIsTyped ==
  ASSUME BatchTypes
  PROVE  /\ PendingScopes \subseteq ({"session"} \X Sessions \X {0})
                                      \cup ({"window"} \X Windows \X {0})
         /\ \A p, scopes, active : TitleOverride(p, scopes, active) \in Nat
<1>1. PendingScopes \subseteq ({"session"} \X Sessions \X {0}) \cup ({"window"} \X Windows \X {0})
  BY DEF PendingScopes
<1>2. \A p, scopes, active : TitleOverride(p, scopes, active) \in Nat
  <2> TAKE p, scopes, active
  <2>1. SequenceOf("title", p) > 0 => batch[SequenceOf("title", p)] \in Events
    BY SequenceOfIs, LenProperties DEF BatchTypes
  <2>2. SequenceOf("title", p) > 0 => batch[SequenceOf("title", p)].title \in Nat
    BY <2>1 DEF Events
  <2> DEFINE latest == Max({Resnapshot, SequenceOf("pane", p),
                            IF active THEN SequenceOf("activity", p) ELSE 0,
                            ScopeSequence(scopesBefore, p), ScopeSequence(scopes, p)})
  <2>3. /\ Resnapshot \in Nat /\ SequenceOf("pane", p) \in Nat
        /\ (IF active THEN SequenceOf("activity", p) ELSE 0) \in Nat
    BY SequenceOfIs DEF Resnapshot
  <2>4. \A sc : ScopeSequence(sc, p) \in Nat
    BY SequenceOfIs, MaxOfFew DEF ScopeSequence
  <2>5. latest \in Nat /\ SequenceOf("title", p) \in Nat
    BY <2>3, <2>4, MaxOfFew, SequenceOfIs
  <2>6. TitleOverride(p, scopes, active)
          = IF SequenceOf("title", p) > latest THEN batch[SequenceOf("title", p)].title ELSE 0
    BY DEF TitleOverride
  <2> HIDE DEF latest
  <2> QED
    BY <2>2, <2>5, <2>6
<1> QED
  BY <1>1, <1>2

LEMMA TypesInit == Init => BatchTypes
<1> SUFFICES ASSUME Init PROVE BatchTypes
  OBVIOUS
<1>1. /\ home \in [Panes -> Windows \cup {"gone"}] /\ place \in [Windows -> Sessions]
      /\ name \in [Sessions -> Nat] /\ title \in [Panes -> Nat \ {0}]
  BY BatchAssumption DEF Init
<1>2. \A p \in Live : Row(p) \in PaneRows
  BY <1>1 DEF Live, Row, Titled, PaneRows
<1>3. DOMAIN snapshot = Panes \cap Live /\ snapshot \in [DOMAIN snapshot -> PaneRows]
  BY <1>2 DEF Init, Rows
<1> QED
  BY <1>1, <1>3, EmptySeq DEF Init, BatchTypes, TodoTypes

LEMMA TypesKept == BatchTypes /\ [Next]_vars => BatchTypes'
<1> SUFFICES ASSUME BatchTypes, [Next]_vars PROVE BatchTypes'
  OBVIOUS
<1>d. DOMAIN batch = 1..Len(batch) /\ Len(batch) \in Nat
  BY LenProperties DEF BatchTypes
<1>1. CASE TmuxStep \/ \E p \in Panes : Focus(p)
  <2>0. PICK events \in Seq(Attested(title')) : lines' = lines \o events
    BY <1>1, TmuxOnlyAdds
  <2>1. events \in Seq(Events)
    <3>1. Attested(title') \subseteq Events
      BY DEF Attested
    <3> QED
      BY <2>0, <3>1, SeqMonotonic
  <2>2. lines' \in Seq(Events)
    BY <2>0, <2>1, ConcatProperties DEF BatchTypes
  <2> QED
    BY <1>1, <2>2, TmuxOnlyAdds DEF Untouched, recency, BatchTypes, TodoTypes
<1>2. CASE UNCHANGED vars
  BY <1>2 DEF vars, tmux, recency, BatchTypes, TodoTypes
<1>3. CASE DaemonStep
  <2>1. UNCHANGED tmux
    BY <1>3 DEF DaemonStep, TakeBatch, RefreshFull, ScopesDone, BatchDone, TakeFocus, FocusFull,
                ListingFails, RefreshScope, RefreshPane, FocusSession, Loop
  <2>r. \A ps : /\ DOMAIN Rows(ps) \subseteq Panes
                /\ Rows(ps) \in [DOMAIN Rows(ps) -> PaneRows]
    BY RowsAreTyped DEF Live
  <2>k. \A kind, id : /\ DOMAIN Rescoped(kind, id) \subseteq Panes
                      /\ Rescoped(kind, id) \in [DOMAIN Rescoped(kind, id) -> PaneRows]
    BY RescopedFacts
  <2>2. CASE TakeBatch
    <3>1. PICK n \in 1..Len(lines) : /\ batch' = SubSeq(lines, 1, n)
                                     /\ lines' = SubSeq(lines, n + 1, Len(lines))
      BY <2>2 DEF TakeBatch
    <3>2. Len(lines) \in Nat /\ \A i \in 1..Len(lines) : lines[i] \in Events
      BY LenProperties, ElementOfSeq DEF BatchTypes
    <3>3. SubSeq(lines, 1, n) \in Seq(Events) /\ SubSeq(lines, n + 1, Len(lines)) \in Seq(Events)
      BY <3>2, SubSeqProperties
    <3> QED
      BY <2>1, <2>2, <3>1, <3>3 DEF TakeBatch, tmux, recency, BatchTypes, TodoTypes
  <2>3. CASE RefreshFull
    BY <2>1, <2>3, <2>r, TodoIsTyped DEF RefreshFull, tmux, recency, BatchTypes, TodoTypes
  <2>4. ASSUME NEW kind, NEW id, RefreshScope(kind, id) PROVE BatchTypes'
    <3>1. DOMAIN snapshot' \subseteq Panes /\ snapshot' \in [DOMAIN snapshot' -> PaneRows]
      BY <2>4, <2>r, <2>k DEF RefreshScope
    <3> QED
      BY <2>1, <2>4, <3>1 DEF RefreshScope, tmux, recency, BatchTypes, TodoTypes
  <2>5. CASE ScopesDone
    <3> DEFINE active == Among("activity", Candidates \cap DOMAIN snapshot)
               over(p) == TitleOverride(p, PaneScopes(snapshot), p \in active)
               panes == Among("pane", Panes) \cup active
    <3>1. \A p : over(p) \in Nat
      BY TodoIsTyped
    <3>2. panes \subseteq Panes
      BY BatchAssumption DEF Among
    <3>3. todo' = {<<"pane", p, over(p)>> : p \in panes \cup {p \in Panes : over(p) > 0}}
      BY <2>5 DEF ScopesDone
    <3> HIDE DEF over, panes
    <3>4. todo' \subseteq {"pane"} \X Panes \X Nat
      BY <3>1, <3>2, <3>3
    <3> QED
      BY <2>1, <2>5, <3>4 DEF ScopesDone, tmux, recency, BatchTypes, TodoTypes
  <2>6. ASSUME NEW item \in todo, RefreshPane(item[2], item[3]) PROVE BatchTypes'
    <3>1. item[2] \in Panes /\ item[3] \in Nat
      <4>1. <<"pane", item[2], item[3]>> \in {"pane"} \X Panes \X Nat
        BY <2>6 DEF RefreshPane, BatchTypes, TodoTypes
      <4> QED
        BY <4>1
    <3>2. DOMAIN snapshot' \subseteq Panes /\ snapshot' \in [DOMAIN snapshot' -> PaneRows]
      <4> DEFINE r == Repaned(item[2], item[3])
      <4>1. DOMAIN r \subseteq Panes /\ r \in [DOMAIN r -> PaneRows]
        BY <3>1, RepanedFacts
      <4>2. snapshot' = r \/ snapshot' = snapshot
        BY <2>6 DEF RefreshPane
      <4> HIDE DEF r
      <4> QED
        BY <4>1, <4>2 DEF BatchTypes
    <3> QED
      BY <2>1, <2>6, <3>2 DEF RefreshPane, tmux, recency, BatchTypes, TodoTypes
  <2>7. CASE BatchDone
    BY <2>1, <2>7, EmptySeq DEF BatchDone, tmux, recency, BatchTypes, TodoTypes
  <2>8. CASE TakeFocus
    <3> DEFINE p == Head(lines).id
    <3>1. Head(lines) \in Events /\ Tail(lines) \in Seq(Events)
      BY <2>8, HeadTailProperties DEF TakeFocus, BatchTypes
    <3>2. p \in Panes
      BY <2>8, <3>1 DEF TakeFocus, Events, PaneKinds
    <3>3. /\ Record(p) /\ todo' = {<<"focus", p, 0>>}
          /\ phase' \in {"focusSession", "focusFull"} /\ lines' = Tail(lines)
          /\ UNCHANGED <<batch, snapshot>>
      BY <2>8 DEF TakeFocus
    <3> HIDE DEF p
    <3>4. DOMAIN byPane' \subseteq Panes /\ byPane' \in [DOMAIN byPane' -> Nat] /\ nextSeq' \in Nat
      BY <3>2, <3>3 DEF Record, RecordFrom, recency, BatchTypes
    <3> QED
      BY <2>1, <3>1, <3>2, <3>3, <3>4 DEF tmux, BatchTypes, TodoTypes
  <2>9. ASSUME NEW pmap, DOMAIN pmap \subseteq Panes, pmap \in [DOMAIN pmap -> PaneRows],
               FocusDone(pmap), UNCHANGED <<lines, batch>>
        PROVE  BatchTypes'
    BY <2>1, <2>9 DEF FocusDone, Pruned, tmux, BatchTypes, TodoTypes
  <2>10. ASSUME NEW p \in Panes, FocusSession(p) PROVE BatchTypes'
    <3> DEFINE pmap == Rescoped("session", snapshot[p].sess)
    <3>1. CASE NeedsFull(p, pmap)
      <4>1. /\ snapshot' = pmap /\ phase = "focusSession" /\ phase' = "focusFull"
            /\ UNCHANGED <<lines, batch, todo, recency>>
        BY <2>10, <3>1 DEF FocusSession
      <4>2. DOMAIN pmap \subseteq Panes /\ pmap \in [DOMAIN pmap -> PaneRows]
        BY <2>k
      <4> HIDE DEF pmap
      <4> QED
        BY <2>1, <4>1, <4>2 DEF recency, tmux, BatchTypes, TodoTypes
    <3>2. CASE ~NeedsFull(p, pmap)
      BY <2>9, <2>10, <2>k, <3>2 DEF FocusSession
    <3> QED
      BY <3>1, <3>2
  <2>11. CASE FocusFull
    BY <2>9, <2>11, <2>r DEF FocusFull
  <2>12. CASE ListingFails
    BY <2>1, <2>12 DEF ListingFails, Loop, tmux, recency, BatchTypes, TodoTypes
  <2> QED
    BY <1>3, <2>2, <2>3, <2>4, <2>5, <2>6, <2>7, <2>8, <2>10, <2>11, <2>12 DEF DaemonStep
<1> QED
  BY <1>1, <1>2, <1>3 DEF Next

\* The daemon's snapshot, the batch it applies, the listings still to make and the
\* focus recency keep their types: no event asks for the listing of what is no
\* pane, window or session.
THEOREM BatchTypesHold == Spec => []BatchTypes
<1> QED
  BY TypesInit, TypesKept, PTL DEF Spec

-----------------------------------------------------------------------------
(* The order of the focused panes                                            *)

\* The sequence numbers follow the history of focusing, and what was published
\* last has them.
Seq0(p) == IF p \in DOMAIN byPane THEN byPane[p] ELSE 0
RecencyOrder ==
  /\ \A p \in DOMAIN byPane : byPane[p] \in 1..nextSeq
  /\ \A p, q \in DOMAIN byPane : byPane[p] = byPane[q] => p = q
  /\ focused \subseteq Panes \X Panes
  /\ \A q, p \in DOMAIN byPane : <<q, p>> \in focused => byPane[q] < byPane[p]
  /\ phase = "idle" => \A p \in DOMAIN shown : shown[p].seq = Seq0(p)

LEMMA PublishedSeqs ==
  ASSUME NEW pmap, NEW seqs, Publish(pmap, seqs)
  PROVE  /\ DOMAIN shown' = DOMAIN pmap
         /\ \A p \in DOMAIN pmap : /\ shown'[p].row = pmap[p]
                                   /\ shown'[p].seq = IF p \in DOMAIN seqs THEN seqs[p] ELSE 0
  BY DEF Publish

LEMMA RecencyOrderKept == BatchTypes /\ RecencyOrder /\ [Next]_vars => RecencyOrder'
<1> SUFFICES ASSUME BatchTypes, RecencyOrder, [Next]_vars PROVE RecencyOrder'
  OBVIOUS
<1>t. /\ DOMAIN byPane \subseteq Panes /\ nextSeq \in Nat
      /\ \A p \in DOMAIN byPane : byPane[p] \in Nat
  BY DEF BatchTypes
<1>0. ASSUME UNCHANGED <<recency, focused>>, phase' = "idle" => phase = "idle" /\ UNCHANGED shown
      PROVE  RecencyOrder'
  BY <1>0 DEF RecencyOrder, Seq0, recency
<1>1. CASE TmuxStep \/ \E p \in Panes : Focus(p)
  BY <1>0, <1>1, TmuxOnlyAdds DEF Untouched
<1>2. CASE UNCHANGED vars
  BY <1>0, <1>2 DEF vars
<1>3. ASSUME TakeBatch \/ RefreshFull \/ ScopesDone \/ ListingFails PROVE RecencyOrder'
  BY <1>0, <1>3 DEF TakeBatch, RefreshFull, ScopesDone, ListingFails, Loop
<1>4. ASSUME NEW kind, NEW id, RefreshScope(kind, id) PROVE RecencyOrder'
  BY <1>0, <1>4 DEF RefreshScope, Loop
<1>5. ASSUME NEW p, NEW o, RefreshPane(p, o) PROVE RecencyOrder'
  BY <1>0, <1>5 DEF RefreshPane, Loop
<1>6. CASE BatchDone
  <2>1. DOMAIN shown' = DOMAIN snapshot /\ \A p \in DOMAIN snapshot : shown'[p].seq = Seq0(p)
    BY <1>6, PublishedSeqs DEF BatchDone, Seq0
  <2> QED
    BY <1>6, <2>1 DEF BatchDone, Loop, RecencyOrder, Seq0, recency
<1>7. ASSUME NEW pmap, FocusDone(pmap), UNCHANGED focused PROVE RecencyOrder'
  <2>1. /\ DOMAIN byPane' = DOMAIN byPane \cap DOMAIN pmap
        /\ \A p \in DOMAIN byPane' : byPane'[p] = byPane[p]
        /\ nextSeq' = nextSeq
    BY <1>7 DEF FocusDone, Pruned
  <2>2. DOMAIN shown' = DOMAIN pmap /\ \A p \in DOMAIN shown' : shown'[p].seq = Seq0(p)'
    BY <1>7, PublishedSeqs DEF FocusDone, Seq0
  <2> QED
    BY <1>7, <2>1, <2>2 DEF RecencyOrder
<1>8. ASSUME NEW p \in Panes, FocusSession(p) PROVE RecencyOrder'
  <2> DEFINE pmap == Rescoped("session", snapshot[p].sess)
  <2>1. CASE NeedsFull(p, pmap)
    BY <1>0, <1>8, <2>1 DEF FocusSession, Loop
  <2>2. CASE ~NeedsFull(p, pmap)
    BY <1>7, <1>8, <2>2 DEF FocusSession, Loop
  <2> QED
    BY <2>1, <2>2
<1>9. CASE FocusFull
  BY <1>7, <1>9 DEF FocusFull, Loop
<1>10. CASE TakeFocus
  <2> DEFINE p == Head(lines).id
  <2>1. p \in Panes
    <3>1. Head(lines) \in Events
      BY <1>10, HeadTailProperties DEF TakeFocus, BatchTypes
    <3> QED
      BY <1>10, <3>1 DEF TakeFocus, Events, PaneKinds
  <2>2. /\ Record(p) /\ phase' # "idle"
        /\ focused' = {<<q, p>> : q \in Panes \ {p}} \cup {f \in focused : p \notin {f[1], f[2]}}
    BY <1>10 DEF TakeFocus
  <2> HIDE DEF p
  <2>3. focused' \subseteq Panes \X Panes
    BY <2>1, <2>2 DEF RecencyOrder
  <2>4. \A q, r \in Panes : <<q, r>> \in focused'
          => q # p /\ (r = p \/ (<<q, r>> \in focused /\ r # p))
    <3> TAKE q \in Panes, r \in Panes
    <3> HAVE <<q, r>> \in focused'
    <3> DEFINE now == {<<u, p>> : u \in Panes \ {p}}
               other == {f \in focused : p \notin {f[1], f[2]}}
    <3>1. <<q, r>> \in now \/ <<q, r>> \in other
      BY <2>2
    <3>2. <<q, r>> \in now => r = p /\ q # p
      OBVIOUS
    <3>3. ASSUME NEW f \in other, f = <<q, r>> PROVE f \in focused /\ q # p /\ r # p
      <4>1. f \in focused /\ p # f[1] /\ p # f[2]
        BY <3>3
      <4> QED
        BY <3>3, <4>1
    <3>4. <<q, r>> \in other => <<q, r>> \in focused /\ q # p /\ r # p
      BY <3>3
    <3> HIDE DEF now, other
    <3> QED
      BY <3>1, <3>2, <3>4
  <2>5. CASE IsHead(p)
    <3>1. UNCHANGED recency
      BY <2>2, <2>5 DEF Record, RecordFrom
    <3>2. \A q \in DOMAIN byPane \ {p} : byPane[q] < byPane[p]
      BY <1>t, <2>5 DEF IsHead, RecencyOrder
    <3> QED
      BY <1>t, <2>2, <2>3, <2>4, <3>1, <3>2 DEF RecencyOrder, recency
  <2>6. CASE ~IsHead(p)
    <3>1. /\ nextSeq' = nextSeq + 1 /\ DOMAIN byPane' = DOMAIN byPane \cup {p}
          /\ byPane'[p] = nextSeq + 1
          /\ \A q \in DOMAIN byPane \ {p} : byPane'[q] = byPane[q]
      BY <2>2, <2>6 DEF Record, RecordFrom
    <3>2. \A q \in DOMAIN byPane' : q # p => byPane'[q] \in 1..nextSeq /\ byPane'[q] < byPane'[p]
      BY <1>t, <3>1 DEF RecencyOrder
    <3>3. \A q, r \in DOMAIN byPane' : byPane'[q] = byPane'[r] => q = r
      BY <1>t, <3>1, <3>2 DEF RecencyOrder
    <3>4. \A q, r \in DOMAIN byPane' : <<q, r>> \in focused' => byPane'[q] < byPane'[r]
      BY <1>t, <2>1, <2>4, <3>1, <3>2 DEF RecencyOrder
    <3>5. \A q \in DOMAIN byPane' : byPane'[q] \in 1..nextSeq'
      BY <1>t, <3>1, <3>2
    <3> QED
      BY <2>2, <2>3, <3>3, <3>4, <3>5 DEF RecencyOrder
  <2> QED
    BY <2>5, <2>6
<1> QED
  BY <1>1, <1>2, <1>3, <1>4, <1>5, <1>6, <1>8, <1>9, <1>10 DEF Next, DaemonStep

\* The published focus order is the order of the last focusing, whatever was
\* pruned and focused again: PaneFocusRecency::record gives a pane that is not the
\* head a number above all others, and prune forgets those no longer listed.
THEOREM FocusOrderStaysHonest == Spec => []FocusOrderIsHonest
<1>1. Init => RecencyOrder
  BY DEF Init, RecencyOrder, Seq0
<1>2. BatchTypes /\ RecencyOrder => FocusOrderIsHonest
  <2> SUFFICES ASSUME BatchTypes, RecencyOrder, NEW f \in focused, phase = "idle",
                      {f[1], f[2]} \subseteq {p \in DOMAIN shown : shown[p].seq > 0}
               PROVE  shown[f[1]].seq < shown[f[2]].seq
    BY DEF FocusOrderIsHonest
  <2>1. PICK q, p \in Panes : f = <<q, p>>
    BY DEF RecencyOrder
  <2>2. /\ q \in DOMAIN shown /\ shown[q].seq > 0 /\ shown[q].seq = Seq0(q)
        /\ p \in DOMAIN shown /\ shown[p].seq > 0 /\ shown[p].seq = Seq0(p)
    BY <2>1 DEF RecencyOrder
  <2> QED
    BY <2>1, <2>2 DEF RecencyOrder, Seq0
<1> QED
  BY <1>1, <1>2, RecencyOrderKept, BatchTypesHold, PTL DEF Spec

\* A live pane that a client reports as focused is in the snapshot published for
\* it: refresh_snapshot_for_focused_pane lists its session, and the whole server
\* when that does not find it.
THEOREM FocusedPanesAreListed == Spec => FocusedPaneIsListed
<1> DEFINE step ==
             \A p \in Live : <<"focus", p, 0>> \in todo /\ phase' = "idle" => p \in DOMAIN shown'
<1>1. BatchTypes /\ [Next]_vars => [step]_vars
  <2> SUFFICES ASSUME BatchTypes, Next, NEW p \in Live, <<"focus", p, 0>> \in todo, phase' = "idle"
               PROVE  p \in DOMAIN shown'
    OBVIOUS
  <2>0. p \in Panes
    BY DEF Live
  <2>1. phase \in {"focusSession", "focusFull", "ended"}
    BY DEF BatchTypes, TodoTypes
  <2>2. ~ (TmuxStep \/ \E q \in Panes : Focus(q))
    BY <2>1, TmuxOnlyAdds DEF Untouched
  <2>3. \/ FocusFull
        \/ \E q \in Panes : FocusSession(q)
    BY <2>1, <2>2 DEF Next, DaemonStep, TakeBatch, RefreshFull, ScopesDone, BatchDone, TakeFocus,
                      ListingFails, RefreshScope, RefreshPane
  <2>4. CASE FocusFull
    <3>1. DOMAIN shown' = DOMAIN Rows(Panes)
      BY <2>4, PublishedSeqs DEF FocusFull, FocusDone
    <3> QED
      BY <2>0, <3>1, RowsAreTyped
  <2>5. ASSUME NEW q \in Panes, FocusSession(q) PROVE p \in DOMAIN shown'
    <3> DEFINE pmap == Rescoped("session", snapshot[q].sess)
    <3>1. <<"focus", q, 0>> \in todo /\ phase = "focusSession"
      BY <2>5 DEF FocusSession
    <3>2. q = p
      BY <3>1 DEF BatchTypes, TodoTypes
    <3>3. ~NeedsFull(q, pmap) /\ FocusDone(pmap)
      BY <2>5 DEF FocusSession
    <3>4. DOMAIN shown' = DOMAIN pmap
      BY <3>3, PublishedSeqs DEF FocusDone
    <3> QED
      BY <3>2, <3>3, <3>4 DEF NeedsFull
  <2> QED
    BY <2>3, <2>4, <2>5
<1> QED
  BY <1>1, BatchTypesHold, PTL DEF Spec, FocusedPaneIsListed

-----------------------------------------------------------------------------
(* Nothing stays out of date unreported                                      *)

\* The events that the daemon has still to take, or has taken and not applied.
Waits(kind, id) == \E i \in DOMAIN lines : lines[i].kind = kind /\ lines[i].id = id
Ahead(kind, id) ==
  \/ Waits(kind, id)
  \/ phase = "full" /\ Taken(kind, id)
  \/ phase = "scopes" /\ <<kind, id, 0>> \in todo
Reported(p) ==
  \/ Waits("pane", p)
  \/ phase \in {"full", "scopes"} /\ Taken("pane", p)
  \/ phase = "panes" /\ \E item \in todo : item[2] = p

\* A row that is not the pane's is still to be listed again: a pane that is not
\* where it is listed, in its new window and in the one it left, a name in the
\* session, a title in the pane or in a subscription that has not reported it.
Astray(p) ==
  \/ p \notin DOMAIN snapshot
  \/ snapshot[p].win # home[p]
  \/ snapshot[p].sess # place[home[p]]
Placed == \A p \in Live : Astray(p) => Ahead("window", home[p])
Unmoved ==
  \A p \in DOMAIN snapshot : snapshot[p].win # home[p]
    => Ahead("window", snapshot[p].win) \/ (home[p] = "gone" /\ Ahead("resnapshot", "server"))
Named ==
  \A p \in DOMAIN snapshot : snapshot[p].name # name[snapshot[p].sess]
    => Ahead("session", snapshot[p].sess)
Entitled ==
  \A p \in Live \cap DOMAIN snapshot : snapshot[p].title # title[p] => p \in silent \/ Reported(p)

\* A title that was announced is overtaken by the report of the subscription,
\* unless that is still to come.
Overtaken(events, k) ==
  \E j \in DOMAIN events : j > k /\ events[j].kind = "pane" /\ events[j].id = events[k].id
Unreported(p) == p \in silent \/ p \notin Live
Announced ==
  /\ \A k \in DOMAIN lines : lines[k].kind = "title"
       => Unreported(lines[k].id) \/ Overtaken(lines, k)
  /\ phase \in {"full", "scopes"} => \A k \in DOMAIN batch : batch[k].kind = "title"
       => Unreported(batch[k].id) \/ Overtaken(batch, k) \/ Waits("pane", batch[k].id)
  /\ phase = "panes" => \A item \in todo : item[3] # 0
       => Unreported(item[2]) \/ Waits("pane", item[2])

Published ==
  phase = "idle" => /\ DOMAIN shown = DOMAIN snapshot
                    /\ \A p \in DOMAIN shown : shown[p].row = snapshot[p]
Accounted == Placed /\ Unmoved /\ Named /\ Entitled
NothingUnreported == phase # "ended" => Accounted /\ Announced /\ Published

LEMMA Appended ==
  ASSUME BatchTypes, NEW T, NEW s \in Seq(T), lines' = lines \o s
  PROVE  /\ Len(lines) \in Nat /\ Len(s) \in Nat
         /\ DOMAIN lines = 1..Len(lines) /\ DOMAIN s = 1..Len(s)
         /\ \A i \in DOMAIN lines : i \in DOMAIN lines' /\ lines'[i] = lines[i]
         /\ \A j \in DOMAIN s : Len(lines) + j \in DOMAIN lines' /\ lines'[Len(lines) + j] = s[j]
         /\ DOMAIN lines' = 1..(Len(lines) + Len(s))
         /\ \A i \in DOMAIN lines' : i \in DOMAIN lines \/ i - Len(lines) \in DOMAIN s
         /\ \A kind, id : Waits(kind, id) => Waits(kind, id)'
         /\ \A j \in DOMAIN s : \A kind, id : s[j].kind = kind /\ s[j].id = id => Waits(kind, id)'
<1> DEFINE U == Events \cup T
<1>1. lines \in Seq(U) /\ s \in Seq(U)
  BY SeqMonotonic DEF BatchTypes
<1> HIDE DEF U
<1>2. /\ Len(lines) \in Nat
      /\ Len(s) \in Nat /\ DOMAIN lines = 1..Len(lines) /\ DOMAIN s = 1..Len(s)
      /\ DOMAIN lines' = 1..Len(lines')
  BY <1>1, LenProperties, ConcatProperties
<1>3. /\ Len(lines') = Len(lines) + Len(s)
      /\ \A i \in 1..(Len(lines) + Len(s)) :
            lines'[i] = IF i <= Len(lines) THEN lines[i] ELSE s[i - Len(lines)]
  BY <1>1, ConcatProperties
<1>4. \A i \in DOMAIN lines : i \in DOMAIN lines' /\ lines'[i] = lines[i]
  BY <1>2, <1>3
<1>5. \A j \in DOMAIN s : Len(lines) + j \in DOMAIN lines' /\ lines'[Len(lines) + j] = s[j]
  BY <1>2, <1>3
<1>6. \A i \in DOMAIN lines' : i \in DOMAIN lines \/ i - Len(lines) \in DOMAIN s
  BY <1>2, <1>3
<1>7. \A kind, id : Waits(kind, id) => Waits(kind, id)'
  BY <1>4 DEF Waits
<1>8. \A j \in DOMAIN s : \A kind, id : s[j].kind = kind /\ s[j].id = id => Waits(kind, id)'
  BY <1>5 DEF Waits
<1> QED
  BY <1>2, <1>4, <1>5, <1>6, <1>7, <1>8

\* tmux leaves nothing unreported, if it says what it has to.
LEMMA TmuxAccounts ==
  ASSUME BatchTypes, NothingUnreported, Untouched, NEW T, NEW events \in Seq(T),
         lines' = lines \o events,
         home' \in [Panes -> Windows \cup {"gone"}],
         \A p \in Live' : /\ p \in Live
                          /\ \/ home'[p] = home[p] /\ place'[home[p]] = place[home[p]]
                             \/ Waits("window", home[p])',
         \A p \in Panes : \A w : w = home[p] /\ home'[p] # w
           => /\ p \in Live
              /\ Waits("window", w)' \/ (home'[p] = "gone" /\ Waits("resnapshot", "server")'),
         \A s \in Sessions : name'[s] = name[s] \/ Waits("session", s)',
         \A p \in Panes : title'[p] = title[p] \/ p \in silent',
         \A p \in silent : \/ p \in silent' \/ p \notin Live'
                           \/ \E j \in DOMAIN events : events[j].kind = "pane" /\ events[j].id = p,
         \A j \in DOMAIN events : events[j].kind = "title" => events[j].id \in silent'
  PROVE  NothingUnreported'
<1> SUFFICES ASSUME phase # "ended" PROVE (Accounted /\ Announced /\ Published)'
  BY DEF Untouched, NothingUnreported
<1>0. Accounted /\ Announced /\ Published
  BY DEF NothingUnreported
<1>a. /\ phase' = phase /\ batch' = batch /\ todo' = todo /\ snapshot' = snapshot /\ shown' = shown
  BY DEF Untouched
<1>A. /\ Len(lines) \in Nat /\ DOMAIN lines = 1..Len(lines) /\ DOMAIN events = 1..Len(events)
      /\ \A i \in DOMAIN lines : i \in DOMAIN lines' /\ lines'[i] = lines[i]
      /\ \A j \in DOMAIN events : /\ Len(lines) + j \in DOMAIN lines'
                                  /\ lines'[Len(lines) + j] = events[j]
      /\ \A i \in DOMAIN lines' : i \in DOMAIN lines \/ i - Len(lines) \in DOMAIN events
  BY Appended
<1>B. \A j \in DOMAIN events : \A kind, id :
        events[j].kind = kind /\ events[j].id = id => Waits(kind, id)'
  BY Appended
<1>1. \A kind, id : Waits(kind, id) => Waits(kind, id)'
  BY Appended
<1>2. \A kind, id : Ahead(kind, id) => Ahead(kind, id)'
  BY <1>1, <1>a DEF Ahead, Taken
<1>3. \A kind, id : Waits(kind, id)' => Ahead(kind, id)'
  BY DEF Ahead
<1>4. \A p : p \in silent \/ Reported(p) => p \in silent' \/ p \notin Live' \/ Reported(p)'
  <2> TAKE p
  <2>1. CASE p \in silent
    <3>1. (\E j \in DOMAIN events : events[j].kind = "pane" /\ events[j].id = p)
            => Waits("pane", p)'
      BY <1>B
    <3> QED
      BY <2>1, <3>1 DEF Reported
  <2>2. CASE Reported(p)
    BY <1>1, <1>a, <2>2 DEF Reported, Taken
  <2> QED
    BY <2>1, <2>2
<1>5. Placed'
  <2> SUFFICES ASSUME NEW p \in Live', Astray(p)' PROVE Ahead("window", home[p])'
    BY DEF Placed
  <2>1. CASE home'[p] = home[p] /\ place'[home[p]] = place[home[p]]
    <3>1. p \in Live /\ Astray(p)
      BY <1>a, <2>1 DEF Astray
    <3>2. ASSUME NEW w, w = home[p] PROVE Ahead("window", w)'
      BY <1>0, <1>2, <3>1, <3>2 DEF Accounted, Placed
    <3>3. \A w : w = home'[p] => Ahead("window", w)'
      BY <2>1, <3>2
    <3> QED
      BY <3>3 DEF Ahead, Waits, Taken
  <2>2. CASE Waits("window", home[p])'
    BY <2>2 DEF Ahead
  <2> QED
    BY <2>1, <2>2
<1>6. Unmoved'
  <2>1. ASSUME NEW p \in DOMAIN snapshot, NEW w, w = snapshot[p].win, w # home'[p]
        PROVE  Ahead("window", w)' \/ (home'[p] = "gone" /\ Ahead("resnapshot", "server")')
    <3>0. p \in Panes
      BY DEF BatchTypes
    <3>1. CASE w = home[p]
      BY <1>3, <2>1, <3>0, <3>1
    <3>2. CASE w # home[p]
      <4>1. Ahead("window", w) \/ (home[p] = "gone" /\ Ahead("resnapshot", "server"))
        BY <1>0, <2>1, <3>2 DEF Accounted, Unmoved
      <4>2. home'[p] = home[p] \/ home[p] # "gone"
        BY <3>0 DEF Live
      <4> QED
        BY <1>2, <4>1, <4>2
    <3> QED
      BY <3>1, <3>2
  <2>2. \A p \in DOMAIN snapshot : snapshot'[p].win # home'[p]
          => \A w : w = snapshot'[p].win
                => Ahead("window", w)' \/ (home'[p] = "gone" /\ Ahead("resnapshot", "server")')
    BY <1>a, <2>1
  <2>3. \A p \in DOMAIN snapshot : snapshot'[p].win # home'[p]
          => \/ Ahead("window", snapshot[p].win)'
             \/ (home'[p] = "gone" /\ Ahead("resnapshot", "server")')
    <3> SUFFICES ASSUME NEW p \in DOMAIN snapshot, snapshot'[p].win # home'[p],
                        ~ (home'[p] = "gone" /\ Ahead("resnapshot", "server")')
                 PROVE  Ahead("window", snapshot[p].win)'
      OBVIOUS
    <3>1. \A w : w = snapshot'[p].win => Ahead("window", w)'
      BY <2>2
    <3> QED
      BY <3>1 DEF Ahead, Waits, Taken
  <2> QED
    BY <1>a, <2>3 DEF Unmoved
<1>7. Named'
  <2>1. ASSUME NEW p \in DOMAIN snapshot, NEW s, s = snapshot[p].sess, snapshot[p].name # name'[s]
        PROVE  Ahead("session", s)'
    <3>1. s \in Sessions
      BY <2>1 DEF BatchTypes, PaneRows
    <3>2. CASE name'[s] = name[s]
      BY <1>0, <1>2, <2>1, <3>2 DEF Accounted, Named
    <3> QED
      BY <1>3, <3>1, <3>2
  <2>2. \A p \in DOMAIN snapshot : \A s : s = snapshot'[p].sess /\ snapshot'[p].name # name'[s]
          => Ahead("session", s)'
    BY <1>a, <2>1
  <2> QED
    BY <1>a, <2>2 DEF Named, Ahead, Waits, Taken
<1>8. Entitled'
  <2> SUFFICES ASSUME NEW p \in Live', p \in DOMAIN snapshot, snapshot[p].title # title'[p]
               PROVE  p \in silent' \/ Reported(p)'
    BY <1>a DEF Entitled
  <2>1. p \in Panes /\ p \in Live
    BY DEF Live
  <2>2. CASE title'[p] = title[p]
    <3>1. p \in silent \/ Reported(p)
      BY <1>0, <2>1, <2>2 DEF Accounted, Entitled
    <3> QED
      BY <1>4, <3>1
  <2> QED
    BY <2>1, <2>2
<1>9. Announced'
  <2>0. ASSUME NEW p, Unreported(p)
        PROVE  \/ Unreported(p)'
               \/ \E j \in DOMAIN events : events[j].kind = "pane" /\ events[j].id = p
    BY <2>0 DEF Unreported, Live
  <2>w. \A p : Unreported(p) => Unreported(p)' \/ Waits("pane", p)'
    BY <2>0, <1>B
  <2>1. ASSUME NEW k \in DOMAIN lines', NEW p, p = lines'[k].id, lines'[k].kind = "title"
        PROVE  Unreported(p)' \/ Overtaken(lines, k)'
    <3> DEFINE n == Len(lines)
    <3>1. CASE k \in DOMAIN lines
      <4>1. lines'[k] = lines[k]
        BY <3>1, <1>A
      <4>2. CASE Overtaken(lines, k)
        BY <3>1, <4>2, <1>A DEF Overtaken
      <4>3. CASE Unreported(p)
        <5>1. ASSUME NEW j \in DOMAIN events, events[j].kind = "pane", events[j].id = p
              PROVE  Overtaken(lines, k)'
          <6>1. n + j \in DOMAIN lines' /\ n + j > k /\ lines'[n + j] = events[j]
            BY <3>1, <1>A
          <6> QED
            BY <2>1, <5>1, <6>1 DEF Overtaken
        <5> QED
          BY <2>0, <4>3, <5>1
      <4> QED
        BY <1>0, <2>1, <3>1, <4>1, <4>2, <4>3 DEF Announced
    <3>2. CASE k - n \in DOMAIN events
      <4> DEFINE j == k - n
      <4>1. k \in 1..(n + Len(events))
        BY Appended
      <4>2. n + j = k
        BY <1>A, <4>1
      <4>3. lines'[k] = events[j]
        BY <3>2, <4>2, <1>A
      <4> QED
        BY <2>1, <3>2, <4>3 DEF Unreported
    <3> QED
      BY <3>1, <3>2, <1>A
  <2>2. ASSUME phase \in {"full", "scopes"}, NEW k \in DOMAIN batch, NEW p, p = batch[k].id,
               batch[k].kind = "title"
        PROVE  Unreported(p)' \/ Overtaken(batch, k)' \/ Waits("pane", p)'
    <3>1. Unreported(p) \/ Overtaken(batch, k) \/ Waits("pane", p)
      BY <1>0, <2>2 DEF Announced
    <3>2. Overtaken(batch, k) => Overtaken(batch, k)'
      BY <1>a DEF Overtaken
    <3> QED
      BY <1>1, <2>w, <3>1, <3>2
  <2>3. ASSUME phase = "panes", NEW item \in todo, item[3] # 0
        PROVE  Unreported(item[2])' \/ Waits("pane", item[2])'
    BY <1>0, <1>1, <2>3, <2>w DEF Announced
  <2>4. \A k \in DOMAIN lines' : lines'[k].kind = "title"
          => (Unreported(lines[k].id) \/ Overtaken(lines, k))'
    <3>1. \A k \in DOMAIN lines' : lines'[k].kind = "title"
            => \A p : p = lines'[k].id => Unreported(p)' \/ Overtaken(lines, k)'
      BY <2>1
    <3> QED
      BY <3>1 DEF Unreported, Live
  <2>5. phase' \in {"full", "scopes"} => \A k \in DOMAIN batch' : batch'[k].kind = "title"
          => (Unreported(batch[k].id) \/ Overtaken(batch, k) \/ Waits("pane", batch[k].id))'
    <3>1. phase' \in {"full", "scopes"} => \A k \in DOMAIN batch' : batch'[k].kind = "title"
            => \A p : p = batch'[k].id
                 => Unreported(p)' \/ Overtaken(batch, k)' \/ Waits("pane", p)'
      BY <1>a, <2>2
    <3> QED
      BY <3>1 DEF Unreported, Live, Waits
  <2>6. phase' = "panes" => \A item \in todo' : item[3] # 0
          => Unreported(item[2])' \/ Waits("pane", item[2])'
    BY <1>a, <2>3
  <2> QED
    BY <2>4, <2>5, <2>6 DEF Announced
<1>10. Published'
  BY <1>0, <1>a DEF Published
<1> QED
  BY <1>5, <1>6, <1>7, <1>8, <1>9, <1>10 DEF Accounted

LEMMA NewsSays ==
  ASSUME NEW kind, NEW id, NEW about
  PROVE  News(kind, id, about).kind = kind /\ News(kind, id, about).id = id
  BY DEF News, Event

\* One event, or two, that wait once they are sent.
LEMMA Told ==
  ASSUME BatchTypes, NEW e, NEW f
  PROVE  /\ lines' = lines \o <<e>>
              => \A kind, id : e.kind = kind /\ e.id = id => Waits(kind, id)'
         /\ lines' = lines \o <<e, f>>
              => \A kind, id : \/ e.kind = kind /\ e.id = id
                               \/ f.kind = kind /\ f.id = id
                   => Waits(kind, id)'
<1>1. /\ <<e>> \in Seq({e, f}) /\ <<e, f>> \in Seq({e, f})
      /\ DOMAIN <<e>> = {1} /\ DOMAIN <<e, f>> = {1, 2}
      /\ <<e>>[1] = e /\ <<e, f>>[1] = e /\ <<e, f>>[2] = f
  OBVIOUS
<1>2. ASSUME lines' = lines \o <<e>>, NEW kind, NEW id, e.kind = kind, e.id = id
      PROVE  Waits(kind, id)'
  <2> DEFINE s == <<e>>
  <2>1. s \in Seq({e, f}) /\ 1 \in DOMAIN s /\ s[1] = e /\ lines' = lines \o s
    BY <1>1, <1>2
  <2> HIDE DEF s
  <2>2. \A j \in DOMAIN s : \A k, i : s[j].kind = k /\ s[j].id = i => Waits(k, i)'
    BY <2>1, Appended
  <2> QED
    BY <1>2, <2>1, <2>2
<1>3. ASSUME lines' = lines \o <<e, f>>, NEW kind, NEW id,
             (e.kind = kind /\ e.id = id) \/ (f.kind = kind /\ f.id = id)
      PROVE  Waits(kind, id)'
  <2> DEFINE s == <<e, f>>
  <2>1. /\ s \in Seq({e, f}) /\ 1 \in DOMAIN s /\ s[1] = e /\ 2 \in DOMAIN s /\ s[2] = f
        /\ lines' = lines \o s
    BY <1>1, <1>3
  <2> HIDE DEF s
  <2>2. \A j \in DOMAIN s : \A k, i : s[j].kind = k /\ s[j].id = i => Waits(k, i)'
    BY <2>1, Appended
  <2> QED
    BY <1>3, <2>1, <2>2
<1> QED
  BY <1>2, <1>3

\* The other way round: what was sent is one of them.
LEMMA OneOrTwo ==
  ASSUME NEW e, NEW f
  PROVE  /\ <<e>> \in Seq({e, f}) /\ <<e, f>> \in Seq({e, f})
         /\ \A j \in DOMAIN <<e>> : <<e>>[j] = e
         /\ \A j \in DOMAIN <<e, f>> : <<e, f>>[j] \in {e, f}
         /\ \E j \in DOMAIN <<e>> : <<e>>[j] = e
  OBVIOUS

LEMMA TmuxReports ==
  ASSUME BatchTypes, NothingUnreported, TmuxStep \/ \E p \in Panes : Focus(p)
  PROVE  NothingUnreported'
<1>u. Untouched /\ home' \in [Panes -> Windows \cup {"gone"}]
  BY TmuxOnlyAdds
<1>t. /\ home \in [Panes -> Windows \cup {"gone"}] /\ place \in [Windows -> Sessions]
      /\ name \in [Sessions -> Nat] /\ title \in [Panes -> Nat \ {0}]
  BY DEF BatchTypes
<1>l. \A p \in Live : p \in Panes /\ home[p] \in Windows
  BY <1>t DEF Live
\* A step that only tells, or changes a title that its subscription will report.
<1>0. ASSUME NEW e, lines' = lines \o <<e>> \/ lines' = lines \o <<>>,
             UNCHANGED <<home, place, name>>,
             \A p \in Panes : title'[p] = title[p] \/ p \in silent',
             \A p \in silent : \/ p \in silent' \/ p \notin Live
                               \/ lines' = lines \o <<e>> /\ e.kind = "pane" /\ e.id = p,
             e.kind = "title" => e.id \in silent'
      PROVE  NothingUnreported'
  <2>1. Live' = Live
    BY <1>0 DEF Live
  <2>2. CASE lines' = lines \o <<e>>
    <3> DEFINE s == <<e>>
    <3>1. s \in Seq({e}) /\ 1 \in DOMAIN s /\ lines' = lines \o s /\ \A j \in DOMAIN s : s[j] = e
      BY <2>2
    <3>2. \A j \in DOMAIN s : s[j].kind = "title" => s[j].id \in silent'
      BY <1>0, <3>1
    <3>3. \A p \in silent : \/ p \in silent' \/ p \notin Live'
                            \/ \E j \in DOMAIN s : s[j].kind = "pane" /\ s[j].id = p
      BY <1>0, <2>1, <3>1
    <3> HIDE DEF s
    <3> QED
      BY <1>0, <1>u, <2>1, <3>1, <3>2, <3>3, TmuxAccounts
  <2>3. CASE lines' = lines \o <<>> /\ lines' # lines \o <<e>>
    <3>1. <<>> \in Seq({}) /\ DOMAIN <<>> = {}
      OBVIOUS
    <3> QED
      BY <1>0, <1>u, <2>1, <2>3, <3>1, TmuxAccounts
  <2> QED
    BY <1>0, <2>2, <2>3
<1>1. ASSUME NEW p \in Panes, Announce(p) PROVE NothingUnreported'
  <2> DEFINE e == Event("title", p, title[p] + 1,
                        [q \in Panes |-> IF q = p THEN title[p] + 1 ELSE 0])
  <2>1. e.kind = "title" /\ e.id = p
    BY DEF Event
  <2>2. lines' = lines \o <<e>> /\ UNCHANGED <<home, place, name>> /\ silent' = silent \cup {p}
    BY <1>1 DEF Announce, Notify
  <2>3. \A q \in Panes : title'[q] = title[q] \/ q \in silent'
    BY <1>1, <1>t DEF Announce
  <2> HIDE DEF e
  <2> QED
    BY <1>0, <2>1, <2>2, <2>3
<1>2. ASSUME NEW p \in Panes, SetTitle(p) PROVE NothingUnreported'
  <2>1. lines' = lines \o <<>> /\ UNCHANGED <<home, place, name>> /\ silent' = silent \cup {p}
    BY <1>2, ConcatEmptySeq DEF SetTitle, BatchTypes
  <2>2. \A q \in Panes : title'[q] = title[q] \/ q \in silent'
    BY <1>2, <1>t DEF SetTitle
  <2> DEFINE e == News("focus", p, {})
  <2>3. e.kind = "focus"
    BY NewsSays
  <2> HIDE DEF e
  <2> QED
    BY <1>0, <2>1, <2>2, <2>3
<1>3. ASSUME NEW p \in Panes, Report(p) PROVE NothingUnreported'
  <2> DEFINE e == News("pane", p, {p})
  <2>1. e.kind = "pane" /\ e.id = p
    BY NewsSays
  <2>2. /\ UNCHANGED <<home, place, name, title>> /\ silent' = silent \ {p}
        /\ p \in Live => lines' = lines \o <<e>>
        /\ p \notin Live => lines' = lines \o <<>>
    BY <1>3 DEF Report, Notify, tmux
  <2> HIDE DEF e
  <2> QED
    BY <1>0, <2>1, <2>2
<1>4. ASSUME NEW p \in Panes, Output(p) PROVE NothingUnreported'
  <2> DEFINE e == News("activity", p, IF p \in Candidates THEN {p} ELSE {})
  <2>1. e.kind = "activity"
    BY NewsSays
  <2>2. lines' = lines \o <<e>> /\ UNCHANGED <<home, place, name, title, silent>>
    BY <1>4 DEF Output, Notify, tmux
  <2> HIDE DEF e
  <2> QED
    BY <1>0, <2>1, <2>2
<1>5. ASSUME NEW p \in Panes, Focus(p) PROVE NothingUnreported'
  <2> DEFINE e == News("focus", p, {})
  <2>1. e.kind = "focus"
    BY NewsSays
  <2>2. lines' = lines \o <<e>> /\ UNCHANGED <<home, place, name, title, silent>>
    BY <1>5 DEF Focus, Notify, tmux
  <2> HIDE DEF e
  <2> QED
    BY <1>0, <2>1, <2>2
<1>6. ASSUME NEW p \in Panes, NEW w \in Windows, MovePane(p, w) PROVE NothingUnreported'
  <2> DEFINE e == News("window", home[p], InWindow(home[p]) \ {p})
             f == News("window", w, InWindow(w) \cup {p})
  <2>1. e.kind = "window" /\ e.id = home[p] /\ f.kind = "window" /\ f.id = w
    BY NewsSays
  <2>2. /\ lines' = lines \o <<e, f>> /\ UNCHANGED <<place, name, title, silent>>
        /\ home'[p] = w /\ \A q \in Panes \ {p} : home'[q] = home[q]
        /\ p \in Live
    BY <1>6, <1>t DEF MovePane, Notify
  <2> HIDE DEF e, f
  <2>3. \A v : v \in {home[p], w} => Waits("window", v)'
    BY <2>1, <2>2, Told
  <2>4. \A q \in Live' : q \in Live
    BY <2>2 DEF Live
  <2>5. \A q \in Live' : \/ home'[q] = home[q] /\ place'[home[q]] = place[home[q]]
                         \/ Waits("window", home[q])'
    <3> TAKE q \in Live'
    <3>1. CASE q = p
      <4>1. Waits("window", w)' /\ home'[q] = w
        BY <2>2, <2>3, <3>1
      <4> QED
        BY <4>1 DEF Waits
    <3>2. CASE q # p
      BY <2>2, <2>4, <1>l, <3>2
    <3> QED
      BY <3>1, <3>2
  <2>6. \A q \in Panes : \A v : v = home[q] /\ home'[q] # v => q \in Live /\ Waits("window", v)'
    BY <2>2, <2>3
  <2>7. \A j \in DOMAIN <<e, f>> : <<e, f>>[j].kind = "window"
    BY <2>1, OneOrTwo
  <2>8. <<e, f>> \in Seq({e, f})
    BY OneOrTwo
  <2> QED
    BY <1>u, <2>2, <2>4, <2>5, <2>6, <2>7, <2>8, TmuxAccounts
<1>7. ASSUME NEW p \in Panes, ClosePane(p) PROVE NothingUnreported'
  <2> DEFINE e == News("window", home[p], InWindow(home[p]) \ {p})
  <2>1. e.kind = "window" /\ e.id = home[p]
    BY NewsSays
  <2>2. /\ lines' = lines \o <<e>> /\ UNCHANGED <<place, name, title, silent>>
        /\ home'[p] = "gone" /\ \A q \in Panes \ {p} : home'[q] = home[q]
        /\ p \in Live
    BY <1>7, <1>t DEF ClosePane, Notify
  <2> HIDE DEF e
  <2>3. \A v : v = home[p] => Waits("window", v)'
    BY <2>1, <2>2, Told
  <2>4. \A q \in Live' : q \in Live /\ home'[q] = home[q] /\ place'[home[q]] = place[home[q]]
    BY <2>2 DEF Live
  <2>5. \A q \in Panes : \A v : v = home[q] /\ home'[q] # v => q \in Live /\ Waits("window", v)'
    BY <2>2, <2>3
  <2>6. \A j \in DOMAIN <<e>> : <<e>>[j].kind = "window"
    BY <2>1, OneOrTwo
  <2>7. <<e>> \in Seq({e})
    OBVIOUS
  <2> QED
    BY <1>u, <2>2, <2>4, <2>5, <2>6, <2>7, TmuxAccounts
<1>8. ASSUME NEW w \in Windows, NEW s \in Sessions, MoveWindow(w, s) PROVE NothingUnreported'
  <2> DEFINE e == News("window", w, InWindow(w))
  <2>1. e.kind = "window" /\ e.id = w
    BY NewsSays
  <2>2. /\ lines' = lines \o <<e>> /\ UNCHANGED <<home, name, title, silent>>
        /\ \A v \in Windows \ {w} : place'[v] = place[v]
    BY <1>8, <1>t DEF MoveWindow, Notify
  <2> HIDE DEF e
  <2>3. Waits("window", w)'
    BY <2>1, <2>2, Told
  <2>4. \A q \in Live' : q \in Live /\ home[q] \in Windows /\ home'[q] = home[q]
    BY <2>2, <1>l DEF Live
  <2>5. \A q \in Live' : \/ home'[q] = home[q] /\ place'[home[q]] = place[home[q]]
                         \/ Waits("window", home[q])'
    <3> TAKE q \in Live'
    <3>1. CASE home'[q] = w
      BY <2>3, <3>1 DEF Waits
    <3>2. CASE home'[q] # w
      BY <2>2, <2>4, <3>2
    <3> QED
      BY <3>1, <3>2
  <2>6. \A j \in DOMAIN <<e>> : <<e>>[j].kind = "window"
    BY <2>1, OneOrTwo
  <2>7. <<e>> \in Seq({e})
    OBVIOUS
  <2> QED
    BY <1>u, <2>2, <2>4, <2>5, <2>6, <2>7, TmuxAccounts
<1>9. ASSUME NEW s \in Sessions, RenameSession(s) PROVE NothingUnreported'
  <2> DEFINE e == News("session", s, InSession(s))
  <2>1. e.kind = "session" /\ e.id = s
    BY NewsSays
  <2>2. /\ lines' = lines \o <<e>> /\ UNCHANGED <<home, place, title, silent>>
        /\ \A r \in Sessions \ {s} : name'[r] = name[r]
    BY <1>9, <1>t DEF RenameSession, Notify
  <2> HIDE DEF e
  <2>3. Waits("session", s)'
    BY <2>1, <2>2, Told
  <2>4. \A q \in Live' : q \in Live
    BY <2>2 DEF Live
  <2>5. \A r \in Sessions : name'[r] = name[r] \/ Waits("session", r)'
    BY <2>2, <2>3
  <2>6. \A j \in DOMAIN <<e>> : <<e>>[j].kind = "session"
    BY <2>1, OneOrTwo
  <2>7. <<e>> \in Seq({e})
    OBVIOUS
  <2> QED
    BY <1>u, <2>2, <2>4, <2>5, <2>6, <2>7, TmuxAccounts
<1>10. ASSUME NEW s \in Sessions, KillSession(s) PROVE NothingUnreported'
  <2> DEFINE e == News("resnapshot", "server", Live \ InSession(s))
  <2>1. e.kind = "resnapshot" /\ e.id = "server"
    BY NewsSays
  <2>2. /\ lines' = lines \o <<e>> /\ UNCHANGED <<place, name, title, silent>>
        /\ \A q \in Panes : home'[q] = home[q] \/ (home'[q] = "gone" /\ q \in Live)
    BY <1>10, <1>t DEF KillSession, Notify, InSession
  <2> HIDE DEF e
  <2>3. Waits("resnapshot", "server")'
    BY <2>1, <2>2, Told
  <2>4. \A q \in Live' : q \in Live /\ home'[q] = home[q] /\ place'[home[q]] = place[home[q]]
    BY <2>2 DEF Live
  <2>5. \A q \in Panes : \A v : v = home[q] /\ home'[q] # v
          => q \in Live /\ home'[q] = "gone" /\ Waits("resnapshot", "server")'
    BY <2>2, <2>3
  <2>6. \A j \in DOMAIN <<e>> : <<e>>[j].kind = "resnapshot"
    BY <2>1, OneOrTwo
  <2>7. <<e>> \in Seq({e})
    OBVIOUS
  <2>8. \A q \in Panes : \A v : v = home[q] /\ home'[q] # v
          => /\ q \in Live
             /\ Waits("window", v)' \/ (home'[q] = "gone" /\ Waits("resnapshot", "server")')
    BY <2>5
  <2>9. \A j \in DOMAIN <<e>> : <<e>>[j].kind = "title" => <<e>>[j].id \in silent'
    BY <2>6
  <2> DEFINE s1 == <<e>>
  <2>10. s1 \in Seq({e}) /\ lines' = lines \o s1
         /\ \A j \in DOMAIN s1 : s1[j].kind = "title" => s1[j].id \in silent'
    BY <2>2, <2>7, <2>9
  <2> HIDE DEF s1
  <2> QED
    BY <1>u, <2>2, <2>4, <2>8, <2>10, TmuxAccounts
<1> QED
  BY <1>1, <1>2, <1>3, <1>4, <1>5, <1>6, <1>7, <1>8, <1>9, <1>10 DEF TmuxStep

\* What is ahead stays ahead, except the listings of one scope.
StaysAhead(but) ==
  /\ \A w \in Windows : Ahead("window", w) /\ but # <<"window", w>> => Ahead("window", w)'
  /\ \A s \in Sessions : Ahead("session", s) /\ but # <<"session", s>> => Ahead("session", s)'
  /\ Ahead("resnapshot", "server") => Ahead("resnapshot", "server")'
  /\ \A p \in Panes : Reported(p) => Reported(p)'

\* A row that the listing left alone is accounted for as before, and a row that
\* it made current needs nothing.
LEMMA RowsAccount ==
  ASSUME BatchTypes, Accounted, UNCHANGED <<tmux, silent>>, NEW but, StaysAhead(but),
         DOMAIN snapshot' \subseteq Panes,
         \A p \in DOMAIN snapshot' :
            \/ p \in Live /\ snapshot'[p] = Row(p)
            \/ /\ p \in DOMAIN snapshot /\ snapshot'[p] = snapshot[p]
               /\ but # <<"window", snapshot[p].win>> /\ but # <<"session", snapshot[p].sess>>,
         \A p \in Live : \/ p \in DOMAIN snapshot' /\ snapshot'[p] = Row(p)
                         \/ but # <<"window", home[p]>>,
         \A p \in DOMAIN snapshot \cap Live : p \in DOMAIN snapshot' \/ Astray(p)
  PROVE  Accounted'
<1>u. /\ home' = home /\ place' = place /\ name' = name /\ title' = title /\ silent' = silent
      /\ Live' = Live
  BY DEF tmux, Live
<1>t. /\ \A p \in Live : home[p] \in Windows /\ p \in Panes
      /\ \A p \in DOMAIN snapshot : snapshot[p].win \in Windows /\ snapshot[p].sess \in Sessions
  BY DEF BatchTypes, Live, PaneRows
<1>r. \A p \in Live : /\ Row(p).win = home[p] /\ Row(p).sess = place[home[p]]
                      /\ Row(p).name = name[place[home[p]]] /\ Row(p).title = title[p]
  BY DEF Row, Titled
<1>1. Placed'
  <2>1. ASSUME NEW p \in Live, Astray(p)' PROVE Ahead("window", home[p])'
    <3>1. ~ (p \in DOMAIN snapshot' /\ snapshot'[p] = Row(p))
      BY <1>r, <1>u, <2>1 DEF Astray
    <3>2. Astray(p)
      BY <1>u, <2>1, <3>1 DEF Astray
    <3>3. Ahead("window", home[p]) /\ but # <<"window", home[p]>>
      BY <3>1, <3>2 DEF Accounted, Placed
    <3>4. \A w : w = home[p] => Ahead("window", w)'
      BY <1>t, <3>3 DEF StaysAhead
    <3>5. \A w : w = home'[p] => Ahead("window", w)'
      BY <1>u, <3>4
    <3> QED
      BY <3>5 DEF Ahead, Waits, Taken
  <2> QED
    BY <1>u, <2>1 DEF Placed
<1>2. Unmoved'
  <2>1. ASSUME NEW p \in DOMAIN snapshot', snapshot'[p].win # home[p]
        PROVE  \/ Ahead("window", snapshot[p].win)'
               \/ home[p] = "gone" /\ Ahead("resnapshot", "server")'
    <3>1. /\ p \in DOMAIN snapshot /\ snapshot'[p] = snapshot[p]
          /\ but # <<"window", snapshot[p].win>>
      BY <1>r, <2>1
    <3>2. Ahead("window", snapshot[p].win) \/ (home[p] = "gone" /\ Ahead("resnapshot", "server"))
      BY <2>1, <3>1 DEF Accounted, Unmoved
    <3>3. CASE Ahead("window", snapshot[p].win)
      <4>1. \A w : w = snapshot'[p].win => Ahead("window", w)'
        BY <1>t, <3>1, <3>3 DEF StaysAhead
      <4> QED
        BY <4>1 DEF Ahead, Waits, Taken
    <3> QED
      BY <3>2, <3>3 DEF StaysAhead
  <2> QED
    BY <1>u, <2>1 DEF Unmoved
<1>3. Named'
  <2>1. ASSUME NEW p \in DOMAIN snapshot', snapshot'[p].name # name[snapshot'[p].sess]
        PROVE  Ahead("session", snapshot[p].sess)'
    <3>1. /\ p \in DOMAIN snapshot /\ snapshot'[p] = snapshot[p]
          /\ but # <<"session", snapshot[p].sess>>
      BY <1>r, <2>1
    <3>2. Ahead("session", snapshot[p].sess)
      BY <2>1, <3>1 DEF Accounted, Named
    <3>3. \A s : s = snapshot'[p].sess => Ahead("session", s)'
      BY <1>t, <3>1, <3>2 DEF StaysAhead
    <3> QED
      BY <3>3 DEF Ahead, Waits, Taken
  <2> QED
    BY <1>u, <2>1 DEF Named
<1>4. Entitled'
  <2>1. ASSUME NEW p \in Live, p \in DOMAIN snapshot', snapshot'[p].title # title[p]
        PROVE  p \in silent \/ Reported(p)'
    <3>1. p \in DOMAIN snapshot /\ snapshot'[p] = snapshot[p]
      BY <1>r, <2>1
    <3>2. p \in silent \/ Reported(p)
      BY <2>1, <3>1 DEF Accounted, Entitled
    <3> QED
      BY <1>t, <3>2 DEF StaysAhead
  <2> QED
    BY <1>u, <2>1 DEF Entitled
<1> QED
  BY <1>1, <1>2, <1>3, <1>4 DEF Accounted

LEMMA SnapshotKeptAccounts ==
  ASSUME BatchTypes, Accounted, UNCHANGED <<tmux, silent, snapshot>>, StaysAhead(<<>>)
  PROVE  Accounted'
<1>1. \A a, b : <<>> # <<a, b>>
  OBVIOUS
<1>2. DOMAIN snapshot \subseteq Panes
  BY DEF BatchTypes
<1> QED
  BY <1>1, <1>2, RowsAccount

LEMMA FullListingAccounts ==
  ASSUME BatchTypes, UNCHANGED <<tmux, silent>>, snapshot' = Rows(Panes)
  PROVE  Accounted'
<1>1. DOMAIN Rows(Panes) = Live /\ \A p \in Live : Rows(Panes)[p] = Row(p)
  BY RowsAreTyped DEF Live
<1>2. \A p \in Live : /\ Row(p).win = home[p] /\ Row(p).sess = place[home[p]]
                      /\ Row(p).name = name[place[home[p]]] /\ Row(p).title = title[p]
  BY DEF Row, Titled
<1>3. Live' = Live /\ UNCHANGED <<home, place, name, title>>
  BY DEF Live, tmux
<1> QED
  BY <1>1, <1>2, <1>3 DEF Accounted, Placed, Unmoved, Named, Entitled, Astray

LEMMA ScopeListingAccounts ==
  ASSUME BatchTypes, Accounted, UNCHANGED <<tmux, silent>>, NEW kind \in {"session", "window"},
         NEW id,
         StaysAhead(<<kind, id>>), snapshot' = Rescoped(kind, id)
  PROVE  Accounted'
<1> DEFINE found == IF kind = "window" THEN InWindow(id) ELSE InSession(id)
<1>1. /\ DOMAIN snapshot' = found \cup {p \in DOMAIN snapshot : ~InScope(kind, id, snapshot[p])}
      /\ \A p \in found : snapshot'[p] = Row(p)
      /\ \A p \in DOMAIN snapshot' : p \notin found => snapshot'[p] = snapshot[p]
      /\ DOMAIN snapshot' \subseteq Panes
  BY RescopedFacts
<1>2. found \subseteq Live
  BY DEF InWindow, InSession
<1>3. \A p \in DOMAIN snapshot : ~InScope(kind, id, snapshot[p])
        => /\ <<kind, id>> # <<"window", snapshot[p].win>>
           /\ <<kind, id>> # <<"session", snapshot[p].sess>>
  BY DEF InScope
<1>4. \A p \in Live : p \in found \/ <<kind, id>> # <<"window", home[p]>>
  BY DEF InWindow
<1>5. \A p \in DOMAIN snapshot \cap Live :
         p \in found \/ ~InScope(kind, id, snapshot[p]) \/ Astray(p)
  BY DEF InWindow, InSession, InScope, Astray
<1> HIDE DEF found
<1>6. \A p \in DOMAIN snapshot' :
         \/ p \in Live /\ snapshot'[p] = Row(p)
         \/ /\ p \in DOMAIN snapshot /\ snapshot'[p] = snapshot[p]
            /\ <<kind, id>> # <<"window", snapshot[p].win>>
            /\ <<kind, id>> # <<"session", snapshot[p].sess>>
  BY <1>1, <1>2, <1>3
<1>7. \A p \in Live : \/ p \in DOMAIN snapshot' /\ snapshot'[p] = Row(p)
                      \/ <<kind, id>> # <<"window", home[p]>>
  BY <1>1, <1>4
<1>8. \A p \in DOMAIN snapshot \cap Live : p \in DOMAIN snapshot' \/ Astray(p)
  BY <1>1, <1>5
<1> QED
  BY <1>1, <1>6, <1>7, <1>8, RowsAccount

LEMMA AnnouncedKept ==
  ASSUME Announced, UNCHANGED <<home, silent, lines>>,
         phase' \in {"full", "scopes"} => phase \in {"full", "scopes"} /\ batch' = batch,
         phase' = "panes" => phase = "panes" /\ todo' \subseteq todo
  PROVE  Announced'
  BY DEF Announced, Overtaken, Unreported, Live, Waits

LEMMA LoopLeaves ==
  ASSUME DaemonStep
  PROVE  UNCHANGED <<tmux, silent>> /\ UNCHANGED <<home, silent>>
  BY DEF DaemonStep, TakeBatch, RefreshFull, ScopesDone, BatchDone, TakeFocus, FocusFull,
         ListingFails, RefreshScope, RefreshPane, FocusSession, Loop, tmux

\* Taking some lines moves what waited in them into the batch.
LEMMA TakeBatchKeeps ==
  ASSUME BatchTypes, Accounted, Announced, TakeBatch
  PROVE  Accounted' /\ Announced'
<1>1. PICK n \in 1..Len(lines) : /\ batch' = SubSeq(lines, 1, n)
                                 /\ lines' = SubSeq(lines, n + 1, Len(lines))
  BY DEF TakeBatch
<1>2. /\ phase = "idle" /\ phase' = "full" /\ todo' = todo /\ snapshot' = snapshot
      /\ UNCHANGED <<tmux, silent>> /\ UNCHANGED <<tmux, silent, snapshot>>
      /\ UNCHANGED <<home, silent>> /\ Live' = Live
  BY DEF TakeBatch, tmux, Live
<1>3. /\ Len(lines) \in Nat
      /\ DOMAIN lines = 1..Len(lines)
      /\ \A i \in 1..Len(lines) : lines[i] \in Events
  BY LenProperties, ElementOfSeq DEF BatchTypes
<1>4. /\ DOMAIN batch' = 1..n /\ \A i \in 1..n : batch'[i] = lines[i]
      /\ DOMAIN lines' = 1..(Len(lines) - n)
      /\ \A i \in 1..(Len(lines) - n) : lines'[i] = lines[n + i]
  <2>1. /\ batch' \in Seq(Events) /\ Len(batch') = n /\ \A i \in 1..n : batch'[i] = lines[i]
    <3>1. \A i \in 1..n : lines[i] \in Events
      BY <1>3
    <3> QED
      BY <1>1, <1>3, <3>1, SubSeqProperties
  <2>2. /\ lines' \in Seq(Events) /\ Len(lines') = Len(lines) - n
        /\ \A i \in 1..(Len(lines) - n) : lines'[i] = lines[n + i]
    <3>1. \A i \in (n + 1)..Len(lines) : lines[i] \in Events
      BY <1>3
    <3>2. /\ lines' \in Seq(Events)
          /\ Len(lines') = IF n + 1 <= Len(lines) THEN Len(lines) - (n + 1) + 1 ELSE 0
          /\ \A i \in 1..(Len(lines) - (n + 1) + 1) : lines'[i] = lines[(n + 1) + i - 1]
      BY <1>1, <1>3, <3>1, SubSeqProperties
    <3>3. Len(lines) - (n + 1) + 1 = Len(lines) - n /\ (n + 1 <= Len(lines) \/ Len(lines) - n = 0)
      <4>1. n \in 1..Len(lines) /\ Len(lines) \in Nat
        BY <1>1, <1>3
      <4> QED
        BY <4>1
    <3>4. \A i \in 1..(Len(lines) - n) : (n + 1) + i - 1 = n + i
      BY <1>3
    <3>5. Len(lines') = Len(lines) - n
      BY <3>2, <3>3
    <3> QED
      BY <3>2, <3>3, <3>4, <3>5
  <2> QED
    BY <2>1, <2>2, LenProperties
<1>5. \A k, i : Waits(k, i) => Waits(k, i)' \/ Taken(k, i)'
  <2> TAKE k, i
  <2> HAVE Waits(k, i)
  <2>1. PICK m \in DOMAIN lines : lines[m].kind = k /\ lines[m].id = i
    BY DEF Waits
  <2>2. CASE m <= n
    BY <1>3, <1>4, <2>1, <2>2 DEF Taken
  <2>3. CASE m > n
    <3>1. m - n \in 1..(Len(lines) - n) /\ n + (m - n) = m
      BY <1>3, <2>1, <2>3
    <3>2. lines'[m - n] = lines[m]
      BY <1>4, <3>1
    <3> QED
      BY <1>4, <2>1, <3>1, <3>2 DEF Waits
  <2> QED
    BY <1>3, <2>1, <2>2, <2>3
<1>6. StaysAhead(<<>>)
  BY <1>2, <1>5 DEF StaysAhead, Ahead, Reported
<1>7. Accounted'
  BY <1>2, <1>6, SnapshotKeptAccounts
<1>8. ASSUME NEW k \in DOMAIN lines, NEW p, p = lines[k].id, lines[k].kind = "title", ~Unreported(p)
      PROVE  \E j \in DOMAIN lines : j > k /\ lines[j].kind = "pane" /\ lines[j].id = p
  BY <1>8 DEF Announced, Overtaken
<1>9. \A p : Unreported(p)' <=> Unreported(p)
  BY <1>2 DEF Unreported
<1>10. ASSUME NEW k \in DOMAIN lines', NEW p, p = lines'[k].id, lines'[k].kind = "title",
              ~Unreported(p)
       PROVE  Overtaken(lines, k)'
  <2>1. n + k \in DOMAIN lines /\ lines[n + k] = lines'[k]
    BY <1>3, <1>4
  <2>2. PICK j \in DOMAIN lines : j > n + k /\ lines[j].kind = "pane" /\ lines[j].id = p
    BY <1>8, <1>10, <2>1
  <2>3. j - n \in DOMAIN lines' /\ j - n > k /\ lines'[j - n] = lines[j]
    <3>1. j - n \in 1..(Len(lines) - n) /\ j - n > k /\ n + (j - n) = j
      BY <1>3, <1>4, <2>2
    <3> QED
      BY <1>4, <3>1
  <2> QED
    BY <1>10, <2>2, <2>3 DEF Overtaken
<1>11. ASSUME NEW k \in DOMAIN batch', NEW p, p = batch'[k].id, batch'[k].kind = "title",
              ~Unreported(p)
       PROVE  Overtaken(batch, k)' \/ Waits("pane", p)'
  <2>1. k \in DOMAIN lines /\ lines[k] = batch'[k] /\ k \in 1..n
    BY <1>3, <1>4
  <2>2. PICK j \in DOMAIN lines : j > k /\ lines[j].kind = "pane" /\ lines[j].id = p
    BY <1>8, <1>11, <2>1
  <2>3. CASE j <= n
    <3>1. j \in DOMAIN batch' /\ batch'[j] = lines[j]
      BY <1>3, <1>4, <2>2, <2>3
    <3> QED
      BY <1>11, <2>2, <3>1 DEF Overtaken
  <2>4. CASE j > n
    <3>1. j - n \in 1..(Len(lines) - n) /\ n + (j - n) = j
      BY <1>3, <2>2, <2>4
    <3>2. lines'[j - n] = lines[j]
      BY <1>4, <3>1
    <3> QED
      BY <1>4, <2>2, <3>1, <3>2 DEF Waits
  <2> QED
    BY <1>3, <2>2, <2>3, <2>4
<1>12. \A k \in DOMAIN lines' : lines'[k].kind = "title"
         => (Unreported(lines[k].id) \/ Overtaken(lines, k))'
  <2>1. \A k \in DOMAIN lines' : lines'[k].kind = "title"
          => \A p : p = lines'[k].id => Unreported(p)' \/ Overtaken(lines, k)'
    BY <1>9, <1>10
  <2> QED
    BY <2>1 DEF Unreported, Live
<1>13. \A k \in DOMAIN batch' : batch'[k].kind = "title"
         => (Unreported(batch[k].id) \/ Overtaken(batch, k) \/ Waits("pane", batch[k].id))'
  <2>1. \A k \in DOMAIN batch' : batch'[k].kind = "title"
          => \A p : p = batch'[k].id => Unreported(p)' \/ Overtaken(batch, k)' \/ Waits("pane", p)'
    BY <1>9, <1>11
  <2> QED
    BY <2>1 DEF Unreported, Live, Waits
<1> QED
  BY <1>2, <1>7, <1>12, <1>13 DEF Announced

LEMMA TakeFocusKeeps ==
  ASSUME BatchTypes, Accounted, Announced, TakeFocus
  PROVE  Accounted' /\ Announced'
<1>1. /\ lines # <<>> /\ lines' = Tail(lines) /\ lines[1].kind = "focus"
      /\ phase = "idle" /\ phase' \in {"focusSession", "focusFull"}
      /\ UNCHANGED <<tmux, silent>> /\ UNCHANGED <<tmux, silent, snapshot>>
      /\ UNCHANGED <<home, silent>> /\ Live' = Live
  BY HeadTailProperties DEF TakeFocus, tmux, Live, BatchTypes
<1>2. /\ Len(lines) \in Nat /\ DOMAIN lines = 1..Len(lines)
      /\ DOMAIN lines' = 1..(Len(lines) - 1)
      /\ \A i \in 1..(Len(lines) - 1) : lines'[i] = lines[i + 1]
  BY <1>1, LenProperties, HeadTailProperties DEF BatchTypes
<1>3. ASSUME NEW m \in DOMAIN lines, lines[m].kind # "focus"
      PROVE  m - 1 \in DOMAIN lines' /\ lines'[m - 1] = lines[m]
  <2>1. m - 1 \in 1..(Len(lines) - 1) /\ (m - 1) + 1 = m
    <3>1. m # 1
      BY <1>1, <1>3
    <3> QED
      BY <1>2, <3>1
  <2> QED
    BY <1>2, <2>1
<1>4. \A k, i : Waits(k, i) /\ k # "focus" => Waits(k, i)'
  BY <1>3 DEF Waits
<1>5. StaysAhead(<<>>)
  BY <1>1, <1>4 DEF StaysAhead, Ahead, Reported
<1>6. Accounted'
  BY <1>1, <1>5, SnapshotKeptAccounts
<1>7. ASSUME NEW k \in DOMAIN lines', NEW p, p = lines'[k].id, lines'[k].kind = "title"
      PROVE  Unreported(p)' \/ Overtaken(lines, k)'
  <2>1. k + 1 \in DOMAIN lines /\ lines'[k] = lines[k + 1] /\ k \in Int
    BY <1>2
  <2>2. CASE Overtaken(lines, k + 1)
    <3>1. PICK j \in DOMAIN lines : j > k + 1 /\ lines[j].kind = "pane" /\ lines[j].id = p
      BY <1>7, <2>1, <2>2 DEF Overtaken
    <3>2. j - 1 \in DOMAIN lines' /\ lines'[j - 1] = lines[j] /\ j - 1 > k
      BY <1>2, <1>3, <2>1, <3>1
    <3> QED
      BY <1>7, <3>1, <3>2 DEF Overtaken
  <2>3. CASE Unreported(p)
    BY <1>1, <2>3 DEF Unreported
  <2> QED
    BY <1>7, <2>1, <2>2, <2>3 DEF Announced
<1>8. \A k \in DOMAIN lines' : lines'[k].kind = "title"
         => (Unreported(lines[k].id) \/ Overtaken(lines, k))'
  <2>1. \A k \in DOMAIN lines' : lines'[k].kind = "title"
          => \A p : p = lines'[k].id => Unreported(p)' \/ Overtaken(lines, k)'
    BY <1>7
  <2> QED
    BY <2>1 DEF Unreported, Live
<1> QED
  BY <1>1, <1>6, <1>8 DEF Announced

\* The full listing takes the scopes over that came after the last resnapshot.
LEMMA RefreshFullKeeps ==
  ASSUME BatchTypes, Accounted, Announced, RefreshFull, UNCHANGED <<tmux, silent>>,
         UNCHANGED <<home, silent>>
  PROVE  Accounted' /\ Announced'
<1>1. Announced'
  BY AnnouncedKept DEF RefreshFull
<1>2. CASE Resnapshot > 0
  BY <1>1, <1>2, FullListingAccounts DEF RefreshFull
<1>3. CASE ~(Resnapshot > 0)
  <2>1. ~Taken("resnapshot", "server") /\ Resnapshot = 0
    BY <1>3, SequenceOfIs DEF Resnapshot
  <2>2. \A w \in Windows : Taken("window", w) => <<"window", w, 0>> \in PendingScopes
    BY <2>1, SequenceOfIs DEF PendingScopes
  <2>3. \A s \in Sessions : Taken("session", s) => <<"session", s, 0>> \in PendingScopes
    BY <2>1, SequenceOfIs DEF PendingScopes
  <2>4. /\ phase = "full" /\ phase' = "scopes" /\ todo' = PendingScopes
        /\ UNCHANGED <<lines, batch>> /\ UNCHANGED <<tmux, silent, snapshot>>
    BY <1>3 DEF RefreshFull
  <2>5. \A k, i : Waits(k, i) => Waits(k, i)'
    BY <2>4 DEF Waits
  <2>6. \A k, i : Taken(k, i) => Taken(k, i)'
    BY <2>4 DEF Taken
  <2>7. StaysAhead(<<>>)
    BY <2>1, <2>2, <2>3, <2>4, <2>5, <2>6 DEF StaysAhead, Ahead, Reported
  <2> QED
    BY <1>1, <2>4, <2>7, SnapshotKeptAccounts
<1> QED
  BY <1>2, <1>3

LEMMA RefreshScopeKeeps ==
  ASSUME BatchTypes, Accounted, Announced, NEW kind \in {"session", "window"}, NEW id,
         RefreshScope(kind, id),
         UNCHANGED <<tmux, silent>>, UNCHANGED <<home, silent>>
  PROVE  Accounted' /\ Announced'
<1>1. /\ phase = "scopes" /\ phase' = "scopes" /\ todo' = todo \ {<<kind, id, 0>>}
      /\ lines' = lines /\ batch' = batch
      /\ snapshot' = Rescoped(kind, id) \/ snapshot' = Rows(Panes)
  BY DEF RefreshScope
<1>2. Announced'
  BY <1>1, AnnouncedKept
<1>3. \A k, i : (Waits(k, i) => Waits(k, i)') /\ (Taken(k, i) => Taken(k, i)')
  BY <1>1 DEF Waits, Taken
<1>4. \A k, i : <<k, i, 0>> \in todo /\ <<kind, id>> # <<k, i>> => <<k, i, 0>> \in todo'
  BY <1>1
<1>5. "resnapshot" # kind
  OBVIOUS
<1>6. StaysAhead(<<kind, id>>)
  BY <1>1, <1>3, <1>4, <1>5 DEF StaysAhead, Ahead, Reported
<1> QED
  BY <1>1, <1>2, <1>6, ScopeListingAccounts, FullListingAccounts

\* What an announced title is laid over is not newer, and its pane is named by
\* the number of the event.
LEMMA OverrideIsAnnounced ==
  ASSUME BatchTypes, NEW p, NEW scopes, NEW active, TitleOverride(p, scopes, active) # 0
  PROVE  LET k == SequenceOf("title", p) IN
            /\ k \in DOMAIN batch /\ batch[k].kind = "title" /\ batch[k].id = p
            /\ TitleOverride(p, scopes, active) = batch[k].title
            /\ k > Resnapshot /\ k > SequenceOf("pane", p)
            /\ k > ScopeSequence(scopesBefore, p) /\ k > ScopeSequence(scopes, p)
            /\ active => k > SequenceOf("activity", p)
            /\ k \in Nat /\ Resnapshot \in Nat /\ SequenceOf("pane", p) \in Nat
            /\ SequenceOf("activity", p) \in Nat
            /\ ScopeSequence(scopesBefore, p) \in Nat /\ ScopeSequence(scopes, p) \in Nat
<1> DEFINE k == SequenceOf("title", p)
           a == IF active THEN SequenceOf("activity", p) ELSE 0
           latest == Max({Resnapshot, SequenceOf("pane", p), a,
                          ScopeSequence(scopesBefore, p), ScopeSequence(scopes, p)})
<1>1. /\ Resnapshot \in Nat /\ SequenceOf("pane", p) \in Nat /\ a \in Nat /\ k \in Nat
      /\ SequenceOf("activity", p) \in Nat
  BY SequenceOfIs DEF Resnapshot
<1>2. \A sc : ScopeSequence(sc, p) \in Nat
  BY SequenceOfIs, MaxOfFew DEF ScopeSequence
<1>3. /\ latest \in Nat /\ Resnapshot <= latest /\ SequenceOf("pane", p) <= latest /\ a <= latest
      /\ ScopeSequence(scopesBefore, p) <= latest /\ ScopeSequence(scopes, p) <= latest
  BY <1>1, <1>2, MaxOfFew
<1>4. TitleOverride(p, scopes, active) = IF k > latest THEN batch[k].title ELSE 0
  BY DEF TitleOverride
<1> HIDE DEF latest
<1>5. k > latest /\ TitleOverride(p, scopes, active) = batch[k].title
  BY <1>4
<1>6. k \in DOMAIN batch /\ batch[k].kind = "title" /\ batch[k].id = p
  BY <1>1, <1>3, <1>5, SequenceOfIs
<1>7. active => k > SequenceOf("activity", p)
  BY <1>1, <1>3, <1>5
<1> QED
  BY <1>1, <1>2, <1>3, <1>5, <1>6, <1>7

LEMMA ScopesDoneKeeps ==
  ASSUME BatchTypes, Accounted, Announced, ScopesDone, UNCHANGED <<tmux, silent>>,
         UNCHANGED <<home, silent>>
  PROVE  Accounted' /\ Announced'
<1> DEFINE active == Among("activity", Candidates \cap DOMAIN snapshot)
           over(p) == TitleOverride(p, PaneScopes(snapshot), p \in active)
           panes == Among("pane", Panes) \cup active
<1>1. /\ phase = "scopes" /\ phase' = "panes" /\ todo = {} /\ lines' = lines /\ batch' = batch
      /\ UNCHANGED <<tmux, silent, snapshot>> /\ Live' = Live
      /\ todo' = {<<"pane", p, over(p)>> : p \in panes \cup {p \in Panes : over(p) > 0}}
  BY DEF ScopesDone, Live
<1>2. \A p \in Panes : Taken("pane", p) => p \in panes
  BY SequenceOfIs DEF Among
<1>3. \A p : over(p) # 0 => LET k == SequenceOf("title", p) IN
          /\ k \in DOMAIN batch /\ batch[k].kind = "title" /\ batch[k].id = p
          /\ k > SequenceOf("pane", p) /\ k \in Nat /\ SequenceOf("pane", p) \in Nat
  BY OverrideIsAnnounced
<1> HIDE DEF over, panes, active
<1>4. \A k, i : (Waits(k, i) => Waits(k, i)') /\ (Taken(k, i) => Taken(k, i)')
  BY <1>1 DEF Waits, Taken
<1>5. \A p \in Panes : Taken("pane", p) => \E item \in todo' : item[2] = p
  <2> TAKE p \in Panes
  <2> HAVE Taken("pane", p)
  <2> DEFINE item == <<"pane", p, over(p)>>
  <2>1. item \in todo'
    BY <1>1, <1>2
  <2>2. item[2] = p
    OBVIOUS
  <2> HIDE DEF item
  <2> QED
    BY <2>1, <2>2
<1>6. StaysAhead(<<>>)
  BY <1>1, <1>4, <1>5 DEF StaysAhead, Ahead, Reported
<1>7. Accounted'
  BY <1>1, <1>6, SnapshotKeptAccounts
<1>8. ASSUME NEW p, over(p) # 0 PROVE Unreported(p) \/ Waits("pane", p)
  <2> DEFINE k == SequenceOf("title", p)
  <2>1. /\ k \in DOMAIN batch /\ batch[k].kind = "title" /\ batch[k].id = p
        /\ k > SequenceOf("pane", p) /\ k \in Nat /\ SequenceOf("pane", p) \in Nat
    BY <1>3, <1>8
  <2>2. ~Overtaken(batch, k)
    <3>1. \A j \in DOMAIN batch : batch[j].kind = "pane" /\ batch[j].id = p
            => j <= SequenceOf("pane", p) /\ j \in Nat
      BY SequenceOfIs, LenProperties DEF BatchTypes
    <3> HIDE DEF k
    <3> QED
      BY <2>1, <3>1 DEF Overtaken
  <2> HIDE DEF k
  <2> QED
    BY <1>1, <2>1, <2>2 DEF Announced
<1>9. \A item \in todo' : item[3] # 0 => Unreported(item[2])' \/ Waits("pane", item[2])'
  <2>1. \A item \in todo' : \E p : item[2] = p /\ item[3] = over(p)
    BY <1>1
  <2>2. \A p : Unreported(p) => Unreported(p)'
    BY <1>1 DEF Unreported
  <2> QED
    BY <1>4, <1>8, <2>1, <2>2
<1>10. \A k \in DOMAIN lines' : lines'[k].kind = "title"
         => (Unreported(lines[k].id) \/ Overtaken(lines, k))'
  BY <1>1 DEF Announced, Unreported, Overtaken
<1> QED
  BY <1>1, <1>7, <1>9, <1>10 DEF Announced

\* A pane is read where it is now; an announced title that is laid over it is
\* its last one, or the subscription is still to report another.
LEMMA RefreshPaneKeeps ==
  ASSUME BatchTypes, Accounted, Announced, NEW item \in todo, RefreshPane(item[2], item[3]),
         phase' # "ended", UNCHANGED <<tmux, silent>>, UNCHANGED <<home, silent>>
  PROVE  Accounted' /\ Announced'
<1> DEFINE p == item[2]
           o == item[3]
<1>1. p \in Panes /\ o \in Nat /\ item = <<"pane", p, o>>
  <2>1. phase = "panes" /\ todo \subseteq {"pane"} \X Panes \X Nat
    BY DEF RefreshPane, BatchTypes, TodoTypes
  <2>2. item \in {"pane"} \X Panes \X Nat
    BY <2>1
  <2> QED
    BY <2>2
<1>2. /\ phase = "panes" /\ phase' = "panes" /\ todo' = todo \ {<<"pane", p, o>>}
      /\ lines' = lines /\ batch' = batch /\ snapshot' = Repaned(p, o)
  BY DEF RefreshPane
<1>3. o # 0 => Unreported(p) \/ Waits("pane", p)
  BY <1>2 DEF Announced
<1> HIDE DEF p, o
<1>4. Announced'
  BY <1>2, AnnouncedKept
<1>u. /\ home' = home /\ place' = place /\ name' = name /\ title' = title /\ silent' = silent
      /\ Live' = Live
  BY DEF tmux, Live
<1>5. /\ DOMAIN snapshot' = IF p \in Live THEN DOMAIN snapshot \cup {p} ELSE DOMAIN snapshot \ {p}
      /\ p \in Live => snapshot'[p] = Titled(p, IF o = 0 THEN title[p] ELSE o)
      /\ \A q \in DOMAIN snapshot' \ {p} : snapshot'[q] = snapshot[q]
  BY <1>1, <1>2, RepanedFacts
<1>6. p \in Live => /\ snapshot'[p].win = home[p] /\ snapshot'[p].sess = place[home[p]]
                    /\ snapshot'[p].name = name[place[home[p]]]
                    /\ snapshot'[p].title = IF o = 0 THEN title[p] ELSE o
  BY <1>5 DEF Titled
<1>7. \A k, i : (Waits(k, i) => Waits(k, i)') /\ (Ahead(k, i) <=> Waits(k, i))
              /\ (Waits(k, i)' => Ahead(k, i)')
  BY <1>2 DEF Waits, Ahead
<1>8. \A q \in Live : q # p /\ Reported(q) => Reported(q)'
  <2>1. \A i \in todo : i[2] # p => i \in todo'
    BY <1>1, <1>2
  <2> QED
    BY <1>2, <1>7, <2>1 DEF Reported
<1>9. Placed'
  <2>1. ASSUME NEW q \in Live, Astray(q)', NEW w, w = home[q] PROVE Ahead("window", w)'
    <3>1. q # p
      BY <1>5, <1>6, <1>u, <2>1 DEF Astray
    <3>2. Astray(q)
      BY <1>5, <1>u, <2>1, <3>1 DEF Astray
    <3> QED
      BY <1>7, <2>1, <3>2 DEF Accounted, Placed
  <2>2. \A q \in Live' : Astray(q)' => \A w : w = home'[q] => Ahead("window", w)'
    BY <1>u, <2>1
  <2> QED
    BY <2>2 DEF Placed, Ahead, Waits, Taken
<1>10. Unmoved'
  <2>1. ASSUME NEW q \in DOMAIN snapshot', NEW w, w = snapshot'[q].win, w # home[q]
        PROVE  Ahead("window", w)' \/ (home[q] = "gone" /\ Ahead("resnapshot", "server")')
    <3>1. q # p
      BY <1>5, <1>6, <2>1
    <3>2. q \in DOMAIN snapshot /\ snapshot'[q] = snapshot[q]
      BY <1>5, <3>1
    <3> QED
      BY <1>7, <2>1, <3>2 DEF Accounted, Unmoved
  <2>2. ASSUME NEW q \in DOMAIN snapshot', snapshot'[q].win # home[q],
               ~ (home[q] = "gone" /\ Ahead("resnapshot", "server")')
        PROVE  Ahead("window", snapshot[q].win)'
    <3>1. \A w : w = snapshot'[q].win => Ahead("window", w)'
      BY <2>1, <2>2
    <3> QED
      BY <3>1 DEF Ahead, Waits, Taken
  <2> QED
    BY <1>u, <2>2 DEF Unmoved
<1>11. Named'
  <2>1. ASSUME NEW q \in DOMAIN snapshot', NEW s, s = snapshot'[q].sess, snapshot'[q].name # name[s]
        PROVE  Ahead("session", s)'
    <3>1. q # p
      BY <1>5, <1>6, <2>1
    <3>2. q \in DOMAIN snapshot /\ snapshot'[q] = snapshot[q]
      BY <1>5, <3>1
    <3> QED
      BY <1>7, <2>1, <3>2 DEF Accounted, Named
  <2>2. \A q \in DOMAIN snapshot' : snapshot'[q].name # name'[snapshot'[q].sess]
          => \A s : s = snapshot'[q].sess => Ahead("session", s)'
    BY <1>u, <2>1
  <2> QED
    BY <2>2 DEF Named, Ahead, Waits, Taken
<1>12. Entitled'
  <2>1. ASSUME NEW q \in Live, q \in DOMAIN snapshot', snapshot'[q].title # title[q]
        PROVE  q \in silent \/ Reported(q)'
    <3>1. CASE q = p
      <4>1. o # 0
        BY <1>6, <2>1, <3>1
      <4>2. p \in silent \/ Waits("pane", p)
        BY <1>3, <2>1, <3>1, <4>1 DEF Unreported
      <4> QED
        BY <1>7, <3>1, <4>2 DEF Reported
    <3>2. CASE q # p
      <4>1. q \in DOMAIN snapshot /\ snapshot'[q] = snapshot[q]
        BY <1>5, <2>1, <3>2
      <4>2. q \in silent \/ Reported(q)
        BY <2>1, <4>1 DEF Accounted, Entitled
      <4> QED
        BY <1>8, <3>2, <4>2
    <3> QED
      BY <3>1, <3>2
  <2> QED
    BY <1>u, <2>1 DEF Entitled
<1> QED
  BY <1>4, <1>9, <1>10, <1>11, <1>12 DEF Accounted

LEMMA FocusKeeps ==
  ASSUME BatchTypes, Accounted, Announced, FocusFull \/ \E p \in Panes : FocusSession(p),
         UNCHANGED <<tmux, silent>>, UNCHANGED <<home, silent>>
  PROVE  Accounted' /\ Announced' /\ Published'
<1>1. /\ phase \in {"focusSession", "focusFull"} /\ phase' \in {"focusFull", "idle"}
      /\ lines' = lines /\ batch' = batch
  BY DEF FocusFull, FocusSession, FocusDone
<1>2. Announced'
  BY <1>1, AnnouncedKept
<1>3. \A k, i : (Ahead(k, i) => Ahead(k, i)') /\ (Waits(k, i) => Waits(k, i)')
  BY <1>1 DEF Ahead, Waits
<1>4. \A but : StaysAhead(but)
  BY <1>1, <1>3 DEF StaysAhead, Reported
<1>5. \A pmap : FocusDone(pmap) => snapshot' = pmap /\ Published'
  BY PublishedSeqs DEF FocusDone, Published
<1>6. CASE FocusFull
  BY <1>2, <1>5, <1>6, FullListingAccounts DEF FocusFull
<1>7. ASSUME NEW p \in Panes, FocusSession(p) PROVE Accounted' /\ Published'
  <2> DEFINE s == snapshot[p].sess
             pmap == Rescoped("session", s)
  <2>1. \/ snapshot' = pmap /\ phase' = "focusFull"
        \/ FocusDone(pmap)
    BY <1>7 DEF FocusSession
  <2> HIDE DEF s
  <2>2. snapshot' = Rescoped("session", s) /\ Published'
    BY <1>5, <2>1 DEF Published
  <2> QED
    BY <1>4, <2>2, ScopeListingAccounts
<1> QED
  BY <1>2, <1>6, <1>7

LEMMA DaemonReports ==
  ASSUME BatchTypes, NothingUnreported, DaemonStep
  PROVE  NothingUnreported'
<1> SUFFICES ASSUME phase' # "ended" PROVE Accounted' /\ Announced' /\ Published'
  BY DEF NothingUnreported
<1>1. UNCHANGED <<tmux, silent>> /\ UNCHANGED <<home, silent>>
  BY LoopLeaves
<1>2. phase # "ended"
  BY DEF DaemonStep, TakeBatch, RefreshFull, ScopesDone, BatchDone, TakeFocus, FocusFull,
         ListingFails, RefreshScope, RefreshPane, FocusSession
<1>3. Accounted /\ Announced /\ Published
  BY <1>2 DEF NothingUnreported
<1>4. CASE TakeBatch
  BY <1>3, <1>4, TakeBatchKeeps DEF TakeBatch, Published
<1>5. CASE RefreshFull
  BY <1>1, <1>3, <1>5, RefreshFullKeeps DEF RefreshFull, Published
<1>6. ASSUME NEW kind \in {"session", "window"}, NEW id, RefreshScope(kind, id)
      PROVE  Accounted' /\ Announced' /\ Published'
  BY <1>1, <1>3, <1>6, RefreshScopeKeeps DEF RefreshScope, Published
<1>7. CASE ScopesDone
  BY <1>1, <1>3, <1>7, ScopesDoneKeeps DEF ScopesDone, Published
<1>8. ASSUME NEW item \in todo, RefreshPane(item[2], item[3])
      PROVE  Accounted' /\ Announced' /\ Published'
  <2>1. phase' = "panes"
    BY <1>8 DEF RefreshPane
  <2> QED
    BY <1>1, <1>3, <1>8, <2>1, RefreshPaneKeeps DEF Published
<1>9. CASE BatchDone
  <2>1. /\ phase = "panes" /\ todo = {} /\ phase' = "idle" /\ snapshot' = snapshot /\ lines' = lines
        /\ Publish(snapshot, byPane)
    BY <1>9 DEF BatchDone
  <2>2. \A k, i : (Ahead(k, i) => Ahead(k, i)') /\ (Waits(k, i) => Waits(k, i)')
    BY <2>1 DEF Ahead, Waits
  <2>3. StaysAhead(<<>>)
    BY <2>1, <2>2 DEF StaysAhead, Reported
  <2>4. Accounted'
    BY <1>1, <1>3, <2>1, <2>3, SnapshotKeptAccounts
  <2>5. Announced'
    BY <1>1, <1>3, <2>1, AnnouncedKept
  <2>6. Published'
    BY <2>1, PublishedSeqs DEF Published
  <2> QED
    BY <2>4, <2>5, <2>6
<1>10. CASE TakeFocus
  BY <1>3, <1>10, TakeFocusKeeps DEF TakeFocus, Published
<1>11. CASE FocusFull \/ \E p \in Panes : FocusSession(p)
  BY <1>1, <1>3, <1>11, FocusKeeps
<1>12. CASE ListingFails
  BY <1>12 DEF ListingFails
<1> QED
  BY <1>4, <1>5, <1>6, <1>7, <1>8, <1>9, <1>10, <1>11, <1>12 DEF DaemonStep

LEMMA NothingUnreportedKept ==
  BatchTypes /\ NothingUnreported /\ [Next]_vars => NothingUnreported'
<1> SUFFICES ASSUME BatchTypes, NothingUnreported, [Next]_vars PROVE NothingUnreported'
  OBVIOUS
<1>1. CASE UNCHANGED vars
  <2>1. UNCHANGED <<home, place, name, title, silent, lines, phase, batch, todo, snapshot, shown>>
    BY <1>1 DEF vars, tmux
  <2> QED
    BY <2>1
       DEF NothingUnreported, Accounted, Announced, Published, Placed, Unmoved, Named, Entitled,
                Astray, Ahead, Reported, Waits, Taken, Overtaken, Unreported, Live
<1> QED
  BY <1>1, TmuxReports, DaemonReports DEF Next

LEMMA NothingUnreportedInit == Init => NothingUnreported
<1> SUFFICES ASSUME Init PROVE NothingUnreported
  OBVIOUS
<1>1. BatchTypes
  BY TypesInit
<1>2. Live = Panes
  BY BatchAssumption DEF Init, Live
<1>3. DOMAIN snapshot = Panes /\ \A p \in Panes : snapshot[p] = Row(p)
  BY <1>1, <1>2, RowsAreTyped DEF Init
<1>4. \A p \in Live : /\ Row(p).win = home[p] /\ Row(p).sess = place[home[p]]
                      /\ Row(p).name = name[place[home[p]]] /\ Row(p).title = title[p]
  BY DEF Row, Titled
<1>5. Accounted
  BY <1>2, <1>3, <1>4 DEF Accounted, Placed, Unmoved, Named, Entitled, Astray
<1>6. Announced
  BY DEF Init, Announced
<1>7. Published
  BY <1>3 DEF Init, Published
<1> QED
  BY <1>5, <1>6, <1>7 DEF NothingUnreported

\* When tmux has told all and apply_control_event_batch has applied it, the
\* published rows are what tmux would list, whatever changed between the listings
\* of a batch, and whichever of them had to fall back to a full one.
THEOREM RowsBecomeCurrent == Spec => []QuietIsCurrent
<1>1. BatchTypes /\ NothingUnreported => QuietIsCurrent
  <2> SUFFICES ASSUME BatchTypes, NothingUnreported, phase = "idle", lines = <<>>, silent = {}
               PROVE  DOMAIN shown = Live /\ \A p \in Live : shown[p].row = Row(p)
    BY DEF QuietIsCurrent, Quiet
  <2>1. Accounted /\ Published
    BY DEF NothingUnreported
  <2>2. \A k, i : ~Ahead(k, i)
    BY DEF Ahead, Waits
  <2>3. \A p : ~Reported(p)
    BY DEF Reported, Waits
  <2>4. \A p \in Live : ~Astray(p)
    BY <2>1, <2>2 DEF Accounted, Placed
  <2>5. \A p \in DOMAIN snapshot :
           p \in Panes /\ snapshot[p] \in PaneRows /\ snapshot[p].win = home[p]
    BY <2>1, <2>2 DEF Accounted, Unmoved, BatchTypes
  <2>6. DOMAIN snapshot = Live
    <3>1. \A p \in DOMAIN snapshot : home[p] # "gone"
      BY <2>5, BatchAssumption DEF PaneRows
    <3> QED
      BY <2>4, <2>5, <3>1 DEF Live, Astray
  <2>7. \A p \in Live : /\ snapshot[p].win = home[p] /\ snapshot[p].sess = place[home[p]]
                        /\ snapshot[p].title = title[p]
    BY <2>1, <2>3, <2>4, <2>6 DEF Astray, Accounted, Entitled
  <2>8. \A p \in Live : snapshot[p].name = name[place[home[p]]]
    BY <2>1, <2>2, <2>6, <2>7 DEF Accounted, Named
  <2>9. \A p \in Live : snapshot[p] = Row(p)
    BY <2>5, <2>6, <2>7, <2>8 DEF Row, Titled, PaneRows
  <2> QED
    BY <2>1, <2>6, <2>9 DEF Published
<1> QED
  BY <1>1, NothingUnreportedInit, NothingUnreportedKept, BatchTypesHold, PTL DEF Spec

-----------------------------------------------------------------------------
(* A batch honours its events                                                *)

\* An event proves no title that its pane does not have yet, and a title was
\* announced after all that the events before it prove.
Attests(events) ==
  /\ \A i \in DOMAIN events, p \in Panes : events[i].proves[p] <= title[p]
  /\ \A i, k \in DOMAIN events : i <= k /\ events[k].kind = "title"
       => events[i].proves[events[k].id] <= events[k].title
  /\ \A i \in DOMAIN events : events[i].kind = "activity" /\ events[i].id \notin Candidates
       => events[i].proves[events[i].id] = 0
EventsAttest == Attests(lines) /\ Attests(batch)

\* A row that was listed again has at least the titles that the batch proves.  Each
\* row that is not will be, if an event of the batch is about it: by the listing of
\* its scope at first, then by that of its pane, unless it is where it was when its
\* title was announced and no later event says more.
Counted(p) == \A i \in DOMAIN batch : batch[i].proves[p] <= snapshot[p].title
About(e, p) == e.kind \in {"session", "window"} /\ InScope(e.kind, e.id, snapshot[p])
ScopesRead ==
  phase = "scopes" =>
    /\ Taken("resnapshot", "server") => \A p \in DOMAIN snapshot : Counted(p)
    /\ \A p \in DOMAIN snapshot, i \in DOMAIN batch :
          About(batch[i], p) => Counted(p) \/ <<batch[i].kind, batch[i].id, 0>> \in todo
    /\ \A p \in DOMAIN snapshot : Taken("title", p)
          => Counted(p) \/ (p \in DOMAIN scopesBefore
                         /\ scopesBefore[p] = <<snapshot[p].sess, snapshot[p].win>>)
PanesRead ==
  phase = "panes" =>
    /\ \A item, other \in todo : item[2] = other[2] => item = other
    /\ \A item \in todo : item[2] \in DOMAIN snapshot /\ item[3] # 0
          => \A i \in DOMAIN batch :
               Concerns(batch[i], item[2]) => batch[i].proves[item[2]] <= item[3]
    /\ \A p \in DOMAIN snapshot, i \in DOMAIN batch : Concerns(batch[i], p)
          => \/ batch[i].proves[p] <= snapshot[p].title
             \/ Waits("window", snapshot[p].win)
             \/ \E item \in todo : item[2] = p
BatchIsRead == ScopesRead /\ PanesRead

LEMMA AttestsKept == BatchTypes /\ EventsAttest /\ [Next]_vars => EventsAttest'
<1> SUFFICES ASSUME BatchTypes, EventsAttest, [Next]_vars PROVE EventsAttest'
  OBVIOUS
<1>t. \A p \in Panes : title[p] \in Nat
  BY DEF BatchTypes
<1>e. \A e \in Events : /\ \A p \in Panes : e.proves[p] \in Nat
                        /\ e.kind = "title" => e.id \in Panes
                        /\ e.title \in Nat
  BY DEF Events, PaneKinds
<1>l. /\ Len(lines) \in Nat
      /\ DOMAIN lines = 1..Len(lines) /\ \A i \in DOMAIN lines : lines[i] \in Events
      /\ Len(batch) \in Nat
      /\ DOMAIN batch = 1..Len(batch) /\ \A i \in DOMAIN batch : batch[i] \in Events
  BY LenProperties, ElementOfSeq DEF BatchTypes
<1>1. CASE TmuxStep \/ \E p \in Panes : Focus(p)
  <2>1. PICK events \in Seq(Attested(title')) : lines' = lines \o events
    BY <1>1, TmuxOnlyAdds
  <2>2. batch' = batch /\ title' \in [Panes -> Nat \ {0}]
    BY <1>1, TmuxOnlyAdds DEF Untouched
  <2>3. \A p \in Panes : title[p] <= title'[p]
    <3>1. title \in [Panes -> Nat \ {0}]
      BY DEF BatchTypes
    <3>2. \A p, q \in Panes : title[p] <= [title EXCEPT ![q] = @ + 1][p]
      BY <1>t, <3>1
    <3>3. title' = title \/ (\E q \in Panes : title' = [title EXCEPT ![q] = @ + 1])
      BY <1>1 DEF TmuxStep, Focus, Announce, SetTitle, Report, Output, MovePane, ClosePane,
                  MoveWindow, RenameSession, KillSession, tmux
    <3>4. CASE title' = title
      BY <1>t, <3>4
    <3>5. ASSUME NEW q \in Panes, title' = [title EXCEPT ![q] = @ + 1]
          PROVE  \A p \in Panes : title[p] <= title'[p]
      BY <3>2, <3>5
    <3> QED
      BY <3>3, <3>4, <3>5
  <2>a. /\ \A i \in DOMAIN lines : i \in DOMAIN lines' /\ lines'[i] = lines[i]
        /\ \A i \in DOMAIN lines' : i \in DOMAIN lines \/ i - Len(lines) \in DOMAIN events
        /\ \A j \in DOMAIN events : lines'[Len(lines) + j] = events[j]
        /\ DOMAIN lines' = 1..(Len(lines) + Len(events)) /\ DOMAIN events = 1..Len(events)
        /\ Len(events) \in Nat
    BY <2>1, Appended
  <2>4. \A j \in DOMAIN events : events[j] \in Attested(title')
    BY <2>1, <2>a, ElementOfSeq
  <2>5. \A i \in DOMAIN lines' : \/ i \in DOMAIN lines /\ lines'[i] = lines[i]
                                 \/ i \notin DOMAIN lines /\ lines'[i] \in Attested(title')
    <3> TAKE i \in DOMAIN lines'
    <3>1. CASE i \notin DOMAIN lines
      <4> DEFINE j == i - Len(lines)
      <4>1. j \in DOMAIN events /\ Len(lines) + j = i
        BY <1>l, <2>a, <3>1
      <4> HIDE DEF j
      <4> QED
        BY <2>4, <2>a, <3>1, <4>1
    <3>2. CASE i \in DOMAIN lines
      <4>1. lines'[i] = lines[i]
        BY <2>a, <3>2
      <4> QED
        BY <3>2, <4>1
    <3> QED
      BY <3>1, <3>2
  <2>6. \A i \in DOMAIN lines' : lines'[i] \in Events
    BY <1>l, <2>5 DEF Attested
  <2>7. ASSUME NEW i \in DOMAIN lines', NEW p \in Panes PROVE lines'[i].proves[p] <= title'[p]
    <3>1. CASE i \in DOMAIN lines /\ lines'[i] = lines[i]
      <4>1. lines[i].proves[p] <= title[p] /\ lines[i].proves[p] \in Nat
        BY <1>e, <1>l, <3>1 DEF EventsAttest, Attests
      <4> QED
        BY <1>t, <2>2, <2>3, <3>1, <4>1
    <3>2. CASE lines'[i] \in Attested(title')
      BY <3>2 DEF Attested
    <3> QED
      BY <2>5, <3>1, <3>2
  <2>8. ASSUME NEW i \in DOMAIN lines', NEW k \in DOMAIN lines', i <= k, lines'[k].kind = "title"
        PROVE  lines'[i].proves[lines'[k].id] <= lines'[k].title
    <3>1. CASE k \in DOMAIN lines /\ lines'[k] = lines[k]
      <4>1. i \in DOMAIN lines /\ lines'[i] = lines[i]
        BY <1>l, <2>8, <2>a, <3>1
      <4> QED
        BY <2>8, <3>1, <4>1 DEF EventsAttest, Attests
    <3>2. CASE lines'[k] \in Attested(title')
      <4>1. lines'[k].id \in Panes /\ lines'[k].title = title'[lines'[k].id]
        BY <1>e, <2>6, <2>8, <3>2 DEF Attested
      <4> QED
        BY <2>7, <4>1
    <3> QED
      BY <2>5, <3>1, <3>2
  <2>9. ASSUME NEW i \in DOMAIN lines', lines'[i].kind = "activity", lines'[i].id \notin Candidates
        PROVE  lines'[i].proves[lines'[i].id] = 0
    BY <2>5, <2>9 DEF EventsAttest, Attests, Attested
  <2>10. Attests(lines)'
    BY <2>7, <2>8, <2>9 DEF Attests
  <2>11. ASSUME NEW i \in DOMAIN batch, NEW p \in Panes PROVE batch[i].proves[p] <= title'[p]
    <3>1. batch[i].proves[p] <= title[p] /\ batch[i].proves[p] \in Nat
      BY <1>e, <1>l DEF EventsAttest, Attests
    <3> QED
      BY <1>t, <2>2, <2>3, <3>1
  <2>12. Attests(batch)'
    BY <2>2, <2>11 DEF EventsAttest, Attests
  <2> QED
    BY <2>10, <2>12 DEF EventsAttest
<1>2. CASE UNCHANGED vars
  BY <1>2 DEF vars, tmux, EventsAttest, Attests
<1>3. CASE TakeBatch
  <2>1. PICK n \in 1..Len(lines) : /\ batch' = SubSeq(lines, 1, n)
                                   /\ lines' = SubSeq(lines, n + 1, Len(lines))
    BY <1>3 DEF TakeBatch
  <2>2. title' = title
    BY <1>3 DEF TakeBatch, tmux
  <2>3. /\ DOMAIN batch' = 1..n /\ \A i \in 1..n : batch'[i] = lines[i] /\ i \in DOMAIN lines
    <3>1. /\ batch' \in Seq(Events) /\ Len(batch') = n /\ \A i \in 1..n : batch'[i] = lines[i]
      <4>1. \A i \in 1..n : lines[i] \in Events
        BY <1>l
      <4> QED
        BY <1>l, <2>1, <4>1, SubSeqProperties
    <3> QED
      BY <1>l, <3>1, LenProperties
  <2>4. \A i \in DOMAIN lines' : n + i \in DOMAIN lines /\ lines'[i] = lines[n + i] /\ i \in Int
    <3>1. \A i \in (n + 1)..Len(lines) : lines[i] \in Events
      BY <1>l
    <3>2. /\ lines' \in Seq(Events)
          /\ Len(lines') = IF n + 1 <= Len(lines) THEN Len(lines) - (n + 1) + 1 ELSE 0
          /\ \A i \in 1..(Len(lines) - (n + 1) + 1) : lines'[i] = lines[(n + 1) + i - 1]
      BY <1>l, <2>1, <3>1, SubSeqProperties
    <3>3. Len(lines) - (n + 1) + 1 = Len(lines) - n /\ (n + 1 <= Len(lines) \/ Len(lines) - n = 0)
      <4>1. n \in 1..Len(lines) /\ Len(lines) \in Nat
        BY <1>l, <2>1
      <4> QED
        BY <4>1
    <3>4. \A i \in 1..(Len(lines) - n) :
             (n + 1) + i - 1 = n + i /\ n + i \in 1..Len(lines) /\ i \in Int
      BY <1>l, <2>1
    <3>5. Len(lines') = Len(lines) - n /\ DOMAIN lines' = 1..Len(lines')
      BY <3>2, <3>3, LenProperties
    <3> QED
      BY <1>l, <3>2, <3>3, <3>4, <3>5
  <2>5. Attests(batch)'
    BY <2>2, <2>3 DEF EventsAttest, Attests
  <2>6. \A i, k \in DOMAIN lines' : i <= k => n + i <= n + k
    BY <2>1, <2>4
  <2>7. Attests(lines)'
    BY <2>2, <2>4, <2>6 DEF EventsAttest, Attests
  <2> QED
    BY <2>5, <2>7 DEF EventsAttest
<1>4. CASE TakeFocus
  <2>1. /\ lines # <<>> /\ lines' = Tail(lines) /\ batch' = batch /\ title' = title
    BY <1>4 DEF TakeFocus, tmux
  <2>2. /\ DOMAIN lines' = 1..(Len(lines) - 1)
        /\ \A i \in 1..(Len(lines) - 1) : lines'[i] = lines[i + 1]
    BY <2>1, LenProperties, HeadTailProperties DEF BatchTypes
  <2>3. \A i \in DOMAIN lines' : i + 1 \in DOMAIN lines /\ lines'[i] = lines[i + 1] /\ i \in Int
    BY <1>l, <2>2
  <2>4. \A i, k \in DOMAIN lines' : i <= k => i + 1 <= k + 1
    BY <2>3
  <2>5. Attests(lines)'
    BY <2>1, <2>3, <2>4 DEF EventsAttest, Attests
  <2> QED
    BY <2>1, <2>5 DEF EventsAttest, Attests
<1>5. CASE BatchDone
  BY <1>5 DEF BatchDone, Loop, tmux, EventsAttest, Attests
<1>6. CASE DaemonStep /\ ~TakeBatch /\ ~TakeFocus /\ ~BatchDone
  <2>1. lines' = lines /\ batch' = batch /\ title' = title
    BY <1>6, LoopLeaves
       DEF DaemonStep, RefreshFull, ScopesDone, FocusFull, ListingFails, RefreshScope,
                            RefreshPane, FocusSession, tmux
  <2> QED
    BY <2>1 DEF EventsAttest, Attests
<1> QED
  BY <1>1, <1>2, <1>3, <1>4, <1>5, <1>6 DEF Next

\* A listing made now reads as much as any event of the batch can prove.
LEMMA FreshIsRead ==
  ASSUME BatchTypes, EventsAttest, batch' = batch, NEW p \in Panes, snapshot'[p].title = title[p]
  PROVE  Counted(p)'
  BY DEF Counted, EventsAttest, Attests

LEMMA RowSays ==
  ASSUME NEW p
  PROVE  /\ Row(p).win = home[p] /\ Row(p).sess = place[home[p]] /\ Row(p).title = title[p]
         /\ \A t : /\ Titled(p, t).win = home[p] /\ Titled(p, t).sess = place[home[p]]
                   /\ Titled(p, t).title = t
  BY DEF Row, Titled

LEMMA FullIsRead ==
  ASSUME BatchTypes, EventsAttest, batch' = batch, snapshot' = Rows(Panes)
  PROVE  \A p \in DOMAIN snapshot' : Counted(p)'
<1>1. \A p \in DOMAIN snapshot' : p \in Panes /\ snapshot'[p] = Row(p)
  BY RowsAreTyped DEF Live
<1>2. \A p \in DOMAIN snapshot' : p \in Panes /\ snapshot'[p].title = title[p]
  BY <1>1, RowSays
<1> QED
  BY <1>2, FreshIsRead

LEMMA RefreshFullReads ==
  ASSUME BatchTypes, EventsAttest, RefreshFull
  PROVE  ScopesRead'
<1>1. /\ phase' = "scopes" /\ batch' = batch /\ todo' = PendingScopes
      /\ scopesBefore' = PaneScopes(snapshot)
      /\ Resnapshot > 0 => snapshot' = Rows(Panes)
      /\ ~(Resnapshot > 0) => snapshot' = snapshot
  BY DEF RefreshFull
<1>2. CASE Resnapshot > 0
  <2>1. \A p \in DOMAIN snapshot' : Counted(p)'
    BY <1>1, <1>2, FullIsRead
  <2> QED
    BY <1>1, <2>1 DEF ScopesRead
<1>3. CASE ~(Resnapshot > 0)
  <2>1. ~Taken("resnapshot", "server") /\ Resnapshot = 0
    BY <1>3, SequenceOfIs DEF Resnapshot
  <2>2. \A i \in DOMAIN batch : batch[i].kind \in {"session", "window"}
          => <<batch[i].kind, batch[i].id, 0>> \in PendingScopes
    <3> TAKE i \in DOMAIN batch
    <3>1. batch[i] \in Events
      BY LenProperties, ElementOfSeq DEF BatchTypes
    <3>2. Taken(batch[i].kind, batch[i].id)
      BY DEF Taken
    <3>3. SequenceOf(batch[i].kind, batch[i].id) > Resnapshot
      BY <2>1, <3>2, SequenceOfIs
    <3> QED
      BY <3>1, <3>3 DEF PendingScopes, Events
  <2>3. \A p \in DOMAIN snapshot : Taken("title", p)
          => p \in DOMAIN PaneScopes(snapshot)
             /\ PaneScopes(snapshot)[p] = <<snapshot[p].sess, snapshot[p].win>>
    BY SequenceOfIs DEF PaneScopes, Among
  <2>4. snapshot' = snapshot
    BY <1>1, <1>3
  <2>5. \A p \in DOMAIN snapshot', i \in DOMAIN batch' :
          About(batch[i], p)' => <<batch'[i].kind, batch'[i].id, 0>> \in todo'
    BY <1>1, <2>2 DEF About
  <2>6. \A k, i : Taken(k, i)' <=> Taken(k, i)
    BY <1>1 DEF Taken
  <2> QED
    BY <1>1, <2>1, <2>3, <2>4, <2>5, <2>6 DEF ScopesRead
<1> QED
  BY <1>2, <1>3

LEMMA RefreshScopeReads ==
  ASSUME BatchTypes, EventsAttest, ScopesRead, NEW kind \in {"session", "window"}, NEW id,
         RefreshScope(kind, id)
  PROVE  ScopesRead'
<1>1. /\ phase = "scopes" /\ phase' = "scopes" /\ todo' = todo \ {<<kind, id, 0>>}
      /\ batch' = batch /\ scopesBefore' = scopesBefore
      /\ snapshot' = Rescoped(kind, id) \/ snapshot' = Rows(Panes)
  BY DEF RefreshScope
<1>2. \A k, i : Taken(k, i)' <=> Taken(k, i)
  BY <1>1 DEF Taken
<1>3. CASE snapshot' = Rows(Panes)
  <2>1. \A p \in DOMAIN snapshot' : Counted(p)'
    BY <1>1, <1>3, FullIsRead
  <2> QED
    BY <1>1, <2>1 DEF ScopesRead
<1>4. CASE snapshot' = Rescoped(kind, id)
  <2> DEFINE found == IF kind = "window" THEN InWindow(id) ELSE InSession(id)
  <2>1. /\ DOMAIN snapshot' = found \cup {p \in DOMAIN snapshot : ~InScope(kind, id, snapshot[p])}
        /\ \A p \in found : snapshot'[p] = Row(p)
        /\ \A p \in DOMAIN snapshot' : p \notin found => snapshot'[p] = snapshot[p]
    BY <1>4, RescopedFacts
  <2>2. found \subseteq Panes
    BY DEF InWindow, InSession, Live
  <2> HIDE DEF found
  <2>3. \A p \in found : Counted(p)'
    BY <1>1, <2>1, <2>2, FreshIsRead, RowSays
  <2>4. \A p \in DOMAIN snapshot' : p \notin found
          => /\ p \in DOMAIN snapshot /\ snapshot'[p] = snapshot[p]
             /\ ~InScope(kind, id, snapshot[p])
             /\ Counted(p) => Counted(p)'
    BY <1>1, <2>1 DEF Counted
  <2>5. ASSUME Taken("resnapshot", "server")', NEW p \in DOMAIN snapshot' PROVE Counted(p)'
    BY <1>1, <1>2, <2>3, <2>4, <2>5 DEF ScopesRead
  <2>6. ASSUME NEW p \in DOMAIN snapshot', NEW i \in DOMAIN batch, About(batch[i], p)'
        PROVE  Counted(p)' \/ <<batch[i].kind, batch[i].id, 0>> \in todo'
    <3>1. CASE p \in found
      BY <2>3, <3>1
    <3>2. CASE p \notin found
      <4>1. About(batch[i], p)
        BY <1>1, <2>4, <2>6, <3>2 DEF About
      <4>2. Counted(p) \/ <<batch[i].kind, batch[i].id, 0>> \in todo
        BY <1>1, <2>4, <3>2, <4>1 DEF ScopesRead
      <4>3. <<batch[i].kind, batch[i].id, 0>> # <<kind, id, 0>>
        BY <2>4, <3>2, <4>1 DEF About
      <4> QED
        BY <1>1, <2>4, <3>2, <4>2, <4>3
    <3> QED
      BY <3>1, <3>2
  <2>7. ASSUME NEW p \in DOMAIN snapshot', Taken("title", p)'
        PROVE  Counted(p)' \/ (p \in DOMAIN scopesBefore
                             /\ scopesBefore[p] = <<snapshot'[p].sess, snapshot'[p].win>>)
    <3>1. CASE p \in found
      BY <2>3, <3>1
    <3>2. CASE p \notin found
      BY <1>1, <1>2, <2>4, <2>7, <3>2 DEF ScopesRead
    <3> QED
      BY <3>1, <3>2
  <2> QED
    BY <1>1, <2>5, <2>6, <2>7 DEF ScopesRead
<1> QED
  BY <1>1, <1>3, <1>4

LEMMA ScopeSequenceIs ==
  ASSUME BatchTypes, NEW scopes, NEW p, NEW s, NEW w, p \in DOMAIN scopes, scopes[p] = <<s, w>>
  PROVE  /\ ScopeSequence(scopes, p) \in {SequenceOf("session", s), SequenceOf("window", w)}
         /\ SequenceOf("session", s) <= ScopeSequence(scopes, p)
         /\ SequenceOf("window", w) <= ScopeSequence(scopes, p)
<1>1. SequenceOf("session", s) \in Nat /\ SequenceOf("window", w) \in Nat
  BY SequenceOfIs
<1>2. ScopeSequence(scopes, p) = Max({SequenceOf("session", s), SequenceOf("window", w)})
  BY DEF ScopeSequence
<1> QED
  BY <1>1, <1>2, MaxOfFew

\* An event about the scope that a pane is listed in was answered by its listing.
LEMMA ScopeEventsAreRead ==
  ASSUME BatchTypes, ScopesRead, phase = "scopes", todo = {}, NEW p \in DOMAIN snapshot,
         SequenceOf("session", snapshot[p].sess) > 0 \/ SequenceOf("window", snapshot[p].win) > 0
  PROVE  Counted(p)
<1>1. \E i \in DOMAIN batch : About(batch[i], p)
  BY SequenceOfIs DEF About, InScope
<1> QED
  BY <1>1 DEF ScopesRead

\* No title is laid over a row, though one was announced, that does not have what
\* overtook it.
LEMMA NotLaidOver ==
  ASSUME BatchTypes, ScopesRead, phase = "scopes", todo = {}, NEW p \in DOMAIN snapshot,
         NEW active,
         TitleOverride(p, PaneScopes(snapshot), active) = 0, Taken("title", p),
         batch[SequenceOf("title", p)].title # 0
  PROVE  Counted(p) \/ Taken("pane", p) \/ (active /\ Taken("activity", p))
<1> DEFINE k == SequenceOf("title", p)
           a == IF active THEN SequenceOf("activity", p) ELSE 0
           after == PaneScopes(snapshot)
           latest == Max({Resnapshot, SequenceOf("pane", p), a,
                          ScopeSequence(scopesBefore, p), ScopeSequence(after, p)})
<1>1. /\ Resnapshot \in Nat /\ SequenceOf("pane", p) \in Nat /\ a \in Nat /\ k \in Nat /\ k > 0
  BY SequenceOfIs DEF Resnapshot
<1>2. \A sc : ScopeSequence(sc, p) \in Nat
  BY SequenceOfIs, MaxOfFew DEF ScopeSequence
<1>3. latest \in Nat /\ latest \in {Resnapshot, SequenceOf("pane", p), a,
                                    ScopeSequence(scopesBefore, p), ScopeSequence(after, p)}
  BY <1>1, <1>2, MaxOfFew
<1>4. TitleOverride(p, after, active) = IF k > latest THEN batch[k].title ELSE 0
  BY DEF TitleOverride
<1> HIDE DEF latest
<1>5. latest > 0
  BY <1>1, <1>3, <1>4
<1> HIDE DEF k
<1>6. CASE latest = Resnapshot
  BY <1>5, <1>6, SequenceOfIs DEF Resnapshot, ScopesRead
<1>7. CASE latest = SequenceOf("pane", p)
  BY <1>5, <1>7, SequenceOfIs
<1>8. CASE latest = a
  BY <1>5, <1>8, SequenceOfIs
<1>9. CASE latest = ScopeSequence(scopesBefore, p)
  <2>1. p \in DOMAIN scopesBefore
    BY <1>5, <1>9 DEF ScopeSequence
  <2>2. CASE scopesBefore[p] = <<snapshot[p].sess, snapshot[p].win>>
    BY <1>5, <1>9, <2>1, <2>2, ScopeSequenceIs, ScopeEventsAreRead
  <2> QED
    BY <2>2 DEF ScopesRead
<1>10. CASE latest = ScopeSequence(after, p)
  <2>1. p \in DOMAIN after /\ after[p] = <<snapshot[p].sess, snapshot[p].win>>
    BY SequenceOfIs DEF PaneScopes, Among
  <2> HIDE DEF after
  <2> QED
    BY <1>5, <1>10, <2>1, ScopeSequenceIs, ScopeEventsAreRead
<1> QED
  BY <1>3, <1>6, <1>7, <1>8, <1>9, <1>10

LEMMA ScopesDoneReads ==
  ASSUME BatchTypes, EventsAttest, ScopesRead, ScopesDone
  PROVE  PanesRead'
<1> DEFINE active == Among("activity", Candidates \cap DOMAIN snapshot)
           after == PaneScopes(snapshot)
           over(p) == TitleOverride(p, after, p \in active)
           panes == Among("pane", Panes) \cup active
<1>1. /\ phase = "scopes" /\ phase' = "panes" /\ todo = {} /\ lines' = lines /\ batch' = batch
      /\ snapshot' = snapshot
      /\ todo' = {<<"pane", p, over(p)>> : p \in panes \cup {p \in Panes : over(p) > 0}}
  BY DEF ScopesDone
<1>2. \A p \in Panes : Taken("pane", p) => p \in panes
  BY SequenceOfIs DEF Among
<1>3. \A p \in Candidates \cap DOMAIN snapshot : Taken("activity", p) => p \in active /\ p \in panes
  BY SequenceOfIs DEF Among
<1>4. \A p : over(p) \in Nat
  BY TodoIsTyped
<1>b. /\ DOMAIN batch = 1..Len(batch)
      /\ Len(batch) \in Nat /\ \A i \in DOMAIN batch : batch[i] \in Events
      /\ \A p \in DOMAIN snapshot : p \in Panes /\ snapshot[p].title \in Nat
  BY LenProperties, ElementOfSeq DEF BatchTypes, PaneRows
<1>5. ASSUME NEW p \in DOMAIN snapshot, over(p) # 0, NEW i \in DOMAIN batch, Concerns(batch[i], p)
      PROVE  batch[i].proves[p] <= over(p)
  <2> DEFINE k == SequenceOf("title", p)
  <2>1. /\ k \in DOMAIN batch
        /\ batch[k].kind = "title" /\ batch[k].id = p /\ over(p) = batch[k].title
        /\ k > Resnapshot /\ k > SequenceOf("pane", p) /\ k > ScopeSequence(after, p)
        /\ p \in active => k > SequenceOf("activity", p)
        /\ k \in Nat /\ Resnapshot \in Nat /\ SequenceOf("pane", p) \in Nat
        /\ SequenceOf("activity", p) \in Nat /\ ScopeSequence(after, p) \in Nat
    <3> DEFINE act == p \in active
    <3>1. TitleOverride(p, after, act) # 0
      BY <1>5
    <3> HIDE DEF act
    <3>2. /\ k \in DOMAIN batch /\ batch[k].kind = "title" /\ batch[k].id = p
          /\ TitleOverride(p, after, act) = batch[k].title
          /\ k > Resnapshot /\ k > SequenceOf("pane", p) /\ k > ScopeSequence(after, p)
          /\ act => k > SequenceOf("activity", p)
          /\ k \in Nat /\ Resnapshot \in Nat /\ SequenceOf("pane", p) \in Nat
          /\ SequenceOf("activity", p) \in Nat /\ ScopeSequence(after, p) \in Nat
      BY <3>1, OverrideIsAnnounced
    <3> QED
      BY <3>2 DEF act
  <2>2. p \in DOMAIN after /\ after[p] = <<snapshot[p].sess, snapshot[p].win>>
    <3>1. k > 0
      BY <2>1
    <3> QED
      BY <3>1 DEF PaneScopes, Among
  <2>3. /\ SequenceOf("session", snapshot[p].sess) <= ScopeSequence(after, p)
        /\ SequenceOf("window", snapshot[p].win) <= ScopeSequence(after, p)
        /\ SequenceOf("session", snapshot[p].sess) \in Nat
        /\ SequenceOf("window", snapshot[p].win) \in Nat
    <3> HIDE DEF after
    <3> QED
      BY <2>2, ScopeSequenceIs, SequenceOfIs
  <2>4. i \in Nat /\ i <= SequenceOf(batch[i].kind, batch[i].id)
    BY <1>b, SequenceOfIs
  <2>5. i <= k => batch[i].proves[p] <= over(p)
    <3> HIDE DEF k, over
    <3> QED
      BY <2>1 DEF EventsAttest, Attests
  <2> HIDE DEF k, over, active, after
  <2>6. CASE batch[i].kind = "resnapshot"
    <3>1. batch[i].id = "server"
      BY <1>b, <2>6 DEF Events
    <3> QED
      BY <2>1, <2>4, <2>5, <2>6, <3>1 DEF Resnapshot
  <2>7. CASE batch[i].kind = "pane" /\ batch[i].id = p
    BY <2>1, <2>4, <2>5, <2>7
  <2>8. CASE batch[i].kind = "title" /\ batch[i].id = p
    <3>1. i <= k
      BY <2>4, <2>8 DEF k
    <3> QED
      BY <2>5, <3>1
  <2>9. CASE batch[i].kind = "activity" /\ batch[i].id = p
    <3>1. CASE p \in Candidates
      <4>1. Taken("activity", p)
        BY <2>9 DEF Taken
      <4>2. p \in active
        BY <1>3, <3>1, <4>1
      <4> QED
        BY <2>1, <2>4, <2>5, <2>9, <4>2
    <3>2. CASE p \notin Candidates
      <4>1. batch[i].proves[p] = 0
        BY <2>9, <3>2 DEF EventsAttest, Attests
      <4> QED
        BY <1>4, <4>1
    <3> QED
      BY <3>1, <3>2
  <2>10. CASE batch[i].kind = "session" /\ batch[i].id = snapshot[p].sess
    BY <2>1, <2>3, <2>4, <2>5, <2>10
  <2>11. CASE batch[i].kind = "window" /\ batch[i].id = snapshot[p].win
    BY <2>1, <2>3, <2>4, <2>5, <2>11
  <2> QED
    BY <1>5, <2>6, <2>7, <2>8, <2>9, <2>10, <2>11 DEF Concerns, InScope
<1>6. ASSUME NEW p \in DOMAIN snapshot, NEW i \in DOMAIN batch, Concerns(batch[i], p),
             p \notin panes, over(p) = 0
      PROVE  batch[i].proves[p] <= snapshot[p].title
  <2>1. ~Taken("pane", p) /\ ~(p \in active /\ Taken("activity", p))
    BY <1>2, <1>6, <1>b
  <2>2. Counted(p) => batch[i].proves[p] <= snapshot[p].title
    BY DEF Counted
  <2>3. batch[i].proves[p] \in Nat
    BY <1>b DEF Events
  <2>4. CASE batch[i].kind = "resnapshot"
    <3>1. Taken("resnapshot", "server")
      BY <1>b, <2>4 DEF Events, Taken
    <3> QED
      BY <1>1, <2>2, <3>1 DEF ScopesRead
  <2>5. CASE batch[i].kind = "pane" /\ batch[i].id = p
    BY <2>1, <2>5 DEF Taken
  <2>6. CASE batch[i].kind = "activity" /\ batch[i].id = p
    <3>1. Taken("activity", p)
      BY <2>6 DEF Taken
    <3>2. p \notin Candidates
      BY <1>3, <1>6, <3>1
    <3>3. batch[i].proves[p] = 0
      BY <2>6, <3>2 DEF EventsAttest, Attests
    <3> QED
      BY <1>b, <3>3
  <2>7. CASE batch[i].kind = "title" /\ batch[i].id = p
    <3> DEFINE k == SequenceOf("title", p)
    <3>1. Taken("title", p)
      BY <2>7 DEF Taken
    <3>2. i <= k /\ k \in DOMAIN batch /\ batch[k].kind = "title" /\ batch[k].id = p
      BY <2>7, <3>1, SequenceOfIs
    <3>3. CASE batch[k].title = 0
      <4> HIDE DEF k
      <4>1. batch[i].proves[p] <= 0
        BY <3>2, <3>3 DEF EventsAttest, Attests
      <4> QED
        BY <1>b, <2>3, <4>1
    <3>4. CASE batch[k].title # 0
      <4> DEFINE act == p \in active
      <4>1. TitleOverride(p, after, act) = 0
        BY <1>6
      <4> HIDE DEF act
      <4>2. Counted(p) \/ Taken("pane", p) \/ (act /\ Taken("activity", p))
        BY <1>1, <3>1, <3>4, <4>1, NotLaidOver
      <4> QED
        BY <2>1, <2>2, <4>2 DEF act
    <3> QED
      BY <3>3, <3>4
  <2>8. CASE About(batch[i], p)
    BY <1>1, <2>2, <2>8 DEF ScopesRead
  <2> QED
    BY <1>6, <2>4, <2>5, <2>6, <2>7, <2>8 DEF Concerns, About
<1> HIDE DEF over, panes, active, after
<1>7. \A p \in Panes : p \in panes \/ over(p) # 0 => \E item \in todo' : item[2] = p
  <2> TAKE p \in Panes
  <2> HAVE p \in panes \/ over(p) # 0
  <2> DEFINE item == <<"pane", p, over(p)>>
  <2>1. item \in todo'
    BY <1>1, <1>4
  <2>2. item[2] = p
    OBVIOUS
  <2> HIDE DEF item
  <2> QED
    BY <2>1, <2>2
<1>8. \A item \in todo' : item = <<"pane", item[2], over(item[2])>> /\ item[3] = over(item[2])
  BY <1>1
<1>9. \A item, other \in todo' : item[2] = other[2] => item = other
  BY <1>8
<1>10. \A p, i : Concerns(batch[i], p)' <=> Concerns(batch[i], p)
  BY <1>1 DEF Concerns, InScope
<1>11. ASSUME NEW item \in todo', item[2] \in DOMAIN snapshot, item[3] # 0, NEW i \in DOMAIN batch,
              Concerns(batch[i], item[2])
       PROVE  batch[i].proves[item[2]] <= item[3]
  BY <1>5, <1>8, <1>11
<1>12. ASSUME NEW p \in DOMAIN snapshot, NEW i \in DOMAIN batch, Concerns(batch[i], p)
       PROVE  \/ batch[i].proves[p] <= snapshot[p].title
              \/ \E item \in todo' : item[2] = p
  BY <1>6, <1>7, <1>12, <1>b
<1>13. \A item \in todo' : item[2] \in DOMAIN snapshot' /\ item[3] # 0
         => \A i \in DOMAIN batch' :
              Concerns(batch[i], item[2])' => batch'[i].proves[item[2]] <= item[3]
  BY <1>1, <1>10, <1>11
<1>14. \A p \in DOMAIN snapshot', i \in DOMAIN batch' : Concerns(batch[i], p)'
         => \/ batch'[i].proves[p] <= snapshot'[p].title
            \/ \E item \in todo' : item[2] = p
  BY <1>1, <1>10, <1>12
<1> QED
  BY <1>1, <1>9, <1>13, <1>14 DEF PanesRead

\* What is read in the pane is as new as any event about it, or laid over it is the
\* last title it announced, or it moved and its window will be listed again.
LEMMA RefreshPaneReads ==
  ASSUME BatchTypes, EventsAttest, Accounted, PanesRead, NEW item \in todo,
         RefreshPane(item[2], item[3]), phase' # "ended"
  PROVE  PanesRead'
<1> DEFINE p == item[2]
           o == item[3]
<1>1. p \in Panes /\ o \in Nat /\ item = <<"pane", p, o>>
  <2>1. phase = "panes" /\ todo \subseteq {"pane"} \X Panes \X Nat
    BY DEF RefreshPane, BatchTypes, TodoTypes
  <2>2. item \in {"pane"} \X Panes \X Nat
    BY <2>1
  <2> QED
    BY <2>2
<1>2. /\ phase = "panes" /\ phase' = "panes" /\ todo' = todo \ {<<"pane", p, o>>}
      /\ lines' = lines /\ batch' = batch /\ snapshot' = Repaned(p, o)
  BY DEF RefreshPane
<1>3. /\ \A i, j \in todo : i[2] = j[2] => i = j
      /\ p \in DOMAIN snapshot /\ o # 0
           => \A i \in DOMAIN batch : Concerns(batch[i], p) => batch[i].proves[p] <= o
  BY <1>2 DEF PanesRead
<1>4. /\ todo' \subseteq todo /\ \A i \in todo' : i[2] # p
      /\ \A i \in todo : i[2] # p => i \in todo'
  BY <1>1, <1>2, <1>3
<1> HIDE DEF p, o
<1>5. /\ DOMAIN snapshot' = IF p \in Live THEN DOMAIN snapshot \cup {p} ELSE DOMAIN snapshot \ {p}
      /\ p \in Live => snapshot'[p] = Titled(p, IF o = 0 THEN title[p] ELSE o)
      /\ \A q \in DOMAIN snapshot' \ {p} : snapshot'[q] = snapshot[q]
  BY <1>1, <1>2, RepanedFacts
<1>6. p \in Live => /\ snapshot'[p].win = home[p] /\ snapshot'[p].sess = place[home[p]]
                    /\ snapshot'[p].title = IF o = 0 THEN title[p] ELSE o
  BY <1>5, RowSays
<1>7. \A i \in DOMAIN batch, q \in DOMAIN snapshot' : q # p
        => q \in DOMAIN snapshot /\ (Concerns(batch[i], q)' <=> Concerns(batch[i], q))
  BY <1>2, <1>5 DEF Concerns, InScope
<1>8. ASSUME NEW j \in todo', j[2] \in DOMAIN snapshot', j[3] # 0, NEW i \in DOMAIN batch,
             Concerns(batch[i], j[2])'
      PROVE  batch[i].proves[j[2]] <= j[3]
  BY <1>2, <1>4, <1>7, <1>8 DEF PanesRead
<1>9. ASSUME NEW q \in DOMAIN snapshot', NEW i \in DOMAIN batch, Concerns(batch[i], q)',
             NEW w, w = snapshot'[q].win
      PROVE  \/ batch[i].proves[q] <= snapshot'[q].title
             \/ Waits("window", w)
             \/ \E j \in todo' : j[2] = q
  <2>1. CASE q # p
    <3>1. q \in DOMAIN snapshot /\ snapshot'[q] = snapshot[q] /\ Concerns(batch[i], q)
      BY <1>5, <1>7, <1>9, <2>1
    <3>2. \/ batch[i].proves[q] <= snapshot[q].title
          \/ Waits("window", snapshot[q].win)
          \/ \E j \in todo : j[2] = q
      BY <1>2, <3>1 DEF PanesRead
    <3> QED
      BY <1>4, <1>9, <2>1, <3>1, <3>2
  <2>2. CASE q = p
    <3>1. p \in Live /\ w = home[p]
      BY <1>5, <1>6, <1>9, <2>2
    <3>2. CASE o = 0
      <4>1. snapshot'[p].title = title[p]
        BY <1>6, <3>1, <3>2
      <4>2. batch[i].proves[p] <= title[p]
        BY <1>1 DEF EventsAttest, Attests
      <4> QED
        BY <2>2, <4>1, <4>2
    <3>3. CASE o # 0 /\ Astray(p)
      <4>1. Ahead("window", home[p])
        BY <3>1, <3>3 DEF Accounted, Placed
      <4> QED
        BY <1>2, <3>1, <4>1 DEF Ahead
    <3>4. CASE o # 0 /\ ~Astray(p)
      <4>1. /\ p \in DOMAIN snapshot
            /\ snapshot'[p].win = snapshot[p].win
            /\ snapshot'[p].sess = snapshot[p].sess
        BY <1>6, <3>1, <3>4 DEF Astray
      <4>2. Concerns(batch[i], p)
        BY <1>2, <1>9, <2>2, <4>1 DEF Concerns, InScope
      <4>3. snapshot'[p].title = o /\ batch[i].proves[p] <= o
        BY <1>3, <1>6, <3>1, <3>4, <4>1, <4>2
      <4> QED
        BY <2>2, <4>3
    <3> QED
      BY <3>2, <3>3, <3>4
  <2> QED
    BY <2>1, <2>2
<1>10. \A q \in DOMAIN snapshot', i \in DOMAIN batch' : Concerns(batch[i], q)'
         => (\/ batch[i].proves[q] <= snapshot[q].title
             \/ Waits("window", snapshot[q].win)
             \/ \E j \in todo : j[2] = q)'
  <2> SUFFICES ASSUME NEW q \in DOMAIN snapshot', NEW i \in DOMAIN batch, Concerns(batch[i], q)',
                      ~(batch[i].proves[q] <= snapshot'[q].title), ~(\E j \in todo' : j[2] = q)
               PROVE  Waits("window", snapshot[q].win)'
    BY <1>2
  <2>1. \A w : w = snapshot'[q].win => Waits("window", w)
    BY <1>9
  <2> QED
    BY <1>2, <2>1 DEF Waits
<1>11. \A i, j \in todo' : i[2] = j[2] => i = j
  BY <1>3, <1>4
<1>12. \A j \in todo' : j[2] \in DOMAIN snapshot' /\ j[3] # 0
         => \A i \in DOMAIN batch' : Concerns(batch[i], j[2])' => batch'[i].proves[j[2]] <= j[3]
  BY <1>2, <1>8
<1> QED
  BY <1>10, <1>11, <1>12 DEF PanesRead

LEMMA BatchIsReadKept ==
  BatchTypes /\ NothingUnreported /\ EventsAttest /\ BatchIsRead /\ [Next]_vars => BatchIsRead'
<1> SUFFICES ASSUME BatchTypes, NothingUnreported, EventsAttest, BatchIsRead, [Next]_vars
             PROVE  BatchIsRead'
  OBVIOUS
<1>0. ASSUME phase' \notin {"scopes", "panes"} PROVE BatchIsRead'
  BY <1>0 DEF BatchIsRead, ScopesRead, PanesRead
<1>1. ASSUME UNCHANGED <<phase, batch, scopesBefore, todo, snapshot>>,
             \A k, i : Waits(k, i) => Waits(k, i)'
      PROVE  BatchIsRead'
  <2>1. /\ phase' = phase /\ batch' = batch /\ scopesBefore' = scopesBefore /\ todo' = todo
        /\ snapshot' = snapshot
    BY <1>1
  <2>2. ScopesRead'
    BY <2>1 DEF BatchIsRead, ScopesRead, Counted, Taken, About, InScope
  <2>3. \A p, i : Concerns(batch[i], p)' <=> Concerns(batch[i], p)
    BY <2>1 DEF Concerns, InScope
  <2>4. \A p : Waits("window", snapshot[p].win) => Waits("window", snapshot[p].win)'
    <3> TAKE p
    <3>1. \A w : w = snapshot'[p].win /\ Waits("window", w) => Waits("window", w)'
      BY <1>1
    <3> QED
      BY <2>1, <3>1 DEF Waits
  <2>5. PanesRead'
    BY <2>1, <2>3, <2>4 DEF BatchIsRead, PanesRead
  <2> QED
    BY <2>2, <2>5 DEF BatchIsRead
<1>2. CASE TmuxStep \/ \E p \in Panes : Focus(p)
  <2>1. PICK events \in Seq(Attested(title')) : lines' = lines \o events
    BY <1>2, TmuxOnlyAdds
  <2>2. \A k, i : Waits(k, i) => Waits(k, i)'
    BY <2>1, Appended
  <2> QED
    BY <1>1, <1>2, <2>2, TmuxOnlyAdds DEF Untouched
<1>3. CASE UNCHANGED vars
  BY <1>1, <1>3 DEF vars, Waits
<1>4. CASE \/ TakeBatch \/ TakeFocus \/ BatchDone \/ ListingFails \/ FocusFull
           \/ \E p \in Panes : FocusSession(p)
  BY <1>0, <1>4
     DEF TakeBatch, TakeFocus, BatchDone, ListingFails, FocusFull, FocusSession, FocusDone
<1>5. CASE RefreshFull
  BY <1>5, RefreshFullReads DEF RefreshFull, BatchIsRead, PanesRead
<1>6. ASSUME NEW kind \in {"session", "window"}, NEW id, RefreshScope(kind, id) PROVE BatchIsRead'
  BY <1>6, RefreshScopeReads DEF RefreshScope, BatchIsRead, PanesRead
<1>7. CASE ScopesDone
  BY <1>7, ScopesDoneReads DEF ScopesDone, BatchIsRead, ScopesRead
<1>8. ASSUME NEW item \in todo, RefreshPane(item[2], item[3]) PROVE BatchIsRead'
  <2>1. CASE phase' = "ended"
    BY <1>0, <2>1
  <2>2. CASE phase' # "ended"
    <3>1. phase = "panes" /\ phase' = "panes" /\ Accounted
      BY <1>8, <2>2 DEF RefreshPane, NothingUnreported
    <3> QED
      BY <1>8, <2>2, <3>1, RefreshPaneReads DEF BatchIsRead, ScopesRead
  <2> QED
    BY <2>1, <2>2
<1> QED
  BY <1>2, <1>3, <1>4, <1>5, <1>6, <1>7, <1>8 DEF Next, DaemonStep

\* No batch ends with a title in a row that is older than what its events prove:
\* title_override_after_latest_refresh gives way to every later listing.
THEOREM BatchesHonourTheirEvents == Spec => BatchHonoursItsEvents
<1> DEFINE step ==
      BatchDone => \A p \in DOMAIN snapshot, i \in DOMAIN batch :
                     Concerns(batch[i], p) /\ ~ListedAgain(p)
                       => snapshot[p].title >= batch[i].proves[p]
<1>1. BatchTypes /\ EventsAttest /\ BatchIsRead /\ [Next]_vars => [step]_vars
  <2> SUFFICES ASSUME BatchTypes, BatchIsRead, BatchDone, NEW p \in DOMAIN snapshot,
                      NEW i \in DOMAIN batch,
                      Concerns(batch[i], p), ~ListedAgain(p)
               PROVE  snapshot[p].title >= batch[i].proves[p]
    OBVIOUS
  <2>1. phase = "panes" /\ todo = {}
    BY DEF BatchDone
  <2>2. batch[i].proves[p] <= snapshot[p].title
    BY <2>1 DEF BatchIsRead, PanesRead, Waits, ListedAgain
  <2>3. snapshot[p].title \in Nat /\ batch[i].proves[p] \in Nat
    <3>1. batch[i] \in Events /\ p \in Panes /\ snapshot[p] \in PaneRows
      BY LenProperties, ElementOfSeq DEF BatchTypes
    <3> QED
      BY <3>1 DEF Events, PaneRows
  <2> QED
    BY <2>2, <2>3
<1>2. Init => EventsAttest /\ BatchIsRead
  BY DEF Init, EventsAttest, Attests, BatchIsRead, ScopesRead, PanesRead
<1> QED
  BY <1>1, <1>2, AttestsKept, BatchIsReadKept, NothingUnreportedInit, NothingUnreportedKept,
     BatchTypesHold, PTL DEF Spec, BatchHonoursItsEvents

\* Both together: what the daemon has been told, what it publishes shows.
THEOREM EventsAlwaysHonoured == Spec => EventsAreHonoured
BY BatchesHonourTheirEvents, FocusedPanesAreListed DEF EventsAreHonoured

-----------------------------------------------------------------------------
(* Reading a pane                                                            *)

Statuses == [kind : Kinds, source : Sources]
CacheEntries == [title : Titles, kind : Kinds, age : -1..TTL]

\* What a row may show: that its agent is at work, or else something that output
\* of the pane has the daemon read its screen for.
Reread(p, s) == s.kind = "Busy" \/ ActivityCandidate(p, s)

\* The title says what it says; the screen decides whether the agent is at work.
LEMMA TitleReading ==
  ASSUME TypeOK, NEW p \in Polled, NEW t \in Titles
  PROVE  /\ TitleStatus(p, t) \in Statuses
         /\ Reread(p, TitleStatus(p, t))
         /\ ~Active(TitleStatus(p, t))
<1>1. provider[p] \in Providers
  BY PollingAssumption DEF TypeOK
<1> QED
  BY <1>1 DEF Providers, Titles, Kinds, Sources, Statuses, Status, TitleStatus, Reread, Active,
              ActivityCandidate, FallbackCandidate, CanFillUnknown, CanRefineIdle

LEMMA FreshReading ==
  ASSUME TypeOK, NEW p \in Polled
  PROVE  /\ Fresh(p) \in Statuses
         /\ Reread(p, Fresh(p))
         /\ work[p] = "Busy" => Fresh(p).kind = "Busy"
         /\ Fresh(p) = TitleStatus(p, said[p]) \/ (Fresh(p) = Status(work[p], "PaneOutput"))
<1>1. /\ provider[p] \in Providers /\ said[p] \in Titles
      /\ work[p] \in {"Idle", "Busy", "Waiting"}
  BY PollingAssumption DEF TypeOK
<1>2. Fresh(p) = TitleStatus(p, said[p]) \/ Fresh(p) = Status(work[p], "PaneOutput")
  BY DEF Fresh, Judged
<1>3. Status(work[p], "PaneOutput") \in Statuses /\ Reread(p, Status(work[p], "PaneOutput"))
  BY <1>1 DEF Status, Statuses, Kinds, Sources, Reread, ActivityCandidate
<1>4. work[p] = "Busy" => Fresh(p).kind = "Busy"
  BY <1>1 DEF Fresh, Judged, Providers, Titles, Status, TitleStatus, FallbackCandidate,
              CanFillUnknown, CanRefineIdle, CanRefineWaiting
<1> QED
  BY <1>1, <1>2, <1>3, <1>4, TitleReading

\* While the agent does nothing, what a reading would give stays.
LEMMA FreshStays ==
  ASSUME UNCHANGED <<provider, work, said>>, NEW p \in Polled
  PROVE  /\ Fresh(p)' = Fresh(p)
         /\ \A c : Hit(p, c)' = Hit(p, c) /\ Remembered(p, c)' = Remembered(p, c)
BY DEF Fresh, Judged, TitleStatus, FallbackCandidate, CanFillUnknown, CanRefineIdle,
       CanRefineWaiting, Hit, Cacheable, Remembered

-----------------------------------------------------------------------------
(* The cache                                                                 *)

\* An entry that says something else than the screen is from before the last
\* change, and so at least as old.
Misleading(p, c) == Hit(p, c) /\ Remembered(p, c) # Fresh(p)
Dated(p, c) == c # NoEntry => c.age \in Nat /\ (Misleading(p, c) => steady[p] <= c.age)

LEMMA ReadingType ==
  ASSUME TypeOK, NEW p \in Polled, NEW c \in CacheEntries, NEW captured \in BOOLEAN
  PROVE  /\ ReadStatus(p, c, captured) \in Statuses
         /\ Reread(p, ReadStatus(p, c, captured))
         /\ ReadEntry(p, c, captured) \in CacheEntries
<1>1. TitleStatus(p, said[p]) \in Statuses /\ Reread(p, TitleStatus(p, said[p]))
  BY TitleReading DEF TypeOK
<1>2. Remembered(p, c) \in Statuses /\ Reread(p, Remembered(p, c))
  BY <1>1 DEF Remembered, Status, Statuses, CacheEntries, Sources, Reread, ActivityCandidate
<1>3. Fresh(p) \in Statuses /\ Reread(p, Fresh(p))
  BY FreshReading
<1>4. ReadEntry(p, c, captured) \in CacheEntries
  BY <1>3, PollingAssumption DEF ReadEntry, Entry, CacheEntries, Statuses, Kinds, TypeOK
<1> QED
  BY <1>1, <1>2, <1>3, <1>4 DEF ReadStatus

\* A reading that did not fail gives what the screen says, or what an entry says
\* that is no younger than the last change; the entry it leaves is true.
LEMMA ReadingIsTrue ==
  ASSUME TypeOK, NEW p \in Polled, NEW c \in CacheEntries, Dated(p, c),
         NEW captured \in BOOLEAN
  PROVE  /\ \/ ReadStatus(p, c, captured) = Fresh(p)
            \/ c # NoEntry /\ steady[p] <= c.age
            \/ ~captured
         /\ \/ ReadEntry(p, c, captured) = c
            \/ /\ ReadEntry(p, c, captured).age = 0
               /\ ~Misleading(p, ReadEntry(p, c, captured))
<1>1. CASE Reads(p, c) /\ captured
  <2>1. ReadStatus(p, c, captured) = Fresh(p)
    BY <1>1 DEF ReadStatus, Reads
  <2> DEFINE e == ReadEntry(p, c, captured)
  <2>2. CASE Cacheable(p)
    <3>1. e = Entry(said[p], IF Fresh(p).source = "PaneOutput" THEN Fresh(p).kind ELSE "Unknown", 0)
      BY <1>1, <2>2 DEF ReadEntry
    <3>2. Remembered(p, e) = Fresh(p)
      <4>1. CASE Fresh(p).source = "PaneOutput"
        <5>1. Fresh(p) = Status(work[p], "PaneOutput") /\ work[p] # "Unknown"
          BY <4>1, FreshReading DEF TypeOK, TitleStatus, Status
        <5>2. e.kind = work[p]
          BY <3>1, <4>1, <5>1 DEF Entry, Status
        <5> QED
          BY <5>1, <5>2 DEF Remembered
      <4>2. CASE Fresh(p).source # "PaneOutput"
        <5>1. Fresh(p) = TitleStatus(p, said[p])
          BY <4>2, FreshReading DEF Status
        <5>2. e.kind = "Unknown"
          BY <3>1, <4>2 DEF Entry
        <5> QED
          BY <5>1, <5>2 DEF Remembered
      <4> QED
        BY <4>1, <4>2
    <3> QED
      BY <2>1, <3>1, <3>2 DEF Misleading, Entry
  <2>3. CASE ~Cacheable(p)
    BY <2>1, <2>3 DEF ReadEntry
  <2> QED
    BY <2>2, <2>3
<1>2. CASE ~(Reads(p, c) /\ captured)
  <2>1. ReadEntry(p, c, captured) = c
    BY <1>2 DEF ReadEntry
  <2> QED
    BY <1>2, <2>1 DEF ReadStatus, Reads, Dated, Misleading, Hit
<1> QED
  BY <1>1, <1>2

-----------------------------------------------------------------------------
(* What is wrong with a pane, and until when                                 *)

\* A status by the screen that is wrong waits for the settle timer, any wrong
\* status for the reconcile. A pane at work prints, and every second report of
\* that is handled: after the entries that may mislead it are gone, one missed
\* report is the last.
Healing(p) ==
  /\ Reread(p, status[p])
  /\ Dated(p, cache[p])
  /\ Active(status[p]) => settle # Off
  /\ Active(status[p]) /\ Wrong(p) => steady[p] + settle <= SETTLE + TTL
  /\ Wrong(p) => steady[p] + reconcile <= RECONCILE + TTL
  /\ work[p] = "Busy" => p \in output
  /\ work[p] = "Busy" /\ status[p].kind # "Busy" =>
       /\ steady[p] <= TTL + 2
       /\ steady[p] > TTL => p \in activity \/ p \notin stamped
       /\ steady[p] > TTL + 1 => p \in activity

HealingInv == TypeOK /\ \A p \in Polled : Healing(p)

-----------------------------------------------------------------------------
(* Refreshing panes                                                          *)

LEMMA NextSettleType ==
  ASSUME NEW st, NEW current \in Off..SETTLE
  PROVE  /\ NextSettle(st, current) \in Off..SETTLE
         /\ (\E p \in Polled : Active(st[p])) =>
              NextSettle(st, current) = IF current = Off THEN SETTLE ELSE current
BY PollingAssumption DEF NextSettle, Off

\* The captures that fail are counted, and all that is written has its type.
LEMMA RefreshType ==
  ASSUME TypeOK, NEW ps \in SUBSET Polled, NEW entries \in [Polled -> CacheEntries],
         NEW current \in Off..SETTLE, Refresh(ps, entries, current)
  PROVE  /\ failures' \in 0..MaxFailures
         /\ steady' \in [Polled -> 0..Longest]
         /\ status' \in [Polled -> Statuses]
         /\ cache' \in [Polled -> CacheEntries]
         /\ settle' \in Off..SETTLE
<1>1. PICK broken \in SUBSET {p \in ps : Reads(p, entries[p])} :
        /\ failures + Cardinality(broken) <= MaxFailures
        /\ failures' = failures + Cardinality(broken)
        /\ steady' = [p \in Polled |-> IF p \in broken THEN 0 ELSE steady[p]]
        /\ status' = [p \in Polled |-> IF p \in ps THEN ReadStatus(p, entries[p], p \notin broken)
                                      ELSE status[p]]
        /\ cache' = [p \in Polled |-> IF p \in ps THEN ReadEntry(p, entries[p], p \notin broken)
                                     ELSE entries[p]]
        /\ settle' = NextSettle(status', current)
  BY DEF Refresh
<1>2. Cardinality(broken) \in Nat
  <2>1. broken \subseteq Polled
    OBVIOUS
  <2> QED
    BY <2>1, PollingAssumption, FS_Subset, FS_CardinalityType
<1>3. failures' \in 0..MaxFailures
  <2> DEFINE n == Cardinality(broken)
  <2>1. failures + n \in 0..MaxFailures
    BY <1>1, <1>2, PollingAssumption DEF TypeOK
  <2> QED
    BY <1>1, <2>1
<1>4. steady' \in [Polled -> 0..Longest]
  BY <1>1, PollingAssumption DEF TypeOK, Longest
<1>5. \A p \in Polled : /\ ReadStatus(p, entries[p], p \notin broken) \in Statuses
                        /\ ReadEntry(p, entries[p], p \notin broken) \in CacheEntries
  BY ReadingType
<1>6. status' \in [Polled -> Statuses]
  BY <1>1, <1>5 DEF TypeOK, Statuses
<1>7. cache' \in [Polled -> CacheEntries]
  BY <1>1, <1>5
<1>8. settle' \in Off..SETTLE
  BY <1>1, NextSettleType
<1> QED
  BY <1>3, <1>4, <1>6, <1>7, <1>8

\* What a refresh does to one pane.
LEMMA RefreshOne ==
  ASSUME TypeOK, NEW ps \in SUBSET Polled, NEW entries \in [Polled -> CacheEntries],
         NEW current \in Off..SETTLE, Refresh(ps, entries, current),
         UNCHANGED <<provider, work, said>>,
         NEW p \in Polled, Dated(p, entries[p])
  PROVE  /\ steady'[p] \in {0, steady[p]}
         /\ p \notin ps => status'[p] = status[p]
         /\ p \in ps => /\ Reread(p, status'[p])
                        /\ \/ status'[p] = Fresh(p)
                           \/ entries[p] # NoEntry /\ steady[p] <= entries[p].age
                           \/ steady'[p] = 0
         /\ Dated(p, cache[p])'
<1>1. PICK broken \in SUBSET {q \in ps : Reads(q, entries[q])} :
        /\ steady' = [q \in Polled |-> IF q \in broken THEN 0 ELSE steady[q]]
        /\ status' = [q \in Polled |-> IF q \in ps THEN ReadStatus(q, entries[q], q \notin broken)
                                      ELSE status[q]]
        /\ cache' = [q \in Polled |-> IF q \in ps THEN ReadEntry(q, entries[q], q \notin broken)
                                     ELSE entries[q]]
  BY DEF Refresh
<1> DEFINE e == entries[p]  read == p \notin broken
<1>2. /\ steady'[p] = IF p \in broken THEN 0 ELSE steady[p]
      /\ status'[p] = IF p \in ps THEN ReadStatus(p, e, read) ELSE status[p]
      /\ cache'[p] = IF p \in ps THEN ReadEntry(p, e, read) ELSE e
  BY <1>1
<1>3. e \in CacheEntries /\ read \in BOOLEAN
  OBVIOUS
<1>4. /\ Reread(p, ReadStatus(p, e, read))
      /\ \/ ReadStatus(p, e, read) = Fresh(p)
         \/ e # NoEntry /\ steady[p] <= e.age
         \/ ~read
      /\ \/ ReadEntry(p, e, read) = e
         \/ /\ ReadEntry(p, e, read).age = 0
            /\ ~Misleading(p, ReadEntry(p, e, read))
  BY <1>3, ReadingType, ReadingIsTrue
<1>5. Dated(p, cache[p])'
  <2>1. Dated(p, cache[p])' <=>
           (cache'[p] # NoEntry =>
              cache'[p].age \in Nat /\ (Misleading(p, cache'[p]) => steady'[p] <= cache'[p].age))
    BY FreshStays DEF Dated, Misleading, NoEntry, Entry
  <2>2. CASE cache'[p] = e
    <3>1. steady'[p] = steady[p] \/ steady'[p] = 0
      BY <1>2
    <3> QED
      BY <2>1, <2>2, <3>1 DEF Dated
  <2>3. CASE cache'[p] # e
    <3>1. cache'[p].age = 0 /\ ~Misleading(p, cache'[p])
      BY <1>2, <1>4, <2>3
    <3> QED
      BY <2>1, <3>1
  <2> QED
    BY <2>2, <2>3
<1> QED
  BY <1>2, <1>4, <1>5

\* A refresh leaves every pane healing, those it does not read too: the timers
\* they wait for are kept, or they no longer wait for them.
LEMMA RefreshHeals ==
  ASSUME TypeOK, NEW ps \in SUBSET Polled, NEW entries \in [Polled -> CacheEntries],
         NEW current \in Off..SETTLE, Refresh(ps, entries, current),
         UNCHANGED world, reconcile' \in 0..RECONCILE,
         NEW p \in Polled, Healing(p), Dated(p, entries[p]),
         p \notin ps => /\ current = settle \/ ~Active(status[p])
                        /\ reconcile' = reconcile
                        /\ p \in activity /\ status[p].kind # "Busy" => p \in activity'
  PROVE  Healing(p)'
<1>0. UNCHANGED <<provider, work, said>> /\ output' = output /\ stamped' = stamped
  BY DEF world
<1>1. Refresh(ps, entries, current)
  OBVIOUS
<1>2. /\ steady'[p] \in {0, steady[p]}
      /\ p \notin ps => status'[p] = status[p]
      /\ p \in ps => /\ Reread(p, status'[p])
                     /\ \/ status'[p] = Fresh(p)
                        \/ entries[p] # NoEntry /\ steady[p] <= entries[p].age
                        \/ steady'[p] = 0
      /\ Dated(p, cache[p])'
  BY <1>0, <1>1, RefreshOne
<1>3. /\ status' \in [Polled -> Statuses] /\ settle' \in Off..SETTLE
      /\ settle' = NextSettle(status', current)
  BY <1>1, RefreshType DEF Refresh
<1>4. /\ steady[p] \in 0..Longest /\ entries[p].age \in -1..TTL
      /\ settle \in Off..SETTLE /\ reconcile \in 0..RECONCILE
      /\ TTL \in Nat /\ SETTLE \in Nat \ {0} /\ RECONCILE \in Nat /\ Longest \in Nat
  BY PollingAssumption DEF TypeOK, CacheEntries, Longest
<1>5. Active(status'[p]) => settle' = IF current = Off THEN SETTLE ELSE current
  BY <1>3, NextSettleType
<1>6. Fresh(p)' = Fresh(p) /\ (work[p] = "Busy" => Fresh(p).kind = "Busy")
  BY <1>0, FreshStays, FreshReading
<1>12. /\ Reread(p, status[p])
       /\ Active(status[p]) => settle # Off
       /\ Active(status[p]) /\ status[p] # Fresh(p) => steady[p] + settle <= SETTLE + TTL
       /\ status[p] # Fresh(p) => steady[p] + reconcile <= RECONCILE + TTL
       /\ work[p] = "Busy" => p \in output
       /\ work[p] = "Busy" /\ status[p].kind # "Busy" =>
            /\ steady[p] <= TTL + 2
            /\ steady[p] > TTL => p \in activity \/ p \notin stamped
            /\ steady[p] > TTL + 1 => p \in activity
  BY DEF Healing, Wrong
<1>s. SUFFICES ASSUME NEW s, NEW d, NEW k, NEW r,
                      s = status'[p], d = steady'[p], k = settle', r = reconcile'
               PROVE  /\ Reread(p, s)
                      /\ Active(s) => k # Off
                      /\ Active(s) /\ s # Fresh(p) => d + k <= SETTLE + TTL
                      /\ s # Fresh(p) => d + r <= RECONCILE + TTL
                      /\ work[p] = "Busy" => p \in output
                      /\ work[p] = "Busy" /\ s.kind # "Busy" =>
                           /\ d <= TTL + 2
                           /\ d > TTL => p \in activity' \/ p \notin stamped
                           /\ d > TTL + 1 => p \in activity'
  BY <1>0, <1>2, <1>6 DEF Healing, Wrong, Reread, ActivityCandidate, FallbackCandidate,
     CanFillUnknown, CanRefineIdle, CanRefineWaiting
<1>7. /\ d \in {0, steady[p]} /\ k \in Off..SETTLE /\ r \in 0..RECONCILE
      /\ Active(s) => k = IF current = Off THEN SETTLE ELSE current
  BY <1>2, <1>3, <1>5, <1>s
<1>8. d \in Nat /\ d <= steady[p]
  BY <1>4, <1>7
<1>9. Active(s) => k # Off
  BY <1>4, <1>7 DEF Off
<1>10. CASE p \in ps
  <2>1. Reread(p, s) /\ (s = Fresh(p) \/ d <= TTL)
    BY <1>2, <1>4, <1>8, <1>10, <1>s
  <2>2. work[p] = "Busy" /\ s.kind # "Busy" => d <= TTL
    BY <2>1, <1>6
  <2> QED
    BY <1>4, <1>7, <1>8, <1>9, <1>12, <2>1, <2>2 DEF Off
<1>11. CASE p \notin ps
  <2>1. s = status[p]
    BY <1>2, <1>11, <1>s
  <2>2. r = reconcile
    BY <1>11, <1>s
  <2>3. Reread(p, s)
    BY <1>12, <2>1
  <2>4. Active(s) => k = settle /\ settle # Off
    BY <1>7, <1>11, <1>12, <2>1
  <2>5. Active(s) /\ s # Fresh(p) => d + k <= SETTLE + TTL
    <3>1. SUFFICES ASSUME Active(s), s # Fresh(p)
                   PROVE  d + k <= SETTLE + TTL
      OBVIOUS
    <3>2. steady[p] + settle <= SETTLE + TTL /\ k = settle
      BY <1>12, <2>1, <2>4, <3>1
    <3> QED
      BY <1>4, <1>8, <3>2 DEF Off
  <2>6. s # Fresh(p) => d + r <= RECONCILE + TTL
    <3>1. SUFFICES ASSUME s # Fresh(p)
                   PROVE  d + r <= RECONCILE + TTL
      OBVIOUS
    <3>2. steady[p] + reconcile <= RECONCILE + TTL
      BY <1>12, <2>1, <3>1
    <3> QED
      BY <1>4, <1>8, <2>2, <3>2
  <2>7. work[p] = "Busy" /\ s.kind # "Busy" =>
           /\ d <= TTL + 2
           /\ d > TTL => p \in activity' \/ p \notin stamped
           /\ d > TTL + 1 => p \in activity'
    <3>1. SUFFICES ASSUME work[p] = "Busy", status[p].kind # "Busy"
                   PROVE  /\ d <= TTL + 2
                          /\ d > TTL => p \in activity' \/ p \notin stamped
                          /\ d > TTL + 1 => p \in activity'
      BY <2>1
    <3>2. /\ steady[p] <= TTL + 2
          /\ steady[p] > TTL => p \in activity' \/ p \notin stamped
          /\ steady[p] > TTL + 1 => p \in activity'
      BY <1>11, <1>12, <3>1
    <3> QED
      BY <1>4, <1>8, <3>2
  <2> QED
    BY <1>9, <1>12, <2>3, <2>5, <2>6, <2>7
<1> QED
  BY <1>10, <1>11

-----------------------------------------------------------------------------
(* Steps                                                                     *)

LEMMA DaemonSteps ==
  ASSUME HealingInv, ApplyBatch \/ ApplyReconcile \/ SettleRecapture
  PROVE  HealingInv'
<1> USE DEF HealingInv
<1>0. UNCHANGED world /\ reconcile' \in 0..RECONCILE
  BY PollingAssumption DEF TypeOK, ApplyBatch, ApplyReconcile, SettleRecapture
<1>1. cache \in [Polled -> CacheEntries] /\ settle \in Off..SETTLE /\ Off \in Off..SETTLE
  BY PollingAssumption DEF TypeOK, CacheEntries, Off
<1> DEFINE Read(ps, entries, current) ==
      /\ Refresh(ps, entries, current)
      /\ activity' \subseteq Polled /\ metadata' \subseteq Polled
      /\ \A p \in Polled \ ps : /\ current = settle \/ ~Active(status[p])
                                /\ reconcile' = reconcile
                                /\ p \in activity /\ status[p].kind # "Busy" => p \in activity'
<1>2. ASSUME NEW ps \in SUBSET Polled, NEW entries \in [Polled -> CacheEntries],
             NEW current \in Off..SETTLE, Read(ps, entries, current),
             \A p \in Polled : Dated(p, entries[p])
      PROVE  HealingInv'
  <2>1. Refresh(ps, entries, current) /\ activity' \subseteq Polled /\ metadata' \subseteq Polled
    BY <1>2
  <2>2. TypeOK'
    BY <1>0, <2>1, RefreshType DEF TypeOK, world, Statuses, CacheEntries
  <2>3. \A p \in Polled : Healing(p)'
    BY <1>0, <1>2, <2>1, RefreshHeals
  <2> QED
    BY <2>2, <2>3
<1>3. \A p \in Polled : Dated(p, cache[p])
  BY DEF Healing
<1>4. CASE ApplyBatch
  <2> DEFINE ps == metadata \cup {p \in activity : ActivityCandidate(p, status[p])}
  <2>1. ps \in SUBSET Polled
    BY DEF TypeOK
  <2>2. Read(ps, cache, settle)
    BY <1>4 DEF ApplyBatch, Healing, Reread
  <2> HIDE DEF ps, Read
  <2> QED
    BY <1>1, <1>2, <1>3, <2>1, <2>2
<1>5. CASE ApplyReconcile
  <2>1. Read(Polled, cache, settle)
    BY <1>5 DEF ApplyReconcile, TypeOK
  <2> HIDE DEF Read
  <2> QED
    BY <1>1, <1>2, <1>3, <2>1
<1>6. CASE SettleRecapture
  <2> DEFINE entries == [p \in Polled |-> IF p \in ActivePanes THEN NoEntry ELSE cache[p]]
  <2>1. entries \in [Polled -> CacheEntries]
    BY <1>1, PollingAssumption DEF NoEntry, Entry, CacheEntries, Titles, Kinds
  <2>2. \A p \in Polled : Dated(p, entries[p])
    BY <1>3 DEF Dated
  <2>3. Read(ActivePanes, entries, Off)
    BY <1>6 DEF SettleRecapture, ActivePanes, TypeOK
  <2>4. ActivePanes \in SUBSET Polled
    BY DEF ActivePanes
  <2> HIDE DEF entries, Read
  <2> QED
    BY <1>1, <1>2, <2>1, <2>2, <2>3, <2>4
<1> QED
  BY <1>4, <1>5, <1>6

LEMMA AgentSteps ==
  ASSUME HealingInv, NEW a \in Polled, AgentStep(a)
  PROVE  HealingInv'
<1>1. PICK w \in {"Idle", "Busy", "Waiting"} \ {work[a]} : \E t \in Painted(a, w) :
        /\ work' = [work EXCEPT ![a] = w]
        /\ said' = [said EXCEPT ![a] = t]
        /\ retitled' = IF t # said[a] THEN retitled \cup {a} ELSE retitled
  BY DEF AgentStep
<1>2. PICK t \in Painted(a, w) :
        /\ work' = [work EXCEPT ![a] = w]
        /\ said' = [said EXCEPT ![a] = t]
        /\ retitled' = IF t # said[a] THEN retitled \cup {a} ELSE retitled
  BY <1>1
<1>3. t \in Titles
  BY DEF Painted, TitlesOf, Titles
<1>4. /\ steady' = [steady EXCEPT ![a] = 0] /\ output' = output \cup {a}
      /\ UNCHANGED <<provider, stamped, daemon, activity, metadata>>
  BY DEF AgentStep
<1>5. TypeOK'
  BY <1>2, <1>3, <1>4, PollingAssumption DEF HealingInv, TypeOK, daemon, Longest
<1>6. ASSUME NEW p \in Polled
      PROVE  Healing(p)'
  <2>1. Healing(p) /\ TypeOK
    BY DEF HealingInv
  <2>2. /\ steady[p] \in 0..Longest /\ cache[p].age \in -1..TTL
        /\ settle \in Off..SETTLE /\ reconcile \in 0..RECONCILE
        /\ TTL \in Nat /\ SETTLE \in Nat \ {0} /\ RECONCILE \in Nat /\ Longest \in Nat
    BY PollingAssumption, <2>1 DEF TypeOK, CacheEntries, Longest
  <2>3. Reread(p, status[p])' = Reread(p, status[p])
    BY <1>4 DEF daemon, Reread, ActivityCandidate, FallbackCandidate, CanFillUnknown,
                CanRefineIdle, CanRefineWaiting
  <2>4. CASE p = a
    <3>1. steady'[p] = 0 /\ p \in output'
      BY <1>4, <2>4, <2>1 DEF TypeOK
    <3>2. Dated(p, cache[p])'
      BY <1>4, <2>1, <2>2, <3>1 DEF Healing, Dated, daemon, NoEntry, Entry
    <3>3. settle <= SETTLE + TTL /\ reconcile <= RECONCILE + TTL /\ 0 <= TTL + 2
          /\ ~(0 > TTL) /\ ~(0 > TTL + 1)
      BY <2>2 DEF Off
    <3>4. 0 + settle = settle /\ 0 + reconcile = reconcile
      BY <2>2 DEF Off
    <3> QED
      BY <1>4, <2>1, <2>3, <3>1, <3>2, <3>3, <3>4 DEF Healing, daemon
  <2>5. CASE p # a
    <3>1. work'[p] = work[p] /\ said'[p] = said[p] /\ steady'[p] = steady[p]
          /\ (p \in output' <=> p \in output)
      BY <1>2, <1>4, <2>1, <2>5 DEF TypeOK
    <3>2. /\ Fresh(p)' = Fresh(p)
          /\ Misleading(p, cache[p])' = Misleading(p, cache[p])
      BY <1>4, <3>1 DEF daemon, Fresh, Judged, TitleStatus, FallbackCandidate, CanFillUnknown,
         CanRefineIdle, CanRefineWaiting, Misleading, Hit, Cacheable, Remembered
    <3> QED
      BY <1>4, <2>1, <2>3, <3>1, <3>2 DEF Healing, Wrong, daemon, Dated, NoEntry, Entry
  <2> QED
    BY <2>4, <2>5
<1> QED
  BY <1>5, <1>6 DEF HealingInv

LEMMA TickStep ==
  ASSUME HealingInv, Tick
  PROVE  HealingInv'
<1>1. TypeOK /\ activity = {} /\ settle # 0 /\ reconcile # 0
  BY DEF HealingInv, Tick, Due
<1>2. /\ TTL \in Nat \ {0} /\ SETTLE \in Nat \ {0} /\ RECONCILE \in Nat \ {0}
      /\ Longest \in Nat /\ Longest > TTL + 1
  BY PollingAssumption DEF Longest
<1>3. UNCHANGED <<provider, work, said, status, failures>>
  BY DEF Tick
<1>4. PICK unseen \in SUBSET (output \cap stamped) :
        activity' = output \ unseen /\ stamped' = output \ unseen
  BY DEF Tick
<1>5. /\ metadata' = retitled /\ retitled' = {}
      /\ output' = {p \in Polled : work[p] = "Busy"}
      /\ steady' = [p \in Polled |-> IF steady[p] < Longest THEN steady[p] + 1 ELSE Longest]
      /\ cache' = [p \in Polled |-> Aged(cache[p])]
      /\ settle' = IF settle = Off THEN Off ELSE settle - 1
      /\ reconcile' = reconcile - 1
  BY DEF Tick
<1>6. \A c \in CacheEntries : Aged(c) \in CacheEntries
  BY <1>2 DEF CacheEntries, Aged, NoEntry, Entry, Titles, Kinds
<1>7. TypeOK'
  <2>1. steady' \in [Polled -> 0..Longest]
    BY <1>1, <1>2, <1>5 DEF TypeOK
  <2>2. cache' \in [Polled -> CacheEntries]
    BY <1>1, <1>5, <1>6 DEF TypeOK, CacheEntries
  <2>3. settle' \in Off..SETTLE /\ reconcile' \in 0..RECONCILE
    BY <1>1, <1>2, <1>5 DEF TypeOK, Off
  <2>4. /\ activity' \subseteq Polled /\ stamped' \subseteq Polled /\ output' \subseteq Polled
        /\ metadata' \subseteq Polled /\ retitled' \subseteq Polled
    BY <1>1, <1>4, <1>5 DEF TypeOK
  <2> QED
    BY <1>1, <1>3, <2>1, <2>2, <2>3, <2>4 DEF TypeOK, CacheEntries
<1>8. ASSUME NEW p \in Polled
      PROVE  Healing(p)'
  <2>1. Healing(p)
    BY DEF HealingInv
  <2>2. /\ steady[p] \in 0..Longest /\ settle \in Off..SETTLE /\ reconcile \in 0..RECONCILE
        /\ cache[p] \in CacheEntries
    BY <1>1 DEF TypeOK, CacheEntries
  <2>3. /\ Fresh(p)' = Fresh(p)
        /\ \A c : Hit(p, c)' = Hit(p, c) /\ Remembered(p, c)' = Remembered(p, c)
        /\ Reread(p, status[p])' = Reread(p, status[p])
    BY <1>3, FreshStays DEF Reread, ActivityCandidate, FallbackCandidate, CanFillUnknown,
       CanRefineIdle, CanRefineWaiting
  <2>4. work[p] = "Busy" => Fresh(p).kind = "Busy"
    BY <1>1, FreshReading
  <2>5. Dated(p, cache[p])'
    <3> DEFINE e == cache[p]  f == Aged(e)
    <3>1. CASE f = NoEntry
      BY <1>5, <3>1 DEF Dated, NoEntry, Entry
    <3>2. CASE f # NoEntry
      <4>1. e.age \in 0..(TTL - 1) /\ f = Entry(e.title, e.kind, e.age + 1)
        BY <3>2 DEF Aged
      <4>2. /\ e # NoEntry /\ e.age \in Nat /\ f.age = e.age + 1
            /\ f.title = e.title /\ f.kind = e.kind
        BY <1>2, <4>1 DEF NoEntry, Entry
      <4>3. Misleading(p, f) => Misleading(p, e)
        BY <4>2 DEF Misleading, Hit, Remembered
      <4>4. Misleading(p, f) => steady[p] <= e.age
        BY <2>1, <4>2, <4>3 DEF Healing, Dated
      <4>5. steady'[p] = IF steady[p] < Longest THEN steady[p] + 1 ELSE Longest
        BY <1>5
      <4>6. Misleading(p, f) => steady'[p] <= f.age
        BY <1>2, <2>2, <4>2, <4>4, <4>5
      <4>7. Dated(p, cache[p])' <=>
              (cache'[p] # NoEntry =>
                 /\ cache'[p].age \in Nat
                 /\ Misleading(p, cache'[p]) => steady'[p] <= cache'[p].age)
        BY <2>3 DEF Dated, Misleading, NoEntry, Entry
      <4>8. cache'[p] = f /\ f.age \in Nat
        BY <1>5, <4>2
      <4> QED
        BY <4>6, <4>7, <4>8
    <3> QED
      BY <3>1, <3>2
  <2>6. SUFFICES ASSUME NEW d, NEW k, NEW r, d = steady'[p], k = settle', r = reconcile'
                 PROVE  /\ Active(status[p]) => k # Off
                        /\ Active(status[p]) /\ Wrong(p) => d + k <= SETTLE + TTL
                        /\ Wrong(p) => d + r <= RECONCILE + TTL
                        /\ work[p] = "Busy" => p \in output'
                        /\ work[p] = "Busy" /\ status[p].kind # "Busy" =>
                             /\ d <= TTL + 2
                             /\ d > TTL => p \in activity' \/ p \notin stamped'
                             /\ d > TTL + 1 => p \in activity'
    BY <1>3, <2>1, <2>3, <2>5 DEF Healing, Wrong
  <2>7. /\ d = IF steady[p] < Longest THEN steady[p] + 1 ELSE Longest
        /\ k = (IF settle = Off THEN Off ELSE settle - 1)
        /\ r = reconcile - 1
    BY <1>5, <2>6
  <2>8. /\ Active(status[p]) => settle # Off
        /\ Active(status[p]) /\ Wrong(p) => steady[p] + settle <= SETTLE + TTL
        /\ Wrong(p) => steady[p] + reconcile <= RECONCILE + TTL
    BY <2>1 DEF Healing
  <2>9. /\ Active(status[p]) => k # Off
        /\ Active(status[p]) /\ Wrong(p) => d + k <= SETTLE + TTL
        /\ Wrong(p) => d + r <= RECONCILE + TTL
    BY <1>1, <1>2, <2>2, <2>7, <2>8 DEF Off
  <2>10. work[p] = "Busy" => p \in output'
    BY <1>5
  <2>11. ASSUME work[p] = "Busy", status[p].kind # "Busy"
         PROVE  /\ d <= TTL + 2
                /\ d > TTL => p \in activity' \/ p \notin stamped'
                /\ d > TTL + 1 => p \in activity'
    <3>1. /\ steady[p] > TTL => p \notin stamped
          /\ ~(steady[p] > TTL + 1) /\ p \in output
      BY <1>1, <2>1, <2>11 DEF Healing
    <3>2. steady[p] > TTL => p \in activity'
      BY <1>4, <3>1
    <3>3. p \in activity' \/ p \notin stamped'
      BY <1>4
    <3>4. d <= TTL + 2 /\ (d > TTL + 1 => steady[p] > TTL)
      BY <1>2, <2>2, <2>7, <3>1
    <3> QED
      BY <3>2, <3>3, <3>4
  <2> QED
    BY <2>9, <2>10, <2>11
<1> QED
  BY <1>7, <1>8 DEF HealingInv

LEMMA HealingInit == PollingInit => HealingInv
<1> SUFFICES ASSUME PollingInit
             PROVE  HealingInv
  OBVIOUS
<1>1. /\ TTL \in Nat \ {0} /\ SETTLE \in Nat \ {0} /\ RECONCILE \in Nat \ {0}
      /\ Longest \in Nat /\ MaxFailures \in Nat
  BY PollingAssumption DEF Longest
<1>2. provider \in [Polled -> Providers]
  BY PollingAssumption DEF PollingInit
<1>3. ASSUME NEW p \in Polled
      PROVE  Fresh(p) \in Statuses /\ Reread(p, Fresh(p))
  <2>1. provider[p] \in Providers /\ said[p] = "none" /\ work[p] = "Idle"
    BY <1>2, <1>3 DEF PollingInit
  <2> QED
    BY <2>1 DEF Fresh, Judged, Providers, Kinds, Sources, Statuses, Status, TitleStatus, Reread,
       ActivityCandidate, FallbackCandidate, CanFillUnknown, CanRefineIdle, CanRefineWaiting
<1>4. TypeOK
  <2>1. status \in [Polled -> Statuses]
    BY <1>3 DEF PollingInit
  <2>2. cache \in [Polled -> CacheEntries]
    BY <1>1 DEF PollingInit, CacheEntries, NoEntry, Entry, Titles, Kinds
  <2>3. settle \in Off..SETTLE
    BY <1>1 DEF PollingInit, Off
  <2> QED
    BY <1>1, <2>1, <2>2, <2>3 DEF PollingInit, TypeOK, Titles, Statuses, CacheEntries
<1>5. ASSUME NEW p \in Polled
      PROVE  Healing(p)
  <2>1. /\ steady[p] = 0 /\ work[p] # "Busy" /\ status[p] = Fresh(p) /\ cache[p] = NoEntry
        /\ said[p] = "none" /\ work[p] = "Idle"
    BY DEF PollingInit
  <2>2. ~Active(status[p])
    <3>1. provider[p] \in Providers
      BY <1>2
    <3> QED
      BY <2>1, <3>1 DEF Providers, Fresh, Judged, Status, TitleStatus, Active
  <2> QED
    BY <1>3, <2>1, <2>2 DEF Healing, Dated, Wrong
<1> QED
  BY <1>4, <1>5 DEF HealingInv

-----------------------------------------------------------------------------
(* Theorems                                                                  *)

LEMMA HealingStep == HealingInv /\ [PollingNext]_pollingVars => HealingInv'
<1> SUFFICES ASSUME HealingInv, [PollingNext]_pollingVars
             PROVE  HealingInv'
  OBVIOUS
<1>1. CASE UNCHANGED pollingVars
  BY <1>1 DEF pollingVars, world, daemon, HealingInv, TypeOK, Healing, Reread, ActivityCandidate,
     FallbackCandidate, CanFillUnknown, CanRefineIdle, CanRefineWaiting, Dated, Misleading, Hit,
     Cacheable, Remembered, TitleStatus, Fresh, Judged, Wrong, NoEntry, Entry
<1>2. CASE \E p \in Polled : AgentStep(p)
  BY <1>2, AgentSteps
<1> QED
  BY <1>1, <1>2, DaemonSteps, TickStep DEF PollingNext

LEMMA HealingHolds == PollingSpec => []HealingInv
BY HealingInit, HealingStep, PTL DEF PollingSpec

\* Type correctness of the daemon's statuses, cache and timers.
THEOREM TypeCorrect == PollingSpec => []TypeOK
<1>1. HealingInv => TypeOK
  BY DEF HealingInv
<1> QED
  BY <1>1, HealingHolds, PTL

\* An agent at work is shown busy two ticks after the cached statuses expire, though
\* tmux may leave out every second report of its output.
THEOREM WorkAlwaysSeen == PollingSpec => []WorkIsSeen
<1>1. HealingInv => WorkIsSeen
  <2>1. ASSUME HealingInv, NEW p \in Polled, work[p] = "Busy", status[p].kind # "Busy"
        PROVE  ~(steady[p] > TTL + 2)
    <3>1. steady[p] <= TTL + 2
      BY <2>1 DEF HealingInv, Healing
    <3>2. steady[p] \in Int /\ TTL \in Nat
      BY <2>1, PollingAssumption DEF HealingInv, TypeOK, Longest
    <3> QED
      BY <3>1, <3>2
  <2> QED
    BY <2>1 DEF WorkIsSeen
<1> QED
  BY <1>1, HealingHolds, PTL

\* Every wrong status is put right by the timer that waits for it, whatever reads
\* fail, and whatever a cached status hides for its time to live; work that is drawn
\* by the activity that draws it.
THEOREM WrongAlwaysHeals == PollingSpec => []WrongStatusesHeal
<1>1. HealingInv => ActiveReadsHeal /\ ReconcileHeals
  <2>1. ASSUME HealingInv, NEW p \in Polled, Wrong(p)
        PROVE  /\ Active(status[p]) => steady[p] <= SETTLE + TTL
               /\ steady[p] < Longest
    <3>1. /\ Active(status[p]) => settle # Off /\ steady[p] + settle <= SETTLE + TTL
          /\ steady[p] + reconcile <= RECONCILE + TTL
      BY <2>1 DEF HealingInv, Healing
    <3>2. /\ steady[p] \in 0..Longest /\ settle \in Off..SETTLE /\ reconcile \in 0..RECONCILE
          /\ TTL \in Nat /\ SETTLE \in Nat /\ RECONCILE \in Nat /\ Longest = RECONCILE + TTL + 1
      BY <2>1, PollingAssumption DEF HealingInv, TypeOK, Longest
    <3> QED
      BY <3>1, <3>2 DEF Off
  <2> QED
    BY <2>1 DEF ActiveReadsHeal, ReconcileHeals
<1>2. ActiveReadsHeal /\ WorkIsSeen /\ ReconcileHeals => WrongStatusesHeal
  BY DEF WrongStatusesHeal
<1> QED
  BY <1>1, <1>2, WorkAlwaysSeen, HealingHolds, PTL

=============================================================================
