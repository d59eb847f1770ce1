------------------------ MODULE LiveConnectionProofs ------------------------
(***************************************************************************)
(* Proofs about LiveConnection, for every set of sources and every bound:  *)
(* no source ever has two subscribe processes that go on, and the rows     *)
(* shown for a source are its own; as long as the fence does not forget    *)
(* more sources than it has to, a fiber that waits for frames will get     *)
(* some.                                                                   *)
(***************************************************************************)
EXTENDS LiveConnection, FiniteSetTheorems, SequenceTheorems, NaturalsInduction,
        WellFoundedInduction, TLAPS

------------------------------------------------------------------------------
(* The shape of the state                                                  *)

Phases == {"unused", "starting", "consuming", "releasing", "joining", "ended"}
Owners == {"fiber", "nobody", "reloaded"}
Runs == {"parked", "next", "busy", "sleeping", "polling"}
Statuses == {"connecting", "reconnecting", "online", "fatal", "noDaemon"}
Threads == {"none", "spawning", "spawned", "reading", "ending", "gone"}
Kinds == Terminals \cup {"rows", "retry"}
Keys == Sources \cup {None}
Maybe == Epochs \cup {None}

Frames == [epoch : Epochs, kind : Kinds]
Attempts == [key : Keys, autoStart : BOOLEAN, phase : Phases, owner : Owners,
             online : BOOLEAN, terminal : Terminals \cup {"none"}]

PageType ==
  /\ target \in [Sources -> [on : BOOLEAN, enabled : BOOLEAN, autoStart : BOOLEAN]]
  /\ fiber \in [Sources -> [run : Runs, first : BOOLEAN, cur : Maybe]]
  /\ queue \in [Sources -> Seq(Frames)]
  /\ view \in [Sources -> [status : Statuses, rows : Maybe]]
  /\ attempt \in [Epochs -> Attempts]
  /\ lastEpoch \in Maybe
  /\ born \in [Sources -> Maybe]

HostType ==
  /\ supervisor \in [Sources -> Maybe]
  /\ fence \in [lastStarted : [Sources -> Maybe], floor : Maybe]
  /\ starting \in [epoch : Maybe, joining : Maybe]
  /\ worker \in [Epochs -> Threads]
  /\ stopped \subseteq Epochs /\ child \subseteq Epochs

TypeOK == PageType /\ HostType /\ daemon \in [Sources -> BOOLEAN]

------------------------------------------------------------------------------
(* The inductive invariant                                                 *)

Alive == {"spawning", "spawned", "reading", "ending"}
UnderWay == {"starting", "consuming", "releasing", "joining"}

(* An attempt that was made has its source.                                *)
AttemptOK(e) ==
  /\ attempt[e].phase = "unused" => e > lastEpoch
  /\ e > lastEpoch => attempt[e].phase = "unused"
  /\ attempt[e].phase # "unused" => attempt[e].key \in Sources

(* A fiber and its attempt know each other, and it is the last attempt of  *)
(* the source.                                                             *)
FiberOK(k) ==
  LET e == fiber[k].cur IN
  /\ born[k] <= lastEpoch
  /\ fiber[k].run # "parked" => target[k].on /\ target[k].enabled
  /\ fiber[k].run = "busy" =>
       /\ e \in Epochs /\ e <= lastEpoch /\ e > born[k]
       /\ attempt[e].key = k /\ attempt[e].owner = "fiber" /\ attempt[e].phase \in UnderWay
       /\ \A f \in Epochs : f <= lastEpoch /\ attempt[f].key = k => f <= e

OwnedOK(e) ==
  attempt[e].owner = "fiber" /\ attempt[e].phase \in UnderWay =>
    fiber[attempt[e].key].run = "busy" /\ fiber[attempt[e].key].cur = e

(* An attempt whose start is still to come has left no trace in the host.  *)
(* A worker that goes on is the one its source's supervisor is for, or has *)
(* been told to end; while a start holds the lock there is no supervisor.  *)
WorkerOK(e) ==
  /\ attempt[e].phase \in {"unused", "starting"} => worker[e] = "none" /\ e \notin stopped
  /\ worker[e] \in Alive => e \in stopped \/ supervisor[attempt[e].key] = e
  /\ e \in child => worker[e] \in {"spawned", "reading", "ending"}

SupervisorOK(k) ==
  supervisor[k] # None =>
    /\ attempt[supervisor[k]].key = k /\ worker[supervisor[k]] \in Alive
    /\ supervisor[k] \notin stopped

StartingOK ==
  starting # Unlocked =>
    /\ starting.epoch \in Epochs /\ attempt[starting.epoch].phase = "starting"
    /\ supervisor[attempt[starting.epoch].key] = None

PageInv == (\A k \in Sources : FiberOK(k)) /\ (\A e \in Epochs : AttemptOK(e) /\ OwnedOK(e))
HostInv ==
  /\ \A e \in Epochs : WorkerOK(e)
  /\ \A k \in Sources : SupervisorOK(k)
  /\ StartingOK

LiveInv == TypeOK /\ PageInv /\ HostInv

(* The fence lets the start of a fiber's attempt pass, and afterwards no   *)
(* older one of its source.                                                *)
FenceOK(k) ==
  LET e == fiber[k].cur
      last == fence.lastStarted[k]
  IN fiber[k].run = "busy" =>
       /\ attempt[e].phase = "starting" => last < e /\ fence.floor < e
       /\ attempt[e].phase = "consuming" => e <= last \/ e <= fence.floor

(* The fence forgets a source only when it remembers all of them.          *)
FewSources ==
  IsFiniteSet(Sources) /\ Cardinality(Sources) <= LIVE_PICKER_FENCE_CAP + 1

ServedInv == LiveInv /\ ConsumerIsServed /\ \A k \in Sources : FenceOK(k)

------------------------------------------------------------------------------
(* Types                                                                   *)

LEMMA MovesType ==
  ASSUME NEW a \in Attempts
  PROVE  /\ \A p \in Phases : InPhase(a, p) \in Attempts
         /\ \A t \in Terminals : EndedBy(a, t) \in Attempts
         /\ LetGo(a) \in Attempts /\ Forsaken(a) \in Attempts
         /\ \A ok \in BOOLEAN : Answered(a, ok) \in Attempts
         /\ \A f \in Frames : Heard(a, f) \in Attempts
<1> USE DEF Attempts, Phases, Owners, AttemptOf
<1>1. \A p \in Phases : InPhase(a, p) \in Attempts
  BY DEF InPhase
<1>2. \A t \in Terminals : EndedBy(a, t) \in Attempts
  BY DEF EndedBy
<1>3. LetGo(a) \in Attempts /\ Forsaken(a) \in Attempts
  BY DEF LetGo, Forsaken
<1>4. \A ok \in BOOLEAN : Answered(a, ok) \in Attempts
  BY <1>1, <1>2 DEF Answered, Terminals
<1>5. ASSUME NEW f \in Frames PROVE Heard(a, f) \in Attempts
  <2>1. CASE f.kind \in Terminals
    BY <1>2, <2>1 DEF Heard
  <2>2. CASE f.kind \notin Terminals
    <3>1. (a.online \/ f.kind = "rows") \in BOOLEAN
      OBVIOUS
    <3> HIDE DEF Frames, Kinds
    <3> QED
      BY <2>2, <3>1 DEF Heard
  <2> QED
    BY <2>1, <2>2
<1> QED
  BY <1>1, <1>2, <1>3, <1>4, <1>5

LEMMA TypeInit == Init => TypeOK
BY LiveAssumption DEF Init, TypeOK, PageType, HostType, NoTarget, NoFiber, InitialView, NoAttempt,
   Target, Fiber, View, Fence, AttemptOf, Unlocked, Attempts, Phases, Owners, Runs, Statuses, Threads,
   Keys, Maybe, None, Epochs, Frames

(* What the actions of a source's user do to the attempt that runs.        *)
LEMMA InterruptType ==
  ASSUME TypeOK, NEW k \in Sources, Interrupt(k)
  PROVE  attempt' \in [Epochs -> Attempts]
<1>1. CASE fiber[k].cur \in Epochs
  BY <1>1, MovesType DEF Interrupt, TypeOK, PageType
<1>2. CASE fiber[k].cur \notin Epochs
  BY <1>2 DEF Interrupt, TypeOK, PageType
<1> QED
  BY <1>1, <1>2

LEMMA RetargetType ==
  ASSUME TypeOK, NEW k \in Sources, NEW enabled \in BOOLEAN, NEW autoStart \in BOOLEAN,
         Retarget(k, enabled, autoStart)
  PROVE  PageType' <=> view' \in [Sources -> [status : Statuses, rows : Maybe]]
                       /\ lastEpoch' \in Maybe /\ born' \in [Sources -> Maybe]
<1>1. attempt' \in [Epochs -> Attempts]
  BY InterruptType DEF Retarget
<1>2. target' \in [Sources -> [on : BOOLEAN, enabled : BOOLEAN, autoStart : BOOLEAN]]
  BY DEF Retarget, TypeOK, PageType, Target
<1>3. fiber' \in [Sources -> [run : Runs, first : BOOLEAN, cur : Maybe]]
  BY DEF Retarget, TypeOK, PageType, Fiber, Runs, Maybe
<1>4. queue' \in [Sources -> Seq(Frames)]
  BY DEF Retarget, TypeOK, PageType
<1> QED
  BY <1>1, <1>2, <1>3, <1>4 DEF PageType

(* The answer of the host to a start, and the end of a stop.               *)
LEMMA StartedType ==
  ASSUME TypeOK, NEW e \in Epochs, NEW ok \in BOOLEAN, Started(e, ok)
  PROVE  attempt' \in [Epochs -> Attempts]
<1>1. Answered(attempt[e], ok) \in Attempts
  BY MovesType DEF TypeOK, PageType
<1> QED
  BY <1>1 DEF Started, TypeOK, PageType

LEMMA StoppedType ==
  ASSUME TypeOK, NEW e \in Epochs, attempt[e].key \in Sources, Stopped(e), UNCHANGED <<lastEpoch, born>>
  PROVE  PageType'
<1> DEFINE k == attempt[e].key
<1>1. attempt' \in [Epochs -> Attempts]
  BY DEF Stopped, TypeOK, PageType, Attempts, Phases, AttemptOf
<1>2. ViewAfter(e) \in [status : Statuses, rows : Maybe]
  <2>1. Classified(e) \in Terminals \cup {"none"}
    BY DEF TypeOK, PageType, Attempts, Classified, Terminals
  <2>2. view[k].rows \in Maybe
    BY DEF TypeOK, PageType
  <2> QED
    BY <2>1, <2>2 DEF ViewAfter, View, Statuses, Maybe, None
<1>3. InitialView \in [status : Statuses, rows : Maybe]
  BY DEF InitialView, View, Statuses, Maybe, None
<1>4. view' \in [Sources -> [status : Statuses, rows : Maybe]]
  BY <1>2, <1>3 DEF Stopped, TypeOK, PageType
<1>5. fiber' \in [Sources -> [run : Runs, first : BOOLEAN, cur : Maybe]]
  <2>1. RunAfter(e) \in Runs
    BY DEF RunAfter, Runs
  <2>2. Fiber(RunAfter(e), FALSE, fiber[k].cur) \in [run : Runs, first : BOOLEAN, cur : Maybe]
    BY <2>1 DEF Fiber, TypeOK, PageType
  <2> QED
    BY <2>2 DEF Stopped, TypeOK, PageType
<1> QED
  BY <1>1, <1>4, <1>5 DEF Stopped, TypeOK, PageType

LEMMA EmitType ==
  ASSUME TypeOK, NEW e \in Epochs, attempt[e].key \in Sources, NEW kind \in Kinds, Emit(e, kind)
  PROVE  /\ queue' \in [Sources -> Seq(Frames)] /\ UNCHANGED <<target, fiber>>
         /\ queue' = queue \/ queue' = [queue EXCEPT ![attempt[e].key] = Append(@, Frame(e, kind))]
<1>1. Frame(e, kind) \in Frames
  BY DEF Frame, Frames
<1>2. Append(queue[attempt[e].key], Frame(e, kind)) \in Seq(Frames)
  BY <1>1 DEF TypeOK, PageType
<1> QED
  BY <1>2 DEF Emit, TypeOK, PageType

------------------------------------------------------------------------------
(* The fence                                                               *)

LEMMA LeastNatural ==
  ASSUME NEW T, T \subseteq Nat, T # {}
  PROVE  \E x \in T : \A y \in T : x <= y
<1> DEFINE R == OpToRel(<, Nat)
<1>1. IsWellFoundedOn(R, Nat)
  BY NatLessThanWellFounded
<1>2. \A x, y \in Nat : <<y, x>> \in R <=> y < x
  BY DEF OpToRel
<1> HIDE DEF R
<1>3. PICK x \in T : \A y \in T : ~ (<<y, x>> \in R)
  BY <1>1, WFMin
<1>4. \A y \in T : x \in Nat /\ y \in Nat /\ ~(y < x)
  BY <1>2, <1>3
<1>5. \A y \in T : x <= y
  BY <1>4
<1> QED
  BY <1>3, <1>5

LEMMA MinIsLeast ==
  ASSUME NEW T, T \subseteq Nat, T # {}
  PROVE  Min(T) \in T /\ \A y \in T : Min(T) <= y
<1>1. \E x \in T : \A y \in T : x <= y
  BY LeastNatural
<1> QED
  BY <1>1 DEF Min

LEMMA MaxOfTwo ==
  ASSUME NEW x \in Nat, NEW y \in Nat
  PROVE  Max({x, y}) = IF x < y THEN y ELSE x
<1>1. \A z \in {x, y} : (IF x < y THEN y ELSE x) >= z
  OBVIOUS
<1>2. Max({x, y}) \in {x, y} /\ \A z \in {x, y} : Max({x, y}) >= z
  BY <1>1 DEF Max
<1>3. Max({x, y}) = x \/ Max({x, y}) = y
  BY <1>2
<1>4. Max({x, y}) >= x /\ Max({x, y}) >= y
  BY <1>2
<1> QED
  BY <1>3, <1>4

(* What the fence remembers of a source, it remembers by the source's own  *)
(* entry or by the floor; and as long as there are few sources, the floor  *)
(* rises only to what every source has started at least.                   *)
LEMMA FenceMoves ==
  ASSUME HostType, NEW k \in Sources, NEW e \in Epochs, fence' = Committed(k, e)
  PROVE  /\ fence' \in [lastStarted : [Sources -> Maybe], floor : Maybe]
         /\ fence'.floor >= fence.floor
         /\ e <= fence'.lastStarted[k] \/ e <= fence'.floor
         /\ fence'.lastStarted[k] <= e
         /\ \A q \in Sources \ {k} :
              /\ fence'.lastStarted[q] <= fence.lastStarted[q]
              /\ \/ fence.lastStarted[q] <= fence'.lastStarted[q]
                 \/ fence.lastStarted[q] <= fence'.floor
         /\ FewSources /\ fence'.floor # fence.floor =>
              fence'.floor <= e /\ \A q \in Sources : q # k => fence'.floor <= fence.lastStarted[q]
<1> DEFINE last == [fence.lastStarted EXCEPT ![k] = e]
           entries == {q \in Sources : last[q] # None}
           epochs == {last[q] : q \in entries}
           lowest == Min(epochs)
<1>1. last \in [Sources -> Maybe] /\ last[k] = e /\ \A q \in Sources \ {k} : last[q] = fence.lastStarted[q]
  BY DEF HostType, Maybe
<1>2. Maybe \subseteq Nat /\ None \in Maybe /\ \A x \in Maybe : None <= x
  BY LiveAssumption DEF Maybe, Epochs, None
<1>2a. fence.floor \in Maybe /\ e \in Nat /\ e # None
  BY <1>2, LiveAssumption DEF HostType, Epochs, None
<1> HIDE DEF last
<1>3. epochs \subseteq Maybe /\ e \in epochs
  BY <1>1, <1>2a
<1>4. lowest \in epochs /\ \A y \in epochs : lowest <= y
  BY <1>2, <1>3, MinIsLeast
<1>5. \A q \in entries : lowest <= last[q]
  BY <1>4
<1>6. lowest \in Maybe /\ lowest <= e
  BY <1>1, <1>2, <1>2a, <1>3, <1>4
<1>7. CASE Cardinality(entries) <= LIVE_PICKER_FENCE_CAP
  <2>1. fence' = Fence(last, fence.floor)
    BY <1>7 DEF Committed, last
  <2>2. fence'.lastStarted = last /\ fence'.floor = fence.floor
    BY <2>1 DEF Fence
  <2>3. fence' \in [lastStarted : [Sources -> Maybe], floor : Maybe]
    BY <1>1, <1>2a, <2>1 DEF Fence
  <2>4. \A q \in Sources : last[q] \in Nat /\ fence.floor \in Nat
    BY <1>1, <1>2, <1>2a
  <2> QED
    BY <1>1, <1>2a, <2>2, <2>3, <2>4
<1>8. CASE ~(Cardinality(entries) <= LIVE_PICKER_FENCE_CAP)
  <2> DEFINE kept == [q \in Sources |-> IF last[q] = lowest THEN None ELSE last[q]]
             floor == Max({fence.floor, lowest})
  <2>1. fence' = Fence(kept, floor)
    BY <1>8 DEF Committed, last
  <2>2. fence'.lastStarted = kept /\ fence'.floor = floor
    BY <2>1 DEF Fence
  <2>3. fence.floor \in Nat /\ lowest \in Nat
    BY <1>2, <1>2a, <1>6
  <2>4. floor = IF fence.floor < lowest THEN lowest ELSE fence.floor
    BY <2>3, MaxOfTwo
  <2>5. fence' \in [lastStarted : [Sources -> Maybe], floor : Maybe]
    <3>1. floor \in Maybe
      BY <1>2a, <1>6, <2>4
    <3>2. kept \in [Sources -> Maybe]
      BY <1>1, <1>2
    <3> QED
      BY <2>1, <3>1, <3>2 DEF Fence
  <2> HIDE DEF floor
  <2>6. floor >= fence.floor /\ floor >= lowest /\ floor \in Nat
    BY <2>3, <2>4
  <2>7. \A q \in Sources : last[q] \in Nat /\ kept[q] \in Nat /\ kept[q] <= last[q]
                           /\ (last[q] <= kept[q] \/ last[q] <= floor)
    <3>1. SUFFICES ASSUME NEW q \in Sources
                   PROVE  /\ last[q] \in Nat /\ kept[q] \in Nat /\ kept[q] <= last[q]
                          /\ (last[q] <= kept[q] \/ last[q] <= floor)
      OBVIOUS
    <3>2. last[q] \in Nat /\ None <= last[q] /\ None \in Nat
      BY <1>1, <1>2
    <3>3. CASE last[q] = lowest
      <4>1. kept[q] = None
        BY <3>3
      <4>2. last[q] <= floor
        BY <2>3, <2>6, <3>3
      <4> QED
        BY <3>2, <4>1, <4>2
    <3>4. CASE last[q] # lowest
      <4>1. kept[q] = last[q]
        BY <3>4
      <4> QED
        BY <3>2, <4>1
    <3> QED
      BY <3>3, <3>4
  <2>8. FewSources /\ floor # fence.floor => floor <= e /\ \A q \in Sources : floor <= last[q]
    <3>1. HAVE FewSources /\ floor # fence.floor
    <3>2. floor = lowest
      BY <2>3, <2>4, <3>1
    <3>3. entries \in SUBSET Sources /\ IsFiniteSet(Sources)
      BY <3>1 DEF FewSources
    <3>4. Cardinality(Sources) \in Nat /\ Cardinality(entries) \in Nat
      BY <3>3, FS_CardinalityType, FS_Subset
    <3>5. Cardinality(Sources) <= Cardinality(entries)
      BY <1>8, <3>1, <3>4, LiveAssumption DEF FewSources
    <3>6. entries = Sources
      BY <3>3, <3>4, <3>5, FS_Subset
    <3> QED
      BY <1>5, <1>6, <3>2, <3>6
  <2> QED
    BY <1>1, <2>2, <2>5, <2>6, <2>7, <2>8
<1> QED
  BY <1>7, <1>8

------------------------------------------------------------------------------
(* Type correctness                                                        *)

LEMMA KeyOfAttempt ==
  ASSUME LiveInv, NEW e \in Epochs, attempt[e].phase # "unused" \/ worker[e] # "none"
  PROVE  attempt[e].key \in Sources /\ attempt[e].phase # "unused"
BY DEF LiveInv, PageInv, HostInv, AttemptOK, WorkerOK

LEMMA TakeType ==
  ASSUME TypeOK, NEW k \in Sources, TakeSupervisor(k)
  PROVE  /\ supervisor' \in [Sources -> Maybe] /\ stopped' \subseteq Epochs /\ child' \subseteq Epochs
         /\ child' \subseteq child /\ stopped \subseteq stopped'
<1>1. supervisor[k] \in Maybe
  BY DEF TypeOK, HostType
<1>2. {supervisor[k]} \ {None} \subseteq Epochs
  BY <1>1 DEF Maybe
<1> QED
  BY <1>2 DEF TakeSupervisor, TypeOK, HostType, Maybe

LEMMA HeadIsFrame ==
  ASSUME TypeOK, NEW k \in Sources, queue[k] # <<>>
  PROVE  Head(queue[k]) \in Frames /\ Tail(queue[k]) \in Seq(Frames)
BY DEF TypeOK, PageType

LEMMA PageTypeStep == LiveInv /\ [Next]_vars => PageType'
<1> SUFFICES ASSUME LiveInv, [Next]_vars PROVE PageType'
  OBVIOUS
<1>0. TypeOK /\ PageType /\ Maybe \subseteq Nat /\ None \in Maybe
  BY LiveAssumption DEF LiveInv, TypeOK, Maybe, None, Epochs
<1>v. InitialView \in [status : Statuses, rows : Maybe]
  BY DEF InitialView, View, Statuses, Maybe
<1>1. CASE UNCHANGED vars
  BY <1>0, <1>1 DEF vars, page, source, PageType
<1>2. ASSUME NEW k \in Sources,
             \/ \E enabled \in BOOLEAN : Add(k, enabled) \/ Enable(k, enabled)
             \/ \E autoStart \in BOOLEAN : Rearm(k, autoStart)
      PROVE  PageType'
  <2>1. PICK enabled \in BOOLEAN, autoStart \in BOOLEAN : Retarget(k, enabled, autoStart)
    <3>1. target[k].enabled \in BOOLEAN
      BY <1>0 DEF PageType
    <3> QED
      BY <1>2, <3>1 DEF Add, Enable, Rearm
  <2>2. view' = view \/ view' = [view EXCEPT ![k] = InitialView]
    BY <1>2 DEF Add, Enable, Rearm
  <2>3. view' \in [Sources -> [status : Statuses, rows : Maybe]]
    BY <1>0, <1>v, <2>2 DEF PageType
  <2>4. lastEpoch' = lastEpoch /\ (born' = born \/ born' = [born EXCEPT ![k] = lastEpoch])
    BY <1>2 DEF Add, Enable, Rearm
  <2>5. lastEpoch' \in Maybe /\ born' \in [Sources -> Maybe]
    BY <1>0, <2>4 DEF PageType
  <2> QED
    BY <1>0, <2>1, <2>3, <2>5, RetargetType
<1>3. ASSUME NEW k \in Sources, Remove(k)
      PROVE  PageType'
  <2>1. attempt' \in [Epochs -> Attempts]
    BY <1>0, <1>3, InterruptType DEF Remove
  <2>2. view' \in [Sources -> [status : Statuses, rows : Maybe]]
    BY <1>0, <1>3, <1>v DEF Remove, PageType
  <2>3. target' \in [Sources -> [on : BOOLEAN, enabled : BOOLEAN, autoStart : BOOLEAN]]
    BY <1>0, <1>3 DEF Remove, PageType, NoTarget, Target
  <2>4. fiber' \in [Sources -> [run : Runs, first : BOOLEAN, cur : Maybe]]
    BY <1>0, <1>3 DEF Remove, PageType, NoFiber, Fiber, Runs
  <2>5. queue' \in [Sources -> Seq(Frames)]
    BY <1>0, <1>3 DEF Remove, PageType
  <2> QED
    BY <1>0, <1>3, <2>1, <2>2, <2>3, <2>4, <2>5 DEF Remove, PageType
<1>4. CASE Reload
  <2>1. attempt' \in [Epochs -> Attempts]
    BY <1>0, <1>4, MovesType DEF Reload, PageType
  <2>2. target' \in [Sources -> [on : BOOLEAN, enabled : BOOLEAN, autoStart : BOOLEAN]]
    BY <1>4 DEF Reload, NoTarget, Target
  <2>3. fiber' \in [Sources -> [run : Runs, first : BOOLEAN, cur : Maybe]]
    BY <1>0, <1>4 DEF Reload, NoFiber, Fiber, Runs
  <2>4. queue' \in [Sources -> Seq(Frames)]
    BY <1>4 DEF Reload
  <2>5. view' \in [Sources -> [status : Statuses, rows : Maybe]]
    BY <1>4, <1>v DEF Reload
  <2> QED
    BY <1>0, <1>4, <2>1, <2>2, <2>3, <2>4, <2>5 DEF Reload, PageType
<1>5. ASSUME NEW k \in Sources, Attempt(k)
      PROVE  PageType'
  <2>1. lastEpoch + 1 \in Epochs
    BY <1>0, <1>5, LiveAssumption DEF Attempt, Maybe, Epochs, None, PageType
  <2>2. AutoStart(k) \in BOOLEAN
    BY <1>0 DEF AutoStart, PageType
  <2>3. AttemptOf(k, AutoStart(k), "starting", "fiber", FALSE, "none") \in Attempts
    BY <2>2 DEF AttemptOf, Attempts, Keys, Phases, Owners
  <2>4. attempt' \in [Epochs -> Attempts]
    BY <1>0, <1>5, <2>3 DEF Attempt, PageType
  <2>5. fiber' \in [Sources -> [run : Runs, first : BOOLEAN, cur : Maybe]]
    <3>1. Fiber("busy", fiber[k].first, lastEpoch + 1) \in [run : Runs, first : BOOLEAN, cur : Maybe]
      BY <1>0, <2>1 DEF Fiber, PageType, Runs, Maybe
    <3> QED
      BY <1>0, <1>5, <3>1 DEF Attempt, PageType
  <2>6. view' \in [Sources -> [status : Statuses, rows : Maybe]]
    <3>1. View(IF fiber[k].first THEN "connecting" ELSE "reconnecting", view[k].rows)
            \in [status : Statuses, rows : Maybe]
      BY <1>0 DEF View, PageType, Statuses
    <3> QED
      BY <1>0, <1>5, <3>1 DEF Attempt, PageType
  <2> QED
    BY <1>0, <1>5, <2>1, <2>4, <2>5, <2>6 DEF Attempt, PageType, Maybe
<1>6. ASSUME NEW k \in Sources, Consume(k)
      PROVE  PageType'
  <2> DEFINE f == Head(queue[k])
             e == fiber[k].cur
  <2>1. f \in Frames /\ Tail(queue[k]) \in Seq(Frames)
    BY <1>0, <1>6, HeadIsFrame DEF Consume
  <2>2. queue' \in [Sources -> Seq(Frames)]
    BY <1>0, <1>6, <2>1 DEF Consume, PageType
  <2>3. Folded(view[k], f) \in [status : Statuses, rows : Maybe]
    BY <1>0, <2>1 DEF Folded, View, PageType, Statuses, Frames, Maybe
  <2>4. view' \in [Sources -> [status : Statuses, rows : Maybe]]
    BY <1>0, <1>6, <2>3 DEF Consume, PageType
  <2>5. attempt' \in [Epochs -> Attempts]
    <3>1. CASE e \in Epochs
      <4>1. Heard(attempt[e], f) \in Attempts
        BY <1>0, <2>1, <3>1, MovesType DEF PageType
      <4> QED
        BY <1>0, <1>6, <4>1 DEF Consume, PageType
    <3>2. CASE e \notin Epochs
      BY <1>0, <1>6, <3>2 DEF Consume, PageType
    <3> QED
      BY <3>1, <3>2
  <2> QED
    BY <1>0, <1>6, <2>2, <2>4, <2>5 DEF Consume, PageType
<1>7. ASSUME NEW k \in Sources, Wake(k) \/ Poll(k)
      PROVE  PageType'
  <2>1. GoesOn(k) /\ UNCHANGED <<target, queue, view, attempt, lastEpoch, born>>
    BY <1>7 DEF Wake, Poll
  <2>2. fiber' \in [Sources -> [run : Runs, first : BOOLEAN, cur : Maybe]]
    BY <1>0, <2>1 DEF GoesOn, PageType, Fiber, Runs
  <2> QED
    BY <1>0, <2>1, <2>2 DEF PageType
<1>8. CASE StartInstalls
  <2>1. PICK ok \in BOOLEAN : Started(starting.epoch, ok)
    BY <1>8 DEF StartInstalls
  <2>2. starting.epoch \in Epochs /\ UNCHANGED <<source, view, lastEpoch, born>>
    BY <1>8 DEF StartInstalls, LiveInv, HostInv, StartingOK, HostStep
  <2>3. attempt' \in [Epochs -> Attempts]
    BY <1>0, <2>1, <2>2, StartedType
  <2> QED
    BY <1>0, <2>2, <2>3 DEF PageType, source
<1>9. ASSUME NEW e \in Epochs, StartBegins(e)
      PROVE  PageType'
  <2>1. attempt' \in [Epochs -> Attempts]
    <3>1. CASE UNCHANGED attempt
      BY <1>0, <3>1 DEF PageType
    <3>2. CASE Started(e, TRUE)
      BY <1>0, <3>2, StartedType
    <3> QED
      BY <1>9, <3>1, <3>2 DEF StartBegins
  <2> QED
    BY <1>0, <1>9, <2>1 DEF StartBegins, PageType, source, HostStep
<1>10. ASSUME NEW e \in Epochs, StopBegins(e) \/ StopJoins(e)
       PROVE  PageType'
  <2>1. UNCHANGED <<lastEpoch, born>>
    BY <1>10 DEF StopBegins, StopJoins, HostStep
  <2>2. CASE Stopped(e)
    BY <1>0, <1>10, <2>1, <2>2, StoppedType, KeyOfAttempt DEF StopBegins, StopJoins
  <2>3. CASE attempt' = [attempt EXCEPT ![e] = InPhase(attempt[e], "joining")]
             /\ UNCHANGED <<source, view>>
    <3>1. InPhase(attempt[e], "joining") \in Attempts
      BY <1>0, MovesType DEF PageType, Phases
    <3> QED
      BY <1>0, <2>1, <2>3, <3>1 DEF PageType, source
  <2> QED
    BY <1>10, <2>2, <2>3 DEF StopBegins, StopJoins
<1>11. ASSUME NEW e \in Epochs,
              Spawn(e) \/ StoreChild(e) \/ ReadFrame(e) \/ ReadEnds(e) \/ WorkerEnds(e) \/ ChildDies(e)
       PROVE  PageType'
  <2>1. UNCHANGED <<view, attempt, lastEpoch, born>>
    BY <1>11 DEF Spawn, StoreChild, ReadFrame, ReadEnds, WorkerEnds, ChildDies, WorkerStep, HostStep
  <2>2. CASE UNCHANGED source
    BY <1>0, <2>1, <2>2 DEF PageType, source
  <2>3. CASE \E kind \in Kinds : Emit(e, kind) /\ worker[e] # "none"
    BY <1>0, <2>1, <2>3, KeyOfAttempt, EmitType DEF PageType
  <2> QED
    BY <1>11, <2>2, <2>3
    DEF Spawn, StoreChild, ReadFrame, ReadEnds, WorkerEnds, ChildDies, EndOfOutput, ReadsRows,
        ReadsOffline, ReadsFailure, Kinds, Terminals
<1>12. ASSUME NEW k \in Sources, DaemonFlips(k)
       PROVE  PageType'
  BY <1>0, <1>12 DEF DaemonFlips, page, source, PageType
<1> QED
  BY <1>1, <1>2, <1>3, <1>4, <1>5, <1>6, <1>7, <1>8, <1>9, <1>10, <1>11, <1>12
  DEF Next, UserActs, PageActs, HostActs, Environment

LEMMA HostTypeStep == LiveInv /\ [Next]_vars => HostType' /\ daemon' \in [Sources -> BOOLEAN]
<1> SUFFICES ASSUME LiveInv, [Next]_vars PROVE HostType' /\ daemon' \in [Sources -> BOOLEAN]
  OBVIOUS
<1>0. TypeOK /\ HostType /\ daemon \in [Sources -> BOOLEAN]
  BY DEF LiveInv, TypeOK
<1>1. CASE UNCHANGED vars
  BY <1>0, <1>1 DEF vars, host, HostType
<1>2. CASE UserActs \/ PageActs
  BY <1>0, <1>2 DEF UserActs, PageActs, Add, Enable, Remove, Rearm, Reload, Attempt, Consume, Wake,
                    Poll, host, HostType
<1>3. CASE StartInstalls
  <2> DEFINE e == starting.epoch
             k == attempt[e].key
  <2>1. starting' = Unlocked /\ UNCHANGED <<stopped, child, daemon>> /\ e \in Epochs
    BY <1>3 DEF StartInstalls, HostStep, LiveInv, HostInv, StartingOK
  <2>2. Unlocked \in [epoch : Maybe, joining : Maybe]
    BY DEF Unlocked, Maybe
  <2>3. CASE UNCHANGED <<supervisor, worker, fence>>
    BY <1>0, <2>1, <2>2, <2>3 DEF HostType
  <2>4. CASE /\ supervisor' = [supervisor EXCEPT ![k] = e]
             /\ worker' = [worker EXCEPT ![e] = "spawning"] /\ fence' = Committed(k, e)
    <3>1. k \in Sources
      BY <1>3, <2>1, KeyOfAttempt DEF StartInstalls, LiveInv, HostInv, StartingOK
    <3>2. fence' \in [lastStarted : [Sources -> Maybe], floor : Maybe]
      BY <1>0, <2>1, <2>4, <3>1, FenceMoves
    <3>3. supervisor' \in [Sources -> Maybe] /\ worker' \in [Epochs -> Threads]
      BY <1>0, <2>1, <2>4 DEF HostType, Maybe, Threads
    <3> QED
      BY <1>0, <2>1, <2>2, <3>2, <3>3 DEF HostType
  <2> QED
    BY <1>3, <2>3, <2>4 DEF StartInstalls
<1>4. ASSUME NEW e \in Epochs, StartBegins(e)
      PROVE  HostType' /\ daemon' \in [Sources -> BOOLEAN]
  <2> DEFINE k == attempt[e].key
  <2>1. UNCHANGED <<fence, worker, daemon>>
    BY <1>4 DEF StartBegins, HostStep
  <2>2. CASE UNCHANGED <<starting, supervisor, stopped, child>>
    BY <1>0, <2>1, <2>2 DEF HostType
  <2>3. CASE starting' = [epoch |-> e, joining |-> supervisor[k]] /\ TakeSupervisor(k)
    <3>1. k \in Sources
      BY <1>4, KeyOfAttempt DEF StartBegins
    <3>2. starting' \in [epoch : Maybe, joining : Maybe]
      BY <1>0, <2>3, <3>1 DEF HostType, Maybe
    <3> QED
      BY <1>0, <2>1, <2>3, <3>1, <3>2, TakeType DEF HostType
  <2> QED
    BY <1>4, <2>2, <2>3 DEF StartBegins
<1>5. ASSUME NEW e \in Epochs, StopBegins(e) \/ StopJoins(e)
      PROVE  HostType' /\ daemon' \in [Sources -> BOOLEAN]
  <2>1. UNCHANGED <<fence, starting, worker, daemon>>
    BY <1>5 DEF StopBegins, StopJoins, HostStep, host
  <2>2. CASE UNCHANGED <<supervisor, stopped, child>>
    BY <1>0, <2>1, <2>2 DEF HostType
  <2>3. CASE TakeSupervisor(attempt[e].key) /\ attempt[e].phase = "releasing"
    BY <1>0, <2>1, <2>3, KeyOfAttempt, TakeType DEF HostType
  <2> QED
    BY <1>5, <2>2, <2>3 DEF StopBegins, StopJoins, host
<1>6. ASSUME NEW e \in Epochs,
             Spawn(e) \/ StoreChild(e) \/ ReadFrame(e) \/ ReadEnds(e) \/ WorkerEnds(e) \/ ChildDies(e)
      PROVE  HostType' /\ daemon' \in [Sources -> BOOLEAN]
  <2>1. UNCHANGED <<fence, starting, stopped>>
    BY <1>6 DEF Spawn, StoreChild, ReadFrame, ReadEnds, WorkerEnds, ChildDies, WorkerStep
  <2>2. worker' = worker \/ \E step \in Threads : worker' = [worker EXCEPT ![e] = step]
    BY <1>6 DEF Spawn, StoreChild, Store, ReadFrame, ReadsRows, ReadsOffline, ReadsFailure, ReadEnds,
                WorkerEnds, ChildDies, Threads
  <2>3. worker' \in [Epochs -> Threads]
    BY <1>0, <2>2 DEF HostType
  <2>4. child' \subseteq child \cup {e}
    BY <1>6 DEF Spawn, StoreChild, Store, ReadFrame, ReadEnds, WorkerEnds, ChildDies
  <2>5. supervisor' = supervisor \/ \E k \in Keys : supervisor' = [supervisor EXCEPT ![k] = None]
    <3>1. attempt[e].key \in Keys
      BY <1>0 DEF TypeOK, PageType, Attempts
    <3> QED
      BY <1>6, <3>1 DEF Spawn, StoreChild, ReadFrame, ReadEnds, WorkerEnds, ChildDies
  <2>6. supervisor' \in [Sources -> Maybe]
    BY <1>0, <2>5 DEF HostType, Maybe
  <2>7. daemon' = daemon \/ \E k \in Keys : daemon' = [daemon EXCEPT ![k] = TRUE]
    <3>1. attempt[e].key \in Keys
      BY <1>0 DEF TypeOK, PageType, Attempts
    <3> QED
      BY <1>6, <3>1 DEF Spawn, StoreChild, ReadFrame, ReadsRows, ReadsOffline, ReadsFailure, ReadEnds,
                        WorkerEnds, ChildDies, WorkerStep, HostStep
  <2> QED
    BY <1>0, <2>1, <2>3, <2>4, <2>6, <2>7 DEF HostType
<1>7. ASSUME NEW k \in Sources, DaemonFlips(k)
      PROVE  HostType' /\ daemon' \in [Sources -> BOOLEAN]
  BY <1>0, <1>7 DEF DaemonFlips, host, HostType
<1> QED
  BY <1>1, <1>2, <1>3, <1>4, <1>5, <1>6, <1>7 DEF Next, HostActs, Environment

------------------------------------------------------------------------------
(* The page: fibers and their attempts                                     *)

LEMMA PageInit == Init => PageInv
BY LiveAssumption DEF Init, PageInv, FiberOK, AttemptOK, OwnedOK, NoTarget, NoFiber, NoAttempt,
   Target, Fiber, AttemptOf, Epochs, UnderWay

LEMMA PageFrame ==
  ASSUME PageInv, UNCHANGED <<target, fiber, attempt, lastEpoch, born>>
  PROVE  PageInv'
BY DEF PageInv, FiberOK, AttemptOK, OwnedOK

(* An attempt that goes on, or ends without a fiber, changes nothing else. *)
LEMMA AttemptMoves ==
  ASSUME TypeOK, PageInv, UNCHANGED <<target, fiber, lastEpoch, born>>,
         NEW e \in Epochs, NEW a \in Attempts, attempt' = [attempt EXCEPT ![e] = a],
         a.key = attempt[e].key, a.owner = attempt[e].owner, attempt[e].phase \in UnderWay,
         a.phase \in UnderWay \/ (a.phase = "ended" /\ a.owner # "fiber")
  PROVE  PageInv'
<1>1. \A f \in Epochs : /\ attempt'[f].key = attempt[f].key /\ attempt'[f].owner = attempt[f].owner
                        /\ f # e => attempt'[f] = attempt[f]
  BY DEF TypeOK, PageType
<1>2. attempt'[e] = a
  BY DEF TypeOK, PageType
<1>3. ASSUME NEW f \in Epochs PROVE AttemptOK(f)'
  <2>1. AttemptOK(f)
    BY DEF PageInv
  <2>2. CASE f # e
    BY <1>1, <2>1, <2>2 DEF AttemptOK
  <2>3. CASE f = e
    BY <1>1, <1>2, <2>1, <2>3 DEF AttemptOK, UnderWay
  <2> QED
    BY <2>2, <2>3
<1>4. ASSUME NEW f \in Epochs PROVE OwnedOK(f)'
  <2>1. OwnedOK(f)
    BY DEF PageInv
  <2>2. CASE f # e
    BY <1>1, <2>1, <2>2 DEF OwnedOK
  <2>3. CASE f = e
    BY <1>1, <1>2, <2>1, <2>3 DEF OwnedOK, UnderWay
  <2> QED
    BY <2>2, <2>3
<1>5. ASSUME NEW k \in Sources PROVE FiberOK(k)'
  <2>1. FiberOK(k)
    BY DEF PageInv
  <2>2. ASSUME fiber[k].run = "busy" PROVE attempt'[fiber[k].cur].phase \in UnderWay
    <3>1. fiber[k].cur \in Epochs /\ attempt[fiber[k].cur].phase \in UnderWay
          /\ attempt[fiber[k].cur].owner = "fiber"
      BY <2>1, <2>2 DEF FiberOK
    <3> QED
      BY <1>1, <1>2, <3>1
  <2> QED
    BY <1>1, <2>1, <2>2 DEF FiberOK
<1> QED
  BY <1>3, <1>4, <1>5 DEF PageInv

(* What an interruption leaves of the attempts.                            *)
LEMMA Interruption ==
  ASSUME TypeOK, PageInv, NEW k \in Sources, Interrupt(k)
  PROVE  \A f \in Epochs :
           /\ attempt'[f].key = attempt[f].key
           /\ IF fiber[k].run = "busy" /\ f = fiber[k].cur
              THEN /\ attempt'[f].owner = "nobody"
                   /\ attempt'[f].phase = IF attempt[f].phase = "consuming" THEN "releasing"
                                          ELSE attempt[f].phase
              ELSE attempt'[f] = attempt[f]
<1>1. CASE fiber[k].run # "busy"
  BY <1>1 DEF Interrupt
<1>2. CASE fiber[k].run = "busy"
  BY <1>2 DEF Interrupt, LetGo, AttemptOf, TypeOK, PageType
<1> QED
  BY <1>1, <1>2

(* A source's fiber is interrupted: its attempt has no owner any more.     *)
LEMMA FiberGoes ==
  ASSUME TypeOK, PageInv, NEW k \in Sources, Interrupt(k), lastEpoch' = lastEpoch,
         NEW t, NEW r, target' = [target EXCEPT ![k] = t], fiber' = [fiber EXCEPT ![k] = r],
         r.run # "busy", r.run # "parked" => t.on /\ t.enabled,
         \A j \in Sources : j # k => born'[j] = born[j], born'[k] <= lastEpoch
  PROVE  PageInv'
<1>1. \A j \in Sources : j # k => target'[j] = target[j] /\ fiber'[j] = fiber[j]
  BY DEF TypeOK, PageType
<1>2. target'[k] = t /\ fiber'[k] = r
  BY DEF TypeOK, PageType
<1>3. ASSUME NEW f \in Epochs PROVE AttemptOK(f)'
  <2>1. AttemptOK(f) /\ attempt'[f].key = attempt[f].key
        /\ (attempt'[f].phase = "unused" <=> attempt[f].phase = "unused")
    BY Interruption DEF PageInv
  <2> QED
    BY <2>1 DEF AttemptOK
<1>4. ASSUME NEW f \in Epochs PROVE OwnedOK(f)'
  <2>1. SUFFICES ASSUME attempt'[f].owner = "fiber", attempt'[f].phase \in UnderWay
                 PROVE  fiber'[attempt'[f].key].run = "busy" /\ fiber'[attempt'[f].key].cur = f
    BY DEF OwnedOK
  <2>2. attempt'[f] = attempt[f] /\ ~(fiber[k].run = "busy" /\ f = fiber[k].cur)
    BY <2>1, Interruption
  <2>3. fiber[attempt[f].key].run = "busy" /\ fiber[attempt[f].key].cur = f
    BY <2>1, <2>2 DEF PageInv, OwnedOK
  <2>4. attempt[f].key \in Sources
    BY <2>1, <2>2 DEF PageInv, AttemptOK, UnderWay
  <2> QED
    BY <1>1, <2>2, <2>3, <2>4
<1>5. ASSUME NEW j \in Sources PROVE FiberOK(j)'
  <2>1. CASE j = k
    BY <1>2, <2>1 DEF FiberOK
  <2>2. CASE j # k
    <3>1. FiberOK(j) /\ FiberOK(k)
      BY DEF PageInv
    <3>2. target'[j] = target[j] /\ fiber'[j] = fiber[j] /\ born'[j] = born[j]
      BY <1>1, <2>2
    <3>3. \A f \in Epochs : attempt'[f].key = attempt[f].key
      BY Interruption
    <3>4. ASSUME fiber[j].run = "busy" PROVE attempt'[fiber[j].cur] = attempt[fiber[j].cur]
      BY <2>2, <3>1, <3>4, Interruption DEF FiberOK
    <3> QED
      BY <3>1, <3>2, <3>3, <3>4 DEF FiberOK
  <2> QED
    BY <2>1, <2>2
<1> QED
  BY <1>3, <1>4, <1>5 DEF PageInv

LEMMA PageStep == LiveInv /\ [Next]_vars => PageInv'
<1> SUFFICES ASSUME LiveInv, [Next]_vars PROVE PageInv'
  OBVIOUS
<1>0. TypeOK /\ PageType /\ PageInv /\ Maybe \subseteq Nat /\ None \in Maybe
  BY LiveAssumption DEF LiveInv, TypeOK, Maybe, None, Epochs
<1>1. CASE UNCHANGED vars
  BY <1>0, <1>1, PageFrame DEF vars, page, source
<1>2. ASSUME NEW k \in Sources,
             \/ \E enabled \in BOOLEAN : Add(k, enabled) \/ Enable(k, enabled)
             \/ \E autoStart \in BOOLEAN : Rearm(k, autoStart)
             \/ Remove(k)
      PROVE  PageInv'
  <2>1. /\ Interrupt(k) /\ lastEpoch' = lastEpoch
        /\ \A j \in Sources : j # k => born'[j] = born[j]
    BY <1>0, <1>2 DEF Add, Enable, Rearm, Remove, Retarget, PageType
  <2>1a. born'[k] <= lastEpoch
    <3>1. born[k] <= lastEpoch /\ lastEpoch <= lastEpoch
      BY <1>0 DEF PageInv, FiberOK, PageType
    <3>2. born'[k] = born[k] \/ born'[k] = lastEpoch
      BY <1>0, <1>2 DEF Add, Enable, Rearm, Remove, PageType
    <3> QED
      BY <3>1, <3>2
  <2>2. PICK t, r : /\ target' = [target EXCEPT ![k] = t] /\ fiber' = [fiber EXCEPT ![k] = r]
                    /\ r.run # "busy" /\ (r.run # "parked" => t.on /\ t.enabled)
    <3>1. CASE Remove(k)
      <4>1. NoFiber.run = "parked"
        BY DEF NoFiber, Fiber
      <4>2. target' = [target EXCEPT ![k] = NoTarget] /\ fiber' = [fiber EXCEPT ![k] = NoFiber]
        BY <3>1 DEF Remove
      <4> QED
        BY <4>1, <4>2
    <3>2. ASSUME NEW enabled \in BOOLEAN, NEW autoStart \in BOOLEAN,
                 Retarget(k, enabled, autoStart)
          PROVE  \E t, r : /\ target' = [target EXCEPT ![k] = t] /\ fiber' = [fiber EXCEPT ![k] = r]
                           /\ r.run # "busy" /\ (r.run # "parked" => t.on /\ t.enabled)
      <4> DEFINE t == Target(TRUE, enabled, autoStart)
                 r == Fiber(IF enabled THEN "next" ELSE "parked", TRUE, None)
      <4>1. r.run # "busy" /\ (r.run # "parked" => t.on /\ t.enabled)
        BY DEF Fiber, Target
      <4>2. target' = [target EXCEPT ![k] = t] /\ fiber' = [fiber EXCEPT ![k] = r]
        BY <3>2 DEF Retarget
      <4> QED
        BY <4>1, <4>2
    <3>3. target[k].enabled \in BOOLEAN
      BY <1>0 DEF PageType
    <3> QED
      BY <1>2, <3>1, <3>2, <3>3 DEF Add, Enable, Rearm
  <2> QED
    BY <1>0, <2>1, <2>1a, <2>2, FiberGoes
<1>3. CASE Reload
  <2>1. /\ \A k \in Sources : fiber'[k].run = "parked"
        /\ \A f \in Epochs : /\ attempt'[f].key = attempt[f].key /\ attempt'[f].owner = "reloaded"
                             /\ attempt'[f].phase = "unused" <=> attempt[f].phase = "unused"
    BY <1>3 DEF Reload, NoFiber, Fiber, Forsaken, AttemptOf
  <2>2. lastEpoch' = lastEpoch /\ born' = born
    BY <1>3 DEF Reload
  <2> QED
    BY <1>0, <2>1, <2>2 DEF PageInv, FiberOK, OwnedOK, AttemptOK
<1>4. ASSUME NEW k \in Sources, Attempt(k)
      PROVE  PageInv'
  <2> DEFINE n == lastEpoch + 1
  <2>1. /\ n \in Epochs /\ lastEpoch \in Nat /\ lastEpoch' = n /\ fiber[k].run = "next"
        /\ UNCHANGED <<target, born>>
    BY <1>0, <1>4, LiveAssumption DEF Attempt, Maybe, Epochs, None, PageType
  <2>2. /\ attempt'[n].key = k /\ attempt'[n].phase = "starting" /\ attempt'[n].owner = "fiber"
        /\ \A f \in Epochs : f # n => attempt'[f] = attempt[f]
    BY <1>0, <1>4, <2>1 DEF Attempt, AttemptOf, PageType
  <2>3. /\ fiber'[k].run = "busy" /\ fiber'[k].cur = n
        /\ \A j \in Sources : j # k => fiber'[j] = fiber[j]
    BY <1>0, <1>4 DEF Attempt, Fiber, PageType
  <2>4. \A f \in Epochs : f \in Nat /\ (f <= n <=> f <= lastEpoch \/ f = n) /\ ~(n <= lastEpoch)
    BY <2>1 DEF Epochs
  <2> HIDE DEF n
  <2>5. ASSUME NEW f \in Epochs PROVE AttemptOK(f)'
    <3>1. AttemptOK(f)
      BY <1>0 DEF PageInv
    <3>2. (f > lastEpoch <=> ~(f <= lastEpoch)) /\ (f > n <=> ~(f <= n))
      BY <2>1, <2>4 DEF Epochs
    <3>3. CASE f = n
      BY <2>1, <2>2, <2>4, <3>2, <3>3 DEF AttemptOK
    <3>4. CASE f # n
      BY <2>1, <2>2, <2>4, <3>1, <3>2, <3>4 DEF AttemptOK
    <3> QED
      BY <3>3, <3>4
  <2>6. ASSUME NEW f \in Epochs PROVE OwnedOK(f)'
    <3>1. OwnedOK(f) /\ AttemptOK(f)
      BY <1>0 DEF PageInv
    <3>2. CASE f = n
      BY <2>2, <2>3, <3>2 DEF OwnedOK
    <3>3. CASE f # n
      <4>1. attempt'[f] = attempt[f]
        BY <2>2, <3>3
      <4>2. SUFFICES ASSUME attempt[f].owner = "fiber", attempt[f].phase \in UnderWay
                     PROVE  fiber'[attempt[f].key].run = "busy" /\ fiber'[attempt[f].key].cur = f
        BY <4>1 DEF OwnedOK
      <4>3. attempt[f].key \in Sources /\ fiber[attempt[f].key].run = "busy"
            /\ fiber[attempt[f].key].cur = f
        BY <3>1, <4>2 DEF OwnedOK, AttemptOK, UnderWay
      <4> QED
        BY <2>1, <2>3, <4>3
    <3> QED
      BY <3>2, <3>3
  <2>7. ASSUME NEW j \in Sources PROVE FiberOK(j)'
    <3>1. FiberOK(j) /\ born[j] \in Maybe
      BY <1>0 DEF PageInv, PageType
    <3>2. CASE j = k
      <4>1. target[k].on /\ target[k].enabled
        BY <2>1, <3>1, <3>2 DEF FiberOK
      <4>2. n > born[k] /\ n <= n /\ born[k] <= n
        BY <1>0, <2>1, <3>1, <3>2 DEF Maybe, FiberOK, n
      <4> QED
        BY <2>1, <2>2, <2>3, <3>2, <4>1, <4>2 DEF FiberOK, UnderWay
    <3>3. CASE j # k
      <4>1. fiber'[j] = fiber[j]
        BY <2>3, <3>3
      <4>2. ASSUME fiber[j].run = "busy"
            PROVE  /\ fiber[j].cur # n /\ attempt'[fiber[j].cur] = attempt[fiber[j].cur]
                   /\ fiber[j].cur <= n
                   /\ \A f \in Epochs : f <= n /\ attempt'[f].key = j => f <= fiber[j].cur
        BY <2>2, <2>4, <3>1, <3>3, <4>2 DEF FiberOK
      <4>3. born[j] <= n
        BY <1>0, <2>1, <3>1 DEF Maybe, FiberOK, n
      <4> QED
        BY <2>1, <3>1, <4>1, <4>2, <4>3 DEF FiberOK
    <3> QED
      BY <3>2, <3>3
  <2> QED
    BY <2>5, <2>6, <2>7 DEF PageInv
<1>5. ASSUME NEW k \in Sources, Consume(k)
      PROVE  PageInv'
  <2> DEFINE e == fiber[k].cur
             f == Head(queue[k])
  <2>1. /\ e \in Epochs /\ attempt[e].phase \in UnderWay
        /\ UNCHANGED <<target, fiber, lastEpoch, born>> /\ f \in Frames
    BY <1>0, <1>5, HeadIsFrame DEF Consume, PageInv, FiberOK
  <2>2. CASE UNCHANGED attempt
    BY <1>0, <2>1, <2>2, PageFrame
  <2>3. CASE attempt' = [attempt EXCEPT ![e] = Heard(attempt[e], f)] /\ attempt[e].phase = "consuming"
    <3>1. Heard(attempt[e], f) \in Attempts
      BY <1>0, <2>1, MovesType DEF PageType
    <3>2. /\ Heard(attempt[e], f).key = attempt[e].key
          /\ Heard(attempt[e], f).owner = attempt[e].owner
          /\ Heard(attempt[e], f).phase \in UnderWay
      BY <2>3 DEF Heard, EndedBy, AttemptOf, UnderWay
    <3> QED
      BY <1>0, <2>1, <2>3, <3>1, <3>2, AttemptMoves
  <2> QED
    BY <1>5, <2>2, <2>3 DEF Consume
<1>6. ASSUME NEW k \in Sources, Wake(k) \/ Poll(k)
      PROVE  PageInv'
  <2>1. GoesOn(k) /\ UNCHANGED <<target, attempt, lastEpoch, born>>
        /\ fiber[k].run \in {"sleeping", "polling"}
    BY <1>6 DEF Wake, Poll
  <2>2. /\ fiber'[k].run = "next" /\ fiber'[k].cur = fiber[k].cur
        /\ \A j \in Sources : j # k => fiber'[j] = fiber[j]
    BY <1>0, <2>1 DEF GoesOn, Fiber, PageType
  <2>3. ASSUME NEW j \in Sources PROVE FiberOK(j)'
    BY <1>0, <2>1, <2>2 DEF PageInv, FiberOK
  <2>4. ASSUME NEW f \in Epochs PROVE AttemptOK(f)' /\ OwnedOK(f)'
    BY <1>0, <2>1, <2>2 DEF PageInv, AttemptOK, OwnedOK, UnderWay
  <2> QED
    BY <2>3, <2>4 DEF PageInv
<1>7. ASSUME NEW e \in Epochs, NEW ok \in BOOLEAN, Started(e, ok), attempt[e].phase = "starting",
             UNCHANGED <<target, fiber, lastEpoch, born>>
      PROVE  PageInv'
  <2> DEFINE a == Answered(attempt[e], ok)
  <2>1. a \in Attempts
    BY <1>0, MovesType DEF PageType
  <2>2. a.key = attempt[e].key /\ a.owner = attempt[e].owner
        /\ (a.phase \in UnderWay \/ (a.phase = "ended" /\ a.owner # "fiber"))
    BY DEF Answered, InPhase, EndedBy, AttemptOf, UnderWay
  <2> HIDE DEF a
  <2>3. attempt' = [attempt EXCEPT ![e] = a] /\ attempt[e].phase \in UnderWay
    BY <1>7 DEF Started, UnderWay, a
  <2> QED
    BY <1>0, <1>7, <2>1, <2>2, <2>3, AttemptMoves
<1>8. CASE StartInstalls
  <2>1. /\ starting.epoch \in Epochs /\ attempt[starting.epoch].phase = "starting"
        /\ UNCHANGED <<target, fiber, lastEpoch, born>>
        /\ \E ok \in BOOLEAN : Started(starting.epoch, ok)
    BY <1>8 DEF StartInstalls, LiveInv, HostInv, StartingOK, HostStep, source
  <2> QED
    BY <1>7, <2>1
<1>9. ASSUME NEW e \in Epochs, StartBegins(e)
      PROVE  PageInv'
  <2>1. UNCHANGED <<target, fiber, lastEpoch, born>> /\ attempt[e].phase = "starting"
    BY <1>9 DEF StartBegins, HostStep, source
  <2>2. UNCHANGED attempt \/ Started(e, TRUE)
    BY <1>9 DEF StartBegins
  <2> QED
    BY <1>0, <1>7, <2>1, <2>2, PageFrame
<1>10. ASSUME NEW e \in Epochs, StopBegins(e) \/ StopJoins(e)
       PROVE  PageInv'
  <2>1. UNCHANGED <<lastEpoch, born>> /\ attempt[e].phase \in {"releasing", "joining"}
    BY <1>10 DEF StopBegins, StopJoins, HostStep
  <2>2. CASE attempt' = [attempt EXCEPT ![e] = InPhase(attempt[e], "joining")]
             /\ UNCHANGED <<source, view>>
    <3> DEFINE a == InPhase(attempt[e], "joining")
    <3>1. a \in Attempts
      BY <1>0, MovesType DEF PageType, Phases
    <3>2. a.key = attempt[e].key /\ a.owner = attempt[e].owner /\ a.phase \in UnderWay
      BY DEF InPhase, AttemptOf, UnderWay
    <3> HIDE DEF a
    <3>3. attempt[e].phase \in UnderWay /\ UNCHANGED <<target, fiber>>
      BY <2>1, <2>2 DEF UnderWay, source
    <3>4. attempt' = [attempt EXCEPT ![e] = a]
      BY <2>2 DEF a
    <3> QED
      BY <1>0, <2>1, <3>1, <3>2, <3>3, <3>4, AttemptMoves
  <2>3. CASE Stopped(e)
    <3> DEFINE a == AttemptOf(attempt[e].key, attempt[e].autoStart, "ended", attempt[e].owner, FALSE, "none")
               k == attempt[e].key
    <3>1. a \in Attempts /\ a.key = k /\ a.owner = attempt[e].owner /\ a.phase = "ended"
      BY <1>0 DEF AttemptOf, Attempts, PageType, Phases
    <3> HIDE DEF a
    <3>2. attempt' = [attempt EXCEPT ![e] = a] /\ UNCHANGED target
      BY <2>3 DEF Stopped, a
    <3>3. CASE ~Current(e)
      BY <1>0, <2>1, <2>3, <3>1, <3>2, <3>3, AttemptMoves DEF Stopped, Current, UnderWay
    <3>4. CASE Current(e)
      <4>1. k \in Sources /\ fiber[k].run = "busy" /\ fiber[k].cur = e
        BY <1>0, <2>1, <3>4 DEF Current, PageInv, OwnedOK, AttemptOK, UnderWay
      <4>2. /\ fiber'[k].run \in {"parked", "polling", "sleeping"}
            /\ \A j \in Sources : j # k => fiber'[j] = fiber[j]
        BY <1>0, <2>3, <3>4, <4>1 DEF Stopped, PageType, Fiber, RunAfter
      <4>3. attempt'[e] = a /\ \A f \in Epochs : f # e => attempt'[f] = attempt[f]
        BY <1>0, <3>2 DEF PageType
      <4>4. ASSUME NEW f \in Epochs PROVE AttemptOK(f)'
        <5>1. AttemptOK(f)
          BY <1>0 DEF PageInv
        <5> QED
          BY <2>1, <3>1, <4>3, <5>1 DEF AttemptOK
      <4>5. ASSUME NEW f \in Epochs PROVE OwnedOK(f)'
        <5>1. OwnedOK(f) /\ AttemptOK(f)
          BY <1>0 DEF PageInv
        <5>2. CASE f = e
          BY <3>1, <4>3, <5>2 DEF OwnedOK, UnderWay
        <5>3. CASE f # e
          BY <4>1, <4>2, <4>3, <5>1, <5>3 DEF OwnedOK, AttemptOK, UnderWay
        <5> QED
          BY <5>2, <5>3
      <4>6. ASSUME NEW j \in Sources PROVE FiberOK(j)'
        <5>1. FiberOK(j)
          BY <1>0 DEF PageInv
        <5>2. \A f \in Epochs : attempt'[f].key = attempt[f].key
          BY <3>1, <4>3
        <5>3. CASE j = k
          <6>1. target[k].on /\ target[k].enabled
            BY <4>1, <5>1, <5>3 DEF FiberOK
          <6> QED
            BY <2>1, <3>2, <4>2, <5>1, <5>3, <6>1 DEF FiberOK
        <5>4. CASE j # k
          <6>1. fiber'[j] = fiber[j]
            BY <4>2, <5>4
          <6>2. ASSUME fiber[j].run = "busy" PROVE attempt'[fiber[j].cur] = attempt[fiber[j].cur]
            BY <4>3, <5>1, <5>4, <6>2 DEF FiberOK
          <6> QED
            BY <2>1, <3>2, <5>1, <5>2, <6>1, <6>2 DEF FiberOK
        <5> QED
          BY <5>3, <5>4
      <4> QED
        BY <4>4, <4>5, <4>6 DEF PageInv
    <3> QED
      BY <3>3, <3>4
  <2> QED
    BY <1>10, <2>2, <2>3 DEF StopBegins, StopJoins
<1>11. ASSUME NEW e \in Epochs,
              Spawn(e) \/ StoreChild(e) \/ ReadFrame(e) \/ ReadEnds(e) \/ WorkerEnds(e) \/ ChildDies(e)
       PROVE  PageInv'
  BY <1>0, <1>11, PageFrame
  DEF Spawn, StoreChild, ReadFrame, ReadsRows, ReadsOffline, ReadsFailure, ReadEnds, EndOfOutput,
      WorkerEnds, ChildDies, WorkerStep, HostStep, Emit, source
<1>12. ASSUME NEW k \in Sources, DaemonFlips(k)
       PROVE  PageInv'
  BY <1>0, <1>12, PageFrame DEF DaemonFlips, page, source
<1> QED
  BY <1>1, <1>2, <1>3, <1>4, <1>5, <1>6, <1>8, <1>9, <1>10, <1>11, <1>12
  DEF Next, UserActs, PageActs, HostActs, Environment

------------------------------------------------------------------------------
(* The host: workers and supervisors                                       *)

LEMMA HostInit == Init => HostInv
BY LiveAssumption DEF Init, HostInv, WorkerOK, SupervisorOK, StartingOK, NoAttempt, AttemptOf, Alive,
   Epochs

ToStart(a) == a.phase \in {"unused", "starting"}

(* What the host sees of the attempts: whose they are, and whose start is  *)
(* still to come.                                                          *)
SeenByHost ==
  /\ \A e \in Epochs : /\ ToStart(attempt'[e]) => ToStart(attempt[e])
                       /\ ~ToStart(attempt[e]) => attempt'[e].key = attempt[e].key
  /\ starting # Unlocked =>
       /\ attempt'[starting.epoch].phase = "starting"
       /\ attempt'[starting.epoch].key = attempt[starting.epoch].key

LEMMA HostFrame ==
  ASSUME TypeOK, HostInv, UNCHANGED <<supervisor, starting, worker, stopped, child>>, SeenByHost
  PROVE  HostInv'
<1>1. ASSUME NEW e \in Epochs PROVE WorkerOK(e)'
  BY DEF HostInv, WorkerOK, ToStart, Alive, SeenByHost
<1>2. ASSUME NEW k \in Sources PROVE SupervisorOK(k)'
  <2>1. SUFFICES ASSUME supervisor[k] # None
                 PROVE  attempt'[supervisor[k]].key = attempt[supervisor[k]].key
    BY DEF HostInv, SupervisorOK
  <2>2. supervisor[k] \in Epochs /\ worker[supervisor[k]] \in Alive
    BY <2>1 DEF HostInv, SupervisorOK, TypeOK, HostType, Maybe
  <2>3. ~ToStart(attempt[supervisor[k]])
    BY <2>2 DEF HostInv, WorkerOK, ToStart, Alive
  <2> QED
    BY <2>2, <2>3 DEF SeenByHost
<1>3. StartingOK'
  BY DEF HostInv, StartingOK, SeenByHost
<1> QED
  BY <1>1, <1>2, <1>3 DEF HostInv

(* A supervisor is taken: its worker is told to end.                       *)
LEMMA SupervisorTaken ==
  ASSUME TypeOK, HostInv, NEW k \in Sources, TakeSupervisor(k), UNCHANGED worker,
         \A e \in Epochs : /\ ToStart(attempt'[e]) => ToStart(attempt[e])
                           /\ attempt'[e].key = attempt[e].key
  PROVE  /\ \A e \in Epochs : WorkerOK(e)'
         /\ \A j \in Sources : SupervisorOK(j)' /\ (supervisor[j] = None => supervisor'[j] = None)
         /\ supervisor'[k] = None
<1>1. /\ supervisor'[k] = None
      /\ \A j \in Sources : j # k => supervisor'[j] = supervisor[j]
  BY DEF TakeSupervisor, TypeOK, HostType
<1>2. /\ stopped' = stopped \cup ({supervisor[k]} \ {None})
      /\ child' \subseteq child
  BY DEF TakeSupervisor
<1>3. ASSUME supervisor[k] # None
      PROVE  /\ supervisor[k] \in Epochs /\ worker[supervisor[k]] \in Alive
             /\ attempt[supervisor[k]].key = k /\ ~ToStart(attempt[supervisor[k]])
  <2>1. supervisor[k] \in Epochs
    BY <1>3 DEF TypeOK, HostType, Maybe
  <2> QED
    BY <1>3, <2>1 DEF HostInv, SupervisorOK, WorkerOK, ToStart, Alive
<1>4. ASSUME NEW e \in Epochs PROVE WorkerOK(e)'
  <2>1. WorkerOK(e) /\ e # None
    BY LiveAssumption DEF HostInv, Epochs, None
  <2>2. ToStart(attempt'[e]) => worker[e] = "none" /\ e \notin stopped'
    BY <1>2, <1>3, <2>1 DEF WorkerOK, ToStart, Alive
  <2>3. worker[e] \in Alive => e \in stopped' \/ supervisor'[attempt[e].key] = e
    <3>1. SUFFICES ASSUME worker[e] \in Alive, e \notin stopped
                   PROVE  e \in stopped' \/ supervisor'[attempt[e].key] = e
      BY <1>2
    <3>2. supervisor[attempt[e].key] = e /\ attempt[e].key \in Keys
      BY <2>1, <3>1 DEF WorkerOK, TypeOK, PageType, Attempts
    <3>3. CASE attempt[e].key = k
      BY <1>2, <2>1, <3>2, <3>3
    <3>4. CASE attempt[e].key # k
      BY <3>2, <3>4 DEF TakeSupervisor
    <3> QED
      BY <3>3, <3>4
  <2> QED
    BY <1>2, <2>1, <2>2, <2>3 DEF WorkerOK, ToStart
<1>5. ASSUME NEW j \in Sources PROVE SupervisorOK(j)' /\ (supervisor[j] = None => supervisor'[j] = None)
  <2>1. CASE j = k
    BY <1>1, <2>1 DEF SupervisorOK
  <2>2. CASE j # k
    <3>1. supervisor'[j] = supervisor[j] /\ SupervisorOK(j)
      BY <1>1, <2>2 DEF HostInv
    <3>2. supervisor[j] # None => supervisor[j] \in Epochs /\ supervisor[j] # supervisor[k]
      BY <1>3, <2>2, <3>1 DEF SupervisorOK, TypeOK, HostType, Maybe
    <3> QED
      BY <1>2, <3>1, <3>2 DEF SupervisorOK
  <2> QED
    BY <2>1, <2>2
<1> QED
  BY <1>1, <1>4, <1>5

(* A worker goes a step, and is not through.                               *)
LEMMA WorkerGoesOn ==
  ASSUME TypeOK, HostInv, UNCHANGED <<attempt, supervisor, starting, stopped>>,
         NEW e \in Epochs, worker[e] \in Alive, NEW step \in Alive,
         worker' = [worker EXCEPT ![e] = step], child' \subseteq child \cup {e},
         e \in child' => step # "spawning"
  PROVE  HostInv'
<1>1. worker'[e] = step /\ \A f \in Epochs : f # e => worker'[f] = worker[f]
  BY DEF TypeOK, HostType
<1>2. ASSUME NEW f \in Epochs PROVE WorkerOK(f)'
  BY <1>1 DEF HostInv, WorkerOK, Alive
<1>3. ASSUME NEW k \in Sources PROVE SupervisorOK(k)'
  <2>1. supervisor[k] = None \/ supervisor[k] \in Epochs
    BY DEF TypeOK, HostType, Maybe
  <2> QED
    BY <1>1, <2>1 DEF HostInv, SupervisorOK
<1>4. StartingOK'
  BY DEF HostInv, StartingOK
<1> QED
  BY <1>2, <1>3, <1>4 DEF HostInv

LEMMA WorkerGone ==
  ASSUME LiveInv, NEW e \in Epochs, WorkerEnds(e)
  PROVE  HostInv'
<1> DEFINE k == attempt[e].key
<1>0. TypeOK /\ HostInv /\ worker[e] = "ending" /\ k \in Sources /\ e # None
  BY KeyOfAttempt, LiveAssumption DEF WorkerEnds, LiveInv, Epochs, None
<1>1. worker'[e] = "gone" /\ \A f \in Epochs : f # e => worker'[f] = worker[f]
  BY <1>0 DEF WorkerEnds, TypeOK, HostType
<1>2. /\ child' = child \ {e} /\ UNCHANGED <<attempt, starting, stopped>>
      /\ \A j \in Sources : supervisor'[j] = IF j = k /\ supervisor[k] = e THEN None ELSE supervisor[j]
  BY <1>0 DEF WorkerEnds, WorkerStep, TypeOK, HostType
<1>3. ASSUME NEW f \in Epochs PROVE WorkerOK(f)'
  <2>1. WorkerOK(f)
    BY <1>0 DEF HostInv
  <2>2. CASE f = e
    BY <1>0, <1>1, <1>2, <2>1, <2>2 DEF WorkerOK, Alive
  <2>3. CASE f # e
    <3>1. worker[f] \in Alive => attempt[f].key \in Sources
      BY KeyOfAttempt DEF Alive
    <3> QED
      BY <1>1, <1>2, <2>1, <2>3, <3>1 DEF WorkerOK
  <2> QED
    BY <2>2, <2>3
<1>4. ASSUME NEW j \in Sources PROVE SupervisorOK(j)'
  <2>1. SupervisorOK(j) /\ (supervisor[j] = None \/ supervisor[j] \in Epochs)
    BY <1>0 DEF HostInv, TypeOK, HostType, Maybe
  <2>2. supervisor'[j] # None => supervisor'[j] = supervisor[j] /\ supervisor[j] # e
    BY <1>2, <2>1 DEF SupervisorOK
  <2> QED
    BY <1>1, <1>2, <2>1, <2>2 DEF SupervisorOK
<1>5. StartingOK'
  <2>1. starting # Unlocked => starting.epoch \in Epochs /\ attempt[starting.epoch].key \in Sources
    BY KeyOfAttempt DEF LiveInv, HostInv, StartingOK
  <2> QED
    BY <1>0, <1>2, <2>1 DEF HostInv, StartingOK
<1> QED
  BY <1>3, <1>4, <1>5 DEF HostInv

LEMMA AnswerMoves ==
  ASSUME TypeOK, NEW e \in Epochs, NEW ok \in BOOLEAN, Started(e, ok)
  PROVE  /\ attempt'[e].key = attempt[e].key /\ attempt'[e].owner = attempt[e].owner
         /\ attempt'[e].phase = IF attempt[e].owner = "reloaded" THEN "ended"
                                ELSE IF attempt[e].owner = "fiber" /\ ok THEN "consuming" ELSE "releasing"
         /\ \A f \in Epochs : f # e => attempt'[f] = attempt[f]
<1>1. attempt[e].owner \in Owners
  BY DEF TypeOK, PageType, Attempts
<1>2. attempt'[e] = Answered(attempt[e], ok) /\ \A f \in Epochs : f # e => attempt'[f] = attempt[f]
  BY DEF Started, TypeOK, PageType
<1> QED
  BY <1>1, <1>2 DEF Answered, InPhase, EndedBy, AttemptOf, Owners

LEMMA StopMoves ==
  ASSUME TypeOK, NEW e \in Epochs, StopBegins(e) \/ StopJoins(e)
  PROVE  /\ attempt'[e].key = attempt[e].key /\ attempt'[e].owner = attempt[e].owner
         /\ attempt'[e].phase \in {"joining", "ended"}
         /\ Stopped(e) => attempt'[e].phase = "ended"
         /\ \A f \in Epochs : f # e => attempt'[f] = attempt[f]
<1> DEFINE a == attempt[e]
           b == AttemptOf(a.key, a.autoStart, "ended", a.owner, FALSE, "none")
           c == InPhase(a, "joining")
<1>1. /\ b.key = a.key /\ b.owner = a.owner /\ b.phase = "ended"
      /\ c.key = a.key /\ c.owner = a.owner /\ c.phase = "joining"
  BY DEF InPhase, AttemptOf
<1>2. Stopped(e) => attempt' = [attempt EXCEPT ![e] = b]
  BY DEF Stopped
<1>3. Stopped(e) \/ attempt' = [attempt EXCEPT ![e] = c]
  BY DEF StopBegins, StopJoins
<1> HIDE DEF b, c
<1> QED
  BY <1>1, <1>2, <1>3 DEF TypeOK, PageType

LEMMA Installation ==
  ASSUME LiveInv, StartInstalls
  PROVE  HostInv'
<1> DEFINE e == starting.epoch
           k == attempt[e].key
<1>0. /\ TypeOK /\ HostInv /\ starting # Unlocked /\ starting' = Unlocked /\ UNCHANGED <<stopped, child>>
      /\ e \in Epochs /\ attempt[e].phase = "starting" /\ supervisor[k] = None
  BY DEF StartInstalls, LiveInv, HostInv, StartingOK
<1>1. k \in Sources /\ e # None /\ worker[e] = "none" /\ e \notin stopped /\ e \notin child
  BY <1>0, KeyOfAttempt, LiveAssumption DEF HostInv, WorkerOK, Epochs, None
<1>2. /\ attempt'[e].key = k /\ ~ToStart(attempt'[e])
      /\ \A f \in Epochs : f # e => attempt'[f] = attempt[f]
  <2>1. \E ok \in BOOLEAN : Started(e, ok)
    BY DEF StartInstalls
  <2> QED
    BY <1>0, <2>1, AnswerMoves DEF ToStart
<1>3. CASE UNCHANGED <<supervisor, worker>>
  <2>1. ASSUME NEW f \in Epochs PROVE WorkerOK(f)'
    <3>1. WorkerOK(f)
      BY <1>0 DEF HostInv
    <3>2. CASE f = e
      BY <1>0, <1>1, <1>2, <1>3, <3>2 DEF WorkerOK, ToStart, Alive
    <3>3. CASE f # e
      BY <1>0, <1>2, <1>3, <3>1, <3>3 DEF WorkerOK
    <3> QED
      BY <3>2, <3>3
  <2>2. ASSUME NEW j \in Sources PROVE SupervisorOK(j)'
    <3>1. SupervisorOK(j) /\ (supervisor[j] = None \/ supervisor[j] \in Epochs)
      BY <1>0 DEF HostInv, TypeOK, HostType, Maybe
    <3>2. supervisor[j] # None => supervisor[j] # e
      BY <1>1, <3>1 DEF SupervisorOK, Alive
    <3> QED
      BY <1>0, <1>2, <1>3, <3>1, <3>2 DEF SupervisorOK
  <2> QED
    BY <1>0, <2>1, <2>2 DEF HostInv, StartingOK
<1>4. CASE supervisor' = [supervisor EXCEPT ![k] = e] /\ worker' = [worker EXCEPT ![e] = "spawning"]
  <2>1. /\ supervisor'[k] = e /\ \A j \in Sources : j # k => supervisor'[j] = supervisor[j]
        /\ worker'[e] = "spawning" /\ \A f \in Epochs : f # e => worker'[f] = worker[f]
    BY <1>0, <1>1, <1>4 DEF TypeOK, HostType
  <2>2. ASSUME NEW f \in Epochs PROVE WorkerOK(f)'
    <3>1. WorkerOK(f) /\ f # None
      BY <1>0, LiveAssumption DEF HostInv, Epochs, None
    <3>2. CASE f = e
      BY <1>0, <1>1, <1>2, <2>1, <3>2 DEF WorkerOK, ToStart, Alive
    <3>3. CASE f # e
      <4>1. worker[f] \in Alive => attempt[f].key \in Sources
        BY KeyOfAttempt DEF Alive
      <4> QED
        BY <1>0, <1>2, <2>1, <3>1, <3>3, <4>1 DEF WorkerOK
    <3> QED
      BY <3>2, <3>3
  <2>3. ASSUME NEW j \in Sources PROVE SupervisorOK(j)'
    <3>1. SupervisorOK(j) /\ (supervisor[j] = None \/ supervisor[j] \in Epochs)
      BY <1>0 DEF HostInv, TypeOK, HostType, Maybe
    <3>2. CASE j = k
      BY <1>0, <1>1, <1>2, <2>1, <3>2 DEF SupervisorOK, Alive
    <3>3. CASE j # k
      <4>1. supervisor[j] # None => supervisor[j] # e
        BY <1>1, <3>1 DEF SupervisorOK, Alive
      <4> QED
        BY <1>0, <1>2, <2>1, <3>1, <3>3, <4>1 DEF SupervisorOK
    <3> QED
      BY <3>2, <3>3
  <2> QED
    BY <1>0, <2>2, <2>3 DEF HostInv, StartingOK
<1> QED
  BY <1>3, <1>4 DEF StartInstalls

LEMMA HostInvStep == LiveInv /\ [Next]_vars => HostInv'
<1> SUFFICES ASSUME LiveInv, [Next]_vars PROVE HostInv'
  OBVIOUS
<1>0. TypeOK /\ PageType /\ PageInv /\ HostInv
  BY DEF LiveInv, TypeOK
<1> DEFINE Still == UNCHANGED <<supervisor, starting, worker, stopped, child>>
<1>s. starting # Unlocked => starting.epoch \in Epochs /\ attempt[starting.epoch].phase = "starting"
  BY <1>0 DEF HostInv, StartingOK
<1>f. ASSUME Still, \A f \in Epochs : /\ attempt'[f].key = attempt[f].key
                                      /\ ToStart(attempt[f]) => attempt'[f].phase = attempt[f].phase
                                      /\ ToStart(attempt'[f]) => ToStart(attempt[f])
      PROVE  HostInv'
  <2>1. SeenByHost
    BY <1>s, <1>f DEF SeenByHost, ToStart
  <2> QED
    BY <1>0, <1>f, <2>1, HostFrame
<1>1. CASE UNCHANGED vars
  BY <1>1, <1>f DEF vars, page, host
<1>2. ASSUME NEW k \in Sources, Interrupt(k), Still
      PROVE  HostInv'
  BY <1>0, <1>2, <1>f, Interruption DEF ToStart
<1>3. ASSUME NEW k \in Sources,
             \/ \E enabled \in BOOLEAN : Add(k, enabled) \/ Enable(k, enabled)
             \/ \E autoStart \in BOOLEAN : Rearm(k, autoStart)
             \/ Remove(k)
      PROVE  HostInv'
  BY <1>2, <1>3 DEF Add, Enable, Rearm, Remove, Retarget, host
<1>4. CASE Reload
  <2>1. Still /\ \A f \in Epochs : attempt'[f] = Forsaken(attempt[f])
    BY <1>4 DEF Reload, host
  <2>2. ASSUME NEW f \in Epochs
        PROVE  /\ attempt'[f].key = attempt[f].key
               /\ ToStart(attempt[f]) => attempt'[f].phase = attempt[f].phase
               /\ ToStart(attempt'[f]) => ToStart(attempt[f])
    <3> DEFINE a == attempt[f]
    <3>1. /\ Forsaken(a).key = a.key
          /\ Forsaken(a).phase = IF a.phase \in {"consuming", "releasing", "joining"}
                                 THEN "ended" ELSE a.phase
      BY DEF Forsaken, AttemptOf
    <3> QED
      BY <2>1, <3>1 DEF ToStart
  <2> QED
    BY <1>f, <2>1, <2>2 DEF ToStart
<1>5. ASSUME NEW k \in Sources, Attempt(k)
      PROVE  HostInv'
  <2> DEFINE n == lastEpoch + 1
  <2>1. Still /\ n \in Nat /\ n > lastEpoch
    BY <1>0, <1>5, LiveAssumption DEF Attempt, host, PageType, Maybe, Epochs, None
  <2>2. \A f \in Epochs : f # n => attempt'[f] = attempt[f]
    BY <1>0, <1>5 DEF Attempt, PageType
  <2>3. n \in Epochs => attempt[n].phase = "unused"
    BY <1>0, <2>1 DEF PageInv, AttemptOK
  <2> HIDE DEF n
  <2>4. SeenByHost
    BY <1>s, <2>2, <2>3 DEF SeenByHost, ToStart
  <2> QED
    BY <1>0, <2>1, <2>4, HostFrame
<1>6. ASSUME NEW k \in Sources, Consume(k)
      PROVE  HostInv'
  <2> DEFINE e == fiber[k].cur
  <2>1. Still /\ e \in Epochs /\ attempt[e].phase = "consuming"
    BY <1>0, <1>6 DEF Consume, host, PageInv, FiberOK
  <2>2. CASE UNCHANGED attempt
    BY <1>f, <2>1, <2>2
  <2>3. CASE attempt' = [attempt EXCEPT ![e] = Heard(attempt[e], Head(queue[k]))]
    BY <1>0, <1>f, <2>1, <2>3 DEF PageType, Heard, EndedBy, AttemptOf, ToStart
  <2> QED
    BY <1>6, <2>2, <2>3 DEF Consume
<1>7. ASSUME NEW k \in Sources, Wake(k) \/ Poll(k) \/ DaemonFlips(k)
      PROVE  HostInv'
  BY <1>7, <1>f DEF Wake, Poll, DaemonFlips, host, page
<1>8. CASE StartInstalls
  BY <1>8, Installation
<1>9. ASSUME NEW e \in Epochs, StartBegins(e)
      PROVE  HostInv'
  <2> DEFINE k == attempt[e].key
  <2>1. starting = Unlocked /\ UNCHANGED worker /\ attempt[e].phase = "starting" /\ k \in Sources
    BY <1>9, KeyOfAttempt DEF StartBegins
  <2>2. CASE Started(e, TRUE) /\ UNCHANGED <<starting, supervisor, stopped, child>>
    <3>1. SeenByHost
      BY <1>0, <2>1, <2>2, AnswerMoves DEF SeenByHost, ToStart
    <3> QED
      BY <1>0, <2>1, <2>2, <3>1, HostFrame
  <2>3. CASE starting' = [epoch |-> e, joining |-> supervisor[k]] /\ TakeSupervisor(k) /\ UNCHANGED attempt
    <3>1. /\ \A f \in Epochs : WorkerOK(f)'
          /\ \A j \in Sources : SupervisorOK(j)'
          /\ supervisor'[k] = None
      BY <1>0, <2>1, <2>3, SupervisorTaken
    <3>2. StartingOK'
      BY <2>1, <2>3, <3>1 DEF StartingOK
    <3> QED
      BY <3>1, <3>2 DEF HostInv
  <2> QED
    BY <1>9, <2>2, <2>3 DEF StartBegins
<1>10. ASSUME NEW e \in Epochs, StopBegins(e) \/ StopJoins(e)
       PROVE  HostInv'
  <2> DEFINE k == attempt[e].key
  <2>1. UNCHANGED <<starting, worker>> /\ attempt[e].phase \in {"releasing", "joining"} /\ k \in Sources
    BY <1>10, KeyOfAttempt DEF StopBegins, StopJoins, host
  <2>2. \A f \in Epochs : /\ attempt'[f].key = attempt[f].key
                          /\ ToStart(attempt[f]) => attempt'[f].phase = attempt[f].phase
                          /\ ToStart(attempt'[f]) => ToStart(attempt[f])
    BY <1>0, <1>10, <2>1, StopMoves DEF ToStart
  <2>3. CASE UNCHANGED <<supervisor, stopped, child>>
    BY <1>f, <2>1, <2>2, <2>3
  <2>4. CASE TakeSupervisor(k)
    <3>1. /\ \A f \in Epochs : WorkerOK(f)'
          /\ \A j \in Sources : SupervisorOK(j)' /\ (supervisor[j] = None => supervisor'[j] = None)
      BY <1>0, <2>1, <2>2, <2>4, SupervisorTaken
    <3>2. StartingOK'
      <4>1. starting # Unlocked => attempt[starting.epoch].key \in Sources
        BY <1>s, KeyOfAttempt
      <4> QED
        BY <1>0, <1>s, <2>1, <2>2, <3>1, <4>1 DEF HostInv, StartingOK, ToStart
    <3> QED
      BY <3>1, <3>2 DEF HostInv
  <2> QED
    BY <1>10, <2>3, <2>4 DEF StopBegins, StopJoins, host
<1>11. ASSUME NEW e \in Epochs, Spawn(e) \/ StoreChild(e) \/ ReadFrame(e) \/ ReadEnds(e) \/ ChildDies(e)
       PROVE  HostInv'
  <2>1. UNCHANGED <<attempt, supervisor, starting, stopped>> /\ child' \subseteq child \cup {e}
    BY <1>11 DEF Spawn, StoreChild, Store, ReadFrame, ReadEnds, ChildDies, WorkerStep
  <2>2. worker[e] \in Alive
    BY <1>0, <1>11 DEF Spawn, StoreChild, ReadFrame, ReadEnds, ChildDies, HostInv, WorkerOK, Alive
  <2>3. PICK step \in Alive : /\ worker' = [worker EXCEPT ![e] = step]
                              /\ e \in child' => step # "spawning"
    <3>1. CASE UNCHANGED worker
      <4>1. worker' = [worker EXCEPT ![e] = worker[e]]
        BY <1>0, <3>1 DEF TypeOK, HostType
      <4>2. e \in child' => worker[e] # "spawning"
        <5>1. e \in child => worker[e] # "spawning"
          BY <1>0 DEF HostInv, WorkerOK
        <5>2. ~Spawn(e)
          BY <1>0, <3>1 DEF Spawn, TypeOK, HostType
        <5>3. StoreChild(e) \/ ReadFrame(e) \/ ReadEnds(e) \/ ChildDies(e) => child' \subseteq child
          BY DEF StoreChild, Store, ReadFrame, ReadEnds, ChildDies
        <5> QED
          BY <1>11, <5>1, <5>2, <5>3
      <4> QED
        BY <2>2, <4>1, <4>2
    <3>2. CASE \E step \in Alive \ {"spawning"} : worker' = [worker EXCEPT ![e] = step]
      BY <3>2
    <3> QED
      BY <1>11, <3>1, <3>2 DEF Spawn, StoreChild, Store, ReadFrame, ReadsRows, ReadsOffline, ReadsFailure,
                               ReadEnds, ChildDies, WorkerStep, Alive
  <2> QED
    BY <1>0, <2>1, <2>2, <2>3, WorkerGoesOn
<1>12. ASSUME NEW e \in Epochs, WorkerEnds(e)
       PROVE  HostInv'
  BY <1>12, WorkerGone
<1> QED
  BY <1>1, <1>3, <1>4, <1>5, <1>6, <1>7, <1>8, <1>9, <1>10, <1>11, <1>12
  DEF Next, UserActs, PageActs, HostActs, Environment

LEMMA LiveInvStep == LiveInv /\ [Next]_vars => LiveInv'
BY PageTypeStep, HostTypeStep, PageStep, HostInvStep DEF LiveInv, TypeOK

(* The inductive invariant of page and host.                               *)
THEOREM Invariance == Spec => []LiveInv
<1>1. Init => LiveInv
  BY TypeInit, PageInit, HostInit DEF LiveInv
<1> QED
  BY <1>1, LiveInvStep, PTL DEF Spec

(* Every variable keeps its type.                                          *)
THEOREM TypeCorrect == Spec => []TypeOK
<1>1. LiveInv => TypeOK
  BY DEF LiveInv
<1> QED
  BY <1>1, Invariance, PTL

------------------------------------------------------------------------------
(* One child per source                                                    *)

LEMMA OneChild == LiveInv => OneChildPerSource
<1>1. SUFFICES ASSUME LiveInv, NEW e \in child \ stopped, NEW f \in child \ stopped,
                      attempt[e].key = attempt[f].key
               PROVE  e = f
  BY DEF OneChildPerSource
<1>2. e \in Epochs /\ f \in Epochs
  BY <1>1 DEF LiveInv, TypeOK, HostType
<1>3. worker[e] \in Alive /\ worker[f] \in Alive
  BY <1>1, <1>2 DEF LiveInv, HostInv, WorkerOK, Alive
<1> QED
  BY <1>1, <1>2, <1>3 DEF LiveInv, HostInv, WorkerOK

(* Whatever starts, stops, re-arms and reloads cross, a source never has   *)
(* two subscribe processes that have not been told to end.                 *)
THEOREM OneChildAlways == Spec => []OneChildPerSource
BY OneChild, Invariance, PTL

------------------------------------------------------------------------------
(* Whose rows are shown                                                    *)

(* An attempt that was made keeps its source.                              *)
LEMMA KeysKept ==
  LiveInv /\ [Next]_vars =>
    /\ lastEpoch <= lastEpoch'
    /\ \A f \in Epochs : f <= lastEpoch => attempt'[f].key = attempt[f].key
<1> SUFFICES ASSUME LiveInv, [Next]_vars
             PROVE  /\ lastEpoch <= lastEpoch'
                    /\ \A f \in Epochs : f <= lastEpoch => attempt'[f].key = attempt[f].key
  OBVIOUS
<1>0. TypeOK /\ PageType /\ PageInv /\ lastEpoch \in Nat
  BY LiveAssumption DEF LiveInv, TypeOK, PageType, Maybe, None, Epochs
<1>1. CASE UNCHANGED <<lastEpoch, attempt>>
  BY <1>0, <1>1
<1>2. ASSUME NEW k \in Sources, Interrupt(k), UNCHANGED lastEpoch
      PROVE  /\ lastEpoch <= lastEpoch'
             /\ \A f \in Epochs : f <= lastEpoch => attempt'[f].key = attempt[f].key
  BY <1>0, <1>2, Interruption
<1>3. CASE Reload
  BY <1>0, <1>3 DEF Reload, Forsaken, AttemptOf
<1>4. ASSUME NEW k \in Sources, Attempt(k)
      PROVE  /\ lastEpoch <= lastEpoch'
             /\ \A f \in Epochs : f <= lastEpoch => attempt'[f].key = attempt[f].key
  <2>1. lastEpoch' = lastEpoch + 1 /\ \A f \in Epochs : f # lastEpoch + 1 => attempt'[f] = attempt[f]
    BY <1>0, <1>4 DEF Attempt, PageType
  <2> QED
    BY <1>0, <2>1
<1>5. ASSUME NEW k \in Sources, Consume(k)
      PROVE  /\ lastEpoch <= lastEpoch'
             /\ \A f \in Epochs : f <= lastEpoch => attempt'[f].key = attempt[f].key
  <2>1. lastEpoch' = lastEpoch
    BY <1>5 DEF Consume
  <2>2. \A a, f : Heard(a, f).key = a.key
    BY DEF Heard, EndedBy, AttemptOf
  <2>3. \A f \in Epochs : attempt'[f].key = attempt[f].key
    BY <1>0, <1>5, <2>2 DEF Consume, PageType
  <2> QED
    BY <1>0, <2>1, <2>3
<1>6. ASSUME NEW e \in Epochs, NEW ok \in BOOLEAN, Started(e, ok), UNCHANGED lastEpoch
      PROVE  /\ lastEpoch <= lastEpoch'
             /\ \A f \in Epochs : f <= lastEpoch => attempt'[f].key = attempt[f].key
  <2>1. \A f \in Epochs : attempt'[f].key = attempt[f].key
    BY <1>0, <1>6, AnswerMoves
  <2> QED
    BY <1>0, <1>6, <2>1
<1>7. CASE StartInstalls
  <2>1. starting.epoch \in Epochs /\ UNCHANGED lastEpoch
    BY <1>7 DEF StartInstalls, HostStep, LiveInv, HostInv, StartingOK
  <2> QED
    BY <1>6, <1>7, <2>1 DEF StartInstalls
<1>8. ASSUME NEW e \in Epochs, StopBegins(e) \/ StopJoins(e)
      PROVE  /\ lastEpoch <= lastEpoch'
             /\ \A f \in Epochs : f <= lastEpoch => attempt'[f].key = attempt[f].key
  <2>1. lastEpoch' = lastEpoch
    BY <1>8 DEF StopBegins, StopJoins, HostStep
  <2>2. \A f \in Epochs : attempt'[f].key = attempt[f].key
    BY <1>0, <1>8, StopMoves
  <2> QED
    BY <1>0, <2>1, <2>2
<1>9. CASE \/ UNCHANGED vars
           \/ \E k \in Sources : Wake(k) \/ Poll(k) \/ DaemonFlips(k)
           \/ \E e \in Epochs : \/ Spawn(e) \/ StoreChild(e) \/ ReadFrame(e) \/ ReadEnds(e)
                                \/ WorkerEnds(e) \/ ChildDies(e)
  BY <1>1, <1>9
  DEF vars, page, Wake, Poll, DaemonFlips, Spawn, StoreChild, ReadFrame, ReadEnds, WorkerEnds,
      ChildDies, WorkerStep, HostStep
<1>10. ASSUME NEW e \in Epochs, StartBegins(e)
       PROVE  /\ lastEpoch <= lastEpoch'
              /\ \A f \in Epochs : f <= lastEpoch => attempt'[f].key = attempt[f].key
  BY <1>1, <1>6, <1>10 DEF StartBegins, HostStep
<1>11. ASSUME NEW k \in Sources,
              \/ \E enabled \in BOOLEAN : Add(k, enabled) \/ Enable(k, enabled)
              \/ \E autoStart \in BOOLEAN : Rearm(k, autoStart)
              \/ Remove(k)
       PROVE  Interrupt(k) /\ UNCHANGED lastEpoch
  BY <1>11 DEF Add, Enable, Rearm, Remove, Retarget
<1> QED
  BY <1>2, <1>3, <1>4, <1>5, <1>7, <1>8, <1>9, <1>10, <1>11
  DEF Next, UserActs, PageActs, HostActs, Environment

RowsOK(k) ==
  target[k].on /\ view[k].rows # None =>
    /\ view[k].rows <= lastEpoch /\ view[k].rows > born[k]
    /\ attempt[view[k].rows].key = k
    /\ view[k].status = "online" /\ fiber[k].run = "busy" => view[k].rows = fiber[k].cur

(* A step that shows no new rows.                                          *)
LEMMA RowsKept ==
  ASSUME LiveInv, [Next]_vars, NEW k \in Sources, RowsOK(k),
         target'[k].on => target[k].on, born'[k] = born[k],
         view'[k].rows = view[k].rows \/ view'[k].rows = None,
         view'[k].status = "online" /\ fiber'[k].run = "busy" =>
           view[k].status = "online" /\ fiber[k].run = "busy" /\ fiber'[k].cur = fiber[k].cur
  PROVE  RowsOK(k)'
<1>1. SUFFICES ASSUME target'[k].on, view'[k].rows # None
               PROVE  /\ view[k].rows <= lastEpoch' /\ view[k].rows > born[k]
                      /\ attempt'[view[k].rows].key = k
                      /\ view'[k].status = "online" /\ fiber'[k].run = "busy" =>
                           view[k].rows = fiber'[k].cur
  BY DEF RowsOK
<1>2. RowsOK(k) /\ target[k].on /\ view[k].rows # None
  BY <1>1
<1>3. /\ view[k].rows \in Epochs /\ Epochs \subseteq Nat
      /\ lastEpoch \in Nat /\ lastEpoch' \in Nat
  BY <1>2, LiveInvStep, LiveAssumption DEF LiveInv, TypeOK, PageType, Maybe, None, Epochs
<1>4. view[k].rows <= lastEpoch /\ view[k].rows > born[k] /\ attempt[view[k].rows].key = k
  BY <1>2 DEF RowsOK
<1>5. view[k].rows <= lastEpoch' /\ attempt'[view[k].rows].key = k
  <2> DEFINE r == view[k].rows
             n == lastEpoch'
  <2>1. lastEpoch <= n /\ attempt'[r].key = k
    BY <1>3, <1>4, KeysKept
  <2>2. r \in Nat /\ lastEpoch \in Nat /\ n \in Nat /\ r <= lastEpoch
    BY <1>3, <1>4
  <2> HIDE DEF r, n
  <2>3. r <= n
    BY <2>1, <2>2
  <2> QED
    BY <2>1, <2>3 DEF r, n
<1>6. ASSUME view'[k].status = "online", fiber'[k].run = "busy"
      PROVE  view[k].rows = fiber'[k].cur
  BY <1>2, <1>6 DEF RowsOK
<1> QED
  BY <1>4, <1>5, <1>6

LEMMA RowsStep ==
  LiveInv /\ (\A k \in Sources : RowsOK(k)) /\ [Next]_vars => \A k \in Sources : RowsOK(k)'
<1> SUFFICES ASSUME LiveInv, [Next]_vars, NEW j \in Sources, RowsOK(j)
             PROVE  RowsOK(j)'
  OBVIOUS
<1>0. TypeOK /\ PageType /\ PageInv
  BY DEF LiveInv, TypeOK
<1>1. CASE UNCHANGED <<target, fiber, view, born>>
  BY <1>1, RowsKept
<1>v. InitialView.rows = None
  BY DEF InitialView, View
<1>2. ASSUME NEW k \in Sources, Add(k, TRUE) \/ Add(k, FALSE)
      PROVE  RowsOK(j)'
  <2>1. view'[k].rows = None
    BY <1>0, <1>v, <1>2 DEF Add, PageType
  <2>2. j # k => UNCHANGED <<target[j], fiber[j], view[j], born[j]>>
    BY <1>0, <1>2 DEF Add, Retarget, PageType
  <2> QED
    BY <2>1, <2>2, RowsKept DEF RowsOK
<1>3. ASSUME NEW k \in Sources,
             \/ \E enabled \in BOOLEAN : Enable(k, enabled)
             \/ \E autoStart \in BOOLEAN : Rearm(k, autoStart)
      PROVE  RowsOK(j)'
  <2>1. target[k].on /\ born' = born /\ (view' = view \/ view' = [view EXCEPT ![k] = InitialView])
    BY <1>3 DEF Enable, Rearm
  <2>2. view'[j] = view[j] \/ (j = k /\ view'[j].rows = None)
    BY <1>0, <1>v, <2>1 DEF PageType
  <2>3. ASSUME NEW enabled \in BOOLEAN, NEW autoStart \in BOOLEAN, Retarget(k, enabled, autoStart)
        PROVE  fiber'[k].run # "busy" /\ (j # k => UNCHANGED <<target[j], fiber[j]>>)
    <3> DEFINE f == Fiber(IF enabled THEN "next" ELSE "parked", TRUE, None)
    <3>1. f.run # "busy"
      BY DEF Fiber
    <3>2. fiber' = [fiber EXCEPT ![k] = f]
      BY <2>3 DEF Retarget
    <3> HIDE DEF f
    <3> QED
      BY <1>0, <2>3, <3>1, <3>2 DEF Retarget, PageType
  <2>4. fiber'[k].run # "busy" /\ (j # k => UNCHANGED <<target[j], fiber[j]>>)
    <3>1. target[k].enabled \in BOOLEAN
      BY <1>0 DEF PageType
    <3> QED
      BY <1>3, <2>3, <3>1 DEF Enable, Rearm
  <2> QED
    BY <2>1, <2>2, <2>4, RowsKept
<1>4. ASSUME NEW k \in Sources, Remove(k)
      PROVE  RowsOK(j)'
  <2>1. ~target'[k].on
    BY <1>0, <1>4 DEF Remove, NoTarget, Target, PageType
  <2>2. j # k => UNCHANGED <<target[j], fiber[j], view[j], born[j]>>
    BY <1>0, <1>4 DEF Remove, PageType
  <2> QED
    BY <2>1, <2>2, RowsKept DEF RowsOK
<1>5. CASE Reload
  BY <1>5 DEF Reload, NoTarget, Target, RowsOK
<1>6. ASSUME NEW k \in Sources, Attempt(k)
      PROVE  RowsOK(j)'
  <2>1. view'[k].status # "online" /\ view'[k].rows = view[k].rows /\ UNCHANGED <<target, born>>
    BY <1>0, <1>6 DEF Attempt, View, PageType
  <2>2. j # k => UNCHANGED <<fiber[j], view[j]>>
    BY <1>0, <1>6 DEF Attempt, PageType
  <2> QED
    BY <2>1, <2>2, RowsKept
<1>7. ASSUME NEW k \in Sources, Consume(k)
      PROVE  RowsOK(j)'
  <2> DEFINE e == fiber[k].cur
             f == Head(queue[k])
  <2>1. UNCHANGED <<target, fiber, born, lastEpoch>> /\ fiber[k].run = "busy"
    BY <1>7 DEF Consume
  <2>2. CASE j # k \/ view' = view \/ view'[k] = view[k]
    <3>1. view'[j] = view[j]
      BY <1>0, <1>7, <2>2 DEF Consume, PageType
    <3> QED
      BY <2>1, <3>1, RowsKept
  <2>3. CASE j = k /\ f.epoch = e /\ view' = [view EXCEPT ![k] = Folded(view[k], f)]
    <3>1. view'[k] = Folded(view[k], f)
      BY <1>0, <2>3 DEF PageType
    <3>2. CASE f.kind = "rows"
      <4>1. view'[k].rows = e /\ e \in Epochs /\ e <= lastEpoch /\ e > born[k]
            /\ attempt[e].key = k
        BY <1>0, <2>1, <2>3, <3>1, <3>2 DEF Folded, View, PageInv, FiberOK
      <4>2. attempt'[e].key = k
        BY <4>1, KeysKept
      <4> QED
        BY <2>1, <2>3, <4>1, <4>2 DEF RowsOK
    <3>3. CASE f.kind = "retry"
      <4>1. view'[k].rows = view[k].rows /\ view'[k].status # "online"
        BY <3>1, <3>3 DEF Folded, View
      <4> QED
        BY <2>1, <2>3, <4>1, RowsKept
    <3>4. CASE f.kind \notin {"rows", "retry"}
      BY <2>2, <3>1, <3>4 DEF Folded
    <3> QED
      BY <3>2, <3>3, <3>4
  <2> QED
    BY <1>7, <2>2, <2>3 DEF Consume, ConsumesFrame
<1>8. ASSUME NEW k \in Sources, Wake(k) \/ Poll(k)
      PROVE  RowsOK(j)'
  <2>1. UNCHANGED <<target, view, born>> /\ fiber'[k].run # "busy"
        /\ (j # k => fiber'[j] = fiber[j])
    BY <1>0, <1>8 DEF Wake, Poll, GoesOn, Fiber, PageType
  <2> QED
    BY <2>1, RowsKept
<1>9. ASSUME NEW e \in Epochs, StopBegins(e) \/ StopJoins(e)
      PROVE  RowsOK(j)'
  <2>1. CASE Stopped(e)
    <3> DEFINE k == attempt[e].key
    <3>1. UNCHANGED <<target, born>>
      BY <1>9, <2>1 DEF Stopped, StopBegins, StopJoins, HostStep
    <3>2. k \in Sources
      BY <1>9, KeyOfAttempt DEF StopBegins, StopJoins
    <3>3. CASE Current(e)
      <4>1. /\ view' = [view EXCEPT ![k] = ViewAfter(e)]
            /\ fiber' = [fiber EXCEPT ![k] = Fiber(RunAfter(e), FALSE, fiber[k].cur)]
        BY <2>1, <3>3 DEF Stopped
      <4>2. /\ Fiber(RunAfter(e), FALSE, fiber[k].cur).run # "busy"
            /\ ViewAfter(e).rows = None \/ ViewAfter(e).rows = view[k].rows
        BY DEF Fiber, RunAfter, ViewAfter, View
      <4>3. /\ fiber'[k].run # "busy" /\ (view'[k].rows = None \/ view'[k].rows = view[k].rows)
            /\ j # k => view'[j] = view[j] /\ fiber'[j] = fiber[j]
        BY <1>0, <3>2, <4>1, <4>2 DEF PageType
      <4> QED
        BY <3>1, <4>3, RowsKept
    <3>4. CASE ~Current(e)
      <4>1. UNCHANGED fiber /\ view' = IF target[k].on THEN view ELSE [view EXCEPT ![k] = InitialView]
        BY <2>1, <3>4 DEF Stopped
      <4>2. CASE target[j].on
        <5>1. view'[j] = view[j]
          BY <1>0, <4>1, <4>2 DEF PageType
        <5> QED
          BY <3>1, <4>1, <5>1, RowsKept
      <4>3. CASE ~target[j].on
        BY <3>1, <4>3 DEF RowsOK
      <4> QED
        BY <4>2, <4>3
    <3> QED
      BY <3>3, <3>4
  <2>2. CASE UNCHANGED <<source, view>>
    BY <1>1, <1>9, <2>2 DEF source, StopBegins, StopJoins, HostStep
  <2> QED
    BY <1>9, <2>1, <2>2 DEF StopBegins, StopJoins
<1>10. CASE \/ UNCHANGED vars \/ StartInstalls \/ \E k \in Sources : DaemonFlips(k)
            \/ \E e \in Epochs : \/ StartBegins(e) \/ Spawn(e) \/ StoreChild(e) \/ ReadFrame(e)
                                 \/ ReadEnds(e) \/ WorkerEnds(e) \/ ChildDies(e)
  BY <1>1, <1>10
  DEF vars, page, source, StartInstalls, DaemonFlips, StartBegins, Spawn, StoreChild, ReadFrame,
      ReadsRows, ReadsOffline, ReadsFailure, ReadEnds, EndOfOutput, WorkerEnds, ChildDies,
      WorkerStep, HostStep, Emit
<1> QED
  BY <1>2, <1>3, <1>4, <1>5, <1>6, <1>7, <1>8, <1>9, <1>10
  DEF Next, UserActs, PageActs, HostActs, Environment

(* The rows shown for a source are those of an attempt that it made since  *)
(* it was added, and those shown as online of the attempt that runs: the   *)
(* page drops what a superseded worker still sends.                        *)
THEOREM RowsAlwaysBelong == Spec => []RowsBelongToTheSource
<1>1. Init => \A k \in Sources : RowsOK(k)
  BY DEF Init, RowsOK, NoTarget, Target
<1>2. (\A k \in Sources : RowsOK(k)) => RowsBelongToTheSource
  BY DEF RowsOK, RowsBelongToTheSource
<1> DEFINE Rows == \A k \in Sources : RowsOK(k)
<1>3. LiveInv /\ Rows /\ [Next]_vars => Rows'
  BY RowsStep
<1> HIDE DEF Rows
<1>4. Init => Rows
  BY <1>1 DEF Rows
<1>5. Rows => RowsBelongToTheSource
  BY <1>2 DEF Rows
<1> QED
  BY <1>3, <1>4, <1>5, Invariance, PTL DEF Spec

------------------------------------------------------------------------------
(* Who waits for frames gets some                                          *)

Going == {"spawning", "spawned", "reading"}
LastFrame(k, e) ==
  \E i \in DOMAIN queue[k] : queue[k][i].epoch = e /\ queue[k][i].kind \in Terminals

Served(k) ==
  LET e == fiber[k].cur IN
  fiber[k].run = "busy" /\ attempt[e].phase = "consuming" =>
    \/ worker[e] \in Going /\ e \notin stopped
    \/ LastFrame(k, e)

(* The fence knows no epoch that was not given out, and a start that has   *)
(* passed it still would.                                                  *)
FenceBound == fence.floor <= lastEpoch /\ \A k \in Sources : fence.lastStarted[k] <= lastEpoch
StartPassed == starting # Unlocked => EpochAdvances(attempt[starting.epoch].key, starting.epoch)

FenceInv == FenceBound /\ StartPassed /\ \A k \in Sources : FenceOK(k)

(* What a step makes of the attempt of a fiber that runs one afterwards.   *)
FiberMove(k) ==
  LET e == fiber[k].cur IN
  \/ /\ attempt'[fiber'[k].cur].phase = "starting" /\ fiber'[k].cur = lastEpoch + 1
     /\ UNCHANGED fence /\ lastEpoch' = lastEpoch + 1
  \/ /\ UNCHANGED fiber[k]
     /\ \/ attempt'[e].phase = attempt[e].phase
        \/ attempt'[e].phase \in {"releasing", "joining"}
        \/ /\ attempt[e].phase = "starting" /\ StartInstalls /\ starting.epoch = e
           /\ fence' = Committed(k, e) /\ worker' = [worker EXCEPT ![e] = "spawning"]
        \/ /\ attempt[e].phase = "starting" /\ StartBegins(e) /\ ~EpochAdvances(k, e)

LEMMA LetsGo ==
  ASSUME TypeOK, NEW k \in Sources,
         \/ \E enabled \in BOOLEAN : Add(k, enabled) \/ Enable(k, enabled)
         \/ \E autoStart \in BOOLEAN : Rearm(k, autoStart)
         \/ Remove(k)
  PROVE  /\ Interrupt(k) /\ fiber'[k].run # "busy" /\ UNCHANGED host
         /\ \A j \in Sources : j # k => UNCHANGED <<fiber[j], queue[j]>>
<1>1. Interrupt(k) /\ UNCHANGED host
  BY DEF Add, Enable, Rearm, Remove, Retarget
<1>2. CASE Remove(k)
  <2>1. NoFiber.run # "busy"
    BY DEF NoFiber, Fiber
  <2> QED
    BY <1>1, <1>2, <2>1 DEF Remove, TypeOK, PageType
<1>3. ASSUME NEW enabled \in BOOLEAN, NEW autoStart \in BOOLEAN, Retarget(k, enabled, autoStart)
      PROVE  /\ fiber'[k].run # "busy"
             /\ \A j \in Sources : j # k => UNCHANGED <<fiber[j], queue[j]>>
  <2> DEFINE f == Fiber(IF enabled THEN "next" ELSE "parked", TRUE, None)
  <2>1. f.run # "busy"
    BY DEF Fiber
  <2>2. fiber' = [fiber EXCEPT ![k] = f] /\ queue' = [queue EXCEPT ![k] = <<>>]
    BY <1>3 DEF Retarget
  <2> HIDE DEF f
  <2> QED
    BY <2>1, <2>2 DEF TypeOK, PageType
<1>4. target[k].enabled \in BOOLEAN
  BY DEF TypeOK, PageType
<1> QED
  BY <1>1, <1>2, <1>3, <1>4 DEF Add, Enable, Rearm

LEMMA FiberMoves ==
  ASSUME LiveInv, [Next]_vars, NEW j \in Sources, fiber'[j].run = "busy"
  PROVE  FiberMove(j)
<1> DEFINE c == fiber[j].cur
<1>0. TypeOK /\ PageType /\ PageInv /\ HostInv /\ lastEpoch \in Nat /\ FiberOK(j)
  BY LiveAssumption DEF LiveInv, TypeOK, PageType, PageInv, Maybe, None, Epochs
<1>1. ASSUME UNCHANGED fiber[j], attempt'[c].phase = attempt[c].phase
      PROVE  FiberMove(j)
  BY <1>1 DEF FiberMove
<1>c. fiber[j].run = "busy" =>
        /\ c \in Epochs /\ c <= lastEpoch /\ attempt[c].key = j /\ attempt[c].owner = "fiber"
        /\ attempt[c].phase \in UnderWay
  BY <1>0 DEF FiberOK
<1>2. ASSUME NEW k \in Sources,
             \/ \E enabled \in BOOLEAN : Add(k, enabled) \/ Enable(k, enabled)
             \/ \E autoStart \in BOOLEAN : Rearm(k, autoStart)
             \/ Remove(k)
      PROVE  FiberMove(j)
  <2>1. Interrupt(k)
    BY <1>0, <1>2, LetsGo
  <2>2. fiber'[k].run # "busy" /\ (j # k => fiber'[j] = fiber[j])
    BY <1>0, <1>2, LetsGo
  <2>3. j # k /\ fiber'[j] = fiber[j] /\ fiber[j].run = "busy"
    BY <2>2
  <2>4. fiber[k].run = "busy" => c # fiber[k].cur
    <3>1. FiberOK(k)
      BY <1>0 DEF PageInv
    <3> QED
      BY <1>c, <2>3, <3>1 DEF FiberOK
  <2>5. attempt'[c] = attempt[c]
    BY <1>0, <1>c, <2>1, <2>3, <2>4, Interruption
  <2> QED
    BY <1>1, <2>3, <2>5
<1>3. ~Reload
  BY DEF Reload, NoFiber, Fiber
<1>4. ASSUME NEW k \in Sources, Attempt(k)
      PROVE  FiberMove(j)
  <2> DEFINE n == lastEpoch + 1
             a == AttemptOf(k, AutoStart(k), "starting", "fiber", FALSE, "none")
  <2>1. /\ n \in Epochs /\ n > lastEpoch /\ lastEpoch' = n /\ UNCHANGED fence
        /\ attempt' = [attempt EXCEPT ![n] = a]
    BY <1>0, <1>4, LiveAssumption DEF Attempt, Epochs, None, host
  <2>2. a.phase = "starting"
    BY DEF AttemptOf
  <2>3. /\ Fiber("busy", fiber[k].first, n).cur = n
        /\ fiber' = [fiber EXCEPT ![k] = Fiber("busy", fiber[k].first, n)]
    BY <1>4 DEF Attempt, Fiber
  <2> HIDE DEF a
  <2>4. CASE j = k
    <3>1. fiber'[k].cur = n /\ attempt'[n].phase = "starting"
      BY <1>0, <2>1, <2>2, <2>3 DEF PageType
    <3> QED
      BY <2>1, <2>4, <3>1 DEF FiberMove
  <2>5. CASE j # k
    <3>1. fiber'[j] = fiber[j]
      BY <1>0, <2>3, <2>5 DEF PageType
    <3>2. c # n /\ c \in Epochs
      BY <1>0, <1>c, <2>1, <3>1 DEF Epochs
    <3>3. attempt'[c] = attempt[c]
      BY <1>0, <2>1, <3>2 DEF PageType
    <3> QED
      BY <1>1, <3>1, <3>3
  <2> QED
    BY <2>4, <2>5
<1>5. ASSUME NEW k \in Sources, Consume(k)
      PROVE  FiberMove(j)
  <2> DEFINE e == fiber[k].cur
             f == Head(queue[k])
  <2>1. UNCHANGED fiber /\ fiber[k].run = "busy" /\ attempt[e].phase = "consuming"
    BY <1>5 DEF Consume
  <2>2. e \in Epochs
    BY <1>0, <2>1 DEF PageInv, FiberOK
  <2>3. Heard(attempt[e], f).phase \in {"consuming", "releasing"}
    BY <2>1 DEF Heard, EndedBy, AttemptOf
  <2>4. attempt' = attempt \/ attempt' = [attempt EXCEPT ![e] = Heard(attempt[e], f)]
    BY <1>5 DEF Consume
  <2>5. attempt'[c].phase = attempt[c].phase \/ attempt'[c].phase = "releasing"
    BY <1>0, <1>c, <2>1, <2>2, <2>3, <2>4 DEF PageType
  <2> QED
    BY <2>1, <2>5 DEF FiberMove
<1>6. ASSUME NEW k \in Sources, Wake(k) \/ Poll(k)
      PROVE  FiberMove(j)
  <2>1. Fiber("next", fiber[k].first, fiber[k].cur).run # "busy" /\ UNCHANGED attempt
        /\ fiber' = [fiber EXCEPT ![k] = Fiber("next", fiber[k].first, fiber[k].cur)]
    BY <1>6 DEF Wake, Poll, GoesOn, Fiber
  <2>2. fiber'[j] = fiber[j]
    BY <1>0, <2>1 DEF PageType
  <2> QED
    BY <1>1, <2>1, <2>2
<1>7. ASSUME NEW e \in Epochs, NEW ok \in BOOLEAN, Started(e, ok), attempt[e].phase = "starting",
             UNCHANGED fiber
      PROVE  \/ FiberMove(j)
             \/ fiber[j].run = "busy" /\ c = e /\ attempt'[e].phase = "consuming" /\ ok
  BY <1>0, <1>c, <1>7, AnswerMoves DEF FiberMove
<1>8. CASE StartInstalls
  <2> DEFINE e == starting.epoch
             k == attempt[e].key
  <2>1. e \in Epochs /\ attempt[e].phase = "starting" /\ UNCHANGED fiber
    BY <1>0, <1>8 DEF StartInstalls, HostInv, StartingOK, source
  <2>2. CASE Started(e, FALSE)
    BY <1>7, <2>1, <2>2
  <2>3. CASE /\ Started(e, TRUE) /\ fence' = Committed(k, e)
             /\ worker' = [worker EXCEPT ![e] = "spawning"]
    BY <1>c, <1>7, <1>8, <2>1, <2>3 DEF FiberMove
  <2> QED
    BY <1>8, <2>2, <2>3 DEF StartInstalls
<1>9. ASSUME NEW e \in Epochs, StartBegins(e)
      PROVE  FiberMove(j)
  <2>1. UNCHANGED fiber /\ attempt[e].phase = "starting"
    BY <1>9 DEF StartBegins, source
  <2>2. CASE UNCHANGED attempt
    BY <1>1, <2>1, <2>2
  <2>3. CASE Started(e, TRUE) /\ ~EpochAdvances(attempt[e].key, e)
    BY <1>c, <1>7, <1>9, <2>1, <2>3 DEF FiberMove
  <2> QED
    BY <1>9, <2>2, <2>3 DEF StartBegins
<1>10. ASSUME NEW e \in Epochs, StopBegins(e) \/ StopJoins(e)
       PROVE  FiberMove(j)
  <2> DEFINE k == attempt[e].key
  <2>1. /\ attempt'[e].phase \in {"joining", "ended"} /\ (Stopped(e) => attempt'[e].phase = "ended")
        /\ \A f \in Epochs : f # e => attempt'[f] = attempt[f]
    BY <1>0, <1>10, StopMoves
  <2>2. k \in Sources /\ attempt[e].phase \in UnderWay
    BY <1>10, KeyOfAttempt DEF StopBegins, StopJoins, UnderWay
  <2>3. CASE Stopped(e) /\ Current(e)
    <3>1. fiber[k].run = "busy" /\ fiber[k].cur = e
      BY <1>0, <2>2, <2>3 DEF PageInv, OwnedOK, Current
    <3>2. /\ Fiber(RunAfter(e), FALSE, fiber[k].cur).run # "busy"
          /\ fiber' = [fiber EXCEPT ![k] = Fiber(RunAfter(e), FALSE, fiber[k].cur)]
      BY <2>3 DEF Stopped, Fiber, RunAfter
    <3>3. j # k /\ fiber'[j] = fiber[j]
      BY <1>0, <2>2, <3>2 DEF PageType
    <3>4. c \in Epochs /\ c # e
      BY <1>c, <3>3
    <3> QED
      BY <1>1, <2>1, <3>3, <3>4
  <2>4. CASE Stopped(e) /\ ~Current(e)
    <3>1. UNCHANGED fiber
      BY <2>4 DEF Stopped
    <3>2. c \in Epochs /\ c # e
      BY <1>c, <2>4, <3>1 DEF Current
    <3> QED
      BY <1>1, <2>1, <3>1, <3>2
  <2>5. CASE UNCHANGED source /\ attempt'[e].phase = "joining"
    <3>1. UNCHANGED fiber
      BY <2>5 DEF source
    <3>2. c \in Epochs
      BY <1>c, <3>1
    <3> QED
      BY <2>1, <2>5, <3>1, <3>2 DEF FiberMove
  <2>6. CASE UNCHANGED source /\ attempt' = [attempt EXCEPT ![e] = InPhase(attempt[e], "joining")]
    <3>1. InPhase(attempt[e], "joining").phase = "joining"
      BY DEF InPhase, AttemptOf
    <3> QED
      BY <1>0, <2>5, <2>6, <3>1 DEF PageType
  <2> QED
    BY <1>10, <2>3, <2>4, <2>6 DEF StopBegins, StopJoins
<1>11. CASE \/ UNCHANGED vars \/ \E k \in Sources : DaemonFlips(k)
            \/ \E e \in Epochs : \/ Spawn(e) \/ StoreChild(e) \/ ReadFrame(e)
                                 \/ ReadEnds(e) \/ WorkerEnds(e) \/ ChildDies(e)
  BY <1>1, <1>11
  DEF vars, page, source, DaemonFlips, Spawn, StoreChild, ReadFrame, ReadsRows, ReadsOffline,
      ReadsFailure, ReadEnds, EndOfOutput, WorkerEnds, ChildDies, WorkerStep, HostStep, Emit
<1> QED
  BY <1>2, <1>3, <1>4, <1>5, <1>6, <1>8, <1>9, <1>10, <1>11
  DEF Next, UserActs, PageActs, HostActs, Environment

(* The fence changes only when a worker is installed.                      *)
LEMMA FenceKept ==
  ASSUME LiveInv, [Next]_vars
  PROVE  \/ UNCHANGED fence
         \/ /\ StartInstalls /\ starting.epoch \in Epochs
            /\ fence' = Committed(attempt[starting.epoch].key, starting.epoch)
<1>1. StartInstalls => starting.epoch \in Epochs
  BY DEF StartInstalls, LiveInv, HostInv, StartingOK
<1> QED
  BY <1>1
  DEF Next, UserActs, PageActs, HostActs, Environment, vars, host, Add, Enable, Rearm, Remove, Reload,
      Attempt, Consume, Wake, Poll, DaemonFlips, StartInstalls, StartBegins, StopBegins, StopJoins,
      Spawn, StoreChild, ReadFrame, ReadEnds, WorkerEnds, ChildDies, WorkerStep

LEMMA StartingKept ==
  ASSUME LiveInv, [Next]_vars
  PROVE  \/ UNCHANGED <<starting, fence>>
         \/ starting' = Unlocked
         \/ \E e \in Epochs : /\ starting'.epoch = e /\ EpochAdvances(attempt[e].key, e)
                              /\ UNCHANGED <<attempt, fence>>
<1>1. ASSUME NEW e \in Epochs, StartBegins(e)
      PROVE  \/ UNCHANGED <<starting, fence>>
             \/ /\ starting'.epoch = e /\ EpochAdvances(attempt[e].key, e)
                /\ UNCHANGED <<attempt, fence>>
  <2> DEFINE lock == [epoch |-> e, joining |-> supervisor[attempt[e].key]]
  <2>1. lock.epoch = e
    OBVIOUS
  <2>2. EpochAdvances(attempt[e].key, e) => starting' = lock /\ UNCHANGED attempt
    BY <1>1 DEF StartBegins
  <2>3. UNCHANGED fence /\ (~EpochAdvances(attempt[e].key, e) => UNCHANGED starting)
    BY <1>1 DEF StartBegins
  <2> HIDE DEF lock
  <2> QED
    BY <2>1, <2>2, <2>3
<1> QED
  BY <1>1
  DEF Next, UserActs, PageActs, HostActs, Environment, vars, host, Add, Enable, Rearm, Remove, Reload,
      Attempt, Consume, Wake, Poll, DaemonFlips, StartInstalls, StopBegins, StopJoins, Spawn,
      StoreChild, ReadFrame, ReadEnds, WorkerEnds, ChildDies, WorkerStep

LEMMA FenceStep ==
  ASSUME FewSources, LiveInv, FenceInv, [Next]_vars
  PROVE  FenceInv'
<1>0. /\ TypeOK /\ HostType /\ PageInv /\ HostInv /\ lastEpoch \in Nat /\ lastEpoch' \in Nat
      /\ Epochs \subseteq Nat /\ Maybe \subseteq Nat
      /\ fence.floor \in Nat /\ \A k \in Sources : fence.lastStarted[k] \in Nat
  BY LiveInvStep, LiveAssumption DEF LiveInv, TypeOK, PageType, HostType, Maybe, None, Epochs
<1>1. lastEpoch <= lastEpoch' /\ \A f \in Epochs : f <= lastEpoch => attempt'[f].key = attempt[f].key
  BY KeysKept
<1> DEFINE e == starting.epoch
           k == attempt[e].key
<1>2. starting # Unlocked => e \in Epochs /\ e <= lastEpoch /\ k \in Sources
  <2>1. starting # Unlocked => e \in Epochs /\ attempt[e].phase = "starting"
    BY <1>0 DEF HostInv, StartingOK
  <2>2. starting # Unlocked => ~(e > lastEpoch) /\ k \in Sources
    BY <1>0, <2>1 DEF PageInv, AttemptOK
  <2>3. \A x \in Epochs : ~(x > lastEpoch) => x <= lastEpoch
    <3>1. Epochs \subseteq Nat /\ lastEpoch \in Nat
      BY <1>0
    <3>2. \A x \in Nat : ~(x > lastEpoch) => x <= lastEpoch
      BY <3>1
    <3> QED
      BY <3>1, <3>2
  <2> QED
    BY <2>1, <2>2, <2>3
<1>3. ASSUME StartInstalls, fence' = Committed(k, e)
      PROVE  /\ starting # Unlocked /\ e \in Nat /\ k \in Sources /\ e <= lastEpoch
             /\ fence'.floor \in Nat /\ \A q \in Sources : fence'.lastStarted[q] \in Nat
             /\ fence'.floor >= fence.floor
             /\ e <= fence'.lastStarted[k] \/ e <= fence'.floor
             /\ fence'.lastStarted[k] <= e
             /\ \A q \in Sources \ {k} :
                  /\ fence'.lastStarted[q] <= fence.lastStarted[q]
                  /\ \/ fence.lastStarted[q] <= fence'.lastStarted[q]
                     \/ fence.lastStarted[q] <= fence'.floor
             /\ fence'.floor # fence.floor =>
                  fence'.floor <= e /\ \A q \in Sources : q # k => fence'.floor <= fence.lastStarted[q]
  <2>1. starting # Unlocked /\ k \in Sources /\ e \in Epochs /\ e <= lastEpoch
    BY <1>2, <1>3 DEF StartInstalls
  <2>2. fence' \in [lastStarted : [Sources -> Maybe], floor : Maybe]
    BY <1>0, <1>3, <2>1, FenceMoves
  <2>3. fence'.floor \in Nat /\ \A q \in Sources : fence'.lastStarted[q] \in Nat
    BY <1>0, <2>2
  <2> QED
    BY <1>0, <1>3, <2>1, <2>3, FenceMoves
<1>4. FenceBound'
  <2> DEFINE n == lastEpoch'
  <2>1. CASE UNCHANGED fence
    <3>1. \A x \in Nat : x <= lastEpoch => x <= n
      BY <1>0, <1>1
    <3> HIDE DEF n
    <3>2. fence.floor <= n /\ \A q \in Sources : fence.lastStarted[q] <= n
      BY <1>0, <3>1 DEF FenceInv, FenceBound
    <3> QED
      BY <2>1, <3>2 DEF FenceBound, n
  <2>2. CASE StartInstalls /\ fence' = Committed(k, e)
    <3> DEFINE floor == fence'.floor
               last == fence'.lastStarted
    <3>1. /\ floor \in Nat /\ e \in Nat /\ e <= lastEpoch /\ (floor # fence.floor => floor <= e)
          /\ \A q \in Sources : last[q] \in Nat /\ (last[q] <= e \/ last[q] <= fence.lastStarted[q])
      BY <1>3, <2>2
    <3>2. n \in Nat /\ lastEpoch <= n
      BY <1>0, <1>1
    <3> HIDE DEF n, floor, last
    <3>3. floor <= n /\ \A q \in Sources : last[q] <= n
      BY <1>0, <3>1, <3>2 DEF FenceInv, FenceBound
    <3> QED
      BY <3>3 DEF FenceBound, n, floor, last
  <2> QED
    BY <2>1, <2>2, FenceKept
<1>5. StartPassed'
  <2>1. CASE UNCHANGED <<starting, fence>>
    BY <1>1, <1>2, <2>1 DEF FenceInv, StartPassed, EpochAdvances
  <2>2. CASE starting' = Unlocked
    BY <2>2 DEF StartPassed
  <2>3. ASSUME NEW f \in Epochs, starting'.epoch = f, EpochAdvances(attempt[f].key, f),
               UNCHANGED <<attempt, fence>>
        PROVE  StartPassed'
    BY <2>3 DEF StartPassed, EpochAdvances
  <2> QED
    BY <2>1, <2>2, <2>3, StartingKept
<1>6. ASSUME NEW j \in Sources PROVE FenceOK(j)'
  <2> DEFINE c == fiber[j].cur
  <2>1. SUFFICES ASSUME fiber'[j].run = "busy"
                 PROVE  /\ attempt'[fiber'[j].cur].phase = "starting" =>
                             fence'.lastStarted[j] < fiber'[j].cur /\ fence'.floor < fiber'[j].cur
                        /\ attempt'[fiber'[j].cur].phase = "consuming" =>
                             \/ fiber'[j].cur <= fence'.lastStarted[j]
                             \/ fiber'[j].cur <= fence'.floor
    BY DEF FenceOK
  <2>2. FiberMove(j) /\ FenceOK(j) /\ FiberOK(j)
    BY <1>0, <2>1, FiberMoves DEF FenceInv, PageInv
  <2>3. CASE /\ attempt'[fiber'[j].cur].phase = "starting" /\ fiber'[j].cur = lastEpoch + 1
             /\ UNCHANGED fence
    BY <1>0, <2>3 DEF FenceInv, FenceBound
  <2>4. ASSUME UNCHANGED fiber[j]
        PROVE  /\ c \in Epochs /\ c \in Nat /\ c <= lastEpoch /\ attempt[c].key = j
               /\ fiber[j].run = "busy" /\ fiber'[j].cur = c
               /\ \A f \in Epochs : f <= lastEpoch /\ attempt[f].key = j => f <= c
    BY <1>0, <2>1, <2>2, <2>4 DEF FiberOK
  <2>5. CASE UNCHANGED fiber[j] /\ attempt'[c].phase = attempt[c].phase
    <3>1. CASE UNCHANGED fence
      BY <2>2, <2>4, <2>5, <3>1 DEF FenceOK
    <3>2. CASE StartInstalls /\ fence' = Committed(k, e)
      <4> DEFINE floor == fence'.floor
                 last == fence'.lastStarted
      <4>1. /\ e \in Epochs /\ e \in Nat /\ e <= lastEpoch /\ e > fence.floor
            /\ e > fence.lastStarted[k]
        BY <1>0, <1>2, <1>3, <3>2 DEF FenceInv, StartPassed, EpochAdvances
      <4>2. j = k => e <= c
        BY <2>4, <2>5, <4>1
      <4>3. floor \in Nat /\ last[j] \in Nat /\ c \in Nat /\ fence.floor \in Nat
            /\ fence.lastStarted[j] \in Nat
        BY <1>0, <1>3, <2>4, <2>5, <3>2
      <4>4. CASE attempt[c].phase = "starting"
        <5>1. fence.lastStarted[j] < c /\ fence.floor < c
          BY <2>2, <2>4, <2>5, <4>4 DEF FenceOK
        <5>2. c # e
          <6>1. attempt'[e].phase # "starting"
            <7>1. \E ok \in BOOLEAN : Started(e, ok)
              BY <3>2 DEF StartInstalls
            <7> QED
              BY <1>0, <4>1, <7>1, AnswerMoves
          <6> QED
            BY <2>5, <4>4, <6>1
        <5>3. CASE j = k
          <6>1. e < c
            BY <4>1, <4>2, <4>3, <5>2, <5>3
          <6>2. last[j] <= e /\ (floor = fence.floor \/ floor <= e)
            BY <1>3, <3>2, <5>3
          <6> HIDE DEF last, floor
          <6>3. last[j] < c /\ floor < c
            BY <4>1, <4>3, <5>1, <6>1, <6>2
          <6> QED
            BY <2>4, <2>5, <4>4, <6>3 DEF last, floor
        <5>4. CASE j # k
          <6>1. last[j] <= fence.lastStarted[j]
                /\ (floor = fence.floor \/ floor <= fence.lastStarted[j])
            BY <1>3, <3>2, <5>4
          <6> HIDE DEF last, floor
          <6>2. last[j] < c /\ floor < c
            BY <4>3, <5>1, <6>1
          <6> QED
            BY <2>4, <2>5, <4>4, <6>2 DEF last, floor
        <5> QED
          BY <5>3, <5>4
      <4>5. CASE attempt[c].phase = "consuming"
        <5>1. c <= fence.lastStarted[j] \/ c <= fence.floor
          BY <2>2, <2>4, <2>5, <4>5 DEF FenceOK
        <5>2. j # k
          BY <4>1, <4>2, <4>3, <5>1
        <5>3. /\ floor >= fence.floor
              /\ fence.lastStarted[j] <= last[j] \/ fence.lastStarted[j] <= floor
          BY <1>3, <3>2, <5>2
        <5> HIDE DEF last, floor
        <5>4. c <= last[j] \/ c <= floor
          BY <4>3, <5>1, <5>3
        <5> QED
          BY <2>4, <2>5, <4>5, <5>4 DEF last, floor
      <4>6. CASE attempt[c].phase \notin {"starting", "consuming"}
        BY <2>4, <2>5, <4>6
      <4> QED
        BY <4>4, <4>5, <4>6
    <3> QED
      BY <3>1, <3>2, FenceKept
  <2>6. CASE UNCHANGED fiber[j] /\ attempt'[c].phase \in {"releasing", "joining"}
    BY <2>4, <2>6
  <2>7. CASE UNCHANGED fiber[j] /\ StartInstalls /\ e = c /\ fence' = Committed(j, c)
    <3>1. k = j
      BY <2>4, <2>7
    <3>2. e <= fence'.lastStarted[j] \/ e <= fence'.floor
      BY <1>3, <2>7, <3>1
    <3>3. attempt'[e].phase # "starting"
      <4>1. \E ok \in BOOLEAN : Started(e, ok)
        BY <2>7 DEF StartInstalls
      <4> QED
        BY <1>0, <2>4, <2>7, <4>1, AnswerMoves
    <3> QED
      BY <2>4, <2>7, <3>2, <3>3
  <2>8. CASE UNCHANGED fiber[j] /\ attempt[c].phase = "starting" /\ ~EpochAdvances(j, c)
    BY <1>0, <2>2, <2>4, <2>8 DEF FenceOK, EpochAdvances
  <2> QED
    BY <2>2, <2>3, <2>5, <2>6, <2>7, <2>8 DEF FiberMove
<1> QED
  BY <1>4, <1>5, <1>6 DEF FenceInv

(* What a worker emits joins the frames that have arrived.                 *)
LEMMA EmitGrows ==
  ASSUME TypeOK, NEW e \in Epochs, NEW k \in Sources, attempt[e].key = k, NEW kind \in Kinds,
         Emit(e, kind)
  PROVE  /\ \A j \in Sources, f \in Epochs : LastFrame(j, f) => LastFrame(j, f)'
         /\ Sees(k) /\ kind \in Terminals => LastFrame(k, e)'
<1> DEFINE g == Frame(e, kind)
           q == Append(queue[k], g)
<1>1. g.epoch = e /\ g.kind = kind
  BY DEF Frame
<1>2. queue[k] \in Seq(Frames) /\ g \in Frames
  BY DEF TypeOK, PageType, Frame, Frames
<1> HIDE DEF g
<1>3. /\ DOMAIN q = 1..Len(queue[k]) + 1 /\ DOMAIN queue[k] = 1..Len(queue[k]) /\ Len(queue[k]) \in Nat
      /\ q[Len(queue[k]) + 1] = g /\ \A i \in 1..Len(queue[k]) : q[i] = queue[k][i]
  BY <1>2
<1> HIDE DEF q
<1>4. queue' = queue \/ queue' = [queue EXCEPT ![k] = q]
  BY DEF Emit, g, q
<1>5. ASSUME NEW j \in Sources, NEW f \in Epochs, LastFrame(j, f) PROVE LastFrame(j, f)'
  <2>1. PICK i \in DOMAIN queue[j] : queue[j][i].epoch = f /\ queue[j][i].kind \in Terminals
    BY <1>5 DEF LastFrame
  <2>2. i \in DOMAIN (queue'[j]) /\ queue'[j][i] = queue[j][i]
    <3>1. CASE queue'[j] = queue[j]
      BY <2>1, <3>1
    <3>2. CASE j = k /\ queue'[j] = q
      BY <1>3, <2>1, <3>2
    <3> QED
      BY <1>4, <3>1, <3>2 DEF TypeOK, PageType
  <2> QED
    BY <2>1, <2>2 DEF LastFrame
<1>6. ASSUME Sees(k), kind \in Terminals PROVE \E i \in DOMAIN (queue'[k]) :
                                             /\ queue'[k][i].epoch = e
                                             /\ queue'[k][i].kind \in Terminals
  <2>1. queue'[k] = q
    BY <1>6 DEF Emit, TypeOK, PageType, g, q
  <2>2. Len(queue[k]) + 1 \in DOMAIN q
    BY <1>3
  <2> QED
    BY <1>1, <1>3, <1>6, <2>1, <2>2
<1>7. Sees(k) /\ kind \in Terminals => LastFrame(k, e)'
  BY <1>6 DEF LastFrame
<1> QED
  BY <1>5, <1>7

(* A worker that goes on does so, or leaves its last frame behind.         *)
LEMMA WorkerServes ==
  ASSUME LiveInv, NEW e \in Epochs, NEW j \in Sources, NEW c \in Epochs, attempt[c].key = j, Sees(j),
         Spawn(e) \/ StoreChild(e) \/ ReadFrame(e) \/ ReadEnds(e) \/ WorkerEnds(e) \/ ChildDies(e)
  PROVE  /\ LastFrame(j, c) => LastFrame(j, c)'
         /\ worker[c] \in Going /\ c \notin stopped =>
              (worker'[c] \in Going /\ c \notin stopped') \/ LastFrame(j, c)'
<1>0. TypeOK /\ HostInv /\ UNCHANGED stopped
  BY DEF LiveInv, Spawn, StoreChild, ReadFrame, ReadEnds, WorkerEnds, ChildDies
<1>1. attempt[e].key \in Sources
  <2>1. worker[e] # "none"
    BY <1>0 DEF HostInv, WorkerOK, Spawn, StoreChild, ReadFrame, ReadEnds, WorkerEnds, ChildDies
  <2> QED
    BY <2>1, KeyOfAttempt
<1>2. ASSUME NEW kind \in Kinds, Emit(e, kind)
      PROVE  /\ LastFrame(j, c) => LastFrame(j, c)'
             /\ c = e /\ kind \in Terminals => LastFrame(j, c)'
  BY <1>0, <1>1, <1>2, EmitGrows
<1>3. UNCHANGED source => (LastFrame(j, c) => LastFrame(j, c)')
  BY DEF source, LastFrame
<1>4. \A w : worker' = [worker EXCEPT ![e] = w] => worker'[e] = w /\ (c # e => worker'[c] = worker[c])
  BY <1>0 DEF TypeOK, HostType
<1>5. CASE Spawn(e)
  BY <1>0, <1>2, <1>3, <1>4, <1>5 DEF Spawn, Going, Kinds, Terminals
<1>6. CASE StoreChild(e)
  BY <1>0, <1>3, <1>4, <1>6 DEF StoreChild, Store, Going
<1>7. CASE ReadFrame(e)
  <2>1. CASE ReadsRows(e)
    BY <1>0, <1>2, <2>1 DEF ReadsRows, Kinds
  <2>2. CASE ReadsOffline(e)
    BY <1>0, <1>2, <1>3, <1>4, <2>2 DEF ReadsOffline, Kinds, Terminals
  <2>3. CASE ReadsFailure(e)
    BY <1>0, <1>2, <1>4, <2>3 DEF ReadsFailure, Kinds, Terminals
  <2> QED
    BY <1>7, <2>1, <2>2, <2>3 DEF ReadFrame
<1>8. CASE ReadEnds(e)
  BY <1>0, <1>2, <1>3, <1>4, <1>8 DEF ReadEnds, EndOfOutput, Kinds, Terminals
<1>9. CASE WorkerEnds(e)
  BY <1>0, <1>3, <1>4, <1>9 DEF WorkerEnds, Going
<1>10. CASE ChildDies(e)
  BY <1>0, <1>3, <1>10 DEF ChildDies
<1> QED
  BY <1>5, <1>6, <1>7, <1>8, <1>9, <1>10

LEMMA ServedStep ==
  ASSUME LiveInv, FenceInv, [Next]_vars, NEW j \in Sources, Served(j)
  PROVE  Served(j)'
<1>0. TypeOK /\ PageType /\ PageInv /\ HostInv /\ Epochs \subseteq Nat /\ lastEpoch \in Nat
  BY LiveAssumption DEF LiveInv, TypeOK, PageType, Maybe, None, Epochs
<1>1. SUFFICES ASSUME fiber'[j].run = "busy", attempt'[fiber'[j].cur].phase = "consuming",
                      NEW c, c = fiber'[j].cur
               PROVE  (worker'[c] \in Going /\ c \notin stopped') \/ LastFrame(j, c)'
  BY DEF Served
<1>2. FiberMove(j) /\ FiberOK(j) /\ FenceOK(j)
  BY <1>0, <1>1, FiberMoves DEF PageInv, FenceInv
<1>3. /\ fiber'[j] = fiber[j] /\ c = fiber[j].cur /\ c \in Epochs /\ c <= lastEpoch
      /\ attempt[c].key = j /\ fiber[j].run = "busy" /\ Sees(j)
      /\ \A f \in Epochs : f <= lastEpoch /\ attempt[f].key = j => f <= c
  BY <1>1, <1>2 DEF FiberMove, FiberOK, Sees
<1>4. CASE /\ attempt[c].phase = "starting" /\ StartInstalls
           /\ worker' = [worker EXCEPT ![c] = "spawning"]
  <2>1. c \notin stopped /\ UNCHANGED stopped /\ worker'[c] = "spawning"
    BY <1>0, <1>3, <1>4 DEF HostInv, WorkerOK, StartInstalls, TypeOK, HostType
  <2> QED
    BY <2>1 DEF Going
<1>5. ~(attempt[c].phase = "starting" /\ ~EpochAdvances(j, c))
  BY <1>2, <1>3 DEF FenceOK, EpochAdvances
<1>6. ASSUME attempt[c].phase = "consuming"
      PROVE  (worker'[c] \in Going /\ c \notin stopped') \/ LastFrame(j, c)'
  <2>1. (worker[c] \in Going /\ c \notin stopped) \/ LastFrame(j, c)
    BY <1>3, <1>6 DEF Served
  <2>2. ASSUME queue'[j] = queue[j], worker'[c] = worker[c], c \in stopped' => c \in stopped
        PROVE  (worker'[c] \in Going /\ c \notin stopped') \/ LastFrame(j, c)'
    BY <2>1, <2>2 DEF LastFrame
  <2>3. ASSUME NEW k \in Sources,
               \/ \E enabled \in BOOLEAN : Add(k, enabled) \/ Enable(k, enabled)
               \/ \E autoStart \in BOOLEAN : Rearm(k, autoStart)
               \/ Remove(k)
        PROVE  (worker'[c] \in Going /\ c \notin stopped') \/ LastFrame(j, c)'
    BY <1>0, <1>1, <2>2, <2>3, LetsGo DEF host
  <2>4. ~Reload
    BY <1>1 DEF Reload, NoFiber, Fiber
  <2>5. CASE \/ UNCHANGED vars
             \/ \E k \in Sources : Attempt(k) \/ Wake(k) \/ Poll(k) \/ DaemonFlips(k)
             \/ \E e \in Epochs : StopJoins(e)
    <3>1. UNCHANGED <<queue, worker, stopped>>
      BY <2>5 DEF vars, page, source, host, Attempt, Wake, Poll, DaemonFlips, StopJoins, Stopped
    <3> QED
      BY <2>2, <3>1
  <2>6. ASSUME NEW k \in Sources, Consume(k)
        PROVE  (worker'[c] \in Going /\ c \notin stopped') \/ LastFrame(j, c)'
    <3> DEFINE f == Head(queue[k])
    <3>1. UNCHANGED <<worker, stopped>> /\ queue' = [queue EXCEPT ![k] = Tail(queue[k])] /\ queue[k] # <<>>
      BY <2>6 DEF Consume, host
    <3>2. CASE j # k
      BY <1>0, <2>2, <3>1, <3>2 DEF PageType
    <3>3. CASE j = k /\ f.epoch = c /\ f.kind \in Terminals
      <4>1. EndedBy(attempt[c], f.kind).phase = "releasing"
        BY DEF EndedBy, AttemptOf
      <4>2. attempt' = [attempt EXCEPT ![c] = EndedBy(attempt[c], f.kind)]
        BY <1>3, <2>6, <3>3 DEF Consume, ConsumesFrame, Heard
      <4> QED
        BY <1>0, <1>1, <1>3, <4>1, <4>2 DEF PageType
    <3>4. CASE j = k /\ ~(f.epoch = c /\ f.kind \in Terminals)
      <4> DEFINE q == Tail(queue[j])
      <4>1. queue[j] \in Seq(Frames) /\ queue'[j] = q
        BY <1>0, <3>1, <3>4 DEF PageType
      <4>2. \A i \in DOMAIN queue[j] : i = 1 \/ (i - 1 \in DOMAIN q /\ q[i - 1] = queue[j][i])
        BY <3>1, <3>4, <4>1
      <4>3. queue[j][1] = f
        BY <3>4, <4>1
      <4> HIDE DEF q, f
      <4>4. ASSUME LastFrame(j, c) PROVE LastFrame(j, c)'
        <5>1. PICK i \in DOMAIN queue[j] : queue[j][i].epoch = c /\ queue[j][i].kind \in Terminals
          BY <4>4 DEF LastFrame
        <5>2. i # 1
          BY <3>4, <4>3, <5>1
        <5>3. i - 1 \in DOMAIN q /\ q[i - 1] = queue[j][i]
          BY <4>2, <5>1, <5>2
        <5> QED
          BY <4>1, <5>1, <5>3 DEF LastFrame
      <4> QED
        BY <2>1, <3>1, <4>4
    <3> QED
      BY <3>2, <3>3, <3>4
  <2>7. CASE StartInstalls
    <3>1. starting.epoch # c /\ UNCHANGED <<queue, stopped>>
      BY <1>0, <1>6, <2>7 DEF StartInstalls, HostInv, StartingOK, source
    <3>2. worker'[c] = worker[c]
      BY <1>0, <1>3, <2>7, <3>1 DEF StartInstalls, TypeOK, HostType
    <3> QED
      BY <2>2, <3>1, <3>2
  <2>8. ASSUME NEW e \in Epochs, StartBegins(e)
        PROVE  (worker'[c] \in Going /\ c \notin stopped') \/ LastFrame(j, c)'
    <3> DEFINE k == attempt[e].key
    <3>1. /\ UNCHANGED <<queue, worker>> /\ k \in Sources /\ e <= lastEpoch
          /\ UNCHANGED stopped \/ (EpochAdvances(k, e) /\ stopped' = stopped \cup ({supervisor[k]} \ {None}))
      <4>1. attempt[e].phase = "starting"
        BY <2>8 DEF StartBegins
      <4>2. ~(e > lastEpoch) /\ k \in Sources
        BY <1>0, <4>1 DEF PageInv, AttemptOK
      <4>3. e <= lastEpoch
        BY <1>0, <4>2
      <4> QED
        BY <2>8, <4>2, <4>3 DEF StartBegins, TakeSupervisor, source
    <3>2. ASSUME EpochAdvances(k, e), supervisor[k] = c PROVE FALSE
      <4>1. k = j
        BY <1>0, <1>3, <3>1, <3>2, LiveAssumption DEF HostInv, SupervisorOK, Epochs, None
      <4>2. e \in Nat /\ c \in Nat /\ e <= c /\ fence.floor \in Nat /\ fence.lastStarted[j] \in Nat
        BY <1>0, <1>3, <3>1, <4>1, LiveAssumption DEF TypeOK, HostType, Maybe, Epochs, None
      <4>3. c <= fence.lastStarted[j] \/ c <= fence.floor
        BY <1>2, <1>3, <1>6 DEF FenceOK
      <4> QED
        BY <3>2, <4>1, <4>2, <4>3 DEF EpochAdvances
    <3> QED
      BY <2>2, <3>1, <3>2
  <2>9. ASSUME NEW e \in Epochs, StopBegins(e)
        PROVE  (worker'[c] \in Going /\ c \notin stopped') \/ LastFrame(j, c)'
    <3>1. e # c /\ UNCHANGED <<queue, worker>>
      BY <1>6, <2>9 DEF StopBegins, Stopped, source
    <3>2. c \in stopped' => c \in stopped
      BY <2>9, <3>1 DEF StopBegins, TakeSupervisor
    <3> QED
      BY <2>2, <3>1, <3>2
  <2>10. ASSUME NEW e \in Epochs,
                Spawn(e) \/ StoreChild(e) \/ ReadFrame(e) \/ ReadEnds(e) \/ WorkerEnds(e) \/ ChildDies(e)
         PROVE  (worker'[c] \in Going /\ c \notin stopped') \/ LastFrame(j, c)'
    BY <1>3, <2>1, <2>10, WorkerServes
  <2> QED
    BY <2>3, <2>4, <2>5, <2>6, <2>7, <2>8, <2>9, <2>10
    DEF Next, UserActs, PageActs, HostActs, Environment
<1> QED
  BY <1>1, <1>2, <1>3, <1>4, <1>5, <1>6 DEF FiberMove

(* As long as the fence never forgets a source that others have outrun,    *)
(* starts and stops that cross leave each source one worker, the one that  *)
(* its fiber waits for: no late start replaces it, no late stop ends it.   *)
THEOREM WorkersAlwaysMatch ==
  ASSUME FewSources
  PROVE  Spec => []WorkersMatchFibers
<1> DEFINE ServedAll == \A k \in Sources : Served(k)
<1>1. Init => FenceInv /\ ServedAll
  <2> SUFFICES ASSUME Init PROVE FenceInv /\ ServedAll
    OBVIOUS
  <2>1. NoFiber.run # "busy"
    BY DEF NoFiber, Fiber
  <2>2. \A k \in Sources : FenceOK(k) /\ Served(k)
    BY <2>1 DEF Init, FenceOK, Served
  <2>3. fence.floor = 0 /\ fence.lastStarted = [k \in Sources |-> 0]
    BY DEF Init, Fence, None
  <2>4. FenceBound /\ StartPassed
    BY <2>3 DEF Init, FenceBound, StartPassed
  <2> QED
    BY <2>2, <2>4 DEF FenceInv
<1>2. LiveInv /\ FenceInv /\ ServedAll /\ [Next]_vars => FenceInv' /\ ServedAll'
  BY FewSources, FenceStep, ServedStep
<1>3. LiveInv /\ ServedAll => WorkersMatchFibers
  BY OneChild DEF WorkersMatchFibers, ConsumerIsServed, Served, LastFrame, Going
<1> HIDE DEF ServedAll
<1> QED
  BY <1>1, <1>2, <1>3, Invariance, PTL DEF Spec
=============================================================================
