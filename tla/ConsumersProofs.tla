--------------------------- MODULE ConsumersProofs ---------------------------
(***************************************************************************)
(* Proofs about Consumers, for every number of consumers and of silent     *)
(* connections, and every limit of the acceptor.                           *)
(***************************************************************************)
EXTENDS Consumers, FiniteSetTheorems, SequenceTheorems, TLAPS

------------------------------------------------------------------------------
(* Type correctness                                                        *)

DaemonStates == {"none", "initializing", "ready", "failed", "closing"}
Places == {"unused", "closed", "backlog", "handshake", "refusal", "subscriber", "farewell"}
Phases ==
  {"ready", "asking", "backoff", "live", "probing", "locking", "awaiting", "ended"}
Breakages == {"eof", "reset", "pipe"}
Frames == {"busy", "notReady", "limit", "snapshot", "failed", "closing"} \cup Breakages

(* The shape of the state; without a daemon there are no connections.      *)
TypeOK ==
  /\ daemon \in DaemonStates
  /\ conn \in [Peers -> Places]
  /\ pending_handshakes \in Int
  /\ wire \in [Consumers -> Seq(Frames)]
  /\ phase \in [Consumers -> Phases]
  /\ bootstrapped \in [Consumers -> BOOLEAN]
  /\ attempted_start \in [Consumers -> BOOLEAN]
  /\ late \in [Consumers -> BOOLEAN]
  /\ startLock \in Consumers \cup {Nobody}
  /\ setting \in [Consumers -> [mode : {"subscribe", "snapshot"},
                                policy : {"auto", "disabled", "untrusted"}]]
  /\ starts \in [Consumers -> Nat]
  /\ told \subseteq Consumers
  /\ daemon = "none" => \A p \in Peers : conn[p] \in {"closed", "unused"}

LEMMA TypeInit == Init => TypeOK
<1> SUFFICES ASSUME Init PROVE TypeOK
  OBVIOUS
<1>1. wire \in [Consumers -> Seq(Frames)]
  BY DEF Init
<1> QED
  BY <1>1, ConsumersAssumption DEF Init, TypeOK, Peers, Places, Phases, DaemonStates

(* The part of it that the consumers' own steps change.                    *)
LoopTypes ==
  /\ phase \in [Consumers -> Phases]
  /\ bootstrapped \in [Consumers -> BOOLEAN]
  /\ attempted_start \in [Consumers -> BOOLEAN]
  /\ late \in [Consumers -> BOOLEAN]

LEMMA NotRunningType ==
  ASSUME TypeOK, NEW c \in Consumers, NotRunning(c)
  PROVE  LoopTypes'
BY DEF TypeOK, Phases, LoopTypes, NotRunning, Goes, Retries, state

LEMMA AnsweredType ==
  ASSUME TypeOK, NEW c \in Consumers, NEW answer,
         WorkerAnswered(c, answer) \/ OneShotAnswered(c, answer)
  PROVE  LoopTypes' /\ starts' \in [Consumers -> Nat]
<1> USE DEF TypeOK
<1>1. CASE answer = "pipe"
  <2>1. NotRunning(c) /\ UNCHANGED starts
    BY <1>1 DEF WorkerAnswered, OneShotAnswered, RetryableAnswers
  <2> QED
    BY <2>1, NotRunningType
<1>2. CASE answer # "pipe" /\ WorkerAnswered(c, answer)
  <2>1. PICK next \in Phases : Goes(c, next)
    BY <1>2 DEF WorkerAnswered, Phases
  <2>2. phase' \in [Consumers -> Phases]
    BY <2>1 DEF Goes
  <2>3. /\ bootstrapped' \in [Consumers -> BOOLEAN]
        /\ attempted_start' \in [Consumers -> BOOLEAN]
        /\ late' \in [Consumers -> BOOLEAN]
        /\ starts' \in [Consumers -> Nat]
    <3>1. CASE UNCHANGED <<bootstrapped, attempted_start, late, starts>>
      BY <3>1
    <3>2. CASE /\ bootstrapped' = [bootstrapped EXCEPT ![c] = TRUE]
               /\ attempted_start' = [attempted_start EXCEPT ![c] = FALSE]
               /\ starts' = [starts EXCEPT ![c] = 0] /\ UNCHANGED late
      BY <3>2
    <3> QED
      BY <1>2, <3>1, <3>2 DEF WorkerAnswered, state
  <2> QED
    BY <2>2, <2>3 DEF LoopTypes
<1>3. CASE answer # "pipe" /\ OneShotAnswered(c, answer)
  BY <1>3 DEF OneShotAnswered, Retries, Goes, state, LoopTypes, Phases
<1> QED
  BY <1>1, <1>2, <1>3

LEMMA SendsType ==
  ASSUME TypeOK, NEW c \in Consumers, NEW frame \in Frames, Sends(c, frame)
  PROVE  wire' \in [Consumers -> Seq(Frames)]
<1>1. Append(wire[c], frame) \in Seq(Frames)
  BY DEF TypeOK
<1> QED
  BY <1>1 DEF TypeOK, Sends

(* However a connection breaks, its client is left with frames to read.    *)
LEMMA BreaksType ==
  ASSUME TypeOK, NEW c \in Consumers, NEW how \in Breakages
  PROVE  Breaks(c, how) \in Seq(Frames)
BY DEF TypeOK, Breaks, Frames

LEMMA ExitsType ==
  ASSUME TypeOK, Exits
  PROVE  wire' \in [Consumers -> Seq(Frames)]
<1>1. PICK before \in Breakages, after \in Breakages :
        wire' = [c \in Consumers |->
                   Breaks(c, IF conn[c] \in {"subscriber", "farewell"} THEN after ELSE before)]
  BY DEF Exits, Breakages
<1>2. \A c \in Consumers :
        Breaks(c, IF conn[c] \in {"subscriber", "farewell"} THEN after ELSE before) \in Seq(Frames)
  BY BreaksType
<1> QED
  BY <1>1, <1>2

LEMMA TypeStep == TypeOK /\ [Next]_vars => TypeOK'
<1> SUFFICES ASSUME TypeOK, [Next]_vars PROVE TypeOK'
  OBVIOUS
<1> USE DEF TypeOK, DaemonStates, Places, Phases, LoopTypes, state
<1>1. CASE UNCHANGED vars
  BY <1>1 DEF vars, server, clients
<1>2. ASSUME NEW c \in Consumers, ConsumerStep(c) \/ Quit(c) \/ Retire(c) \/ TooSlow(c)
      PROVE  TypeOK'
  <2>1. CASE Connect(c)
    <3>1. wire' \in [Consumers -> Seq(Frames)]
      BY <2>1 DEF Connect
    <3> QED
      BY <2>1, <3>1, NotRunningType DEF Connect, Goes, Peers
  <2>2. CASE BackoffEnds(c)
    BY <2>2 DEF BackoffEnds, Goes, server
  <2>3. CASE DeadlinePasses(c)
    BY <2>3 DEF DeadlinePasses, server
  <2>4. CASE ReadAnswer(c)
    <3>1. wire' \in [Consumers -> Seq(Frames)]
      BY <2>4 DEF ReadAnswer
    <3> QED
      BY <2>4, <3>1, AnsweredType DEF ReadAnswer, server
  <2>5. CASE ReadEnd(c)
    <3>1. wire' \in [Consumers -> Seq(Frames)]
      BY <2>5 DEF ReadEnd
    <3> QED
      BY <2>5, <3>1 DEF ReadEnd, Goes, server
  <2>6. CASE Probe(c)
    BY <2>6 DEF Probe, Existing, Started, StartFails, Unlock, Goes, server
  <2>7. CASE ProbeLocked(c)
    BY <2>7 DEF ProbeLocked, Existing, Started, StartFails, Unlock, Goes, server
  <2>8. CASE Launch(c)
    BY <2>8 DEF Launch, Goes
  <2>9. CASE LaunchRefused(c)
    BY <2>9 DEF LaunchRefused, Goes, server
  <2>10. CASE Await(c)
    BY <2>10 DEF Await, Started, StartFails, Unlock, Goes, server
  <2>11. CASE Quit(c)
    BY <2>11 DEF Quit, Goes, server
  <2>12. CASE Retire(c)
    <3>1. wire' \in [Consumers -> Seq(Frames)]
      BY <2>12 DEF Retire, Frames, Breakages
    <3> QED
      BY <2>12, <3>1 DEF Retire, clients
  <2>13. CASE TooSlow(c)
    <3>1. CASE Exits
      <4>1. wire' \in [Consumers -> Seq(Frames)]
        BY <3>1, ExitsType
      <4> QED
        BY <2>13, <3>1, <4>1 DEF TooSlow, Exits, StartFails, Goes, Unlock
    <3>2. CASE UNCHANGED <<server, wire, told, setting>>
      BY <2>13, <3>2 DEF TooSlow, StartFails, Goes, Unlock, server
    <3> QED
      BY <2>13, <3>1, <3>2 DEF TooSlow
  <2> QED
    BY <1>2, <2>1, <2>2, <2>3, <2>4, <2>5, <2>6, <2>7, <2>8, <2>9, <2>10, <2>11, <2>12, <2>13
    DEF ConsumerStep
<1>3. ASSUME NEW p \in Peers, ServerStep(p)
      PROVE  TypeOK'
  <2>1. CASE Accept(p)
    <3>1. wire' \in [Consumers -> Seq(Frames)]
      <4>1. \A how \in Breakages :
              [c \in Consumers |-> IF c = p THEN Breaks(c, how) ELSE wire[c]]
                \in [Consumers -> Seq(Frames)]
        BY BreaksType
      <4> QED
        BY <2>1, <4>1 DEF Accept, Breakages
    <3>2. /\ daemon' = daemon /\ daemon # "none" /\ pending_handshakes' \in Int
          /\ conn' \in [Peers -> Places]
      <4>1. \/ pending_handshakes' = pending_handshakes + 1
            \/ UNCHANGED pending_handshakes
        BY <2>1 DEF Accept
      <4>2. \E place \in Places : conn' = [conn EXCEPT ![p] = place]
        BY <2>1 DEF Accept
      <4> QED
        BY <2>1, <4>1, <4>2 DEF Accept
    <3>3. UNCHANGED <<told, phase, state, startLock, starts, setting>>
      BY <2>1 DEF Accept, clients
    <3> QED
      BY <3>1, <3>2, <3>3
  <2>2. CASE Refuse(p)
    <3>1. wire' \in [Consumers -> Seq(Frames)]
      <4>1. CASE p \in Consumers
        BY <2>2, <4>1, SendsType DEF Refuse, Frames
      <4>2. CASE p \notin Consumers
        BY <2>2, <4>2 DEF Refuse
      <4> QED
        BY <4>1, <4>2
    <3> QED
      BY <2>2, <3>1 DEF Refuse, clients
  <2>3. CASE HelloDeadline(p)
    BY <2>3 DEF HelloDeadline, Released, clients
  <2>4. CASE p \in Consumers /\ Handshake(p)
    <3>1. daemon # "none"
      BY <2>4 DEF Handshake
    <3>2. Response(p) \in Frames
      BY <3>1 DEF Response, Frames
    <3>3. wire' \in [Consumers -> Seq(Frames)]
      BY <2>4, <3>2, SendsType DEF Handshake
    <3> QED
      BY <2>4, <3>1, <3>3 DEF Handshake, Released, clients
  <2>5. CASE p \in Consumers /\ Farewell(p)
    <3>1. wire' \in [Consumers -> Seq(Frames)]
      BY <2>5 DEF Farewell, Frames
    <3> QED
      BY <2>5, <3>1 DEF Farewell, clients
  <2>6. CASE p \in Consumers /\ PlaceReleased(p)
    BY <2>6 DEF PlaceReleased, clients
  <2> QED
    BY <1>3, <2>1, <2>2, <2>3, <2>4, <2>5, <2>6 DEF ServerStep
<1>4. ASSUME NEW s \in Silents, SilentConnects(s)
      PROVE  TypeOK'
  BY <1>4 DEF SilentConnects, clients, Peers
<1>5. CASE UserRuns \/ BecomesReady \/ StartupFails \/ Stop
  BY <1>5 DEF UserRuns, BecomesReady, StartupFails, Stop, clients
<1>6. CASE DaemonEnds \/ Crash
  <2>1. wire' \in [Consumers -> Seq(Frames)]
    BY <1>6, ExitsType DEF DaemonEnds, Crash
  <2> QED
    BY <1>6, <2>1 DEF DaemonEnds, Crash, Exits, clients
<1> QED
  BY <1>1, <1>2, <1>3, <1>4, <1>5, <1>6 DEF Next

(* TypeOK holds in every reachable state.                                  *)
THEOREM TypeCorrect == Spec => []TypeOK
BY TypeInit, TypeStep, PTL DEF Spec


------------------------------------------------------------------------------
(* One start per outage                                                    *)

(* A consumer on its way to a launch has launched nothing since it last    *)
(* got rows, and has noted its attempt.                                    *)
StartIsNoted(c) ==
  /\ starts[c] <= 1
  /\ starts[c] = 1 => attempted_start[c] /\ setting[c].policy = "auto"
  /\ phase[c] \in {"probing", "locking"} =>
       starts[c] = 0 /\ attempted_start[c] /\ setting[c].policy # "disabled"

StartInv == TypeOK /\ \A c \in Consumers : StartIsNoted(c)

LEMMA StartInit == Init => StartInv
BY TypeInit DEF Init, StartInv, StartIsNoted

(* A step that leaves a consumer's loop alone leaves its note alone.       *)
LEMMA StartFrame ==
  ASSUME NEW c \in Consumers, StartIsNoted(c), UNCHANGED setting,
         phase'[c] = phase[c], starts'[c] = starts[c],
         attempted_start'[c] = attempted_start[c]
  PROVE  StartIsNoted(c)'
BY DEF StartIsNoted

(* So does one after which it is neither probing nor about to launch.      *)
LEMMA StartGoes ==
  ASSUME NEW c \in Consumers, StartIsNoted(c), UNCHANGED setting,
         phase'[c] \notin {"probing", "locking"}, starts'[c] = starts[c],
         attempted_start'[c] = attempted_start[c]
  PROVE  StartIsNoted(c)'
BY DEF StartIsNoted

LEMMA StartNotRunning ==
  ASSUME StartInv, NEW c \in Consumers, NotRunning(c), UNCHANGED <<setting, starts>>
  PROVE  StartIsNoted(c)'
<1> USE DEF StartInv, TypeOK
<1>1. CASE /\ setting[c].policy # "disabled" /\ ~attempted_start[c]
           /\ Goes(c, "probing")
           /\ attempted_start' = [attempted_start EXCEPT ![c] = TRUE]
  <2>1. starts[c] = 0
    BY <1>1 DEF StartIsNoted
  <2> QED
    BY <1>1, <2>1 DEF StartIsNoted, Goes
<1>2. CASE Goes(c, "ended") /\ UNCHANGED attempted_start
  BY <1>2, StartGoes DEF Goes
<1>3. CASE Retries(c) /\ UNCHANGED attempted_start
  BY <1>3, StartGoes DEF Retries, Goes
<1> QED
  BY <1>1, <1>2, <1>3 DEF NotRunning, CanAttemptStart, state

LEMMA StartStep == StartInv /\ [Next]_vars => StartInv'
<1> SUFFICES ASSUME StartInv, [Next]_vars PROVE StartInv'
  OBVIOUS
<1>0. TypeOK'
  BY TypeStep DEF StartInv
<1> SUFFICES ASSUME NEW d \in Consumers PROVE StartIsNoted(d)'
  BY <1>0 DEF StartInv
<1> USE DEF StartInv, TypeOK
<1>1. CASE UNCHANGED vars
  BY <1>1, StartFrame DEF vars, clients
<1>2. ASSUME NEW c \in Consumers, ConsumerStep(c) \/ Quit(c) \/ Retire(c) \/ TooSlow(c)
      PROVE  StartIsNoted(d)'
  <2>0. UNCHANGED setting
    BY <1>2 DEF ConsumerStep, Connect, BackoffEnds, DeadlinePasses, ReadAnswer, ReadEnd, Probe,
       ProbeLocked, Launch, LaunchRefused, Await, Quit, Retire, TooSlow, Exits
  <2>1. CASE Connect(c)
    <3>1. CASE d = c /\ NotRunning(c)
      BY <2>1, <3>1, StartNotRunning DEF Connect
    <3>2. CASE d = c /\ Goes(c, "asking") /\ UNCHANGED state
      BY <2>1, <3>2, StartGoes DEF Connect, Goes, state
    <3>3. CASE d # c
      BY <2>1, <3>3, StartFrame DEF Connect, NotRunning, Retries, Goes, state
    <3> QED
      BY <2>1, <3>1, <3>2, <3>3 DEF Connect
  <2>2. CASE BackoffEnds(c) \/ ReadEnd(c) \/ Await(c) \/ Quit(c)
    <3>1. UNCHANGED <<starts, attempted_start>>
      BY <2>2 DEF BackoffEnds, ReadEnd, Await, Quit, Started, StartFails, state
    <3>2. PICK next \in Phases \ {"probing", "locking"} : Goes(c, next)
      BY <2>2 DEF BackoffEnds, ReadEnd, Await, Quit, Started, StartFails, Phases
    <3> QED
      BY <2>0, <3>1, <3>2, StartFrame, StartGoes DEF Goes
  <2>3. CASE DeadlinePasses(c) \/ Retire(c)
    BY <2>0, <2>3, StartFrame DEF DeadlinePasses, Retire, clients
  <2>4. CASE ReadAnswer(c)
    <3>1. CASE d # c
      BY <2>0, <2>4, <3>1, StartFrame
      DEF ReadAnswer, WorkerAnswered, OneShotAnswered, NotRunning, Retries, Goes, state
    <3>2. CASE d = c
      <4>1. CASE NotRunning(c) /\ UNCHANGED starts
        BY <2>0, <3>2, <4>1, StartNotRunning
      <4>2. CASE /\ UNCHANGED <<starts, attempted_start>>
                 /\ \E next \in Phases \ {"probing", "locking"} : Goes(c, next)
        BY <2>0, <3>2, <4>2, StartGoes DEF Goes
      <4>3. CASE Goes(c, "live") /\ starts' = [starts EXCEPT ![c] = 0]
        BY <2>0, <3>2, <4>3 DEF StartIsNoted, Goes
      <4> QED
        BY <2>4, <4>1, <4>2, <4>3
        DEF ReadAnswer, WorkerAnswered, OneShotAnswered, Retries, state, Phases
    <3> QED
      BY <3>1, <3>2
  <2>5. CASE Probe(c) \/ ProbeLocked(c)
    <3>1. UNCHANGED <<starts, attempted_start>>
      BY <2>5 DEF Probe, ProbeLocked, Existing, Started, StartFails, state
    <3>2. PICK next \in Phases \ {"probing"} : Goes(c, next)
      BY <2>5 DEF Probe, ProbeLocked, Existing, Started, StartFails, Phases
    <3>3. phase[c] \in {"probing", "locking"}
      BY <2>5 DEF Probe, ProbeLocked
    <3> QED
      BY <2>0, <3>1, <3>2, <3>3, StartFrame DEF Goes, StartIsNoted
  <2>6. CASE Launch(c)
    <3>1. CASE d = c
      BY <2>6, <3>1 DEF Launch, StartIsNoted, Goes, state
    <3>2. CASE d # c
      BY <2>0, <2>6, <3>2, StartFrame DEF Launch, Goes, state
    <3> QED
      BY <3>1, <3>2
  <2>7. CASE LaunchRefused(c)
    <3>1. CASE d = c
      BY <2>7, <3>1 DEF LaunchRefused, StartIsNoted, Goes
    <3>2. CASE d # c
      BY <2>0, <2>7, <3>2, StartFrame DEF LaunchRefused, Goes
    <3> QED
      BY <3>1, <3>2
  <2>8. CASE TooSlow(c)
    <3>1. Goes(c, "ended") /\ UNCHANGED <<attempted_start, starts>>
      BY <2>8 DEF TooSlow, StartFails, state
    <3> QED
      BY <2>0, <3>1, StartFrame, StartGoes DEF Goes
  <2> QED
    BY <1>2, <2>1, <2>2, <2>3, <2>4, <2>5, <2>6, <2>7, <2>8 DEF ConsumerStep
<1>3. ASSUME NEW p \in Peers, ServerStep(p)
      PROVE  StartIsNoted(d)'
  BY <1>3, StartFrame DEF ServerStep, Accept, Refuse, HelloDeadline, Handshake, Farewell,
     PlaceReleased, clients
<1>4. ASSUME NEW s \in Silents, SilentConnects(s)
      PROVE  StartIsNoted(d)'
  BY <1>4, StartFrame DEF SilentConnects, clients
<1>5. CASE UserRuns \/ BecomesReady \/ StartupFails \/ Stop \/ DaemonEnds \/ Crash
  BY <1>5, StartFrame
  DEF UserRuns, BecomesReady, StartupFails, Stop, DaemonEnds, Crash, Exits, clients
<1> QED
  BY <1>1, <1>2, <1>3, <1>4, <1>5 DEF Next

(* No consumer starts a second daemon before it got rows from the first,   *)
(* nor one that it must not start (CanAttemptStart, in the TUI's and the   *)
(* one-shot commands' loops).                                              *)
THEOREM StartsOnce == Spec => []OneStartPerOutage
<1>1. StartInv => OneStartPerOutage
  BY DEF StartInv, TypeOK, StartIsNoted, OneStartPerOutage
<1> QED
  BY <1>1, StartInit, StartStep, PTL DEF Spec

------------------------------------------------------------------------------
(* A stop is not undone                                                    *)

(* What a consumer has yet to read when its connection is at each place.   *)
(* The order matters: a consumer that was told of the end reads of it      *)
(* before anything that would make it try again.                           *)
Pending(c) ==
  conn[c] \in {"backlog", "handshake", "refusal"} => phase[c] = "asking" /\ Len(wire[c]) = 0
Subscribed(c) ==
  conn[c] \in {"subscriber", "farewell"} =>
    /\ IsWorker(c)
    /\ \/ phase[c] = "asking" /\ Len(wire[c]) = 1 /\ wire[c][1] = "snapshot"
       \/ phase[c] = "live" /\ Len(wire[c]) = 0
       \/ phase[c] = "ended"
Told(c) ==
  c \in told =>
    /\ conn[c] = "closed"
    /\ \/ phase[c] = "ended"
       \/ phase[c] \in {"asking", "live"} /\ Len(wire[c]) = 1 /\ wire[c][1] = "closing"
       \/ /\ IsWorker(c) /\ phase[c] = "asking" /\ Len(wire[c]) = 2
          /\ wire[c][1] = "snapshot" /\ wire[c][2] = "closing"

Conversation(c) == Pending(c) /\ Subscribed(c) /\ Told(c)
ConversationInv == TypeOK /\ \A c \in Consumers : Conversation(c)

LEMMA ConversationInit == Init => ConversationInv
<1> SUFFICES ASSUME Init PROVE ConversationInv
  OBVIOUS
<1>1. \A c \in Consumers : conn[c] = "closed" \/ conn[c] = "unused"
  BY DEF Init, Peers
<1> QED
  BY <1>1, TypeInit DEF Init, ConversationInv, Conversation, Pending, Subscribed, Told

(* A step that leaves a consumer, its connection and its frames alone.     *)
LEMMA ConversationFrame ==
  ASSUME NEW c \in Consumers, Conversation(c), UNCHANGED setting, c \in told' <=> c \in told,
         conn'[c] = conn[c], wire'[c] = wire[c], phase'[c] = phase[c]
  PROVE  Conversation(c)'
BY DEF Conversation, Pending, Subscribed, Told, IsWorker

(* A consumer that is neither asking, live nor done has no connection.     *)
LEMMA Unconnected ==
  ASSUME ConversationInv, NEW c \in Consumers, phase[c] \notin {"asking", "live", "ended"}
  PROVE  conn[c] \in {"closed", "unused"} /\ c \notin told
BY DEF ConversationInv, TypeOK, Peers, Places, Conversation, Pending, Subscribed, Told

LEMMA ConversationOver ==
  ASSUME NEW c \in Consumers, conn'[c] \in {"closed", "unused"}, c \notin told'
  PROVE  Conversation(c)'
BY DEF Conversation, Pending, Subscribed, Told

LEMMA ConversationExits ==
  ASSUME ConversationInv, Exits, NEW d \in Consumers, phase'[d] = phase[d] \/ d \notin told
  PROVE  Conversation(d)'
<1>1. conn'[d] \in {"closed", "unused"} /\ told' = told /\ setting' = setting
  BY DEF Exits, Peers
<1>2. CASE d \notin told
  BY <1>1, <1>2, ConversationOver
<1>3. CASE d \in told
  <2>1. Conversation(d) /\ conn[d] = "closed"
    BY <1>3 DEF ConversationInv, Conversation, Told
  <2>2. \A how : Breaks(d, how) = wire[d]
    BY <2>1 DEF Breaks
  <2>3. wire'[d] = wire[d] /\ conn'[d] = conn[d]
    BY <2>1, <2>2 DEF Exits, Peers
  <2> QED
    BY <1>1, <1>3, <2>1, <2>3, ConversationFrame
<1> QED
  BY <1>2, <1>3

LEMMA TailOfTwo ==
  ASSUME NEW s \in Seq(Frames), Len(s) = 2
  PROVE  Len(Tail(s)) = 1 /\ Tail(s)[1] = s[2]
OBVIOUS

LEMMA ConversationReads ==
  ASSUME ConversationInv, NEW c \in Consumers, ReadAnswer(c)
  PROVE  Conversation(c)'
<1> USE DEF ConversationInv, TypeOK
<1>1. /\ phase[c] = "asking" /\ wire[c] \in Seq(Frames) /\ Len(wire[c]) > 0
      /\ wire'[c] = Tail(wire[c]) /\ Head(wire[c]) = wire[c][1]
      /\ UNCHANGED <<conn, told, setting>>
  BY DEF ReadAnswer, server
<1>2. conn[c] \notin {"backlog", "handshake", "refusal"}
  BY <1>1 DEF Conversation, Pending
<1>3. CASE conn[c] \in {"subscriber", "farewell"}
  <2>1. IsWorker(c) /\ Len(wire[c]) = 1 /\ wire[c][1] = "snapshot" /\ c \notin told
    BY <1>1, <1>3 DEF Conversation, Subscribed, Told
  <2>2. phase'[c] = "live"
    BY <1>1, <2>1 DEF ReadAnswer, WorkerAnswered, Goes, RetryableAnswers
  <2>3. Len(wire'[c]) = 0
    BY <1>1, <2>1
  <2> QED
    BY <1>1, <1>2, <2>1, <2>2, <2>3
    DEF Conversation, Pending, Subscribed, Told, IsWorker
<1>4. CASE c \notin told /\ conn[c] \in {"closed", "unused"}
  BY <1>1, <1>4, ConversationOver
<1>5. CASE c \in told /\ wire[c][1] = "closing"
  <2>1. phase'[c] = "ended"
    BY <1>1, <1>5 DEF ReadAnswer, WorkerAnswered, OneShotAnswered, Goes, RetryableAnswers
  <2>2. conn'[c] = "closed"
    BY <1>1, <1>5 DEF Conversation, Told
  <2> QED
    BY <2>1, <2>2 DEF Conversation, Pending, Subscribed, Told
<1>6. CASE c \in told /\ wire[c][1] # "closing"
  <2>1. /\ IsWorker(c) /\ Len(wire[c]) = 2 /\ conn[c] = "closed"
        /\ wire[c][1] = "snapshot" /\ wire[c][2] = "closing"
    BY <1>1, <1>6 DEF Conversation, Told
  <2>2. phase'[c] = "live"
    BY <1>1, <2>1 DEF ReadAnswer, WorkerAnswered, Goes, RetryableAnswers
  <2>3. Len(wire'[c]) = 1 /\ wire'[c][1] = "closing"
    BY <1>1, <2>1, TailOfTwo, Zenon
  <2>4. IsWorker(c)' /\ conn'[c] = "closed"
    BY <1>1, <2>1 DEF IsWorker
  <2> QED
    BY <2>2, <2>3, <2>4 DEF Conversation, Pending, Subscribed, Told
<1> QED
  BY <1>2, <1>3, <1>4, <1>5, <1>6 DEF Peers, Places

LEMMA ConversationShakes ==
  ASSUME ConversationInv, NEW c \in Consumers, Handshake(c)
  PROVE  Conversation(c)'
<1> USE DEF ConversationInv, TypeOK
<1>1. /\ phase[c] = "asking" /\ wire[c] \in Seq(Frames) /\ Len(wire[c]) = 0 /\ c \notin told
      /\ UNCHANGED <<phase, setting>>
  BY DEF Handshake, Conversation, Pending, Told, clients
<1>2. Len(wire'[c]) = 1 /\ wire'[c][1] = Response(c)
  BY <1>1 DEF Handshake, Sends
<1>3. CASE IsWorker(c) /\ Response(c) = "snapshot"
  <2>1. conn'[c] = "subscriber" /\ c \notin told'
    BY <1>1, <1>3 DEF Handshake, Peers
  <2> QED
    BY <1>1, <1>2, <1>3, <2>1 DEF Conversation, Pending, Subscribed, Told, IsWorker
<1>4. CASE ~(IsWorker(c) /\ Response(c) = "snapshot")
  <2>1. conn'[c] = "closed" /\ (c \in told' => Response(c) = "closing")
    BY <1>1, <1>4 DEF Handshake, Peers
  <2> QED
    BY <1>1, <1>2, <2>1 DEF Conversation, Pending, Subscribed, Told
<1> QED
  BY <1>3, <1>4

LEMMA ConversationFarewell ==
  ASSUME ConversationInv, NEW c \in Consumers, Farewell(c)
  PROVE  Conversation(c)'
<1> USE DEF ConversationInv, TypeOK
<1>1. /\ conn'[c] = "closed" /\ wire[c] \in Seq(Frames) /\ c \notin told /\ IsWorker(c)
      /\ UNCHANGED <<phase, setting>>
  BY DEF Farewell, Conversation, Subscribed, Told, clients, Peers
<1>2. CASE phase[c] = "ended"
  BY <1>1, <1>2, ConversationOver DEF Farewell
<1>3. CASE phase[c] # "ended"
  <2>1. \/ phase[c] = "asking" /\ Len(wire[c]) = 1 /\ wire[c][1] = "snapshot"
        \/ phase[c] = "live" /\ Len(wire[c]) = 0
    BY <1>3 DEF Farewell, Conversation, Subscribed
  <2>2. wire'[c] = Append(wire[c], "closing")
    BY <2>1 DEF Farewell
  <2>3. IsWorker(c)' /\ phase'[c] = phase[c]
    BY <1>1 DEF IsWorker
  <2>4. \/ phase[c] = "asking" /\ Len(wire'[c]) = 2 /\ wire'[c][1] = "snapshot"
            /\ wire'[c][2] = "closing"
        \/ phase[c] = "live" /\ Len(wire'[c]) = 1 /\ wire'[c][1] = "closing"
    <3>1. wire[c] \in Seq(Frames) /\ "closing" \in Frames
      BY <1>1 DEF Frames
    <3>2. /\ Len(wire'[c]) = Len(wire[c]) + 1
          /\ \A i \in 1 .. Len(wire[c]) : wire'[c][i] = wire[c][i]
          /\ wire'[c][Len(wire[c]) + 1] = "closing"
      BY <2>2, <3>1, AppendProperties
    <3>3. CASE phase[c] = "asking" /\ Len(wire[c]) = 1 /\ wire[c][1] = "snapshot"
      <4>1. Len(wire'[c]) = 1 + 1 /\ wire'[c][1] = wire[c][1] /\ wire'[c][1 + 1] = "closing"
        BY <3>2, <3>3
      <4> QED
        BY <3>3, <4>1
    <3>4. CASE phase[c] = "live" /\ Len(wire[c]) = 0
      BY <3>2, <3>4
    <3> QED
      BY <2>1, <3>3, <3>4
  <2> QED
    BY <1>1, <2>3, <2>4 DEF Conversation, Pending, Subscribed, Told
<1> QED
  BY <1>2, <1>3

LEMMA ConversationStep == ConversationInv /\ [Next]_vars => ConversationInv'
<1> SUFFICES ASSUME ConversationInv, [Next]_vars PROVE ConversationInv'
  OBVIOUS
<1>0. TypeOK'
  BY TypeStep DEF ConversationInv
<1> SUFFICES ASSUME NEW d \in Consumers PROVE Conversation(d)'
  BY <1>0 DEF ConversationInv
<1> USE DEF TypeOK
<1>a. TypeOK /\ Conversation(d)
  BY DEF ConversationInv
<1>1. CASE UNCHANGED vars
  BY <1>1, <1>a, ConversationFrame DEF vars, server, clients
<1>2. ASSUME NEW c \in Consumers, ConsumerStep(c) \/ Quit(c) \/ Retire(c) \/ TooSlow(c)
      PROVE  Conversation(d)'
  <2>1. CASE Connect(c)
    <3>1. phase[c] = "ready" /\ conn[c] \in {"closed", "unused"} /\ c \notin told
      BY <2>1, Unconnected DEF Connect
    <3>2. CASE c # d
      <4>1. \E next \in Phases : Goes(c, next)
        BY <2>1 DEF Connect, NotRunning, Retries, Phases
      <4>2. UNCHANGED <<told, setting>> /\ conn'[d] = conn[d] /\ wire'[d] = wire[d]
        BY <1>a, <2>1, <3>2 DEF Connect, Peers
      <4> QED
        BY <1>a, <3>2, <4>1, <4>2, ConversationFrame DEF Goes
    <3>3. CASE c = d /\ UNCHANGED conn
      BY <2>1, <3>1, <3>3, ConversationOver DEF Connect
    <3>4. CASE c = d /\ conn' = [conn EXCEPT ![c] = "backlog"] /\ Goes(c, "asking")
      <4>1. conn'[c] = "backlog" /\ phase'[c] = "asking" /\ c \notin told'
        BY <1>a, <2>1, <3>1, <3>4 DEF Connect, Goes, Peers
      <4>2. wire'[c] = <<>>
        BY <1>a, <2>1 DEF Connect
      <4> QED
        BY <3>4, <4>1, <4>2 DEF Conversation, Pending, Subscribed, Told
    <3> QED
      BY <2>1, <3>2, <3>3, <3>4 DEF Connect
  <2>2. CASE BackoffEnds(c) \/ Probe(c) \/ ProbeLocked(c) \/ Launch(c) \/ LaunchRefused(c)
             \/ Await(c)
    <3>1. phase[c] \notin {"asking", "live", "ended"}
      BY <2>2 DEF BackoffEnds, Probe, ProbeLocked, Launch, LaunchRefused, Await
    <3>2. /\ UNCHANGED <<conn, told, wire, setting>>
          /\ \E next \in Phases : Goes(c, next)
      BY <2>2 DEF BackoffEnds, Probe, ProbeLocked, Launch, LaunchRefused, Await, Existing,
         Started, StartFails, server, Phases
    <3>3. CASE c = d
      BY <3>1, <3>2, <3>3, Unconnected, ConversationOver
    <3>4. CASE c # d
      BY <1>a, <3>2, <3>4, ConversationFrame DEF Goes
    <3> QED
      BY <3>3, <3>4
  <2>3. CASE DeadlinePasses(c)
    BY <1>a, <2>3, ConversationFrame DEF DeadlinePasses, server
  <2>4. CASE ReadAnswer(c)
    <3>1. CASE c = d
      BY <2>4, <3>1, ConversationReads
    <3>2. CASE c # d
      BY <1>a, <2>4, <3>2, ConversationFrame
      DEF ReadAnswer, WorkerAnswered, OneShotAnswered, NotRunning, Retries, Goes, server
    <3> QED
      BY <3>1, <3>2
  <2>5. CASE ReadEnd(c)
    <3>1. CASE c # d
      BY <1>a, <2>5, <3>1, ConversationFrame DEF ReadEnd, Goes, server
    <3>2. CASE c = d
      <4>1. wire[c] \in Seq(Frames) /\ Len(wire[c]) > 0 /\ Head(wire[c]) = wire[c][1]
            /\ phase[c] = "live" /\ UNCHANGED <<conn, told>>
        BY <1>a, <2>5 DEF ReadEnd, server
      <4>2. conn[c] \in {"closed", "unused"}
        BY <1>a, <3>2, <4>1 DEF Conversation, Pending, Subscribed, Peers, Places
      <4>3. c \in told => phase'[c] = "ended" /\ conn'[c] = "closed"
        BY <1>a, <2>5, <3>2, <4>1 DEF ReadEnd, Goes, Conversation, Told
      <4> QED
        BY <3>2, <4>1, <4>2, <4>3 DEF Conversation, Pending, Subscribed, Told
    <3> QED
      BY <3>1, <3>2
  <2>6. CASE Quit(c)
    <3>1. CASE c # d
      BY <1>a, <2>6, <3>1, ConversationFrame DEF Quit, Goes, server
    <3>2. CASE c = d
      BY <1>a, <2>6, <3>2 DEF Quit, Goes, server, IsWorker, Conversation, Pending, Subscribed, Told
    <3> QED
      BY <3>1, <3>2
  <2>7. CASE Retire(c)
    <3>1. CASE c # d
      BY <1>a, <2>7, <3>1, ConversationFrame DEF Retire, clients
    <3>2. CASE c = d
      <4>1. conn'[c] = "closed" /\ c \notin told'
        BY <1>a, <2>7, <3>2 DEF Retire, Conversation, Told, Peers
      <4> QED
        BY <3>2, <4>1, ConversationOver
    <3> QED
      BY <3>1, <3>2
  <2>8. CASE TooSlow(c)
    <3>1. Goes(c, "ended") /\ phase[c] = "awaiting"
      BY <2>8 DEF TooSlow, StartFails
    <3>2. phase'[d] = phase[d] \/ d \notin told
      BY <1>a, <3>1, Unconnected DEF Goes
    <3>3. CASE Exits
      BY <3>2, <3>3, ConversationExits
    <3>4. CASE UNCHANGED <<server, wire, told, setting>>
      <4>1. CASE c = d
        BY <3>1, <3>4, <4>1, Unconnected, ConversationOver DEF server
      <4>2. CASE c # d
        BY <1>a, <3>1, <3>4, <4>2, ConversationFrame DEF Goes, server
      <4> QED
        BY <4>1, <4>2
    <3> QED
      BY <2>8, <3>3, <3>4 DEF TooSlow
  <2> QED
    BY <1>2, <2>1, <2>2, <2>3, <2>4, <2>5, <2>6, <2>7, <2>8 DEF ConsumerStep
<1>3. ASSUME NEW p \in Peers, ServerStep(p)
      PROVE  Conversation(d)'
  <2>1. CASE p # d
    BY <1>3, <1>a, <2>1, ConversationFrame DEF ServerStep, Accept, Refuse, HelloDeadline,
       Handshake, Farewell, PlaceReleased, Sends, clients, Peers
  <2>2. CASE p = d /\ Handshake(d)
    BY <2>2, ConversationShakes
  <2>3. CASE p = d /\ Farewell(d)
    BY <2>3, ConversationFarewell
  <2>4. CASE p = d /\ Accept(d)
    <3>1. conn[d] = "backlog" /\ d \notin told /\ UNCHANGED <<phase, told, setting>>
      BY <1>a, <2>4 DEF Accept, Conversation, Told, clients
    <3>2. \/ conn'[d] = "closed"
          \/ conn'[d] \in {"handshake", "refusal"} /\ UNCHANGED wire
      BY <1>a, <2>4 DEF Accept, Peers
    <3> QED
      BY <1>a, <3>1, <3>2 DEF Conversation, Pending, Subscribed, Told
  <2>5. CASE p = d /\ (Refuse(d) \/ PlaceReleased(d))
    <3>1. conn'[d] = "closed" /\ d \notin told'
      BY <1>a, <2>5 DEF Refuse, PlaceReleased, Conversation, Told, Peers
    <3> QED
      BY <3>1, ConversationOver
  <2>6. ~HelloDeadline(d)
    BY ConsumersAssumption DEF HelloDeadline
  <2> QED
    BY <1>3, <2>1, <2>2, <2>3, <2>4, <2>5, <2>6 DEF ServerStep
<1>4. ASSUME NEW s \in Silents, SilentConnects(s)
      PROVE  Conversation(d)'
  <2>1. s # d
    BY ConsumersAssumption
  <2> QED
    BY <1>4, <1>a, <2>1, ConversationFrame DEF SilentConnects, clients, Peers
<1>5. CASE UserRuns \/ BecomesReady \/ StartupFails
  BY <1>5, <1>a, ConversationFrame DEF UserRuns, BecomesReady, StartupFails, clients
<1>6. CASE Stop
  BY <1>6, <1>a
  DEF Stop, clients, Conversation, Pending, Subscribed, Told, IsWorker, Peers
<1>7. CASE DaemonEnds \/ Crash
  BY <1>7, ConversationExits DEF DaemonEnds, Crash, clients
<1> QED
  BY <1>1, <1>2, <1>3, <1>4, <1>5, <1>6, <1>7 DEF Next

(* A consumer that was told that the daemon is closing reads of it before  *)
(* anything that would make it start the next one.                         *)
THEOREM StopStays == Spec => []StopIsNotUndone
<1>1. ConversationInv => StopIsNotUndone
  BY DEF ConversationInv, TypeOK, Conversation, Told, StopIsNotUndone
<1> QED
  BY <1>1, ConversationInit, ConversationStep, PTL DEF Spec

------------------------------------------------------------------------------
(* The slots of the acceptor                                               *)

(* The counter of pending handshakes is the number of connections that are *)
(* in one, which never exceeds the limit: no path by which a handshake     *)
(* ends (an answer, a silent client, a daemon that goes) loses a slot or   *)
(* gives one back twice.                                                   *)
SlotsAreCounted ==
  /\ pending_handshakes = Cardinality(At("handshake"))
  /\ pending_handshakes <= MAX_PENDING_HANDSHAKES

SlotsInv == TypeOK /\ SlotsAreCounted

LEMMA SlotsInit == Init => SlotsInv
<1> SUFFICES ASSUME Init PROVE SlotsAreCounted
  BY TypeInit DEF SlotsInv
<1>1. At("handshake") = {}
  BY DEF Init, At
<1>2. Cardinality(At("handshake")) = 0
  BY <1>1, FS_EmptySet, Zenon
<1> QED
  BY <1>2, ConsumersAssumption DEF Init, SlotsAreCounted

(* A connection comes to the handshake, or leaves it, one at a time.       *)
LEMMA OneSlot ==
  ASSUME TypeOK, NEW p \in Peers, NEW place \in Places, conn' = [conn EXCEPT ![p] = place]
  PROVE  /\ IsFiniteSet(At("handshake"))
         /\ conn[p] # "handshake" /\ place = "handshake" =>
              At("handshake")' = At("handshake") \cup {p} /\ p \notin At("handshake")
         /\ conn[p] = "handshake" /\ place # "handshake" =>
              At("handshake")' = At("handshake") \ {p} /\ p \in At("handshake")
         /\ conn[p] # "handshake" /\ place # "handshake" => UNCHANGED At("handshake")
<1>1. IsFiniteSet(At("handshake"))
  <2>1. At("handshake") \subseteq Peers
    BY DEF At
  <2> QED
    BY <2>1, FS_Subset, ConsumersAssumption
<1>2. \A q \in Peers : conn'[q] = IF q = p THEN place ELSE conn[q]
  BY DEF TypeOK
<1>3. At("handshake")' = {q \in Peers : conn'[q] = "handshake"}
  BY DEF At
<1> QED
  BY <1>1, <1>2, <1>3 DEF At

LEMMA SlotTaken ==
  ASSUME SlotsInv, NEW p \in Peers, conn[p] # "handshake",
         conn' = [conn EXCEPT ![p] = "handshake"],
         pending_handshakes < MAX_PENDING_HANDSHAKES,
         pending_handshakes' = pending_handshakes + 1
  PROVE  SlotsAreCounted'
<1>1. /\ IsFiniteSet(At("handshake")) /\ p \notin At("handshake")
      /\ At("handshake")' = At("handshake") \cup {p}
  BY OneSlot DEF SlotsInv, Places
<1>2. Cardinality(At("handshake")') = Cardinality(At("handshake")) + 1
  BY <1>1, FS_AddElement
<1> QED
  BY <1>2, ConsumersAssumption DEF SlotsInv, SlotsAreCounted, TypeOK

LEMMA SlotFreed ==
  ASSUME SlotsInv, NEW p \in Peers, conn[p] = "handshake",
         NEW place \in Places \ {"handshake"}, conn' = [conn EXCEPT ![p] = place],
         pending_handshakes' = Released(pending_handshakes)
  PROVE  SlotsAreCounted'
<1>1. /\ IsFiniteSet(At("handshake")) /\ p \in At("handshake")
      /\ At("handshake")' = At("handshake") \ {p}
  BY OneSlot DEF SlotsInv
<1>2. Cardinality(At("handshake")') = Cardinality(At("handshake")) - 1
  BY <1>1, FS_RemoveElement
<1> QED
  BY <1>2, ConsumersAssumption DEF SlotsInv, SlotsAreCounted, TypeOK, Released

LEMMA SlotKept ==
  ASSUME SlotsInv, UNCHANGED <<At("handshake"), pending_handshakes>>
  PROVE  SlotsAreCounted'
BY DEF SlotsInv, SlotsAreCounted

LEMMA SlotsExit == ASSUME SlotsInv, Exits PROVE SlotsAreCounted'
<1>1. At("handshake")' = {}
  BY DEF Exits, At
<1> QED
  BY <1>1, FS_EmptySet, ConsumersAssumption DEF Exits, SlotsAreCounted

LEMMA SlotsStep == SlotsInv /\ [Next]_vars => SlotsInv'
<1> SUFFICES ASSUME SlotsInv, [Next]_vars PROVE SlotsAreCounted'
  BY TypeStep DEF SlotsInv
<1>0. TypeOK
  BY DEF SlotsInv
<1>1. CASE UNCHANGED vars
  BY <1>1, SlotKept DEF vars, server, At
<1>2. ASSUME NEW c \in Consumers, ConsumerStep(c) \/ Quit(c)
      PROVE  SlotsAreCounted'
  <2>1. CASE Connect(c) /\ conn' # conn
    <3>1. /\ conn[c] = "closed" /\ conn' = [conn EXCEPT ![c] = "backlog"]
          /\ UNCHANGED pending_handshakes
      BY <2>1 DEF Connect
    <3> QED
      BY <1>0, <3>1, OneSlot, SlotKept DEF Places, Peers
  <2>2. CASE UNCHANGED <<conn, pending_handshakes>>
    BY <2>2, SlotKept DEF At
  <2> QED
    BY <1>2, <2>1, <2>2 DEF ConsumerStep, Connect, BackoffEnds, DeadlinePasses, ReadAnswer,
       ReadEnd, Probe, ProbeLocked, Launch, LaunchRefused, Await, Quit, server
<1>3. ASSUME NEW c \in Consumers, Retire(c) \/ PlaceReleased(c) \/ Farewell(c)
      PROVE  SlotsAreCounted'
  <2>1. /\ conn[c] # "handshake" /\ conn' = [conn EXCEPT ![c] = "closed"]
        /\ UNCHANGED pending_handshakes
    BY <1>3 DEF Retire, PlaceReleased, Farewell
  <2> QED
    BY <1>0, <2>1, OneSlot, SlotKept DEF Places, Peers
<1>4. ASSUME NEW c \in Consumers, TooSlow(c)
      PROVE  SlotsAreCounted'
  BY <1>4, SlotKept, SlotsExit DEF TooSlow, server, At
<1>5. ASSUME NEW p \in Peers, Accept(p)
      PROVE  SlotsAreCounted'
  <2>1. conn[p] = "backlog"
    BY <1>5 DEF Accept
  <2>2. CASE /\ pending_handshakes < MAX_PENDING_HANDSHAKES
             /\ pending_handshakes' = pending_handshakes + 1
             /\ conn' = [conn EXCEPT ![p] = "handshake"]
    BY <2>1, <2>2, SlotTaken
  <2>3. CASE /\ UNCHANGED pending_handshakes
             /\ \E place \in {"refusal", "closed"} : conn' = [conn EXCEPT ![p] = place]
    BY <1>0, <2>1, <2>3, OneSlot, SlotKept DEF Places
  <2> QED
    BY <1>5, <2>2, <2>3 DEF Accept
<1>6. ASSUME NEW p \in Peers, Refuse(p)
      PROVE  SlotsAreCounted'
  BY <1>0, <1>6, OneSlot, SlotKept DEF Refuse, Places
<1>7. ASSUME NEW p \in Peers, HelloDeadline(p)
      PROVE  SlotsAreCounted'
  BY <1>7, SlotFreed DEF HelloDeadline, Places
<1>8. ASSUME NEW c \in Consumers, Handshake(c)
      PROVE  SlotsAreCounted'
  <2>1. PICK place \in {"subscriber", "closed"} : conn' = [conn EXCEPT ![c] = place]
    BY <1>8 DEF Handshake
  <2> QED
    BY <1>8, <2>1, SlotFreed DEF Handshake, Places, Peers
<1>9. ASSUME NEW s \in Silents, SilentConnects(s)
      PROVE  SlotsAreCounted'
  BY <1>0, <1>9, OneSlot, SlotKept DEF SilentConnects, Places, Peers
<1>10. CASE UserRuns \/ BecomesReady \/ StartupFails
  BY <1>10, SlotKept DEF UserRuns, BecomesReady, StartupFails, At
<1>11. CASE Stop
  <2>1. UNCHANGED <<At("handshake"), pending_handshakes>>
    BY <1>11 DEF Stop, At
  <2> QED
    BY <2>1, SlotKept
<1>12. CASE DaemonEnds \/ Crash
  BY <1>12, SlotsExit DEF DaemonEnds, Crash
<1> QED
  BY <1>1, <1>2, <1>3, <1>4, <1>5, <1>6, <1>7, <1>8, <1>9, <1>10, <1>11, <1>12
  DEF Next, ServerStep

(* SlotsAreCounted holds in every reachable state.                         *)
THEOREM SlotsNeverLeak == Spec => []SlotsAreCounted
<1>1. SlotsInv => SlotsAreCounted
  BY DEF SlotsInv
<1> QED
  BY <1>1, SlotsInit, SlotsStep, PTL DEF Spec

=============================================================================
