------------------------ MODULE ControlModeBrokerProofs ------------------------
(***************************************************************************)
(* Proofs about ControlModeBroker, for any sessions, channel capacity,     *)
(* number of incarnations of the primary client, and mishaps.              *)
(***************************************************************************)
EXTENDS ControlModeBroker, SequenceTheorems, NaturalsInduction,
        WellFoundedInduction, FiniteSetTheorems, TLAPS

-----------------------------------------------------------------------------
(* Sequences, whatever they are of                                           *)

IsSequence(q) == \E S : q \in Seq(S)

LEMMA EmptySequence == IsSequence(<<>>)
<1>1. <<>> \in Seq({})
  OBVIOUS
<1> QED
  BY <1>1 DEF IsSequence

LEMMA SequenceDomain ==
  ASSUME NEW q, IsSequence(q)
  PROVE  Len(q) \in Nat /\ DOMAIN q = 1 .. Len(q)
BY LenProperties DEF IsSequence

LEMMA SequenceAppend ==
  ASSUME NEW q, IsSequence(q), NEW x
  PROVE  /\ IsSequence(Append(q, x))
         /\ DOMAIN Append(q, x) = 1 .. Len(q) + 1
         /\ \A i \in 1 .. Len(q) : Append(q, x)[i] = q[i]
         /\ Append(q, x)[Len(q) + 1] = x
<1>1. PICK S : q \in Seq(S)
  BY DEF IsSequence
<1> DEFINE T == S \cup {x}
<1>2. q \in Seq(T) /\ x \in T
  BY <1>1, LenProperties, SeqDef
<1>3. /\ Append(q, x) \in Seq(T)
      /\ Len(Append(q, x)) = Len(q) + 1
      /\ \A i \in 1 .. Len(q) : Append(q, x)[i] = q[i]
      /\ Append(q, x)[Len(q) + 1] = x
  <2> HIDE DEF T
  <2> QED
    BY <1>2, AppendProperties
<1> QED
  BY <1>3, LenProperties DEF IsSequence

LEMMA SequenceTail ==
  ASSUME NEW q, IsSequence(q), q # <<>>
  PROVE  /\ IsSequence(Tail(q))
         /\ Len(q) > 0 /\ Head(q) = q[1]
         /\ DOMAIN Tail(q) = 1 .. Len(q) - 1
         /\ \A i \in 1 .. Len(q) - 1 : Tail(q)[i] = q[i + 1]
<1>1. PICK S : q \in Seq(S)
  BY DEF IsSequence
<1>2. Tail(q) \in Seq(S) /\ Len(Tail(q)) = Len(q) - 1
      /\ Head(q) = q[1] /\ \A i \in 1 .. Len(Tail(q)) : Tail(q)[i] = q[i + 1]
  BY <1>1, HeadTailProperties
<1> QED
  BY <1>1, <1>2, LenProperties, EmptySeq DEF IsSequence

LEMMA SequencePair ==
  ASSUME NEW q, IsSequence(q), NEW x, NEW y
  PROVE  /\ IsSequence(q \o <<x, y>>)
         /\ DOMAIN (q \o <<x, y>>) = 1 .. Len(q) + 2
         /\ \A i \in 1 .. Len(q) : (q \o <<x, y>>)[i] = q[i]
         /\ (q \o <<x, y>>)[Len(q) + 1] = x /\ (q \o <<x, y>>)[Len(q) + 2] = y
<1>1. PICK S : q \in Seq(S)
  BY DEF IsSequence
<1> DEFINE T == S \cup {x, y}
           pair == <<x, y>>
<1>2. q \in Seq(T) /\ pair \in Seq(T) /\ Len(pair) = 2 /\ pair[1] = x /\ pair[2] = y
  BY <1>1, LenProperties, SeqDef
<1>3. Len(q) \in Nat
  BY <1>1, LenProperties
<1>4. /\ q \o pair \in Seq(T) /\ Len(q \o pair) = Len(q) + 2
      /\ \A i \in 1 .. Len(q) : (q \o pair)[i] = q[i]
      /\ (q \o pair)[Len(q) + 1] = pair[1] /\ (q \o pair)[Len(q) + 2] = pair[2]
  <2> HIDE DEF T, pair
  <2>1. /\ q \o pair \in Seq(T) /\ Len(q \o pair) = Len(q) + Len(pair)
        /\ \A i \in 1 .. Len(q) + Len(pair) :
             (q \o pair)[i] = IF i <= Len(q) THEN q[i] ELSE pair[i - Len(q)]
    BY <1>2, ConcatProperties
  <2> QED
    BY <1>2, <1>3, <2>1
<1> QED
  BY <1>2, <1>3, <1>4, LenProperties DEF IsSequence

-----------------------------------------------------------------------------
(* Lines of the channel and of the pipes.  A command c that is awaited has    *)
(* its connection, its scope, and for each session the version that is known  *)
(* and the one that tmux has reached.                                         *)

Plain(l) == l.type \in {"event", "exit"}
Calm(l, k) == Plain(l) \/ (l.type = "fatal" /\ l.from = k)

Fresh(l, c) ==
  /\ l.from = c.conn
  /\ DOMAIN l.rows = (IF c.scope = All THEN Sessions ELSE {c.scope})
  /\ \A s \in Sessions : s \in DOMAIN l.rows =>
       l.rows[s] \in Nat /\ c.least[s] <= l.rows[s] /\ l.rows[s] <= c.most[s]
Opens(l, c) == l.type = "begin" /\ Fresh(l, c)
Closes(l, c) == l.type \in {"end", "error"} /\ Fresh(l, c)

AllCalm(q, k) == \A i \in DOMAIN q : Calm(q[i], k)
OneOpens(q, c) ==
  \E i \in DOMAIN q : Opens(q[i], c) /\ \A j \in DOMAIN q \ {i} : Calm(q[j], c.conn)
OneCloses(q, c) ==
  \E i \in DOMAIN q : Closes(q[i], c) /\ \A j \in DOMAIN q \ {i} : Calm(q[j], c.conn)
OpensAndCloses(q, c) ==
  \E i, j \in DOMAIN q :
    /\ i < j /\ Opens(q[i], c) /\ Closes(q[j], c)
    /\ \A h \in DOMAIN q \ {i, j} : Calm(q[h], c.conn)

\* A read error is the last that is heard of a client.
LastWord(q, k) ==
  \A i, j \in DOMAIN q : q[i].type = "fatal" /\ i < j => Calm(q[j], k)

LEMMA KindsDiffer ==
  ASSUME NEW l, NEW c
  PROVE  /\ Opens(l, c) => ~Calm(l, c.conn) /\ ~Closes(l, c)
         /\ Closes(l, c) => ~Calm(l, c.conn)
BY DEF Opens, Closes, Calm, Plain

\* A line that says nothing about an answer changes nothing.
LEMMA AppendCalm ==
  ASSUME NEW q, IsSequence(q), NEW c, NEW x, Calm(x, c.conn)
  PROVE  /\ AllCalm(q, c.conn) => AllCalm(Append(q, x), c.conn)
         /\ OneOpens(q, c) => OneOpens(Append(q, x), c)
         /\ OneCloses(q, c) => OneCloses(Append(q, x), c)
         /\ OpensAndCloses(q, c) => OpensAndCloses(Append(q, x), c)
<1> DEFINE r == Append(q, x)
<1>1. /\ Len(q) \in Nat /\ DOMAIN q = 1 .. Len(q) /\ DOMAIN r = 1 .. Len(q) + 1
      /\ \A i \in DOMAIN q : i \in DOMAIN r /\ r[i] = q[i]
      /\ \A i \in DOMAIN r \ DOMAIN q : Calm(r[i], c.conn)
  BY SequenceDomain, SequenceAppend
<1> HIDE DEF r
<1>2. AllCalm(q, c.conn) => AllCalm(r, c.conn)
  BY <1>1 DEF AllCalm
<1>3. OneOpens(q, c) => OneOpens(r, c)
  BY <1>1 DEF OneOpens
<1>4. OneCloses(q, c) => OneCloses(r, c)
  BY <1>1 DEF OneCloses
<1>5. OpensAndCloses(q, c) => OpensAndCloses(r, c)
  BY <1>1 DEF OpensAndCloses
<1> QED
  BY <1>2, <1>3, <1>4, <1>5 DEF r

\* An answer arrives behind such lines, its beginning first.
LEMMA AppendAnswer ==
  ASSUME NEW q, IsSequence(q), NEW c, NEW x
  PROVE  /\ AllCalm(q, c.conn) /\ Opens(x, c) => OneOpens(Append(q, x), c)
         /\ AllCalm(q, c.conn) /\ Closes(x, c) => OneCloses(Append(q, x), c)
         /\ OneOpens(q, c) /\ Closes(x, c) => OpensAndCloses(Append(q, x), c)
<1> DEFINE r == Append(q, x)
           n == Len(q) + 1
<1>1. /\ Len(q) \in Nat /\ DOMAIN q = 1 .. Len(q) /\ DOMAIN r = 1 .. n
      /\ \A i \in DOMAIN q : i \in DOMAIN r /\ r[i] = q[i]
      /\ DOMAIN r \ DOMAIN q = {n} /\ r[n] = x /\ \A i \in DOMAIN q : i < n
  BY SequenceDomain, SequenceAppend
<1> HIDE DEF r, n
<1>2. ASSUME AllCalm(q, c.conn), Opens(x, c)
      PROVE  OneOpens(r, c)
  <2>1. \A j \in DOMAIN r \ {n} : Calm(r[j], c.conn)
    BY <1>1, <1>2 DEF AllCalm
  <2> QED
    BY <1>1, <1>2, <2>1 DEF OneOpens
<1>3. ASSUME AllCalm(q, c.conn), Closes(x, c)
      PROVE  OneCloses(r, c)
  <2>1. \A j \in DOMAIN r \ {n} : Calm(r[j], c.conn)
    BY <1>1, <1>3 DEF AllCalm
  <2> QED
    BY <1>1, <1>3, <2>1 DEF OneCloses
<1>4. ASSUME OneOpens(q, c), Closes(x, c)
      PROVE  OpensAndCloses(r, c)
  <2>1. PICK i \in DOMAIN q :
               Opens(q[i], c) /\ \A j \in DOMAIN q \ {i} : Calm(q[j], c.conn)
    BY <1>4 DEF OneOpens
  <2>2. /\ i \in DOMAIN r /\ n \in DOMAIN r /\ i < n /\ Opens(r[i], c) /\ Closes(r[n], c)
        /\ \A h \in DOMAIN r \ {i, n} : Calm(r[h], c.conn)
    BY <1>1, <1>4, <2>1
  <2> QED
    BY <2>2 DEF OpensAndCloses
<1> QED
  BY <1>2, <1>3, <1>4 DEF r, n

LEMMA AppendPair ==
  ASSUME NEW q, IsSequence(q), NEW c, NEW x, NEW y,
         AllCalm(q, c.conn), Opens(x, c), Closes(y, c)
  PROVE  OpensAndCloses(q \o <<x, y>>, c)
<1> DEFINE r == q \o <<x, y>>
           i == Len(q) + 1
           j == Len(q) + 2
<1>1. /\ Len(q) \in Nat /\ DOMAIN q = 1 .. Len(q) /\ DOMAIN r = 1 .. Len(q) + 2
      /\ \A h \in DOMAIN q : r[h] = q[h]
      /\ r[i] = x /\ r[j] = y
  BY SequenceDomain, SequencePair
<1>2. /\ i \in DOMAIN r /\ j \in DOMAIN r /\ i < j
      /\ DOMAIN r \ {i, j} = DOMAIN q
  BY <1>1
<1>3. \A h \in DOMAIN r \ {i, j} : Calm(r[h], c.conn)
  BY <1>1, <1>2 DEF AllCalm
<1> HIDE DEF r, i, j
<1>4. OpensAndCloses(r, c)
  BY <1>1, <1>2, <1>3 DEF OpensAndCloses
<1> QED
  BY <1>4 DEF r

\* What is read from the front.
LEMMA TailCalm ==
  ASSUME NEW q, IsSequence(q), q # <<>>, NEW c
  PROVE  /\ AllCalm(q, c.conn) => Calm(Head(q), c.conn) /\ AllCalm(Tail(q), c.conn)
         /\ Calm(Head(q), c.conn) =>
              /\ OneOpens(q, c) => OneOpens(Tail(q), c)
              /\ OneCloses(q, c) => OneCloses(Tail(q), c)
              /\ OpensAndCloses(q, c) => OpensAndCloses(Tail(q), c)
<1> DEFINE r == Tail(q)
<1>1. /\ Len(q) \in Nat /\ DOMAIN q = 1 .. Len(q) /\ DOMAIN r = 1 .. Len(q) - 1
      /\ Len(q) > 0 /\ Head(q) = q[1]
      /\ \A i \in DOMAIN r : i + 1 \in DOMAIN q /\ i + 1 # 1 /\ r[i] = q[i + 1]
      /\ \A i \in DOMAIN q \ {1} : i - 1 \in DOMAIN r /\ r[i - 1] = q[i]
  BY SequenceDomain, SequenceTail
<1> HIDE DEF r
<1>2. AllCalm(q, c.conn) => Calm(Head(q), c.conn) /\ AllCalm(r, c.conn)
  BY <1>1 DEF AllCalm
<1>3. ASSUME Calm(Head(q), c.conn), OneOpens(q, c)
      PROVE  OneOpens(r, c)
  <2>1. PICK i \in DOMAIN q :
               Opens(q[i], c) /\ \A j \in DOMAIN q \ {i} : Calm(q[j], c.conn)
    BY <1>3 DEF OneOpens
  <2>2. i # 1
    BY <1>1, <1>3, <2>1, KindsDiffer
  <2>3. \A j \in DOMAIN r \ {i - 1} : Calm(r[j], c.conn)
    BY <1>1, <2>1
  <2> QED
    BY <1>1, <2>1, <2>2, <2>3 DEF OneOpens
<1>4. ASSUME Calm(Head(q), c.conn), OneCloses(q, c)
      PROVE  OneCloses(r, c)
  <2>1. PICK i \in DOMAIN q :
               Closes(q[i], c) /\ \A j \in DOMAIN q \ {i} : Calm(q[j], c.conn)
    BY <1>4 DEF OneCloses
  <2>2. i # 1
    BY <1>1, <1>4, <2>1, KindsDiffer
  <2>3. \A j \in DOMAIN r \ {i - 1} : Calm(r[j], c.conn)
    BY <1>1, <2>1
  <2> QED
    BY <1>1, <2>1, <2>2, <2>3 DEF OneCloses
<1>5. ASSUME Calm(Head(q), c.conn), OpensAndCloses(q, c)
      PROVE  OpensAndCloses(r, c)
  <2>1. PICK i, j \in DOMAIN q :
               /\ i < j /\ Opens(q[i], c) /\ Closes(q[j], c)
               /\ \A h \in DOMAIN q \ {i, j} : Calm(q[h], c.conn)
    BY <1>5 DEF OpensAndCloses
  <2>2. i # 1 /\ j # 1
    BY <1>1, <1>5, <2>1, KindsDiffer
  <2>3. \A h \in DOMAIN r \ {i - 1, j - 1} : Calm(r[h], c.conn)
    BY <1>1, <2>1
  <2>4. i - 1 \in DOMAIN r /\ j - 1 \in DOMAIN r /\ i - 1 < j - 1
        /\ Opens(r[i - 1], c) /\ Closes(r[j - 1], c)
    BY <1>1, <2>1, <2>2
  <2> QED
    BY <2>3, <2>4 DEF OpensAndCloses
<1> QED
  BY <1>2, <1>3, <1>4, <1>5 DEF r

LEMMA TailAnswer ==
  ASSUME NEW q, IsSequence(q), q # <<>>, NEW c, ~Calm(Head(q), c.conn)
  PROVE  /\ OneOpens(q, c) => Opens(Head(q), c) /\ AllCalm(Tail(q), c.conn)
         /\ OneCloses(q, c) => Closes(Head(q), c) /\ AllCalm(Tail(q), c.conn)
         /\ OpensAndCloses(q, c) => Opens(Head(q), c) /\ OneCloses(Tail(q), c)
<1> DEFINE r == Tail(q)
<1>1. /\ Len(q) \in Nat /\ DOMAIN q = 1 .. Len(q) /\ DOMAIN r = 1 .. Len(q) - 1
      /\ Len(q) > 0 /\ Head(q) = q[1]
      /\ \A i \in DOMAIN r : i + 1 \in DOMAIN q /\ i + 1 # 1 /\ r[i] = q[i + 1]
      /\ \A i \in DOMAIN q \ {1} : i - 1 \in DOMAIN r /\ r[i - 1] = q[i]
  BY SequenceDomain, SequenceTail
<1> HIDE DEF r
<1>2. 1 \in DOMAIN q
  BY <1>1
<1>3. OneOpens(q, c) => Opens(Head(q), c) /\ AllCalm(r, c.conn)
  BY <1>1, <1>2 DEF OneOpens, AllCalm
<1>4. OneCloses(q, c) => Closes(Head(q), c) /\ AllCalm(r, c.conn)
  BY <1>1, <1>2 DEF OneCloses, AllCalm
<1>5. ASSUME OpensAndCloses(q, c)
      PROVE  Opens(Head(q), c) /\ OneCloses(r, c)
  <2>1. PICK i, j \in DOMAIN q :
               /\ i < j /\ Opens(q[i], c) /\ Closes(q[j], c)
               /\ \A h \in DOMAIN q \ {i, j} : Calm(q[h], c.conn)
    BY <1>5 DEF OpensAndCloses
  <2>2. i = 1 /\ j # 1
    BY <1>1, <1>2, <2>1
  <2>3. \A h \in DOMAIN r \ {j - 1} : Calm(r[h], c.conn)
    BY <1>1, <2>1, <2>2
  <2> QED
    BY <1>1, <2>1, <2>2, <2>3 DEF OneCloses
<1> QED
  BY <1>3, <1>4, <1>5 DEF r

LEMMA LastWordKept ==
  ASSUME NEW q, IsSequence(q), NEW k, LastWord(q, k)
  PROVE  /\ \A x : Calm(x, k) => LastWord(Append(q, x), k)
         /\ q # <<>> => LastWord(Tail(q), k)
         /\ q # <<>> /\ Head(q).type = "fatal" => AllCalm(Tail(q), k)
<1>1. Len(q) \in Nat /\ DOMAIN q = 1 .. Len(q)
  BY SequenceDomain
<1>2. ASSUME NEW x, Calm(x, k)
      PROVE  LastWord(Append(q, x), k)
  <2> DEFINE r == Append(q, x)
  <2>1. /\ DOMAIN r = 1 .. Len(q) + 1 /\ r[Len(q) + 1] = x
        /\ \A i \in DOMAIN q : r[i] = q[i]
    BY <1>1, SequenceAppend
  <2> HIDE DEF r
  <2>2. ASSUME NEW i \in DOMAIN r, NEW j \in DOMAIN r, r[i].type = "fatal", i < j
        PROVE  Calm(r[j], k)
    <3>1. CASE j = Len(q) + 1
      BY <1>2, <2>1, <3>1
    <3>2. CASE j # Len(q) + 1
      <4>1. i \in DOMAIN q /\ j \in DOMAIN q
        BY <1>1, <2>1, <2>2, <3>2
      <4> QED
        BY <2>1, <2>2, <4>1 DEF LastWord
    <3> QED
      BY <3>1, <3>2
  <2>3. LastWord(r, k)
    BY <2>2 DEF LastWord
  <2> QED
    BY <2>3 DEF r
<1>3. ASSUME q # <<>>
      PROVE  /\ LastWord(Tail(q), k)
             /\ Head(q).type = "fatal" => AllCalm(Tail(q), k)
  <2> DEFINE r == Tail(q)
  <2>1. /\ Len(q) > 0 /\ Head(q) = q[1] /\ DOMAIN r = 1 .. Len(q) - 1
        /\ \A i \in DOMAIN r : i + 1 \in DOMAIN q /\ r[i] = q[i + 1]
    BY <1>1, <1>3, SequenceTail
  <2> HIDE DEF r
  <2>2. LastWord(r, k)
    <3> SUFFICES ASSUME NEW i \in DOMAIN r, NEW j \in DOMAIN r, r[i].type = "fatal", i < j
                 PROVE  Calm(r[j], k)
      BY DEF LastWord
    <3>1. /\ i + 1 \in DOMAIN q /\ j + 1 \in DOMAIN q /\ i + 1 < j + 1
          /\ q[i + 1].type = "fatal" /\ q[j + 1] = r[j]
      BY <1>1, <2>1
    <3> QED
      BY <3>1 DEF LastWord
  <2>3. ASSUME Head(q).type = "fatal"
        PROVE  AllCalm(r, k)
    <3> SUFFICES ASSUME NEW j \in DOMAIN r PROVE Calm(r[j], k)
      BY DEF AllCalm
    <3>1. 1 \in DOMAIN q /\ j + 1 \in DOMAIN q /\ 1 < j + 1 /\ q[j + 1] = r[j]
      BY <1>1, <2>1
    <3> QED
      BY <2>1, <2>3, <3>1 DEF LastWord
  <2> QED
    BY <2>2, <2>3 DEF r
<1> QED
  BY <1>2, <1>3

\* More time passes: tmux is further, what was fresh is fresh.
LEMMA Widened ==
  ASSUME NEW q, NEW c, NEW d, d.conn = c.conn, d.scope = c.scope, d.least = c.least,
         \A s \in Sessions : c.most[s] \in Nat /\ d.most[s] \in Nat /\ c.most[s] <= d.most[s],
         \A s \in Sessions : c.least[s] \in Nat
  PROVE  /\ OneOpens(q, c) => OneOpens(q, d)
         /\ OneCloses(q, c) => OneCloses(q, d)
         /\ OpensAndCloses(q, c) => OpensAndCloses(q, d)
<1>1. \A l : Fresh(l, c) => Fresh(l, d)
  BY DEF Fresh
<1>2. \A l : (Opens(l, c) => Opens(l, d)) /\ (Closes(l, c) => Closes(l, d))
  BY <1>1 DEF Opens, Closes
<1>3. OneOpens(q, c) => OneOpens(q, d)
  BY <1>2 DEF OneOpens
<1>4. OneCloses(q, c) => OneCloses(q, d)
  BY <1>2 DEF OneCloses
<1>5. OpensAndCloses(q, c) => OpensAndCloses(q, d)
  BY <1>2 DEF OpensAndCloses
<1> QED
  BY <1>3, <1>4, <1>5

-----------------------------------------------------------------------------
(* The invariant                                                             *)

Shape ==
  /\ world \in [Sessions -> Nat]
  /\ client \in [Conns -> {"unborn", "attached", "gone"}]
  /\ DOMAIN written = Conns /\ \A k \in Conns : IsSequence(written[k])
  /\ DOMAIN pipe = Conns \cup Others
  /\ \A x \in Conns \cup Others :
       IsSequence(pipe[x]) /\ \A i \in DOMAIN pipe[x] : pipe[x][i].type # "fatal"
  /\ IsSequence(channel)
  /\ deaf \subseteq Conns

\* Incarnations follow each other, and only the one in use has commands to answer.
Clients ==
  /\ primary \in Conns
  /\ \A k \in Conns :
       /\ k <= primary => client[k] # "unborn"
       /\ k > primary /\ pc # "swap" => client[k] = "unborn"
       /\ k > primary + 1 => client[k] = "unborn"
       /\ k > primary => k \notin deaf /\ written[k] = <<>>
       /\ k # primary /\ Attached(k) => written[k] = <<>>
  /\ pc = "swap" => primary + 1 \in Conns /\ client[primary + 1] # "unborn"

\* The others have nothing to say about commands.
Silence ==
  \A x \in Conns \cup Others : x \notin deaf /\ x # primary =>
    \A i \in DOMAIN pipe[x] : Plain(pipe[x][i])

\* A deaf client is one that nobody listens to any more: its pipe counts for nothing.
Heard == primary \notin deaf
Output == pipe[primary]

Errors ==
  /\ LastWord(channel, primary)
  /\ \A i \in DOMAIN channel :
       channel[i].type = "fatal" => ~Heard /\ pc \notin {"start", "swap"}

Known == view \in [Sessions -> Nat] /\ \A s \in Sessions : view[s] <= world[s]

Awaited == [conn |-> primary, scope |-> Asked, least |-> view, most |-> world]

Unread == Heard /\ Attached(primary) => written[primary] = <<>>

\* Where the answer is: not yet given, in the pipe, in both, in the channel, its
\* beginning read with the end in the pipe, or in the channel.
NotExecuted ==
  /\ active = NoConn /\ AllCalm(channel, primary)
  /\ Heard => AllCalm(Output, primary) /\ (Attached(primary) => written[primary] = <<Asked>>)
Executed ==
  /\ active = NoConn /\ AllCalm(channel, primary) /\ Unread
  /\ Heard => OpensAndCloses(Output, Awaited)
BeginForwarded ==
  /\ active = NoConn /\ OneOpens(channel, Awaited) /\ Unread
  /\ Heard => OneCloses(Output, Awaited)
EndForwarded ==
  /\ active = NoConn /\ OpensAndCloses(channel, Awaited) /\ Unread
  /\ Heard => AllCalm(Output, primary)
BeginRead ==
  /\ active = primary /\ AllCalm(channel, primary) /\ Unread
  /\ Heard => OneCloses(Output, Awaited)
EndToRead ==
  /\ active = primary /\ OneCloses(channel, Awaited) /\ Unread
  /\ Heard => AllCalm(Output, primary)

Awaiting ==
  \/ NotExecuted \/ Executed \/ BeginForwarded \/ EndForwarded \/ BeginRead \/ EndToRead

NotAwaiting ==
  /\ active = NoConn /\ AllCalm(channel, primary) /\ Unread
  /\ Heard => AllCalm(Output, primary)

Answers == IF pc = "collect" THEN Awaiting ELSE NotAwaiting

Good == Clients /\ Silence /\ Errors /\ Known /\ Answers

BrokerInv == Shape /\ (~AnsweredLate => Good)

-----------------------------------------------------------------------------
(* The shape of the state, and the mishaps                                   *)

LEMMA ConnsAre ==
  /\ Conns \subseteq Nat \ {0} /\ 1 \in Conns /\ NoConn \notin Conns
  /\ \A k \in Conns : 1 .. k - 1 \subseteq Conns
  /\ Conns \cap Feeds = {} /\ Others \subseteq Feeds /\ Others \cap Conns = {}
BY BrokerAssumption DEF Conns, NoConn, Feeds

LEMMA BrokerInit == Init => BrokerInv
<1> SUFFICES ASSUME Init PROVE BrokerInv
  OBVIOUS
<1> USE DEF Init
<1>1. IsSequence(<<>>) /\ DOMAIN <<>> = {}
  BY EmptySequence
<1>2. Shape
  BY <1>1 DEF Shape
<1>3. Clients
  BY ConnsAre DEF Clients, Attached
<1>4. Silence /\ Errors
  BY <1>1, ConnsAre DEF Silence, Errors, LastWord
<1>5. Known
  BY DEF Known
<1>6. Answers
  BY <1>1, ConnsAre DEF Answers, NotAwaiting, AllCalm, Unread, Output
<1> QED
  BY <1>2, <1>3, <1>4, <1>5, <1>6 DEF BrokerInv, Good

LEMMA MishapsGrow == [Next]_vars => mishaps \subseteq mishaps'
BY DEF Next, vars, tmux, lines, broker, snapshot, refresh, budgets, Mishap, Receive, Refresh,
   Change, SendFocus, Execute, Detach, ClientDies, ReadFails, Forward, ServerEnds, Terminate,
   IntervalReconcile, HandleFocus, HandleFatal, CollectBatch, NoticeDeadPrimary,
   NoticeRequest, ApplyBatch, WriteCommand, CollectAnswer, CommandTimesOut, FallbackRead,
   FallbackFails, FinishReading, DrainChannel, StartClient, StartFails, SwapClient, Publish,
   Shutdown, ExitSeen, KillClients

\* A line taken from the channel, or none.
Taken == channel' = channel \/ (channel # <<>> /\ channel' = Tail(channel))

\* What the loop does when it neither writes a command nor replaces the client.
LoopOnly ==
  /\ UNCHANGED <<world, client, written, pipe, deaf, primary>>
  /\ Taken
  /\ pc \notin {"collect", "swap"} /\ pc' \notin {"collect", "start", "swap"}
  /\ active' \in {active, NoConn}
  /\ view' = view \/ view' = Adopt(Asked, Rows(Asked))

LEMMA LoopSteps ==
  ASSUME \/ IntervalReconcile \/ HandleFocus \/ HandleFatal \/ CollectBatch \/ ApplyBatch
         \/ NoticeDeadPrimary \/ NoticeRequest \/ FallbackRead \/ FallbackFails
         \/ FinishReading \/ StartFails \/ Publish \/ Shutdown \/ ExitSeen
  PROVE  LoopOnly
<1> USE DEF LoopOnly, Taken, tmux, lines, broker, snapshot, refresh, budgets
<1>1. TakeLine /\ Pending => Taken
  BY DEF TakeLine, Pending
<1>2. DeferLine /\ Pending => Taken
  BY DEF DeferLine, Pending
<1>3. CASE IntervalReconcile
  BY <1>3 DEF IntervalReconcile, StartRefresh
<1>4. CASE HandleFocus
  BY <1>1, <1>4 DEF HandleFocus, StartRefresh
<1>5. CASE HandleFatal
  BY <1>1, <1>5 DEF HandleFatal
<1>6. CASE CollectBatch
  BY <1>1, <1>6 DEF CollectBatch
<1>7. CASE ApplyBatch
  BY <1>2, <1>7 DEF ApplyBatch, StartRefresh
<1>8. CASE NoticeDeadPrimary \/ NoticeRequest
  BY <1>8 DEF NoticeDeadPrimary, NoticeRequest
<1>9. CASE FallbackRead
  BY <1>9 DEF FallbackRead, FallsBack, Read
<1>10. CASE FallbackFails
  BY <1>10 DEF FallbackFails, FallsBack
<1>11. CASE FinishReading \/ StartFails \/ Publish
  BY <1>11 DEF FinishReading, StartFails, Publish
<1>12. CASE Shutdown \/ ExitSeen
  BY <1>12 DEF Shutdown, ExitSeen
<1> QED
  BY <1>3, <1>4, <1>5, <1>6, <1>7, <1>8, <1>9, <1>10, <1>11, <1>12

\* What tmux does of itself: it changes, clients end, and say so.
PipesGrow ==
  /\ UNCHANGED <<written, deaf, channel, primary, pc, active, view, todo>>
  /\ world' \in [Sessions -> Nat] /\ \A s \in Sessions : world[s] <= world'[s]
  /\ client' \in [Conns -> {"unborn", "attached", "gone"}]
  /\ \A k \in Conns : client'[k] = client[k] \/ (Attached(k) /\ client'[k] = "gone")
  /\ DOMAIN pipe' = Conns \cup Others
  /\ \A x \in Conns \cup Others :
       \/ pipe'[x] = pipe[x]
       \/ \E l : Plain(l) /\ pipe'[x] = Append(pipe[x], l)

LEMMA WorldSteps ==
  ASSUME Shape,
         \/ \E s \in Sessions : Change(s)
         \/ \E k \in Conns : Detach(k) \/ ClientDies(k)
         \/ ServerEnds
  PROVE  PipesGrow
<1> USE DEF PipesGrow, Shape, tmux, lines, broker, snapshot, refresh, budgets, Attached
<1>1. ASSUME NEW s \in Sessions, Change(s)
      PROVE  PipesGrow
  <2>1. \A x, scope : Plain(Event(x, scope, world[s]))
    BY DEF Plain, Event
  <2>2. world' \in [Sessions -> Nat] /\ \A r \in Sessions : world[r] <= world'[r]
    BY <1>1 DEF Change
  <2>3. /\ DOMAIN pipe' = Conns \cup Others
        /\ \A x \in Conns \cup Others :
             \/ pipe'[x] = pipe[x]
             \/ \E l : Plain(l) /\ pipe'[x] = Append(pipe[x], l)
    <3>1. PICK scope \in {s, All} :
            pipe' = [x \in Conns \cup Others |->
                       IF x \in Listeners(s) THEN Append(pipe[x], Event(x, scope, world[s]))
                       ELSE pipe[x]]
      BY <1>1 DEF Change
    <3> QED
      BY <2>1, <3>1
  <2>4. UNCHANGED <<client, written, deaf, channel, primary, pc, active, view, todo>>
    BY <1>1 DEF Change
  <2> QED
    BY <2>2, <2>3, <2>4
<1>2. ASSUME NEW k \in Conns, Detach(k)
      PROVE  PipesGrow
  <2>1. Plain(ExitLine(k))
    BY DEF Plain, ExitLine
  <2>2. /\ client' \in [Conns -> {"unborn", "attached", "gone"}]
        /\ \A j \in Conns : client'[j] = client[j] \/ (Attached(j) /\ client'[j] = "gone")
    BY <1>2 DEF Detach
  <2>3. /\ DOMAIN pipe' = Conns \cup Others
        /\ \A x \in Conns \cup Others :
             pipe'[x] = pipe[x] \/ pipe'[x] = Append(pipe[x], ExitLine(k))
    BY <1>2 DEF Detach
  <2>4. UNCHANGED <<world, written, deaf, channel, primary, pc, active, view, todo>>
    BY <1>2 DEF Detach
  <2> QED
    BY <2>1, <2>2, <2>3, <2>4
<1>3. ASSUME NEW k \in Conns, ClientDies(k)
      PROVE  PipesGrow
  BY <1>3 DEF ClientDies
<1>4. ASSUME ServerEnds
      PROVE  PipesGrow
  <2>1. \A x : Plain(ExitLine(x))
    BY DEF Plain, ExitLine
  <2> QED
    BY <1>4, <2>1 DEF ServerEnds
<1> QED
  BY <1>1, <1>2, <1>3, <1>4

LEMMA GrownPipesHaveShape ==
  ASSUME Shape, PipesGrow
  PROVE  Shape'
<1>1. ASSUME NEW x \in Conns \cup Others
      PROVE  IsSequence(pipe'[x]) /\ \A i \in DOMAIN pipe'[x] : pipe'[x][i].type # "fatal"
  <2>1. CASE pipe'[x] = pipe[x]
    BY <2>1 DEF Shape
  <2>2. ASSUME NEW l, Plain(l), pipe'[x] = Append(pipe[x], l)
        PROVE  IsSequence(pipe'[x]) /\ \A i \in DOMAIN pipe'[x] : pipe'[x][i].type # "fatal"
    <3> DEFINE q == pipe[x]
               r == Append(q, l)
    <3>1. IsSequence(q) /\ \A i \in DOMAIN q : q[i].type # "fatal"
      BY DEF Shape
    <3>2. /\ IsSequence(r) /\ Len(q) \in Nat /\ DOMAIN q = 1 .. Len(q)
          /\ DOMAIN r = 1 .. Len(q) + 1 /\ r[Len(q) + 1] = l
          /\ \A i \in DOMAIN q : r[i] = q[i]
      BY <3>1, SequenceDomain, SequenceAppend
    <3>3. l.type # "fatal"
      BY <2>2 DEF Plain
    <3> HIDE DEF q, r
    <3>4. \A i \in DOMAIN r : r[i].type # "fatal"
      BY <3>1, <3>2, <3>3
    <3> QED
      BY <2>2, <3>2, <3>4 DEF q, r
  <2> QED
    BY <2>1, <2>2 DEF PipesGrow
<1> QED
  BY <1>1 DEF Shape, PipesGrow

LEMMA PipeAfterward ==
  ASSUME Shape, NEW x \in Conns \cup Others, pipe[x] # <<>>,
         pipe' = [pipe EXCEPT ![x] = Tail(@)]
  PROVE  /\ DOMAIN pipe' = Conns \cup Others
         /\ \A y \in Conns \cup Others :
              IsSequence(pipe'[y]) /\ \A i \in DOMAIN pipe'[y] : pipe'[y][i].type # "fatal"
<1>1. IsSequence(Tail(pipe[x])) /\ \A i \in DOMAIN Tail(pipe[x]) : Tail(pipe[x])[i].type # "fatal"
  <2> DEFINE q == pipe[x]
             r == Tail(q)
  <2>1. IsSequence(q) /\ q # <<>> /\ \A i \in DOMAIN q : q[i].type # "fatal"
    BY DEF Shape
  <2>2. /\ IsSequence(r) /\ Len(q) \in Nat /\ DOMAIN q = 1 .. Len(q)
        /\ DOMAIN r = 1 .. Len(q) - 1 /\ \A i \in DOMAIN r : r[i] = q[i + 1]
    BY <2>1, SequenceDomain, SequenceTail
  <2> HIDE DEF q, r
  <2>3. \A i \in DOMAIN r : r[i].type # "fatal"
    <3> SUFFICES ASSUME NEW i \in DOMAIN r PROVE q[i + 1].type # "fatal"
      BY <2>2
    <3>1. i + 1 \in DOMAIN q
      BY <2>2
    <3> QED
      BY <2>1, <3>1
  <2> QED
    BY <2>2, <2>3 DEF q, r
<1> QED
  BY <1>1 DEF Shape

LEMMA PairIsNotFatal ==
  ASSUME NEW q, IsSequence(q), NEW a, NEW b
  PROVE  /\ IsSequence(q \o <<a, b>>)
         /\ a.type # "fatal" /\ b.type # "fatal" /\ (\A i \in DOMAIN q : q[i].type # "fatal")
              => \A i \in DOMAIN (q \o <<a, b>>) : (q \o <<a, b>>)[i].type # "fatal"
<1> DEFINE r == q \o <<a, b>>
<1>1. /\ IsSequence(r) /\ DOMAIN r = 1 .. Len(q) + 2
      /\ \A i \in 1 .. Len(q) : r[i] = q[i]
      /\ r[Len(q) + 1] = a /\ r[Len(q) + 2] = b
  BY SequencePair
<1>2. Len(q) \in Nat /\ DOMAIN q = 1 .. Len(q)
  BY SequenceDomain
<1> HIDE DEF r
<1>3. a.type # "fatal" /\ b.type # "fatal" /\ (\A i \in DOMAIN q : q[i].type # "fatal")
        => \A i \in DOMAIN r : r[i].type # "fatal"
  BY <1>1, <1>2
<1> QED
  BY <1>1, <1>3 DEF r

LEMMA PipeAnswered ==
  ASSUME Shape, NEW k \in Conns, NEW a, NEW b, a.type # "fatal", b.type # "fatal",
         pipe' = [pipe EXCEPT ![k] = @ \o <<a, b>>]
  PROVE  /\ DOMAIN pipe' = Conns \cup Others
         /\ \A y \in Conns \cup Others :
              IsSequence(pipe'[y]) /\ \A i \in DOMAIN pipe'[y] : pipe'[y][i].type # "fatal"
<1> DEFINE r == pipe[k] \o <<a, b>>
<1>1. IsSequence(r) /\ \A i \in DOMAIN r : r[i].type # "fatal"
  <2>1. IsSequence(pipe[k]) /\ \A i \in DOMAIN pipe[k] : pipe[k][i].type # "fatal"
    BY DEF Shape
  <2> QED
    BY <2>1, PairIsNotFatal
<1>2. k \in DOMAIN pipe /\ pipe'[k] = r /\ \A y \in (Conns \cup Others) \ {k} : pipe'[y] = pipe[y]
  BY DEF Shape
<1> HIDE DEF r
<1>3. DOMAIN pipe' = Conns \cup Others
  BY DEF Shape
<1> QED
  BY <1>1, <1>2, <1>3 DEF Shape

LEMMA ShapeStep ==
  ASSUME Shape, [Next]_vars
  PROVE  Shape'
<1>1. ASSUME UNCHANGED <<world, client, written, pipe, deaf>>, IsSequence(channel')
      PROVE  Shape'
  BY <1>1 DEF Shape
<1>2. IsSequence(channel) /\ (Taken => IsSequence(channel'))
      /\ \A x : IsSequence(Append(channel, x))
  <2>1. IsSequence(channel)
    BY DEF Shape
  <2>2. channel # <<>> => IsSequence(Tail(channel))
    BY <2>1, SequenceTail
  <2>3. \A x : IsSequence(Append(channel, x))
    BY <2>1, SequenceAppend
  <2> QED
    BY <2>1, <2>2, <2>3 DEF Taken
<1> USE DEF tmux, lines, broker, snapshot, refresh, budgets
<1>3. CASE \/ \E s \in Sessions : Change(s)
           \/ \E k \in Conns : Detach(k) \/ ClientDies(k)
           \/ ServerEnds
  BY <1>3, WorldSteps, GrownPipesHaveShape
<1>4. CASE \E s \in Sessions : SendFocus(s)
  BY <1>1, <1>2, <1>4 DEF SendFocus
<1>5. ASSUME NEW k \in Conns, Execute(k)
      PROVE  Shape'
  <2>1. written' = [written EXCEPT ![k] = Tail(@)] /\ written[k] # <<>>
        /\ UNCHANGED <<world, client, channel, deaf>>
    BY <1>5 DEF Execute
  <2>2. PICK a, b : a.type # "fatal" /\ b.type # "fatal" /\ pipe' = [pipe EXCEPT ![k] = @ \o <<a, b>>]
    BY <1>5 DEF Execute, Answer
  <2>3. IsSequence(Tail(written[k]))
    BY <2>1, SequenceTail DEF Shape
  <2>4. DOMAIN written' = Conns /\ \A j \in Conns : IsSequence(written'[j])
    BY <2>1, <2>3 DEF Shape
  <2> QED
    BY <2>1, <2>2, <2>4, PipeAnswered DEF Shape
<1>6. ASSUME NEW k \in Conns, ReadFails(k)
      PROVE  Shape'
  BY <1>2, <1>6 DEF ReadFails, Shape
<1>7. ASSUME NEW x \in Conns \cup Others, Forward(x)
      PROVE  Shape'
  BY <1>2, <1>7, PipeAfterward DEF Forward, Shape
<1>8. CASE \/ IntervalReconcile \/ HandleFocus \/ HandleFatal \/ CollectBatch \/ ApplyBatch
           \/ NoticeDeadPrimary \/ NoticeRequest \/ FallbackRead \/ FallbackFails
           \/ FinishReading \/ StartFails \/ Publish \/ Shutdown \/ ExitSeen
  <2>1. LoopOnly
    BY <1>8, LoopSteps
  <2> QED
    BY <1>1, <1>2, <2>1 DEF LoopOnly
<1>9. CASE WriteCommand
  <2>1. CASE Attached(primary)
    <3>1. /\ written' = [written EXCEPT ![primary] = Append(@, Asked)]
          /\ UNCHANGED <<world, client, pipe, channel, deaf>>
      BY <1>9, <2>1 DEF WriteCommand
    <3>2. \A k \in Conns : IsSequence(Append(written[k], Asked))
      BY SequenceAppend DEF Shape
    <3>3. DOMAIN written' = Conns /\ \A j \in Conns : IsSequence(written'[j])
      BY <3>1, <3>2 DEF Shape
    <3> QED
      BY <3>1, <3>3 DEF Shape
  <2>2. CASE ~Attached(primary)
    BY <1>1, <1>2, <1>9, <2>2 DEF WriteCommand
  <2> QED
    BY <2>1, <2>2
<1>10. CASE CollectAnswer
  BY <1>1, <1>2, <1>10 DEF CollectAnswer, Taken
<1>11. CASE CommandTimesOut \/ Terminate
  BY <1>1, <1>2, <1>11 DEF CommandTimesOut, Terminate
<1>12. CASE DrainChannel
  BY <1>1, <1>12, EmptySequence DEF DrainChannel
<1>13. CASE StartClient \/ SwapClient \/ KillClients
  BY <1>13 DEF StartClient, SwapClient, KillClients, Shape
<1>14. CASE UNCHANGED vars
  BY <1>1, <1>2, <1>14 DEF vars
<1> QED
  BY <1>3, <1>4, <1>5, <1>6, <1>7, <1>8, <1>9, <1>10, <1>11, <1>12, <1>13, <1>14
     DEF Next, Receive, Refresh

-----------------------------------------------------------------------------
(* The answer on its way                                                     *)

LEMMA TailMembers ==
  ASSUME NEW q, IsSequence(q), q # <<>>
  PROVE  \A i \in DOMAIN Tail(q) : \E j \in DOMAIN q : Tail(q)[i] = q[j]
<1> DEFINE r == Tail(q)
<1>1. /\ Len(q) \in Nat /\ DOMAIN q = 1 .. Len(q) /\ DOMAIN r = 1 .. Len(q) - 1
      /\ \A i \in DOMAIN r : r[i] = q[i + 1]
  BY SequenceDomain, SequenceTail
<1> HIDE DEF r
<1>2. \A i \in DOMAIN r : \E j \in DOMAIN q : r[i] = q[j]
  <2> SUFFICES ASSUME NEW i \in DOMAIN r PROVE \E j \in DOMAIN q : r[i] = q[j]
    OBVIOUS
  <2>1. i + 1 \in DOMAIN q /\ r[i] = q[i + 1]
    BY <1>1
  <2> QED
    BY <2>1
<1> QED
  BY <1>2 DEF r

LEMMA AppendMembers ==
  ASSUME NEW q, IsSequence(q), NEW x
  PROVE  \A i \in DOMAIN Append(q, x) :
           Append(q, x)[i] = x \/ \E j \in DOMAIN q : Append(q, x)[i] = q[j]
<1> DEFINE r == Append(q, x)
<1>1. /\ Len(q) \in Nat /\ DOMAIN q = 1 .. Len(q) /\ DOMAIN r = 1 .. Len(q) + 1
      /\ \A i \in DOMAIN q : r[i] = q[i] /\ r[Len(q) + 1] = x
  BY SequenceDomain, SequenceAppend
<1>2. r[Len(q) + 1] = x
  BY SequenceAppend
<1> HIDE DEF r
<1>3. \A i \in DOMAIN r : r[i] = x \/ \E j \in DOMAIN q : r[i] = q[j]
  BY <1>1, <1>2
<1> QED
  BY <1>3 DEF r

\* Without a read error in it, the channel has no last word.
LEMMA NoErrorNoLastWord ==
  ASSUME NEW q, IsSequence(q), \A i \in DOMAIN q : q[i].type # "fatal", NEW k
  PROVE  /\ LastWord(q, k)
         /\ \A x : LastWord(Append(q, x), k)
<1>1. LastWord(q, k)
  BY DEF LastWord
<1>2. ASSUME NEW x
      PROVE  LastWord(Append(q, x), k)
  <2> DEFINE r == Append(q, x)
  <2>1. /\ Len(q) \in Nat /\ DOMAIN q = 1 .. Len(q) /\ DOMAIN r = 1 .. Len(q) + 1
        /\ \A i \in DOMAIN q : r[i] = q[i]
    BY SequenceDomain, SequenceAppend
  <2> HIDE DEF r
  <2>2. \A i, j \in DOMAIN r : i < j => i \in DOMAIN q
    BY <2>1
  <2>3. LastWord(r, k)
    BY <2>1, <2>2 DEF LastWord
  <2> QED
    BY <2>3 DEF r
<1> QED
  BY <1>1, <1>2

LEMMA AwaitedIs ==
  /\ Awaited.conn = primary /\ Awaited.scope = Asked
  /\ Awaited.least = view /\ Awaited.most = world
BY DEF Awaited

LEMMA TakenKeepsErrors ==
  ASSUME Shape, Errors, Taken, UNCHANGED <<deaf, primary>>, pc' \notin {"start", "swap"}
  PROVE  Errors'
<1>1. CASE channel' = channel
  BY <1>1 DEF Errors, Heard
<1>2. CASE channel # <<>> /\ channel' = Tail(channel)
  <2>1. LastWord(Tail(channel), primary)
    BY <1>2, LastWordKept DEF Shape, Errors
  <2>2. \A i \in DOMAIN Tail(channel) : \E j \in DOMAIN channel : Tail(channel)[i] = channel[j]
    BY <1>2, TailMembers DEF Shape
  <2> QED
    BY <1>2, <2>1, <2>2 DEF Errors, Heard
<1> QED
  BY <1>1, <1>2 DEF Taken

LEMMA LoopKeeps ==
  ASSUME Shape, Good, LoopOnly
  PROVE  Good'
<1>1. Clients'
  BY DEF Good, LoopOnly, Clients, Attached
<1>2. Silence'
  BY DEF Good, LoopOnly, Silence
<1>3. Errors'
  BY TakenKeepsErrors DEF Good, LoopOnly
<1>4. Known'
  <2>1. world \in [Sessions -> Nat] /\ Known /\ UNCHANGED world
    BY DEF Shape, Good, LoopOnly
  <2>2. CASE view' = view
    BY <2>1, <2>2 DEF Known
  <2>3. CASE view' = Adopt(Asked, Rows(Asked))
    BY <2>1, <2>3 DEF Known, Adopt, Rows
  <2> QED
    BY <2>2, <2>3 DEF LoopOnly
<1>5. Answers'
  <2>1. NotAwaiting
    BY DEF Good, LoopOnly, Answers
  <2>2. AllCalm(channel, primary) => AllCalm(channel', primary)
    <3>1. ASSUME channel # <<>>, AllCalm(channel, primary)
          PROVE  AllCalm(Tail(channel), primary)
      BY <3>1, TailCalm, AwaitedIs DEF Shape
    <3> QED
      BY <3>1 DEF LoopOnly, Taken
  <2>3. NotAwaiting'
    BY <2>1, <2>2 DEF NotAwaiting, LoopOnly, Unread, Heard, Output, Attached
  <2> QED
    BY <2>3 DEF Answers, LoopOnly
<1> QED
  BY <1>1, <1>2, <1>3, <1>4, <1>5 DEF Good

LEMMA GrownPipesKeep ==
  ASSUME Shape, Good, PipesGrow
  PROVE  Good'
<1>1. Clients'
  BY DEF Shape, Good, PipesGrow, Clients, Attached
<1>2. Silence'
  <2> SUFFICES ASSUME NEW x \in Conns \cup Others, x \notin deaf, x # primary
               PROVE  \A i \in DOMAIN pipe'[x] : Plain(pipe'[x][i])
    BY DEF PipesGrow, Silence
  <2>1. IsSequence(pipe[x]) /\ \A i \in DOMAIN pipe[x] : Plain(pipe[x][i])
    BY DEF Shape, Good, Silence
  <2>2. CASE pipe'[x] = pipe[x]
    BY <2>1, <2>2
  <2>3. ASSUME NEW l, Plain(l), pipe'[x] = Append(pipe[x], l)
        PROVE  \A i \in DOMAIN pipe'[x] : Plain(pipe'[x][i])
    <3>1. \A i \in DOMAIN Append(pipe[x], l) :
            Append(pipe[x], l)[i] = l \/ \E j \in DOMAIN pipe[x] : Append(pipe[x], l)[i] = pipe[x][j]
      BY <2>1, AppendMembers
    <3> QED
      BY <2>1, <2>3, <3>1
  <2> QED
    BY <2>2, <2>3 DEF PipesGrow
<1>3. Errors'
  BY DEF Good, PipesGrow, Errors, Heard
<1>4. Known'
  <2>1. /\ view \in [Sessions -> Nat] /\ world \in [Sessions -> Nat] /\ world' \in [Sessions -> Nat]
        /\ UNCHANGED view
        /\ \A s \in Sessions : view[s] <= world[s] /\ world[s] <= world'[s]
    BY DEF Shape, Good, PipesGrow, Known
  <2>2. \A s \in Sessions : view[s] <= world'[s]
    BY <2>1
  <2> QED
    BY <2>1, <2>2 DEF Known
<1>5. Answers'
  <2> DEFINE c == Awaited
             d == Awaited'
  <2>1. /\ d.conn = c.conn /\ d.scope = c.scope /\ d.least = c.least /\ c.conn = primary
        /\ c.least = view /\ c.most = world /\ d.most = world'
    BY AwaitedIs DEF Awaited, PipesGrow, Asked
  <2>2. \A s \in Sessions : c.most[s] \in Nat /\ d.most[s] \in Nat /\ c.most[s] <= d.most[s]
    BY <2>1 DEF Shape, PipesGrow
  <2>3. \A s \in Sessions : c.least[s] \in Nat
    BY <2>1 DEF Good, Known
  <2> HIDE DEF c, d
  <2>4. \A q : /\ OneOpens(q, c) => OneOpens(q, d)
               /\ OneCloses(q, c) => OneCloses(q, d)
               /\ OpensAndCloses(q, c) => OpensAndCloses(q, d)
    BY <2>1, <2>2, <2>3, Widened
  <2>5. /\ AllCalm(Output, primary) => AllCalm(Output', primary)
        /\ OneCloses(Output, c) => OneCloses(Output', d)
        /\ OpensAndCloses(Output, c) => OpensAndCloses(Output', d)
    <3>1. CASE Output' = Output
      BY <2>4, <3>1
    <3>2. ASSUME NEW l, Plain(l), Output' = Append(Output, l)
          PROVE  /\ AllCalm(Output, primary) => AllCalm(Output', primary)
                 /\ OneCloses(Output, c) => OneCloses(Output', d)
                 /\ OpensAndCloses(Output, c) => OpensAndCloses(Output', d)
      <4>1. IsSequence(Output) /\ Calm(l, d.conn)
        BY <3>2 DEF Shape, Good, Clients, Output, Calm
      <4>2. /\ AllCalm(Output, d.conn) => AllCalm(Append(Output, l), d.conn)
            /\ OneCloses(Output, d) => OneCloses(Append(Output, l), d)
            /\ OpensAndCloses(Output, d) => OpensAndCloses(Append(Output, l), d)
        BY <4>1, AppendCalm
      <4> QED
        BY <2>1, <2>4, <3>2, <4>2
    <3> QED
      BY <3>1, <3>2 DEF PipesGrow, Output, Good, Clients
  <2>6. /\ UNCHANGED <<channel, primary, pc, active, written, Heard, Asked>>
        /\ Attached(primary)' => Attached(primary)
    BY DEF PipesGrow, Heard, Asked, Good, Clients, Attached
  <2>7. Unread => Unread'
    BY <2>6 DEF Unread
  <2>8. CASE pc # "collect"
    BY <2>5, <2>6, <2>7, <2>8 DEF Good, Answers, NotAwaiting
  <2>9. CASE pc = "collect"
    <3> USE <2>4, <2>5, <2>6, <2>7, <2>9 DEF c, d
    <3>1. CASE NotExecuted
      BY <3>1 DEF NotExecuted, Answers, Awaiting
    <3>2. CASE Executed
      BY <3>2 DEF Executed, Answers, Awaiting
    <3>3. CASE BeginForwarded
      BY <3>3 DEF BeginForwarded, Answers, Awaiting
    <3>4. CASE EndForwarded
      BY <3>4 DEF EndForwarded, Answers, Awaiting
    <3>5. CASE BeginRead
      BY <3>5 DEF BeginRead, Answers, Awaiting
    <3>6. CASE EndToRead
      BY <3>6 DEF EndToRead, Answers, Awaiting
    <3> QED
      BY <3>1, <3>2, <3>3, <3>4, <3>5, <3>6 DEF Good, Answers, Awaiting
  <2> QED
    BY <2>8, <2>9
<1> QED
  BY <1>1, <1>2, <1>3, <1>4, <1>5 DEF Good

\* A line of another client, or of a consumer, reaches the channel.
LEMMA OthersKeep ==
  ASSUME Shape, Good, Silence',
         NEW l, Plain(l), channel' = Append(channel, l),
         UNCHANGED <<world, client, written, deaf, primary, pc, active, view, todo, Output>>
  PROVE  Good'
<1>1. IsSequence(channel) /\ Calm(l, primary) /\ l.type # "fatal"
  BY DEF Shape, Calm, Plain
<1>2. Clients' /\ Known'
  BY DEF Good, Clients, Known, Attached
<1>3. Errors'
  <2>1. LastWord(channel', primary)
    BY <1>1, LastWordKept DEF Good, Errors
  <2>2. \A i \in DOMAIN channel' : channel'[i] = l \/ \E j \in DOMAIN channel : channel'[i] = channel[j]
    BY <1>1, AppendMembers
  <2> QED
    BY <1>1, <2>1, <2>2 DEF Good, Errors, Heard
<1>4. Answers'
  <2>1. Awaited' = Awaited /\ Asked' = Asked /\ Heard' = Heard /\ Unread' = Unread
    BY DEF Awaited, Asked, Heard, Unread, Attached
  <2>2. Awaited.conn = primary /\ Calm(l, Awaited.conn)
    BY <1>1, AwaitedIs
  <2>3. /\ AllCalm(channel, primary) => AllCalm(channel', primary)
        /\ OneOpens(channel, Awaited) => OneOpens(channel', Awaited)
        /\ OneCloses(channel, Awaited) => OneCloses(channel', Awaited)
        /\ OpensAndCloses(channel, Awaited) => OpensAndCloses(channel', Awaited)
    BY <1>1, <2>2, AppendCalm
  <2>4. CASE pc # "collect"
    BY <2>1, <2>3, <2>4 DEF Good, Answers, NotAwaiting
  <2>5. CASE pc = "collect"
    <3> USE <2>1, <2>3, <2>5
    <3>1. CASE NotExecuted
      BY <3>1 DEF NotExecuted, Answers, Awaiting, Attached
    <3>2. CASE Executed
      BY <3>2 DEF Executed, Answers, Awaiting
    <3>3. CASE BeginForwarded
      BY <3>3 DEF BeginForwarded, Answers, Awaiting
    <3>4. CASE EndForwarded
      BY <3>4 DEF EndForwarded, Answers, Awaiting
    <3>5. CASE BeginRead
      BY <3>5 DEF BeginRead, Answers, Awaiting
    <3>6. CASE EndToRead
      BY <3>6 DEF EndToRead, Answers, Awaiting
    <3> QED
      BY <3>1, <3>2, <3>3, <3>4, <3>5, <3>6 DEF Good, Answers, Awaiting
  <2> QED
    BY <2>4, <2>5
<1> QED
  BY <1>2, <1>3, <1>4 DEF Good

LEMMA SendFocusKeeps ==
  ASSUME Shape, Good, NEW s \in Sessions, SendFocus(s)
  PROVE  Good'
<1> USE DEF SendFocus, tmux, lines, broker, snapshot, refresh, budgets
<1>1. PICK l : Plain(l) /\ channel' = Append(channel, l)
  BY DEF Event, Plain
<1>2. UNCHANGED <<world, client, written, pipe, deaf, primary, pc, active, view, todo, Output>>
  BY DEF Output
<1>3. Silence'
  BY <1>2 DEF Good, Silence
<1> QED
  BY <1>1, <1>2, <1>3, OthersKeep

LEMMA ForwardKeeps ==
  ASSUME Shape, Good, NEW x \in Conns \cup Others, Forward(x)
  PROVE  Good'
<1> DEFINE l == Head(pipe[x])
<1>1. /\ x \notin deaf /\ pipe[x] # <<>>
      /\ channel' = Append(channel, l)
      /\ pipe' = [pipe EXCEPT ![x] = Tail(@)]
      /\ UNCHANGED <<world, client, written, deaf, primary, pc, active, view, todo>>
  BY DEF Forward, tmux, lines, broker, snapshot, refresh, budgets
<1>2. /\ IsSequence(pipe[x]) /\ IsSequence(channel)
      /\ x \in DOMAIN pipe /\ l.type # "fatal"
      /\ l = pipe[x][1] /\ 1 \in DOMAIN pipe[x]
      /\ \A i \in DOMAIN Tail(pipe[x]) : \E j \in DOMAIN pipe[x] : Tail(pipe[x])[i] = pipe[x][j]
  <2>1. IsSequence(pipe[x]) /\ IsSequence(channel) /\ x \in DOMAIN pipe
    BY DEF Shape
  <2>2. l = pipe[x][1] /\ 1 \in DOMAIN pipe[x]
    BY <1>1, <2>1, SequenceDomain, SequenceTail
  <2>3. \A i \in DOMAIN Tail(pipe[x]) : \E j \in DOMAIN pipe[x] : Tail(pipe[x])[i] = pipe[x][j]
    BY <1>1, <2>1, TailMembers
  <2> QED
    BY <2>1, <2>2, <2>3 DEF Shape
<1> HIDE DEF l
<1>3. Silence'
  <2> SUFFICES ASSUME NEW y \in Conns \cup Others, y \notin deaf, y # primary
               PROVE  \A i \in DOMAIN pipe'[y] : Plain(pipe'[y][i])
    BY <1>1 DEF Silence
  <2>1. \A i \in DOMAIN pipe[y] : Plain(pipe[y][i])
    BY DEF Good, Silence
  <2>2. CASE y = x
    BY <1>1, <1>2, <2>1, <2>2
  <2>3. CASE y # x
    BY <1>1, <2>1, <2>3
  <2> QED
    BY <2>2, <2>3
<1>4. CASE x # primary
  <2>1. Plain(l)
    BY <1>1, <1>2, <1>4 DEF Good, Silence
  <2>2. UNCHANGED Output
    BY <1>1, <1>4 DEF Output
  <2> QED
    BY <1>1, <1>3, <2>1, <2>2, OthersKeep
<1>5. CASE x = primary
  <2>1. /\ Heard /\ Output # <<>> /\ l = Head(Output) /\ Output' = Tail(Output)
        /\ IsSequence(Output)
    BY <1>1, <1>2, <1>5 DEF Heard, Output, l
  <2>2. Clients' /\ Known'
    BY <1>1 DEF Good, Clients, Known, Attached
  <2>3. Errors'
    <3>1. \A i \in DOMAIN channel : channel[i].type # "fatal"
      BY <2>1 DEF Good, Errors
    <3>2. \A i \in DOMAIN channel' : channel'[i] = l \/ \E j \in DOMAIN channel : channel'[i] = channel[j]
      BY <1>1, <1>2, AppendMembers
    <3>3. LastWord(channel', primary)
      BY <1>1, <1>2, <3>1, NoErrorNoLastWord
    <3> QED
      BY <1>1, <1>2, <3>1, <3>2, <3>3 DEF Errors
  <2>4. Answers'
    <3> DEFINE c == Awaited
    <3>1. c' = c /\ Asked' = Asked /\ Heard' = Heard /\ Unread' = Unread /\ c.conn = primary
      BY <1>1, AwaitedIs DEF Awaited, Asked, Heard, Unread, Attached
    <3>2. Attached(primary)' = Attached(primary)
      BY <1>1 DEF Attached
    <3> HIDE DEF c
    <3>3. CASE Calm(l, primary)
      <4>1. /\ AllCalm(channel, primary) => AllCalm(channel', primary)
            /\ OneOpens(channel, c) => OneOpens(channel', c)
            /\ OneCloses(channel, c) => OneCloses(channel', c)
            /\ OpensAndCloses(channel, c) => OpensAndCloses(channel', c)
        BY <1>1, <1>2, <3>1, <3>3, AppendCalm
      <4>2. /\ AllCalm(Output, primary) => AllCalm(Output', primary)
            /\ OneCloses(Output, c) => OneCloses(Output', c)
            /\ OpensAndCloses(Output, c) => OpensAndCloses(Output', c)
        BY <2>1, <3>1, <3>3, TailCalm
      <4>3. CASE pc # "collect"
        BY <1>1, <3>1, <4>1, <4>2, <4>3 DEF Good, Answers, NotAwaiting
      <4>4. CASE pc = "collect"
        <5> USE <1>1, <3>1, <3>2, <4>1, <4>2, <4>4 DEF c
        <5>1. CASE NotExecuted
          BY <5>1 DEF NotExecuted, Answers, Awaiting
        <5>2. CASE Executed
          BY <5>2 DEF Executed, Answers, Awaiting
        <5>3. CASE BeginForwarded
          BY <5>3 DEF BeginForwarded, Answers, Awaiting
        <5>4. CASE EndForwarded
          BY <5>4 DEF EndForwarded, Answers, Awaiting
        <5>5. CASE BeginRead
          BY <5>5 DEF BeginRead, Answers, Awaiting
        <5>6. CASE EndToRead
          BY <5>6 DEF EndToRead, Answers, Awaiting
        <5> QED
          BY <5>1, <5>2, <5>3, <5>4, <5>5, <5>6 DEF Good, Answers, Awaiting
      <4> QED
        BY <4>3, <4>4
    <3>4. CASE ~Calm(l, primary)
      <4>1. ~AllCalm(Output, primary)
        BY <2>1, <3>1, <3>4, TailCalm
      <4>2. pc = "collect" /\ (Executed \/ BeginForwarded \/ BeginRead)
        BY <2>1, <4>1 DEF Good, Answers, Awaiting, NotAwaiting, NotExecuted, EndForwarded, EndToRead
      <4>3. /\ OneCloses(Output, c) => Closes(l, c) /\ AllCalm(Output', primary)
            /\ OpensAndCloses(Output, c) => Opens(l, c) /\ OneCloses(Output', c)
        BY <2>1, <3>1, <3>4, TailAnswer
      <4>4. /\ AllCalm(channel, primary) /\ Opens(l, c) => OneOpens(channel', c)
            /\ AllCalm(channel, primary) /\ Closes(l, c) => OneCloses(channel', c)
            /\ OneOpens(channel, c) /\ Closes(l, c) => OpensAndCloses(channel', c)
        BY <1>1, <1>2, <3>1, AppendAnswer
      <4>5. CASE Executed
        <5>1. BeginForwarded'
          BY <1>1, <2>1, <3>1, <4>3, <4>4, <4>5 DEF Executed, BeginForwarded, c
        <5> QED
          BY <1>1, <4>2, <5>1 DEF Answers, Awaiting
      <4>6. CASE BeginForwarded
        <5>1. EndForwarded'
          BY <1>1, <2>1, <3>1, <4>3, <4>4, <4>6 DEF BeginForwarded, EndForwarded, c
        <5> QED
          BY <1>1, <4>2, <5>1 DEF Answers, Awaiting
      <4>7. CASE BeginRead
        <5>1. EndToRead'
          BY <1>1, <2>1, <3>1, <4>3, <4>4, <4>7 DEF BeginRead, EndToRead, c
        <5> QED
          BY <1>1, <4>2, <5>1 DEF Answers, Awaiting
      <4> QED
        BY <4>2, <4>5, <4>6, <4>7
    <3> QED
      BY <3>3, <3>4
  <2> QED
    BY <1>3, <2>2, <2>3, <2>4 DEF Good
<1> QED
  BY <1>4, <1>5

\* A read error that is not that of a replaced client is the last of the one in use.
LEMMA ReadFailsKeeps ==
  ASSUME Shape, Good, NEW k \in Conns, ReadFails(k), ~AnsweredLate'
  PROVE  Good'
<1> DEFINE l == FatalLine(k)
<1>1. /\ k \notin deaf /\ channel' = Append(channel, l) /\ deaf' = deaf \cup {k}
      /\ l.type = "fatal" /\ l.from = k
      /\ UNCHANGED <<world, client, written, pipe, primary, pc, active, view, todo>>
  BY DEF ReadFails, FatalLine, tmux, lines, broker, snapshot, refresh, budgets
<1>2. k = primary /\ pc \notin {"start", "swap"}
  BY DEF ReadFails, Mishap, AnsweredLate, Replaced
<1>3. IsSequence(channel) /\ Calm(l, primary) /\ Heard /\ ~Heard'
  BY <1>1, <1>2 DEF Shape, Calm, Heard
<1> HIDE DEF l
<1>4. Known' /\ Silence'
  BY <1>1 DEF Good, Known, Silence
<1>5. Errors'
  <2>1. \A i \in DOMAIN channel : channel[i].type # "fatal"
    BY <1>3 DEF Good, Errors
  <2>2. LastWord(channel', primary)
    BY <1>1, <1>3, <2>1, NoErrorNoLastWord
  <2> QED
    BY <1>1, <1>2, <1>3, <2>2 DEF Errors
<1>6. Answers'
  <2>1. Awaited' = Awaited /\ Asked' = Asked /\ Awaited.conn = primary /\ Unread'
    BY <1>1, <1>3, AwaitedIs DEF Awaited, Asked, Unread
  <2>2. /\ AllCalm(channel, primary) => AllCalm(channel', primary)
        /\ OneOpens(channel, Awaited) => OneOpens(channel', Awaited)
        /\ OneCloses(channel, Awaited) => OneCloses(channel', Awaited)
        /\ OpensAndCloses(channel, Awaited) => OpensAndCloses(channel', Awaited)
    BY <1>1, <1>3, <2>1, AppendCalm
  <2>3. CASE pc # "collect"
    BY <1>1, <1>3, <2>1, <2>2, <2>3 DEF Good, Answers, NotAwaiting
  <2>4. CASE pc = "collect"
    <3> USE <1>1, <1>3, <2>1, <2>2, <2>4
    <3>1. CASE NotExecuted
      BY <3>1 DEF NotExecuted, Answers, Awaiting
    <3>2. CASE Executed
      BY <3>2 DEF Executed, Answers, Awaiting
    <3>3. CASE BeginForwarded
      BY <3>3 DEF BeginForwarded, Answers, Awaiting
    <3>4. CASE EndForwarded
      BY <3>4 DEF EndForwarded, Answers, Awaiting
    <3>5. CASE BeginRead
      BY <3>5 DEF BeginRead, Answers, Awaiting
    <3>6. CASE EndToRead
      BY <3>6 DEF EndToRead, Answers, Awaiting
    <3> QED
      BY <3>1, <3>2, <3>3, <3>4, <3>5, <3>6 DEF Good, Answers, Awaiting
  <2> QED
    BY <2>3, <2>4
<1>7. Clients'
  <2>1. \A j \in Conns : j > primary => j # primary
    BY ConnsAre DEF Good, Clients
  <2> QED
    BY <1>1, <1>2, <2>1 DEF Good, Clients, Attached
<1> QED
  BY <1>4, <1>5, <1>6, <1>7 DEF Good

\* tmux has only the awaited command to answer, and answers with what is so.
LEMMA ExecuteKeeps ==
  ASSUME Shape, Good, NEW k \in Conns, Execute(k)
  PROVE  Good'
<1> DEFINE scope == Head(written[k])
           begin == Answer("begin", k, scope, Rows(scope))
<1>1. /\ Attached(k) /\ written[k] # <<>>
      /\ written' = [written EXCEPT ![k] = Tail(@)]
      /\ UNCHANGED <<world, client, deaf, channel, primary, pc, active, view, todo>>
  BY DEF Execute, tmux, lines, broker, snapshot, refresh, budgets
<1>2. PICK type \in {"end", "error"} :
        pipe' = [pipe EXCEPT ![k] = @ \o <<begin, Answer(type, k, scope, Rows(scope))>>]
  BY DEF Execute
<1> DEFINE end == Answer(type, k, scope, Rows(scope))
<1>3. k = primary
  BY <1>1 DEF Good, Clients
<1>4. k \in DOMAIN pipe /\ k \in DOMAIN written /\ IsSequence(pipe[k])
  BY DEF Shape
<1>5. Clients' /\ Known'
  BY <1>1, <1>3, <1>4 DEF Shape, Good, Clients, Known, Attached
<1>6. Silence'
  BY <1>1, <1>2, <1>3 DEF Shape, Good, Silence
<1>7. Errors'
  BY <1>1 DEF Good, Errors, Heard
<1>8. Answers'
  <2>1. CASE ~Heard
    <3>1. Awaited' = Awaited /\ Asked' = Asked /\ ~Heard' /\ Unread'
      BY <1>1, <2>1 DEF Awaited, Asked, Heard, Unread
    <3> QED
      BY <1>1, <2>1, <3>1
         DEF Good, Answers, NotAwaiting, Awaiting, NotExecuted, Executed, BeginForwarded,
             EndForwarded, BeginRead, EndToRead
  <2>2. CASE Heard
    <3>1. ~Unread
      BY <1>1, <1>3, <2>2 DEF Unread
    <3>2. pc = "collect" /\ NotExecuted
      BY <3>1 DEF Good, Answers, NotAwaiting, Awaiting, Executed, BeginForwarded, EndForwarded,
                  BeginRead, EndToRead
    <3>3. written[k] = <<Asked>> /\ AllCalm(pipe[k], primary)
      BY <1>1, <1>3, <2>2, <3>2 DEF NotExecuted, Output
    <3>4. scope = Asked /\ written'[k] = <<>>
      BY <1>1, <1>4, <3>3
    <3>5. Awaited' = Awaited
      BY <1>1 DEF Awaited, Asked
    <3>6. Opens(begin, Awaited) /\ Closes(end, Awaited)
      <4>1. world \in [Sessions -> Nat] /\ view \in [Sessions -> Nat]
            /\ \A s \in Sessions : view[s] <= world[s]
        BY DEF Shape, Good, Known
      <4>2. /\ DOMAIN Rows(Asked) = (IF Asked = All THEN Sessions ELSE {Asked})
            /\ \A s \in Sessions : s \in DOMAIN Rows(Asked) => Rows(Asked)[s] = world[s]
        BY DEF Rows
      <4>3. /\ begin.type = "begin" /\ end.type \in {"end", "error"}
            /\ begin.from = k /\ end.from = k
            /\ begin.rows = Rows(scope) /\ end.rows = Rows(scope)
        BY DEF Answer
      <4> HIDE DEF begin, end, scope
      <4>4. Fresh(begin, Awaited) /\ Fresh(end, Awaited)
        BY <1>3, <3>4, <4>1, <4>2, <4>3, AwaitedIs DEF Fresh
      <4> QED
        BY <4>3, <4>4 DEF Opens, Closes
    <3>7. OpensAndCloses(pipe'[k], Awaited)
      <4> HIDE DEF begin, end
      <4>1. pipe'[k] = pipe[k] \o <<begin, end>>
        BY <1>2, <1>4 DEF end
      <4>2. AllCalm(pipe[k], Awaited.conn)
        BY <3>3, AwaitedIs
      <4>3. OpensAndCloses(pipe[k] \o <<begin, end>>, Awaited)
        BY <1>4, <3>6, <4>2, AppendPair
      <4> QED
        BY <4>1, <4>3
    <3>8. Executed'
      BY <1>1, <1>3, <3>2, <3>4, <3>5, <3>7 DEF NotExecuted, Executed, Unread, Output
    <3> QED
      BY <1>1, <3>2, <3>8 DEF Answers, Awaiting
  <2> QED
    BY <2>1, <2>2
<1> QED
  BY <1>5, <1>6, <1>7, <1>8 DEF Good

LEMMA WriteCommandKeeps ==
  ASSUME Shape, Good, WriteCommand
  PROVE  Good'
<1>1. /\ pc = "refresh" /\ pc' \in {"collect", "fallback"}
      /\ UNCHANGED <<world, client, pipe, deaf, channel, primary, view, todo>>
  BY DEF WriteCommand, BrokerFails, tmux, lines, broker, snapshot, refresh, budgets
<1>2. NotAwaiting
  BY <1>1 DEF Good, Answers
<1>3. Silence' /\ Errors' /\ Known'
  BY <1>1 DEF Good, Silence, Errors, Known, Heard
<1>4. CASE Attached(primary)
  <2>1. /\ written' = [written EXCEPT ![primary] = Append(@, Asked)]
        /\ pc' = "collect" /\ UNCHANGED active
    BY <1>4 DEF WriteCommand
  <2>2. Clients'
    <3>1. \A k \in Conns : k > primary => k # primary
      BY ConnsAre DEF Good, Clients
    <3>2. /\ DOMAIN written = Conns
          /\ \A k \in Conns : k # primary => written'[k] = written[k]
      BY <2>1 DEF Shape
    <3> QED
      BY <1>1, <2>1, <3>1, <3>2 DEF Good, Clients, Attached
  <2>3. Heard => written'[primary] = <<Asked>>
    <3>1. Append(<<>>, Asked) = <<Asked>>
      OBVIOUS
    <3> QED
      BY <1>2, <1>4, <2>1, <3>1 DEF NotAwaiting, Unread, Shape, Good, Clients
  <2>4. NotExecuted'
    BY <1>1, <1>2, <2>1, <2>3 DEF NotAwaiting, NotExecuted, Heard, Output, Attached, Asked
  <2> QED
    BY <1>3, <2>1, <2>2, <2>4 DEF Good, Answers, Awaiting
<1>5. CASE ~Attached(primary)
  <2>1. pc' = "fallback" /\ active' = NoConn /\ UNCHANGED written
    BY <1>5 DEF WriteCommand, BrokerFails
  <2>2. Clients'
    BY <1>1, <2>1 DEF Good, Clients, Attached
  <2>3. NotAwaiting'
    BY <1>1, <1>2, <2>1 DEF NotAwaiting, Heard, Output, Unread, Attached
  <2> QED
    BY <1>3, <2>1, <2>2, <2>3 DEF Good, Answers
<1> QED
  BY <1>4, <1>5

\* The loop reads the channel for the answer: what it takes for one is one.
LEMMA CollectAnswerKeeps ==
  ASSUME Shape, Good, CollectAnswer
  PROVE  Good' /\ \A s \in Sessions : view'[s] >= view[s]
<1> DEFINE l == Head(channel)
<1>1. /\ pc = "collect" /\ channel # <<>> /\ channel' = Tail(channel)
      /\ UNCHANGED <<world, client, written, pipe, deaf, primary>>
  BY DEF CollectAnswer, tmux, budgets
<1>2. IsSequence(channel) /\ 1 \in DOMAIN channel /\ l = channel[1]
  BY <1>1, SequenceDomain, SequenceTail DEF Shape
<1>3. pc' \in {"collect", "fallback", "refresh"}
  BY <1>1 DEF CollectAnswer, BrokerFails, Read
<1>4. Clients' /\ Silence'
  BY <1>1, <1>3 DEF Good, Clients, Silence, Attached
<1>5. Errors'
  BY <1>1, <1>3, TakenKeepsErrors DEF Good, Taken
<1>6. primary \in Conns /\ NoConn \notin Conns /\ Awaiting /\ Awaited.conn = primary
  BY <1>1, ConnsAre, AwaitedIs DEF Good, Clients, Answers
<1>7. view \in [Sessions -> Nat] /\ \A s \in Sessions : view[s] >= view[s]
  BY DEF Good, Known
\* given up
<1>8. ASSUME pc' = "fallback", active' = NoConn, UNCHANGED view,
             AllCalm(channel', primary), Unread, Heard => AllCalm(Output, primary)
      PROVE  Good' /\ \A s \in Sessions : view'[s] >= view[s]
  <2>1. Known'
    BY <1>1, <1>8 DEF Good, Known
  <2>2. NotAwaiting'
    BY <1>1, <1>8 DEF NotAwaiting, Unread, Heard, Output, Attached
  <2> QED
    BY <1>4, <1>5, <1>7, <1>8, <2>1, <2>2 DEF Good, Answers
<1>9. CASE l.type = "fatal"
  <2>1. pc' = "fallback" /\ active' = NoConn /\ UNCHANGED view
    BY <1>1, <1>9 DEF CollectAnswer, BrokerFails
  <2>2. ~Heard
    BY <1>2, <1>9 DEF Good, Errors
  <2>3. AllCalm(channel', primary)
    BY <1>1, <1>2, <1>9, LastWordKept DEF Good, Errors
  <2> QED
    BY <1>8, <2>1, <2>2, <2>3 DEF Unread
\* set aside
<1>10. CASE l.type # "fatal" /\ Calm(l, primary)
  <2>1. l.type \in {"event", "exit"}
    BY <1>10 DEF Calm, Plain
  <2>2. UNCHANGED <<pc, active, view, todo>>
    BY <1>10, <2>1 DEF CollectAnswer
  <2>3. /\ AllCalm(channel, primary) => AllCalm(channel', primary)
        /\ OneOpens(channel, Awaited) => OneOpens(channel', Awaited)
        /\ OneCloses(channel, Awaited) => OneCloses(channel', Awaited)
        /\ OpensAndCloses(channel, Awaited) => OpensAndCloses(channel', Awaited)
    BY <1>1, <1>2, <1>6, <1>10, TailCalm
  <2>4. Known'
    BY <1>1, <2>2 DEF Good, Known
  <2>5. /\ Awaited' = Awaited /\ Asked' = Asked /\ Heard' = Heard /\ Unread' = Unread
        /\ Output' = Output /\ Attached(primary)' = Attached(primary)
    BY <1>1, <2>2 DEF Awaited, Asked, Heard, Unread, Output, Attached
  <2>6. Answers'
    <3> USE <1>1, <2>2, <2>3, <2>5
    <3>1. CASE NotExecuted
      BY <3>1 DEF NotExecuted, Answers, Awaiting
    <3>2. CASE Executed
      BY <3>2 DEF Executed, Answers, Awaiting
    <3>3. CASE BeginForwarded
      BY <3>3 DEF BeginForwarded, Answers, Awaiting
    <3>4. CASE EndForwarded
      BY <3>4 DEF EndForwarded, Answers, Awaiting
    <3>5. CASE BeginRead
      BY <3>5 DEF BeginRead, Answers, Awaiting
    <3>6. CASE EndToRead
      BY <3>6 DEF EndToRead, Answers, Awaiting
    <3> QED
      BY <1>6, <3>1, <3>2, <3>3, <3>4, <3>5, <3>6 DEF Awaiting
  <2> QED
    BY <1>4, <1>5, <1>7, <2>2, <2>4, <2>6 DEF Good
\* a line of the answer
<1>11. CASE ~Calm(l, primary) /\ l.type # "fatal"
  <2>1. ~AllCalm(channel, primary)
    BY <1>1, <1>2, <1>6, <1>11, TailCalm
  <2>2. BeginForwarded \/ EndForwarded \/ EndToRead
    BY <1>6, <2>1 DEF Awaiting, NotExecuted, Executed, BeginRead
  <2>3. /\ OneOpens(channel, Awaited) => Opens(l, Awaited) /\ AllCalm(channel', primary)
        /\ OneCloses(channel, Awaited) => Closes(l, Awaited) /\ AllCalm(channel', primary)
        /\ OpensAndCloses(channel, Awaited) => Opens(l, Awaited) /\ OneCloses(channel', Awaited)
    BY <1>1, <1>2, <1>6, <1>11, TailAnswer
  <2>4. ASSUME active = NoConn, Opens(l, Awaited)
        PROVE  active' = primary /\ UNCHANGED <<pc, view, todo>> /\ Known'
    <3>1. l.type = "begin" /\ l.from = primary
      BY <1>6, <2>4 DEF Opens, Fresh
    <3>2. active' = primary /\ UNCHANGED <<pc, view, todo>>
      BY <1>6, <2>4, <3>1 DEF CollectAnswer, IsPrimary
    <3> QED
      BY <1>1, <3>2 DEF Good, Known
  <2>5. CASE BeginForwarded
    <3>1. active = NoConn /\ Opens(l, Awaited) /\ AllCalm(channel', primary)
      BY <2>3, <2>5 DEF BeginForwarded
    <3>2. BeginRead'
      BY <1>1, <2>4, <2>5, <3>1
         DEF BeginForwarded, BeginRead, Unread, Heard, Output, Attached, Awaited, Asked
    <3> QED
      BY <1>1, <1>4, <1>5, <1>7, <2>4, <3>1, <3>2 DEF Good, Answers, Awaiting
  <2>6. CASE EndForwarded
    <3>1. active = NoConn /\ Opens(l, Awaited) /\ OneCloses(channel', Awaited)
      BY <2>3, <2>6 DEF EndForwarded
    <3>2. Awaited' = Awaited
      BY <1>1, <2>4, <3>1 DEF Awaited, Asked
    <3>3. EndToRead'
      BY <1>1, <2>4, <2>6, <3>1, <3>2 DEF EndForwarded, EndToRead, Unread, Heard, Output, Attached
    <3> QED
      BY <1>1, <1>4, <1>5, <1>7, <2>4, <3>1, <3>3 DEF Good, Answers, Awaiting
  <2>7. CASE EndToRead
    <3>1. /\ active = primary /\ l.type \in {"end", "error"} /\ l.from = primary
          /\ Fresh(l, Awaited) /\ AllCalm(channel', primary)
      BY <1>6, <2>3, <2>7 DEF EndToRead, Closes, Fresh
    <3>2. CASE l.type = "error"
      <4>1. pc' = "fallback" /\ active' = NoConn /\ UNCHANGED view
        BY <1>6, <3>1, <3>2 DEF CollectAnswer, BrokerFails, IsPrimary
      <4> QED
        BY <1>8, <2>7, <3>1, <4>1 DEF EndToRead
    <3>3. CASE l.type = "end"
      <4>1. pc' = "refresh" /\ active' = NoConn /\ view' = Adopt(Asked, l.rows)
        BY <1>6, <3>1, <3>3 DEF CollectAnswer, Read, IsPrimary
      <4>2. /\ DOMAIN l.rows = (IF Asked = All THEN Sessions ELSE {Asked})
            /\ \A s \in Sessions : s \in DOMAIN l.rows =>
                 l.rows[s] \in Nat /\ view[s] <= l.rows[s] /\ l.rows[s] <= world[s]
        BY <3>1, AwaitedIs DEF Fresh
      <4>3. \A s \in Sessions :
              view'[s] = IF s \in DOMAIN l.rows THEN l.rows[s] ELSE view[s]
        BY <4>1, <4>2 DEF Adopt
      <4>4. view' \in [Sessions -> Nat]
        BY <1>7, <4>1, <4>2 DEF Adopt
      <4>5. \A s \in Sessions : view'[s] >= view[s] /\ view'[s] <= world[s]
        BY <1>7, <4>2, <4>3 DEF Good, Known, Shape
      <4>6. Known'
        BY <1>1, <4>4, <4>5 DEF Known
      <4>7. NotAwaiting'
        BY <1>1, <2>7, <3>1, <4>1 DEF EndToRead, NotAwaiting, Unread, Heard, Output, Attached
      <4> QED
        BY <1>4, <1>5, <4>1, <4>5, <4>6, <4>7 DEF Good, Answers
    <3> QED
      BY <3>1, <3>2, <3>3
  <2> QED
    BY <2>2, <2>5, <2>6, <2>7
<1> QED
  BY <1>9, <1>10, <1>11

LEMMA CommandTimesOutKeeps ==
  ASSUME Shape, Good, CommandTimesOut, ~AnsweredLate'
  PROVE  Good'
<1>1. /\ pc' = "fallback" /\ active' = NoConn /\ Unanswerable(primary)
      /\ UNCHANGED <<world, client, written, pipe, deaf, channel, primary, view>>
  BY DEF CommandTimesOut, BrokerFails, Mishap, AnsweredLate, tmux, lines, snapshot
<1>2. Clients' /\ Silence' /\ Errors' /\ Known'
  BY <1>1 DEF CommandTimesOut, Good, Clients, Silence, Errors, Known, Heard, Attached
<1>3. AllCalm(<<>>, primary)
  BY EmptySequence, SequenceDomain DEF AllCalm
<1>4. NotAwaiting'
  BY <1>1, <1>3 DEF NotAwaiting, Unanswerable, Unread, Heard, Output, Attached
<1> QED
  BY <1>1, <1>2, <1>4 DEF Good, Answers

LEMMA ReplacingKeeps ==
  ASSUME Shape, Good, DrainChannel \/ StartClient \/ SwapClient \/ KillClients
  PROVE  Good'
<1> USE DEF tmux, lines, broker, snapshot, refresh, budgets
<1>1. NotAwaiting /\ pc # "collect" /\ pc' # "collect"
  BY DEF Good, Answers, DrainChannel, StartClient, SwapClient, KillClients
<1>2. CASE DrainChannel
  <2>1. /\ channel' = <<>> /\ pc = "recover" /\ pc' = "start"
        /\ UNCHANGED <<world, client, written, pipe, deaf, primary, active, view>>
    BY <1>2 DEF DrainChannel
  <2>2. IsSequence(<<>>) /\ \A i \in DOMAIN <<>> : FALSE
    BY EmptySequence
  <2>3. Clients' /\ Silence' /\ Known'
    BY <2>1 DEF Good, Clients, Silence, Known, Attached
  <2>4. Errors'
    BY <2>1, <2>2 DEF Errors, LastWord
  <2>5. NotAwaiting'
    BY <1>1, <2>1, <2>2 DEF NotAwaiting, AllCalm, Unread, Heard, Output, Attached
  <2> QED
    BY <1>1, <2>3, <2>4, <2>5 DEF Good, Answers
<1>3. CASE StartClient
  <2>1. PICK k \in Replacements : client' = [client EXCEPT ![k] = "attached"]
    BY <1>3 DEF StartClient
  <2>2. /\ pc = "start" /\ pc' = "swap"
        /\ UNCHANGED <<world, written, pipe, deaf, channel, primary, active, view>>
    BY <1>3 DEF StartClient
  <2>3. primary \in Conns /\ k \in Conns /\ k = primary + 1
    <3>1. k \in Conns /\ primary \in Conns /\ k \in Nat /\ primary \in Nat
      BY ConnsAre DEF Replacements, Good, Clients
    <3>2. k > primary
      BY <3>1 DEF Replacements, Good, Clients
    <3>3. ASSUME k > primary + 1
          PROVE  FALSE
      <4>1. primary + 1 \in 1 .. k - 1
        BY <3>1, <3>3
      <4>2. primary + 1 \in Conns /\ client[primary + 1] # "unborn"
        BY <3>1, <4>1, ConnsAre DEF Replacements
      <4> QED
        BY <2>2, <3>1, <4>2 DEF Good, Clients
    <3> QED
      BY <3>1, <3>2, <3>3
  <2>4. Clients'
    <3>1. \A j \in Conns : j # k => client'[j] = client[j]
      BY <2>1 DEF Shape
    <3>2. client'[k] = "attached"
      BY <2>1, <2>3 DEF Shape
    <3>3. \A j \in Conns : (j <= primary => j # k) /\ (j > primary + 1 => j # k)
      BY <2>3, ConnsAre
    <3>4. k > primary
      BY <2>3, ConnsAre
    <3> QED
      BY <2>2, <2>3, <3>1, <3>2, <3>3, <3>4 DEF Good, Clients, Attached
  <2>5. Silence' /\ Errors' /\ Known'
    BY <2>2 DEF Good, Silence, Errors, Known, Heard
  <2>6. client'[primary] = client[primary]
    BY <2>1, <2>3, ConnsAre DEF Shape
  <2>7. NotAwaiting'
    BY <1>1, <2>2, <2>6 DEF NotAwaiting, Unread, Heard, Output, Attached
  <2> QED
    BY <1>1, <2>4, <2>5, <2>7 DEF Good, Answers
<1>4. CASE SwapClient
  <2>1. /\ pc = "swap" /\ pc' = "refresh" /\ primary' = primary + 1
        /\ client' = [client EXCEPT ![primary] = "gone"]
        /\ UNCHANGED <<world, written, pipe, deaf, channel, active, view>>
    BY <1>4 DEF SwapClient
  <2>2. /\ primary \in Conns /\ primary + 1 \in Conns /\ primary \in Nat
        /\ client[primary + 1] # "unborn"
    BY <2>1, ConnsAre DEF Good, Clients
  <2>3. primary + 1 \notin deaf /\ written[primary + 1] = <<>>
    BY <2>2 DEF Good, Clients
  <2>4. \A i \in DOMAIN channel : channel[i].type # "fatal"
    BY <2>1 DEF Good, Errors
  <2>5. Clients'
    <3>1. client'[primary] = "gone" /\ \A j \in Conns : j # primary => client'[j] = client[j]
      BY <2>1, <2>2 DEF Shape
    <3>2. \A j \in Conns : /\ j \in Nat
                           /\ j <= primary + 1 => j <= primary \/ j = primary + 1
                           /\ j > primary + 1 => j > primary /\ j # primary
                           /\ j > primary + 1 + 1 => j > primary + 1
      BY <2>2, ConnsAre
    <3>3. \A j \in Conns : /\ j <= primary + 1 => client'[j] # "unborn"
                           /\ j > primary + 1 => client'[j] = "unborn"
      BY <2>2, <3>1, <3>2 DEF Good, Clients
    <3>4. \A j \in Conns : j > primary + 1 => j \notin deaf /\ written[j] = <<>>
      BY <3>2 DEF Good, Clients
    <3>5. \A j \in Conns : client'[j] = "attached" => written[j] = <<>>
      BY <2>3, <3>1 DEF Good, Clients, Attached
    <3> QED
      BY <2>1, <2>2, <3>2, <3>3, <3>4, <3>5 DEF Clients, Attached
  <2>6. \A x \in Conns \cup Others : x \notin deaf => \A i \in DOMAIN pipe[x] : Plain(pipe[x][i])
    <3>1. primary \notin deaf => \A i \in DOMAIN pipe[primary] : Plain(pipe[primary][i])
      BY <1>1, <2>2 DEF NotAwaiting, AllCalm, Calm, Heard, Output, Shape
    <3> QED
      BY <3>1 DEF Good, Silence
  <2>7. Silence' /\ Known'
    BY <2>1, <2>6 DEF Good, Silence, Known
  <2>8. Errors'
    <3>1. LastWord(channel, primary')
      BY <2>4, NoErrorNoLastWord DEF Shape
    <3> QED
      BY <2>1, <2>4, <3>1 DEF Errors
  <2>9. NotAwaiting'
    <3>1. AllCalm(channel, primary')
      BY <1>1, <2>4 DEF NotAwaiting, AllCalm, Calm
    <3>2. AllCalm(pipe[primary + 1], primary')
      BY <2>2, <2>3, <2>6 DEF AllCalm, Calm
    <3> QED
      BY <1>1, <2>1, <2>3, <3>1, <3>2 DEF NotAwaiting, Unread, Heard, Output
  <2> QED
    BY <1>1, <2>5, <2>7, <2>8, <2>9 DEF Good, Answers
<1>5. CASE KillClients
  <2>1. /\ pc = "terminate" /\ pc' = "gone" /\ client' = [client EXCEPT ![primary] = "gone"]
        /\ UNCHANGED <<world, written, pipe, deaf, channel, primary, active, view>>
    BY <1>5 DEF KillClients
  <2>2. client'[primary] = "gone" /\ \A j \in Conns : j # primary => client'[j] = client[j]
    BY <2>1 DEF Shape, Good, Clients
  <2>3. Clients'
    <3>1. \A j \in Conns : j > primary => j # primary
      BY ConnsAre DEF Good, Clients
    <3> QED
      BY <2>1, <2>2, <3>1 DEF Good, Clients, Attached
  <2>4. Silence' /\ Errors' /\ Known'
    BY <2>1 DEF Good, Silence, Errors, Known, Heard
  <2>5. NotAwaiting'
    BY <1>1, <2>1, <2>2 DEF NotAwaiting, Unread, Heard, Output, Attached
  <2> QED
    BY <1>1, <2>3, <2>4, <2>5 DEF Good, Answers
<1> QED
  BY <1>2, <1>3, <1>4, <1>5

-----------------------------------------------------------------------------
(* The view                                                                  *)

LEMMA BrokerStep ==
  ASSUME BrokerInv, [Next]_vars
  PROVE  BrokerInv' /\ (~AnsweredLate' => \A s \in Sessions : view'[s] >= view[s])
<1>1. Shape'
  BY ShapeStep DEF BrokerInv
<1>2. ASSUME ~AnsweredLate'
      PROVE  Good' /\ \A s \in Sessions : view'[s] >= view[s]
  <2> USE DEF tmux, lines, broker, snapshot, refresh, budgets
  <2>1. Shape /\ Good
    BY <1>2, MishapsGrow DEF BrokerInv, AnsweredLate
  <2>2. view \in [Sessions -> Nat] /\ \A s \in Sessions : view[s] <= world[s]
    BY <2>1 DEF Good, Known
  <2>3. ASSUME UNCHANGED view
        PROVE  \A s \in Sessions : view'[s] >= view[s]
    BY <2>2, <2>3
  <2>4. CASE \/ \E s \in Sessions : Change(s)
             \/ \E k \in Conns : Detach(k) \/ ClientDies(k)
             \/ ServerEnds
    <3>1. PipesGrow
      BY <2>1, <2>4, WorldSteps
    <3> QED
      BY <2>1, <2>3, <3>1, GrownPipesKeep DEF PipesGrow
  <2>5. CASE \E s \in Sessions : SendFocus(s)
    <3>1. UNCHANGED view
      BY <2>5 DEF SendFocus
    <3> QED
      BY <2>1, <2>3, <2>5, <3>1, SendFocusKeeps
  <2>6. ASSUME NEW k \in Conns, Execute(k) \/ ReadFails(k)
        PROVE  Good' /\ \A s \in Sessions : view'[s] >= view[s]
    <3>1. UNCHANGED view
      BY <2>6 DEF Execute, ReadFails
    <3>2. Good'
      BY <1>2, <2>1, <2>6, ExecuteKeeps, ReadFailsKeeps
    <3> QED
      BY <2>3, <3>1, <3>2
  <2>7. ASSUME NEW x \in Conns \cup Others, Forward(x)
        PROVE  Good' /\ \A s \in Sessions : view'[s] >= view[s]
    <3>1. UNCHANGED view
      BY <2>7 DEF Forward
    <3> QED
      BY <2>1, <2>3, <2>7, <3>1, ForwardKeeps
  <2>8. CASE \/ IntervalReconcile \/ HandleFocus \/ HandleFatal \/ CollectBatch \/ ApplyBatch
             \/ NoticeDeadPrimary \/ NoticeRequest \/ FallbackRead \/ FallbackFails
             \/ FinishReading \/ StartFails \/ Publish \/ Shutdown \/ ExitSeen
    <3>1. LoopOnly
      BY <2>8, LoopSteps
    <3>2. Good'
      BY <2>1, <3>1, LoopKeeps
    <3>3. CASE view' = Adopt(Asked, Rows(Asked))
      <4>1. world \in [Sessions -> Nat]
        BY <2>1 DEF Shape
      <4> QED
        BY <2>2, <3>2, <3>3, <4>1 DEF Adopt, Rows
    <3> QED
      BY <2>3, <3>1, <3>2, <3>3 DEF LoopOnly
  <2>9. CASE WriteCommand
    <3>1. UNCHANGED view
      BY <2>9 DEF WriteCommand
    <3> QED
      BY <2>1, <2>3, <2>9, <3>1, WriteCommandKeeps
  <2>10. CASE CollectAnswer
    BY <2>1, <2>10, CollectAnswerKeeps
  <2>11. CASE CommandTimesOut
    <3>1. UNCHANGED view
      BY <2>11 DEF CommandTimesOut
    <3> QED
      BY <1>2, <2>1, <2>3, <2>11, <3>1, CommandTimesOutKeeps
  <2>12. CASE DrainChannel \/ StartClient \/ SwapClient \/ KillClients
    <3>1. UNCHANGED view
      BY <2>12 DEF DrainChannel, StartClient, SwapClient, KillClients
    <3> QED
      BY <2>1, <2>3, <2>12, <3>1, ReplacingKeeps
  <2>13. CASE Terminate \/ UNCHANGED vars
    <3>1. UNCHANGED <<world, client, written, pipe, deaf, channel, primary, pc, active, view, todo>>
      BY <2>13 DEF Terminate, vars
    <3>2. Clients' /\ Silence' /\ Errors' /\ Known'
      BY <2>1, <3>1 DEF Good, Clients, Silence, Errors, Known, Heard, Attached
    <3>3. /\ Awaited' = Awaited /\ Asked' = Asked /\ Heard' = Heard /\ Unread' = Unread
          /\ Output' = Output /\ Attached(primary)' = Attached(primary)
      BY <3>1 DEF Awaited, Asked, Heard, Unread, Output, Attached
    <3>4. Answers'
      BY <2>1, <3>1, <3>3
         DEF Good, Answers, NotAwaiting, Awaiting, NotExecuted, Executed, BeginForwarded,
             EndForwarded, BeginRead, EndToRead
    <3> QED
      BY <2>3, <3>1, <3>2, <3>4 DEF Good
  <2> QED
    BY <2>4, <2>5, <2>6, <2>7, <2>8, <2>9, <2>10, <2>11, <2>12, <2>13 DEF Next, Receive, Refresh
<1> QED
  BY <1>1, <1>2 DEF BrokerInv

\* Without such a late answer, what is read on the way to the loop is the answer to the
\* one command that is awaited, as fresh as that command, or nothing: through writing
\* and executing it, its two lines and what other clients say between them, a read error,
\* a client that ends or is replaced (control_mode.rs).
THEOREM Invariance == Spec => []BrokerInv
<1>1. Init => BrokerInv
  BY BrokerInit
<1>2. BrokerInv /\ [Next]_vars => BrokerInv'
  BY BrokerStep
<1> QED
  BY <1>1, <1>2, PTL DEF Spec

\* What the run loop knows of a session never gets older, unless a command has timed
\* out or the reader of a replaced client has failed: for any sessions, however long
\* the loop, the channel and the succession of clients are (events.rs and
\* control_mode.rs).
THEOREM ViewStaysOrGrows == Spec => ViewNeverGoesBack
<1>1. BrokerInv /\ [Next]_vars => [~AnsweredLate => \A s \in Sessions : view'[s] >= view[s]]_view
  <2> SUFFICES ASSUME BrokerInv, [Next]_vars, ~AnsweredLate, view' # view
               PROVE  \A s \in Sessions : view'[s] >= view[s]
    OBVIOUS
  <2>1. UNCHANGED mishaps
    BY DEF Next, vars, tmux, lines, broker, snapshot, refresh, budgets, Receive, Refresh,
       Change, SendFocus, Execute, Detach, ClientDies, ReadFails, Forward, ServerEnds, Terminate,
       IntervalReconcile, HandleFocus, HandleFatal, CollectBatch, NoticeDeadPrimary,
       NoticeRequest, ApplyBatch, WriteCommand, CollectAnswer, CommandTimesOut, FallbackRead,
       FallbackFails, FinishReading, DrainChannel, StartClient, StartFails, SwapClient, Publish,
       Shutdown, ExitSeen, KillClients
  <2>2. ~AnsweredLate'
    BY <2>1 DEF AnsweredLate
  <2> QED
    BY <2>2, BrokerStep
<1> QED
  BY <1>1, Invariance, PTL DEF Spec, ViewNeverGoesBack

-----------------------------------------------------------------------------
(* What the drain of the channel keeps                                       *)

LEMMA LeastNatural ==
  ASSUME NEW T, T \subseteq Nat, T # {}
  PROVE  \E x \in T : \A y \in T : x <= y
<1> DEFINE R == OpToRel(<, Nat)
<1>1. IsWellFoundedOn(R, Nat)
  BY NatLessThanWellFounded
<1>2. \A x, y \in Nat : <<y, x>> \in R <=> y < x
  BY DEF OpToRel
<1> HIDE DEF R
<1>3. PICK x \in T : \A y \in T : ~ (<<y, x>> \in R)
  BY <1>1, WFMin
<1>4. \A y \in T : x \in Nat /\ y \in Nat /\ ~(y < x)
  BY <1>2, <1>3
<1>5. \A y \in T : x <= y
  BY <1>4
<1> QED
  BY <1>3, <1>5

\* A set of numbers with 0 and every number's successor up to m has all of them.
LEMMA UpTo ==
  ASSUME NEW m \in Nat, NEW T, 0 \in T, \A n \in 1 .. m : n - 1 \in T => n \in T
  PROVE  \A n \in 0 .. m : n \in T
<1> SUFFICES ASSUME {n \in 0 .. m : n \notin T} # {}
             PROVE  FALSE
  OBVIOUS
<1> DEFINE B == {n \in 0 .. m : n \notin T}
<1>1. B \subseteq Nat /\ B # {}
  OBVIOUS
<1>2. PICK x \in B : \A y \in B : x <= y
  <2> HIDE DEF B
  <2> QED
    BY <1>1, LeastNatural
<1>3. x \in 1 .. m /\ x - 1 \notin B /\ x - 1 \in 0 .. m
  BY <1>2
<1> QED
  BY <1>2, <1>3

Step(q, kept, n) ==
  IF n = 0 THEN <<>> ELSE IF IsFed(q[n]) THEN Append(kept[n - 1], q[n]) ELSE kept[n - 1]
Keeps(q, kept, m) == kept = [n \in 0 .. m |-> Step(q, kept, n)]

LEMMA KeptExists ==
  ASSUME NEW q, Len(q) \in Nat
  PROVE  \E kept : Keeps(q, kept, Len(q))
<1> DEFINE T == {n \in 0 .. Len(q) : \E kept : Keeps(q, kept, n)}
<1>1. 0 \in T
  <2> DEFINE kept == [n \in 0 .. 0 |-> <<>>]
  <2>1. Keeps(q, kept, 0)
    BY DEF Keeps, Step
  <2> QED
    BY <2>1
<1>2. ASSUME NEW m \in 1 .. Len(q), m - 1 \in T
      PROVE  m \in T
  <2>1. PICK old : Keeps(q, old, m - 1)
    BY <1>2
  <2> DEFINE new == [n \in 0 .. m |-> IF n = m THEN Step(q, old, m) ELSE old[n]]
  <2>2. \A n \in 0 .. m : Step(q, new, n) = Step(q, old, n)
    BY DEF Step
  <2>3. \A n \in 0 .. m - 1 : old[n] = Step(q, old, n)
    BY <2>1 DEF Keeps
  <2>4. \A n \in 0 .. m : new[n] = Step(q, new, n)
    BY <2>2, <2>3
  <2>5. Keeps(q, new, m)
    BY <2>4 DEF Keeps
  <2> HIDE DEF new
  <2> QED
    BY <2>5
<1> HIDE DEF T
<1>3. \A n \in 1 .. Len(q) : n - 1 \in T => n \in T
  BY <1>2
<1>4. \A n \in 0 .. Len(q) : n \in T
  BY <1>1, <1>3, UpTo
<1>5. Len(q) \in T
  BY <1>4
<1> QED
  BY <1>5 DEF T

LEMMA RetainedIs ==
  ASSUME NEW q, Len(q) \in Nat
  PROVE  \E kept : Keeps(q, kept, Len(q)) /\ Retained(q) = kept[Len(q)]
<1> DEFINE kept == CHOOSE f : Keeps(q, f, Len(q))
<1>1. Keeps(q, kept, Len(q))
  BY KeptExists
<1>2. Retained(q) = kept[Len(q)]
  BY DEF Retained, Keeps, Step
<1> HIDE DEF kept
<1> QED
  BY <1>1, <1>2

-----------------------------------------------------------------------------
(* Events in their order                                                     *)

\* The lines of feed f in q after the n-th are its events a + 1 to b, in order.
NumberedAfter(q, n, f, a, b) ==
  /\ a <= b
  /\ \A i \in DOMAIN q : i > n /\ q[i].from = f => q[i].type = "event" /\ q[i].at \in a + 1 .. b
  /\ \A e \in a + 1 .. b : \E i \in DOMAIN q : i > n /\ q[i].from = f /\ q[i].at = e
  /\ \A i, j \in DOMAIN q :
       i > n /\ i < j /\ q[i].from = f /\ q[j].from = f => q[i].at < q[j].at
Numbered(q, f, a, b) == NumberedAfter(q, 0, f, a, b)

LEMMA NoneNumbered ==
  ASSUME NEW f, NEW a \in Nat
  PROVE  Numbered(<<>>, f, a, a)
<1>1. DOMAIN <<>> = {}
  BY EmptySequence
<1> QED
  BY <1>1 DEF Numbered, NumberedAfter

LEMMA NumberedAppend ==
  ASSUME NEW q, IsSequence(q), NEW f, NEW a \in Nat, NEW b \in Nat, Numbered(q, f, a, b), NEW x
  PROVE  /\ x.from # f => Numbered(Append(q, x), f, a, b)
         /\ x.from = f /\ x.type = "event" /\ x.at = b + 1 => Numbered(Append(q, x), f, a, b + 1)
<1> DEFINE r == Append(q, x)
           n == Len(q) + 1
<1>1. /\ Len(q) \in Nat /\ DOMAIN q = 1 .. Len(q) /\ DOMAIN r = 1 .. n
      /\ \A i \in DOMAIN q : i \in DOMAIN r /\ r[i] = q[i] /\ i # n
      /\ r[n] = x /\ n \in DOMAIN r /\ n > 0
      /\ \A i \in DOMAIN r : i = n \/ i \in DOMAIN q
      /\ \A i, j \in DOMAIN r : i < j => i \in DOMAIN q
  BY SequenceDomain, SequenceAppend
<1>2. /\ a <= b
      /\ \A i \in DOMAIN q : q[i].from = f => q[i].type = "event" /\ q[i].at \in a + 1 .. b
      /\ \A e \in a + 1 .. b : \E i \in DOMAIN q : i > 0 /\ q[i].from = f /\ q[i].at = e
      /\ \A i, j \in DOMAIN q : i < j /\ q[i].from = f /\ q[j].from = f => q[i].at < q[j].at
  BY <1>1 DEF Numbered, NumberedAfter
<1> HIDE DEF r, n
<1>3. ASSUME x.from # f
      PROVE  Numbered(r, f, a, b)
  <2>1. \A i \in DOMAIN r : r[i].from = f => i \in DOMAIN q /\ r[i] = q[i]
    BY <1>1, <1>3
  <2>2. \A e \in a + 1 .. b : \E i \in DOMAIN r : i > 0 /\ r[i].from = f /\ r[i].at = e
    BY <1>1, <1>2
  <2> QED
    BY <1>2, <2>1, <2>2 DEF Numbered, NumberedAfter
<1>4. ASSUME x.from = f, x.type = "event", x.at = b + 1
      PROVE  Numbered(r, f, a, b + 1)
  <2>1. a <= b + 1
    BY <1>2
  <2>2. \A i \in DOMAIN r : r[i].from = f => r[i].type = "event" /\ r[i].at \in a + 1 .. b + 1
    BY <1>1, <1>2, <1>4
  <2>3. \A e \in a + 1 .. b + 1 : \E i \in DOMAIN r : i > 0 /\ r[i].from = f /\ r[i].at = e
    <3> SUFFICES ASSUME NEW e \in a + 1 .. b + 1
                 PROVE  \E i \in DOMAIN r : i > 0 /\ r[i].from = f /\ r[i].at = e
      OBVIOUS
    <3>1. CASE e = b + 1
      BY <1>1, <1>4, <3>1
    <3>2. CASE e \in a + 1 .. b
      BY <1>1, <1>2, <3>2
    <3> QED
      BY <3>1, <3>2
  <2>4. \A i, j \in DOMAIN r : i < j /\ r[i].from = f /\ r[j].from = f => r[i].at < r[j].at
    <3> SUFFICES ASSUME NEW i \in DOMAIN r, NEW j \in DOMAIN r, i < j, r[i].from = f, r[j].from = f
                 PROVE  r[i].at < r[j].at
      OBVIOUS
    <3>1. i \in DOMAIN q /\ r[i] = q[i] /\ q[i].at \in a + 1 .. b
      BY <1>1, <1>2
    <3>2. CASE j = n
      BY <1>1, <1>4, <3>1, <3>2
    <3>3. CASE j \in DOMAIN q
      BY <1>1, <1>2, <3>1, <3>3
    <3> QED
      BY <1>1, <3>2, <3>3
  <2> QED
    BY <1>1, <2>1, <2>2, <2>3, <2>4 DEF Numbered, NumberedAfter
<1> QED
  BY <1>3, <1>4 DEF r

\* The first of the lines left, whosever it is.
LEMMA NumberedNext ==
  ASSUME NEW q, Len(q) \in Nat, DOMAIN q = 1 .. Len(q), NEW n \in Nat, n + 1 \in DOMAIN q,
         NEW f, NEW a \in Nat, NEW b \in Nat, NumberedAfter(q, n, f, a, b)
  PROVE  /\ q[n + 1].from # f => NumberedAfter(q, n + 1, f, a, b)
         /\ q[n + 1].from = f =>
              /\ q[n + 1].type = "event" /\ q[n + 1].at = a + 1
              /\ NumberedAfter(q, n + 1, f, a + 1, b)
<1> DEFINE x == q[n + 1]
<1>1. /\ a <= b
      /\ \A i \in DOMAIN q : i > n /\ q[i].from = f => q[i].type = "event" /\ q[i].at \in a + 1 .. b
      /\ \A e \in a + 1 .. b : \E i \in DOMAIN q : i > n /\ q[i].from = f /\ q[i].at = e
      /\ \A i, j \in DOMAIN q :
           i > n /\ i < j /\ q[i].from = f /\ q[j].from = f => q[i].at < q[j].at
  BY DEF NumberedAfter
<1>2. \A i \in DOMAIN q : i \in Nat /\ (i > n <=> i = n + 1 \/ i > n + 1) /\ ~(n + 1 > n + 1)
  OBVIOUS
<1>3. CASE x.from # f
  BY <1>1, <1>2, <1>3 DEF NumberedAfter
<1>4. CASE x.from = f
  <2>1. x.type = "event" /\ x.at \in a + 1 .. b
    BY <1>1, <1>2, <1>4
  <2>2. PICK i \in DOMAIN q : i > n /\ q[i].from = f /\ q[i].at = a + 1
    BY <1>1, <2>1
  <2>3. i = n + 1
    <3> SUFFICES ASSUME i > n + 1 PROVE FALSE
      BY <1>2, <2>2
    <3>1. x.at < a + 1
      BY <1>1, <1>2, <1>4, <2>2
    <3> QED
      BY <2>1, <3>1
  <2>4. x.at = a + 1
    BY <2>2, <2>3
  <2>5. \A j \in DOMAIN q : j > n + 1 /\ q[j].from = f => q[j].type = "event" /\ q[j].at \in a + 2 .. b
    <3> SUFFICES ASSUME NEW j \in DOMAIN q, j > n + 1, q[j].from = f
                 PROVE  q[j].type = "event" /\ q[j].at \in a + 2 .. b
      OBVIOUS
    <3>1. q[j].type = "event" /\ q[j].at \in a + 1 .. b
      BY <1>1, <1>2
    <3>2. x.at < q[j].at
      BY <1>1, <1>2, <1>4
    <3> QED
      BY <2>4, <3>1, <3>2
  <2>6. \A e \in a + 2 .. b : \E j \in DOMAIN q : j > n + 1 /\ q[j].from = f /\ q[j].at = e
    <3> SUFFICES ASSUME NEW e \in a + 2 .. b
                 PROVE  \E j \in DOMAIN q : j > n + 1 /\ q[j].from = f /\ q[j].at = e
      OBVIOUS
    <3>1. PICK j \in DOMAIN q : j > n /\ q[j].from = f /\ q[j].at = e
      BY <1>1
    <3>2. j # n + 1
      BY <2>4, <3>1
    <3> QED
      BY <1>2, <3>1, <3>2
  <2>7. a + 1 <= b /\ a + 1 + 1 = a + 2
    BY <2>1
  <2>8. NumberedAfter(q, n + 1, f, a + 1, b)
    BY <1>1, <1>2, <2>5, <2>6, <2>7 DEF NumberedAfter
  <2> QED
    BY <1>4, <2>1, <2>4, <2>8
<1> QED
  BY <1>3, <1>4

LEMMA NumberedTail ==
  ASSUME NEW q, IsSequence(q), q # <<>>, NEW f, NEW a \in Nat, NEW b \in Nat, Numbered(q, f, a, b)
  PROVE  /\ Head(q).from # f => Numbered(Tail(q), f, a, b)
         /\ Head(q).from = f =>
              Head(q).type = "event" /\ Head(q).at = a + 1 /\ Numbered(Tail(q), f, a + 1, b)
<1> DEFINE r == Tail(q)
<1>1. /\ Len(q) \in Nat /\ DOMAIN q = 1 .. Len(q) /\ DOMAIN r = 1 .. Len(q) - 1
      /\ Len(q) > 0 /\ Head(q) = q[1] /\ 1 \in DOMAIN q
      /\ \A i \in DOMAIN r : i \in Nat /\ i > 0 /\ i + 1 \in DOMAIN q /\ i + 1 > 1 /\ r[i] = q[i + 1]
      /\ \A i \in DOMAIN q : i > 1 => i - 1 \in DOMAIN r /\ r[i - 1] = q[i]
  BY SequenceDomain, SequenceTail
<1> HIDE DEF r
<1>2. ASSUME NEW c \in Nat, NumberedAfter(q, 1, f, c, b)
      PROVE  Numbered(r, f, c, b)
  <2>1. /\ c <= b
        /\ \A i \in DOMAIN q : i > 1 /\ q[i].from = f => q[i].type = "event" /\ q[i].at \in c + 1 .. b
        /\ \A e \in c + 1 .. b : \E i \in DOMAIN q : i > 1 /\ q[i].from = f /\ q[i].at = e
        /\ \A i, j \in DOMAIN q :
             i > 1 /\ i < j /\ q[i].from = f /\ q[j].from = f => q[i].at < q[j].at
    BY <1>2 DEF NumberedAfter
  <2>2. \A i \in DOMAIN r : r[i].from = f => r[i].type = "event" /\ r[i].at \in c + 1 .. b
    <3> SUFFICES ASSUME NEW i \in DOMAIN r, r[i].from = f
                 PROVE  r[i].type = "event" /\ r[i].at \in c + 1 .. b
      OBVIOUS
    <3>1. i + 1 \in DOMAIN q /\ i + 1 > 1 /\ r[i] = q[i + 1]
      BY <1>1
    <3> QED
      BY <2>1, <3>1
  <2>3. \A e \in c + 1 .. b : \E i \in DOMAIN r : r[i].from = f /\ r[i].at = e
    <3> SUFFICES ASSUME NEW e \in c + 1 .. b
                 PROVE  \E i \in DOMAIN r : r[i].from = f /\ r[i].at = e
      OBVIOUS
    <3>1. PICK j \in DOMAIN q : j > 1 /\ q[j].from = f /\ q[j].at = e
      BY <2>1
    <3>2. j - 1 \in DOMAIN r /\ r[j - 1] = q[j]
      BY <1>1, <3>1
    <3> QED
      BY <3>1, <3>2
  <2>4. \A i, j \in DOMAIN r : i < j /\ r[i].from = f /\ r[j].from = f => r[i].at < r[j].at
    <3> SUFFICES ASSUME NEW i \in DOMAIN r, NEW j \in DOMAIN r, i < j, r[i].from = f, r[j].from = f
                 PROVE  r[i].at < r[j].at
      OBVIOUS
    <3>1. /\ i + 1 \in DOMAIN q /\ j + 1 \in DOMAIN q /\ i + 1 > 1 /\ i + 1 < j + 1
          /\ r[i] = q[i + 1] /\ r[j] = q[j + 1]
      BY <1>1
    <3> QED
      BY <2>1, <3>1
  <2> QED
    BY <1>1, <2>1, <2>2, <2>3, <2>4 DEF Numbered, NumberedAfter
<1>3. 0 + 1 = 1 /\ NumberedAfter(q, 0, f, a, b)
  BY DEF Numbered
<1>4. /\ q[1].from # f => NumberedAfter(q, 1, f, a, b)
      /\ q[1].from = f =>
           q[1].type = "event" /\ q[1].at = a + 1 /\ NumberedAfter(q, 1, f, a + 1, b)
  BY <1>1, <1>3, NumberedNext
<1> QED
  BY <1>1, <1>2, <1>4 DEF r

LEMMA NumberedConcat ==
  ASSUME NEW p, IsSequence(p), NEW q, IsSequence(q), NEW f,
         NEW a \in Nat, NEW m \in Nat, NEW b \in Nat, Numbered(p, f, a, m), Numbered(q, f, m, b)
  PROVE  IsSequence(p \o q) /\ Numbered(p \o q, f, a, b)
<1> DEFINE r == p \o q
           n == Len(p)
<1>1. /\ n \in Nat /\ Len(q) \in Nat /\ DOMAIN p = 1 .. n /\ DOMAIN q = 1 .. Len(q)
  BY SequenceDomain
<1>2. /\ IsSequence(r) /\ DOMAIN r = 1 .. n + Len(q)
      /\ \A i \in 1 .. n + Len(q) : r[i] = IF i <= n THEN p[i] ELSE q[i - n]
  <2>1. PICK S, T : p \in Seq(S) /\ q \in Seq(T)
    BY DEF IsSequence
  <2> DEFINE U == S \cup T
  <2>2. p \in Seq(U) /\ q \in Seq(U)
    BY <1>1, <2>1, LenProperties, SeqDef
  <2>3. /\ r \in Seq(U) /\ Len(r) = n + Len(q)
        /\ \A i \in 1 .. n + Len(q) : r[i] = IF i <= n THEN p[i] ELSE q[i - n]
    <3> HIDE DEF U
    <3> QED
      BY <2>2, ConcatProperties
  <2> QED
    BY <1>1, <2>3, LenProperties DEF IsSequence
<1>3. /\ \A i \in DOMAIN p : i \in DOMAIN r /\ r[i] = p[i] /\ i <= n
      /\ \A i \in DOMAIN q : i + n \in DOMAIN r /\ r[i + n] = q[i] /\ i + n > n
      /\ \A i \in DOMAIN r : i <= n => i \in DOMAIN p
      /\ \A i \in DOMAIN r : i > n => i - n \in DOMAIN q /\ r[i] = q[i - n]
      /\ \A i \in DOMAIN r : i \in Nat /\ i > 0
  <2>1. \A i \in DOMAIN q : i + n \in DOMAIN r /\ r[i + n] = q[i] /\ i + n > n
    <3> SUFFICES ASSUME NEW i \in DOMAIN q
                 PROVE  i + n \in DOMAIN r /\ r[i + n] = q[i] /\ i + n > n
      OBVIOUS
    <3>1. i + n \in 1 .. n + Len(q) /\ ~(i + n <= n) /\ i + n > n /\ i + n - n = i
      BY <1>1
    <3>2. r[i + n] = q[i + n - n]
      BY <1>2, <3>1
    <3> QED
      BY <1>2, <3>1, <3>2
  <2> HIDE DEF r, n
  <2> QED
    BY <1>1, <1>2, <2>1
<1> HIDE DEF r, n
<1>4. /\ a <= m
      /\ \A i \in DOMAIN p : p[i].from = f => p[i].type = "event" /\ p[i].at \in a + 1 .. m
      /\ \A e \in a + 1 .. m : \E i \in DOMAIN p : p[i].from = f /\ p[i].at = e
      /\ \A i, j \in DOMAIN p : i < j /\ p[i].from = f /\ p[j].from = f => p[i].at < p[j].at
  BY <1>1 DEF Numbered, NumberedAfter
<1>5. /\ m <= b
      /\ \A i \in DOMAIN q : q[i].from = f => q[i].type = "event" /\ q[i].at \in m + 1 .. b
      /\ \A e \in m + 1 .. b : \E i \in DOMAIN q : q[i].from = f /\ q[i].at = e
      /\ \A i, j \in DOMAIN q : i < j /\ q[i].from = f /\ q[j].from = f => q[i].at < q[j].at
  BY <1>1 DEF Numbered, NumberedAfter
<1>6. a <= b
  BY <1>4, <1>5
<1>7. \A i \in DOMAIN r : r[i].from = f =>
        /\ r[i].type = "event"
        /\ i <= n => r[i].at \in a + 1 .. m
        /\ i > n => r[i].at \in m + 1 .. b
  <2> SUFFICES ASSUME NEW i \in DOMAIN r, r[i].from = f
               PROVE  /\ r[i].type = "event"
                      /\ i <= n => r[i].at \in a + 1 .. m
                      /\ i > n => r[i].at \in m + 1 .. b
    OBVIOUS
  <2>1. (i <= n \/ i > n) /\ ~(i <= n /\ i > n)
    BY <1>1, <1>3
  <2>2. CASE i <= n
    BY <1>3, <1>4, <2>1, <2>2
  <2>3. CASE i > n
    BY <1>3, <1>5, <2>1, <2>3
  <2> QED
    BY <2>1, <2>2, <2>3
<1>8. \A i \in DOMAIN r : r[i].from = f => r[i].type = "event" /\ r[i].at \in a + 1 .. b
  <2> SUFFICES ASSUME NEW i \in DOMAIN r, r[i].from = f
               PROVE  r[i].type = "event" /\ r[i].at \in a + 1 .. b
    OBVIOUS
  <2>1. i <= n \/ i > n
    BY <1>1, <1>3
  <2> QED
    BY <1>4, <1>5, <1>7, <2>1
<1>9. \A e \in a + 1 .. b : \E i \in DOMAIN r : i > 0 /\ r[i].from = f /\ r[i].at = e
  <2> SUFFICES ASSUME NEW e \in a + 1 .. b
               PROVE  \E i \in DOMAIN r : i > 0 /\ r[i].from = f /\ r[i].at = e
    OBVIOUS
  <2>1. CASE e <= m
    <3>1. PICK i \in DOMAIN p : p[i].from = f /\ p[i].at = e
      BY <1>4, <2>1
    <3> QED
      BY <1>3, <3>1
  <2>2. CASE e > m
    <3>1. PICK i \in DOMAIN q : q[i].from = f /\ q[i].at = e
      BY <1>5, <2>2
    <3> QED
      BY <1>3, <3>1
  <2> QED
    BY <2>1, <2>2
<1>10. \A i, j \in DOMAIN r : i < j /\ r[i].from = f /\ r[j].from = f => r[i].at < r[j].at
  <2> SUFFICES ASSUME NEW i \in DOMAIN r, NEW j \in DOMAIN r, i < j, r[i].from = f, r[j].from = f
               PROVE  r[i].at < r[j].at
    OBVIOUS
  <2>1. i \in Nat /\ j \in Nat
    BY <1>3
  <2>2. CASE j <= n
    <3>1. i <= n
      BY <1>1, <2>1, <2>2
    <3> QED
      BY <1>3, <1>4, <2>2, <3>1
  <2>3. CASE i > n
    <3>1. j > n /\ i - n < j - n
      BY <1>1, <2>1, <2>3
    <3> QED
      BY <1>3, <1>5, <2>3, <3>1
  <2>4. CASE i <= n /\ j > n
    <3>1. r[i].at \in a + 1 .. m /\ r[j].at \in m + 1 .. b
      BY <1>7, <2>4
    <3> QED
      BY <3>1
  <2> QED
    BY <1>1, <2>1, <2>2, <2>3, <2>4
<1> QED
  BY <1>2, <1>6, <1>8, <1>9, <1>10 DEF Numbered, NumberedAfter, r

\* What the drain keeps is all of the subscribers' and the consumers' events.
LEMMA RetainedNumbered ==
  ASSUME NEW q, IsSequence(q), NEW f \in Feeds, NEW a \in Nat, NEW b \in Nat, Numbered(q, f, a, b)
  PROVE  IsSequence(Retained(q)) /\ Numbered(Retained(q), f, a, b)
<1>1. Len(q) \in Nat /\ DOMAIN q = 1 .. Len(q)
  BY SequenceDomain
<1>2. PICK kept : Keeps(q, kept, Len(q)) /\ Retained(q) = kept[Len(q)]
  BY <1>1, RetainedIs
<1>3. \A n \in 0 .. Len(q) : kept[n] = Step(q, kept, n)
  BY <1>2 DEF Keeps
<1> DEFINE Split(n) ==
             IsSequence(kept[n])
             /\ \E m \in Nat : Numbered(kept[n], f, a, m) /\ NumberedAfter(q, n, f, m, b)
           T == {n \in 0 .. Len(q) : Split(n)}
<1>4. 0 \in T
  <2>1. kept[0] = <<>>
    BY <1>1, <1>3 DEF Step
  <2>2. IsSequence(kept[0]) /\ Numbered(kept[0], f, a, a) /\ NumberedAfter(q, 0, f, a, b)
    BY <2>1, EmptySequence, NoneNumbered DEF Numbered
  <2>3. 0 \in 0 .. Len(q)
    BY <1>1
  <2> QED
    BY <2>2, <2>3
<1>5. ASSUME NEW n \in 1 .. Len(q), n - 1 \in T
      PROVE  n \in T
  <2> DEFINE p == kept[n - 1]
             x == q[n]
  <2>1. PICK m \in Nat : Numbered(p, f, a, m) /\ NumberedAfter(q, n - 1, f, m, b)
    BY <1>5
  <2>2. IsSequence(p) /\ n - 1 \in Nat /\ n - 1 + 1 = n /\ n \in DOMAIN q
    BY <1>1, <1>5
  <2>3. kept[n] = IF IsFed(x) THEN Append(p, x) ELSE p
    BY <1>3, <2>2 DEF Step
  <2> HIDE DEF p
  <2>4. /\ x.from # f => NumberedAfter(q, n, f, m, b)
        /\ x.from = f =>
             x.type = "event" /\ x.at = m + 1 /\ NumberedAfter(q, n, f, m + 1, b)
    BY <1>1, <2>1, <2>2, NumberedNext
  <2>5. /\ IsSequence(Append(p, x))
        /\ x.from # f => Numbered(Append(p, x), f, a, m)
        /\ x.from = f /\ x.type = "event" /\ x.at = m + 1 => Numbered(Append(p, x), f, a, m + 1)
    BY <2>1, <2>2, NumberedAppend, SequenceAppend
  <2>6. CASE x.from = f
    <3>1. IsFed(x)
      BY <2>6 DEF IsFed
    <3>2. Split(n)
      BY <2>3, <2>4, <2>5, <2>6, <3>1
    <3> QED
      BY <3>2
  <2>7. CASE x.from # f
    <3>1. Split(n)
      BY <2>1, <2>2, <2>3, <2>4, <2>5, <2>7
    <3> QED
      BY <3>1
  <2> QED
    BY <2>6, <2>7
<1> HIDE DEF T
<1>6. \A n \in 1 .. Len(q) : n - 1 \in T => n \in T
  BY <1>5
<1>7. \A n \in 0 .. Len(q) : n \in T
  BY <1>1, <1>4, <1>6, UpTo
<1>8. Len(q) \in T
  BY <1>1, <1>7
<1>9. PICK m \in Nat : Numbered(Retained(q), f, a, m) /\ NumberedAfter(q, Len(q), f, m, b)
  BY <1>2, <1>8 DEF T
<1>10. m = b
  <2>1. m <= b /\ \A e \in m + 1 .. b : \E i \in DOMAIN q : i > Len(q)
    BY <1>9 DEF NumberedAfter
  <2>2. DOMAIN q = 1 .. Len(q) /\ Len(q) \in Nat
    BY <1>1
  <2>3. \A i \in DOMAIN q : ~(i > Len(q))
    BY <2>2
  <2>4. ~(m < b)
    <3> SUFFICES ASSUME m < b PROVE FALSE
      OBVIOUS
    <3>1. b \in m + 1 .. b
      OBVIOUS
    <3> QED
      BY <2>1, <2>3, <3>1
  <2> QED
    BY <2>1, <2>4
<1> QED
  BY <1>2, <1>8, <1>9, <1>10 DEF T

-----------------------------------------------------------------------------
(* No event is lost                                                          *)

\* The events of a feed that the loop has not taken are, in their order, in the lines set
\* aside, then in the channel, then in the subscriber's pipe.
FeedsInOrder ==
  \A f \in Feeds : \E m, n \in Nat :
    /\ Numbered(deferred, f, handled[f], m)
    /\ Numbered(channel, f, m, n)
    /\ IF f = Client THEN n = focuses ELSE Numbered(pipe[f], f, n, world[f] - 1)

EventInv ==
  /\ IsSequence(deferred) /\ handled \in [Feeds -> Nat] /\ focuses \in Nat
  /\ \A s \in Others : world[s] > 0
  /\ \A x \in Conns \cup Others : \A i \in DOMAIN pipe[x] : pipe[x][i].from = x
  /\ FeedsInOrder

LEMMA FeedsAre ==
  /\ Feeds = Others \cup {Client} /\ Client \notin Others /\ Client \notin Conns
  /\ Others \subseteq Sessions /\ Primary \notin Others /\ Feeds \cap Conns = {}
BY BrokerAssumption DEF Feeds, Sessions

LEMMA EventInit == Init => EventInv
<1> SUFFICES ASSUME Init PROVE EventInv
  OBVIOUS
<1> USE DEF Init
<1>1. IsSequence(<<>>) /\ DOMAIN <<>> = {}
  BY EmptySequence
<1>2. ASSUME NEW f \in Feeds
      PROVE  \E m, n \in Nat :
               /\ Numbered(deferred, f, handled[f], m)
               /\ Numbered(channel, f, m, n)
               /\ IF f = Client THEN n = focuses ELSE Numbered(pipe[f], f, n, world[f] - 1)
  <2>1. Numbered(<<>>, f, 0, 0)
    BY NoneNumbered
  <2>2. f # Client => f \in Others /\ pipe[f] = <<>> /\ world[f] - 1 = 0
    BY FeedsAre
  <2>3. handled[f] = 0 /\ deferred = <<>> /\ channel = <<>> /\ focuses = 0
    OBVIOUS
  <2> QED
    BY <2>1, <2>2, <2>3
<1>3. \A s \in Others : world[s] > 0
  BY FeedsAre
<1>4. \A x \in Conns \cup Others : \A i \in DOMAIN pipe[x] : pipe[x][i].from = x
  BY <1>1
<1> QED
  BY <1>1, <1>2, <1>3, <1>4 DEF EventInv, FeedsInOrder

\* A line that is nobody's event is added or taken.
LEMMA EventsUnmoved ==
  ASSUME EventInv, UNCHANGED <<handled, focuses, world, pipe, deferred, channel>>
  PROVE  EventInv'
BY DEF EventInv, FeedsInOrder

\* Every pipe of a subscriber, and what is said in the pipes of the others.
LEMMA SpeakersKeep ==
  ASSUME NEW q, IsSequence(q), NEW x, \A i \in DOMAIN q : q[i].from = x
  PROVE  /\ q # <<>> => Head(q).from = x /\ \A i \in DOMAIN Tail(q) : Tail(q)[i].from = x
         /\ \A l : l.from = x =>
              \A i \in DOMAIN Append(q, l) : Append(q, l)[i].from = x
         /\ \A l, h : l.from = x /\ h.from = x =>
              \A i \in DOMAIN (q \o <<l, h>>) : (q \o <<l, h>>)[i].from = x
<1>1. ASSUME q # <<>>
      PROVE  Head(q).from = x /\ \A i \in DOMAIN Tail(q) : Tail(q)[i].from = x
  <2>1. 1 \in DOMAIN q /\ Head(q) = q[1]
    BY <1>1, SequenceDomain, SequenceTail
  <2>2. \A i \in DOMAIN Tail(q) : \E j \in DOMAIN q : Tail(q)[i] = q[j]
    BY <1>1, TailMembers
  <2> QED
    BY <2>1, <2>2
<1>2. ASSUME NEW l, l.from = x
      PROVE  \A i \in DOMAIN Append(q, l) : Append(q, l)[i].from = x
  <2>1. \A i \in DOMAIN Append(q, l) :
          Append(q, l)[i] = l \/ \E j \in DOMAIN q : Append(q, l)[i] = q[j]
    BY AppendMembers
  <2> QED
    BY <1>2, <2>1
<1>3. ASSUME NEW l, NEW h, l.from = x, h.from = x
      PROVE  \A i \in DOMAIN (q \o <<l, h>>) : (q \o <<l, h>>)[i].from = x
  <2> DEFINE r == q \o <<l, h>>
  <2>1. /\ Len(q) \in Nat /\ DOMAIN q = 1 .. Len(q) /\ DOMAIN r = 1 .. Len(q) + 2
        /\ \A i \in DOMAIN q : r[i] = q[i]
        /\ r[Len(q) + 1] = l /\ r[Len(q) + 2] = h
    BY SequenceDomain, SequencePair
  <2> HIDE DEF r
  <2>2. \A i \in DOMAIN r : r[i].from = x
    BY <1>3, <2>1
  <2> QED
    BY <2>2 DEF r
<1> QED
  BY <1>1, <1>2, <1>3

\* What the loop does with the first line of the channel, or of the lines set aside.
LEMMA LineTaken ==
  ASSUME EventInv, Shape, Pending, TakeLine, Handle(NextLine),
         UNCHANGED <<focuses, world, pipe>>
  PROVE  EventInv'
<1> DEFINE l == NextLine
<1>1. handled' \in [Feeds -> Nat] /\ \A f \in Feeds :
        handled'[f] = IF l.from = f THEN l.at ELSE handled[f]
  <2>1. l.from \in Feeds => l.at \in Nat
    <3> SUFFICES ASSUME l.from \in Feeds PROVE l.at \in Nat
      OBVIOUS
    <3>1. PICK m, n \in Nat : Numbered(deferred, l.from, handled[l.from], m)
                               /\ Numbered(channel, l.from, m, n)
      BY DEF EventInv, FeedsInOrder
    <3>2. handled[l.from] \in Nat /\ IsSequence(deferred) /\ IsSequence(channel)
      BY DEF EventInv, Shape
    <3>3. CASE deferred # <<>>
      <4>1. l = Head(deferred)
        BY <3>3 DEF NextLine
      <4>2. l.at = handled[l.from] + 1
        BY <3>1, <3>2, <3>3, <4>1, NumberedTail
      <4> QED
        BY <3>2, <4>2
    <3>4. CASE deferred = <<>>
      <4>1. l = Head(channel) /\ channel # <<>>
        BY <3>4 DEF NextLine, Pending
      <4>2. l.at = m + 1
        BY <3>1, <3>2, <4>1, NumberedTail
      <4> QED
        BY <4>2
    <3> QED
      BY <3>3, <3>4
  <2>2. handled \in [Feeds -> Nat]
    BY DEF EventInv
  <2> QED
    BY <2>1, <2>2 DEF Handle
<1>2. IsSequence(deferred) /\ IsSequence(channel) /\ IsSequence(deferred')
  <2>1. deferred # <<>> => IsSequence(Tail(deferred))
    BY SequenceTail DEF EventInv
  <2> QED
    BY <2>1 DEF EventInv, Shape, TakeLine
<1>3. ASSUME NEW f \in Feeds
      PROVE  \E m, n \in Nat :
               /\ Numbered(deferred', f, handled'[f], m)
               /\ Numbered(channel', f, m, n)
               /\ IF f = Client THEN n = focuses ELSE Numbered(pipe[f], f, n, world[f] - 1)
  <2>1. PICK m, n \in Nat :
               /\ Numbered(deferred, f, handled[f], m)
               /\ Numbered(channel, f, m, n)
               /\ IF f = Client THEN n = focuses ELSE Numbered(pipe[f], f, n, world[f] - 1)
    BY DEF EventInv, FeedsInOrder
  <2>2. handled[f] \in Nat
    BY DEF EventInv
  <2>3. CASE deferred # <<>>
    <3>1. l = Head(deferred) /\ deferred' = Tail(deferred) /\ channel' = channel
      BY <2>3 DEF NextLine, TakeLine
    <3>2. /\ l.from # f => Numbered(deferred', f, handled[f], m)
          /\ l.from = f => l.at = handled[f] + 1 /\ Numbered(deferred', f, handled[f] + 1, m)
      BY <1>2, <2>1, <2>2, <2>3, <3>1, NumberedTail
    <3>3. Numbered(deferred', f, handled'[f], m)
      BY <1>1, <3>2
    <3> QED
      BY <2>1, <3>1, <3>3
  <2>4. CASE deferred = <<>>
    <3>1. l = Head(channel) /\ channel # <<>> /\ deferred' = <<>> /\ channel' = Tail(channel)
      BY <2>4 DEF NextLine, TakeLine, Pending
    <3>2. m = handled[f]
      <4>1. m \in handled[f] + 1 .. m => \E i \in DOMAIN deferred : TRUE
        BY <2>1 DEF Numbered, NumberedAfter
      <4>2. handled[f] <= m /\ DOMAIN deferred = {}
        BY <2>1, <2>4, EmptySequence DEF Numbered, NumberedAfter
      <4> QED
        BY <2>2, <4>1, <4>2
    <3>3. /\ l.from # f => Numbered(channel', f, m, n)
          /\ l.from = f => l.at = m + 1 /\ Numbered(channel', f, m + 1, n)
      BY <1>2, <2>1, <3>1, NumberedTail
    <3>4. handled'[f] \in Nat /\ Numbered(channel', f, handled'[f], n)
      BY <1>1, <3>2, <3>3
    <3>5. Numbered(deferred', f, handled'[f], handled'[f])
      BY <3>1, <3>4, NoneNumbered
    <3> QED
      BY <2>1, <3>4, <3>5
  <2> QED
    BY <2>3, <2>4
<1> QED
  BY <1>1, <1>2, <1>3 DEF EventInv, FeedsInOrder

\* A feed's first line is its event, so that a line that is none is nobody's.
LEMMA FirstLineIsAnEvent ==
  ASSUME EventInv, Shape
  PROVE  /\ channel # <<>> /\ Head(channel).type # "event" => Head(channel).from \notin Feeds
         /\ Pending /\ NextLine.type # "event" => NextLine.from \notin Feeds
<1>1. ASSUME NEW q, IsSequence(q), q # <<>>, NEW f, NEW a \in Nat, NEW b \in Nat,
             Numbered(q, f, a, b), Head(q).from = f
      PROVE  Head(q).type = "event"
  BY <1>1, NumberedTail
<1>2. IsSequence(deferred) /\ IsSequence(channel) /\ handled \in [Feeds -> Nat]
  BY DEF EventInv, Shape
<1>3. ASSUME NEW f \in Feeds
      PROVE  \E m, n \in Nat : Numbered(deferred, f, handled[f], m) /\ Numbered(channel, f, m, n)
  BY DEF EventInv, FeedsInOrder
<1>4. ASSUME channel # <<>>, Head(channel).from \in Feeds
      PROVE  Head(channel).type = "event"
  <2>1. PICK m, n \in Nat : Numbered(channel, Head(channel).from, m, n)
    BY <1>3, <1>4
  <2> QED
    BY <1>1, <1>2, <1>4, <2>1
<1>5. ASSUME deferred # <<>>, Head(deferred).from \in Feeds
      PROVE  Head(deferred).type = "event"
  <2> DEFINE f == Head(deferred).from
  <2>1. PICK m \in Nat : Numbered(deferred, f, handled[f], m)
    BY <1>3, <1>5
  <2>2. handled[f] \in Nat
    BY <1>2, <1>5
  <2> QED
    BY <1>1, <1>2, <1>5, <2>1, <2>2
<1> QED
  BY <1>4, <1>5 DEF Pending, NextLine

\* The channel's lines are one more, one fewer, or set aside.
LEMMA ChannelGrows ==
  ASSUME EventInv, Shape, NEW l, l.from \notin Feeds, channel' = Append(channel, l),
         UNCHANGED <<handled, focuses, world, pipe, deferred>>
  PROVE  EventInv'
<1>1. ASSUME NEW f \in Feeds
      PROVE  \E m, n \in Nat :
               /\ Numbered(deferred, f, handled[f], m)
               /\ Numbered(channel', f, m, n)
               /\ IF f = Client THEN n = focuses ELSE Numbered(pipe[f], f, n, world[f] - 1)
  <2>1. PICK m, n \in Nat :
               /\ Numbered(deferred, f, handled[f], m)
               /\ Numbered(channel, f, m, n)
               /\ IF f = Client THEN n = focuses ELSE Numbered(pipe[f], f, n, world[f] - 1)
    BY DEF EventInv, FeedsInOrder
  <2>2. Numbered(channel', f, m, n)
    BY <2>1, NumberedAppend DEF Shape
  <2> QED
    BY <2>1, <2>2
<1> QED
  BY <1>1 DEF EventInv, FeedsInOrder

LEMMA SendFocusLosesNone ==
  ASSUME EventInv, Shape, NEW s \in Sessions, SendFocus(s)
  PROVE  EventInv'
<1> DEFINE l == Event(Client, s, focuses')
<1>1. /\ focuses' = focuses + 1 /\ channel' = Append(channel, l)
      /\ UNCHANGED <<handled, world, pipe, deferred>>
      /\ l.type = "event" /\ l.from = Client /\ l.at = focuses + 1
  BY DEF SendFocus, tmux, refresh, Event
<1> HIDE DEF l
<1>2. focuses \in Nat /\ focuses' \in Nat
  BY <1>1 DEF EventInv
<1>3. ASSUME NEW f \in Feeds
      PROVE  \E m, n \in Nat :
               /\ Numbered(deferred, f, handled[f], m)
               /\ Numbered(channel', f, m, n)
               /\ IF f = Client THEN n = focuses' ELSE Numbered(pipe[f], f, n, world[f] - 1)
  <2>1. PICK m, n \in Nat :
               /\ Numbered(deferred, f, handled[f], m)
               /\ Numbered(channel, f, m, n)
               /\ IF f = Client THEN n = focuses ELSE Numbered(pipe[f], f, n, world[f] - 1)
    BY DEF EventInv, FeedsInOrder
  <2>2. /\ l.from # f => Numbered(channel', f, m, n)
        /\ l.from = f /\ l.at = n + 1 => Numbered(channel', f, m, n + 1)
    BY <1>1, <2>1, NumberedAppend DEF Shape
  <2>3. CASE f = Client
    BY <1>1, <1>2, <2>1, <2>2, <2>3
  <2>4. CASE f # Client
    BY <1>1, <2>1, <2>2, <2>4
  <2> QED
    BY <2>3, <2>4
<1> QED
  BY <1>1, <1>2, <1>3 DEF EventInv, FeedsInOrder

LEMMA ForwardLosesNone ==
  ASSUME EventInv, Shape, NEW x \in Conns \cup Others, Forward(x)
  PROVE  EventInv'
<1> DEFINE l == Head(pipe[x])
<1>1. /\ pipe[x] # <<>> /\ channel' = Append(channel, l)
      /\ pipe' = [pipe EXCEPT ![x] = Tail(@)]
      /\ UNCHANGED <<handled, focuses, world, deferred>>
  BY DEF Forward, tmux, budgets
<1>2. /\ DOMAIN pipe = Conns \cup Others /\ IsSequence(pipe[x])
      /\ \A i \in DOMAIN pipe[x] : pipe[x][i].from = x
  BY DEF Shape, EventInv
<1>3. l.from = x /\ \A i \in DOMAIN Tail(pipe[x]) : Tail(pipe[x])[i].from = x
  BY <1>1, <1>2, SpeakersKeep
<1>4. \A y \in Conns \cup Others :
        pipe'[y] = IF y = x THEN Tail(pipe[x]) ELSE pipe[y]
  BY <1>1, <1>2
<1>5. \A y \in Conns \cup Others : \A i \in DOMAIN pipe'[y] : pipe'[y][i].from = y
  BY <1>3, <1>4 DEF EventInv
<1> HIDE DEF l
<1>6. ASSUME NEW f \in Feeds
      PROVE  \E m, n \in Nat :
               /\ Numbered(deferred, f, handled[f], m)
               /\ Numbered(channel', f, m, n)
               /\ IF f = Client THEN n = focuses ELSE Numbered(pipe'[f], f, n, world[f] - 1)
  <2>1. PICK m, n \in Nat :
               /\ Numbered(deferred, f, handled[f], m)
               /\ Numbered(channel, f, m, n)
               /\ IF f = Client THEN n = focuses ELSE Numbered(pipe[f], f, n, world[f] - 1)
    BY DEF EventInv, FeedsInOrder
  <2>2. /\ l.from # f => Numbered(channel', f, m, n)
        /\ l.from = f /\ l.type = "event" /\ l.at = n + 1 => Numbered(channel', f, m, n + 1)
    BY <1>1, <2>1, NumberedAppend DEF Shape
  <2>3. f = Client => x # f
    BY FeedsAre
  <2>4. f # Client => f \in Others
    BY FeedsAre
  <2>5. CASE x # f
    BY <1>3, <1>4, <2>1, <2>2, <2>4, <2>5
  <2>6. CASE x = f
    <3>1. world[f] - 1 \in Nat /\ f \in Others /\ Numbered(pipe[f], f, n, world[f] - 1)
      <4>1. f \in Sessions /\ world[f] \in Nat /\ world[f] > 0
        BY <2>3, <2>4, <2>6, FeedsAre DEF EventInv, Shape
      <4> QED
        BY <2>1, <2>3, <2>4, <2>6, <4>1
    <3>2. l.type = "event" /\ l.at = n + 1 /\ Numbered(Tail(pipe[f]), f, n + 1, world[f] - 1)
      BY <1>1, <1>2, <1>3, <2>1, <2>6, <3>1, NumberedTail DEF l
    <3>3. n + 1 \in Nat /\ Numbered(channel', f, m, n + 1)
      BY <1>3, <2>2, <2>6, <3>2
    <3>4. pipe'[f] = Tail(pipe[f])
      BY <1>4, <2>6
    <3> QED
      BY <2>1, <2>3, <2>6, <3>2, <3>3, <3>4
  <2> QED
    BY <2>5, <2>6
<1> QED
  BY <1>1, <1>5, <1>6 DEF EventInv, FeedsInOrder

LEMMA ChangeLosesNone ==
  ASSUME EventInv, Shape, NEW s \in Sessions, Change(s)
  PROVE  EventInv'
<1>1. /\ world' = [world EXCEPT ![s] = @ + 1]
      /\ UNCHANGED <<handled, focuses, deferred, channel>>
  BY DEF Change
<1>2. PICK scope \in {s, All} :
        pipe' = [x \in Conns \cup Others |->
                  IF x \in Listeners(s) THEN Append(pipe[x], Event(x, scope, world[s])) ELSE pipe[x]]
  BY DEF Change
<1>3. \A r \in Sessions : world[r] \in Nat /\ world'[r] = IF r = s THEN world[s] + 1 ELSE world[r]
  BY <1>1 DEF Shape
<1>4. \A x : /\ Event(x, scope, world[s]).type = "event"
             /\ Event(x, scope, world[s]).from = x /\ Event(x, scope, world[s]).at = world[s]
  BY DEF Event
<1>5. \A x \in Conns \cup Others : \A i \in DOMAIN pipe'[x] : pipe'[x][i].from = x
  <2> SUFFICES ASSUME NEW x \in Conns \cup Others
               PROVE  \A i \in DOMAIN pipe'[x] : pipe'[x][i].from = x
    OBVIOUS
  <2>1. IsSequence(pipe[x]) /\ \A i \in DOMAIN pipe[x] : pipe[x][i].from = x
    BY DEF Shape, EventInv
  <2>2. \A i \in DOMAIN Append(pipe[x], Event(x, scope, world[s])) :
          Append(pipe[x], Event(x, scope, world[s]))[i].from = x
    BY <1>4, <2>1, SpeakersKeep
  <2> QED
    BY <1>2, <2>1, <2>2
<1>6. ASSUME NEW f \in Feeds
      PROVE  \E m, n \in Nat :
               /\ Numbered(deferred, f, handled[f], m)
               /\ Numbered(channel, f, m, n)
               /\ IF f = Client THEN n = focuses ELSE Numbered(pipe'[f], f, n, world'[f] - 1)
  <2>1. PICK m, n \in Nat :
               /\ Numbered(deferred, f, handled[f], m)
               /\ Numbered(channel, f, m, n)
               /\ IF f = Client THEN n = focuses ELSE Numbered(pipe[f], f, n, world[f] - 1)
    BY DEF EventInv, FeedsInOrder
  <2>2. CASE f = Client
    BY <2>1, <2>2
  <2>3. CASE f # Client
    <3>1. f \in Others /\ f \in Sessions /\ f # Primary /\ f \notin Conns
      BY <2>3, FeedsAre
    <3>2. f \in Listeners(s) <=> f = s
      BY <3>1 DEF Listeners
    <3>3. CASE f # s
      BY <1>2, <1>3, <2>1, <2>3, <3>1, <3>2, <3>3
    <3>4. CASE f = s
      <4>1. pipe'[f] = Append(pipe[f], Event(f, scope, world[f]))
        BY <1>2, <3>1, <3>2, <3>4
      <4>2. world[f] \in Nat /\ world[f] > 0 /\ world'[f] = world[f] + 1 /\ IsSequence(pipe[f])
        BY <1>3, <3>1, <3>4 DEF EventInv, Shape
      <4>3. world[f] - 1 \in Nat /\ world[f] - 1 + 1 = world[f] /\ world'[f] - 1 = world[f]
        BY <4>2
      <4>4. Numbered(pipe'[f], f, n, world[f])
        BY <1>4, <2>1, <2>3, <3>4, <4>1, <4>2, <4>3, NumberedAppend
      <4> QED
        BY <2>1, <2>3, <4>3, <4>4
    <3> QED
      BY <3>3, <3>4
  <2> QED
    BY <2>2, <2>3
<1>7. \A r \in Others : world'[r] > 0
  BY <1>3, FeedsAre DEF EventInv
<1> QED
  BY <1>1, <1>5, <1>6, <1>7 DEF EventInv, FeedsInOrder

\* What the primary clients say, and the end of the server.
LEMMA OtherPipesLoseNone ==
  ASSUME EventInv, Shape, UNCHANGED <<handled, focuses, world, deferred, channel>>,
         \A x \in Others : pipe'[x] = pipe[x],
         \A x \in Conns : \A i \in DOMAIN pipe'[x] : pipe'[x][i].from = x
  PROVE  EventInv'
<1>1. \A f \in Feeds : f # Client => pipe'[f] = pipe[f]
  BY FeedsAre
<1> QED
  BY <1>1 DEF EventInv, FeedsInOrder

LEMMA PrimaryPipesLoseNone ==
  ASSUME EventInv, Shape,
         (\E k \in Conns : Execute(k) \/ Detach(k)) \/ ServerEnds
  PROVE  EventInv'
<1>1. UNCHANGED <<handled, focuses, world, deferred, channel>>
  BY DEF Execute, Detach, ServerEnds, budgets
<1>2. /\ DOMAIN pipe = Conns \cup Others
      /\ \A x \in Conns : IsSequence(pipe[x]) /\ \A i \in DOMAIN pipe[x] : pipe[x][i].from = x
  BY DEF Shape, EventInv
<1>3. Others \cap Conns = {}
  BY FeedsAre
<1>4. \A x : ExitLine(x).from = x
  BY DEF ExitLine
<1>5. ASSUME NEW k \in Conns, Execute(k)
      PROVE  EventInv'
  <2>1. PICK a, b : a.from = k /\ b.from = k /\ pipe' = [pipe EXCEPT ![k] = @ \o <<a, b>>]
    BY <1>5 DEF Execute, Answer
  <2>2. \A i \in DOMAIN (pipe[k] \o <<a, b>>) : (pipe[k] \o <<a, b>>)[i].from = k
    BY <1>2, <2>1, SpeakersKeep
  <2>3. pipe'[k] = pipe[k] \o <<a, b>> /\ \A x \in Conns \cup Others : x # k => pipe'[x] = pipe[x]
    BY <1>2, <2>1
  <2>4. \A x \in Conns : \A i \in DOMAIN pipe'[x] : pipe'[x][i].from = x
    BY <1>2, <2>2, <2>3
  <2> QED
    BY <1>1, <1>3, <2>3, <2>4, OtherPipesLoseNone
<1>6. ASSUME NEW k \in Conns, Detach(k)
      PROVE  EventInv'
  <2>1. pipe' = [pipe EXCEPT ![k] = Append(@, ExitLine(k))]
    BY <1>6 DEF Detach
  <2>2. \A i \in DOMAIN Append(pipe[k], ExitLine(k)) : Append(pipe[k], ExitLine(k))[i].from = k
    BY <1>2, <1>4, SpeakersKeep
  <2>3. pipe'[k] = Append(pipe[k], ExitLine(k))
        /\ \A x \in Conns \cup Others : x # k => pipe'[x] = pipe[x]
    BY <1>2, <2>1
  <2>4. \A x \in Conns : \A i \in DOMAIN pipe'[x] : pipe'[x][i].from = x
    BY <1>2, <2>2, <2>3
  <2> QED
    BY <1>1, <1>3, <2>3, <2>4, OtherPipesLoseNone
<1>7. ASSUME ServerEnds
      PROVE  EventInv'
  <2>1. CASE UNCHANGED pipe
    BY <1>1, <2>1, EventsUnmoved
  <2>2. CASE pipe' = [x \in Conns \cup Others |->
               IF x \in Listeners(Primary) THEN Append(pipe[x], ExitLine(x)) ELSE pipe[x]]
    <3>1. Listeners(Primary) \subseteq Conns
      BY DEF Listeners
    <3>2. \A x \in Others : pipe'[x] = pipe[x]
      BY <1>3, <2>2, <3>1
    <3>3. ASSUME NEW x \in Conns
          PROVE  \A i \in DOMAIN pipe'[x] : pipe'[x][i].from = x
      <4>1. \A i \in DOMAIN Append(pipe[x], ExitLine(x)) : Append(pipe[x], ExitLine(x))[i].from = x
        BY <1>2, <1>4, SpeakersKeep
      <4> QED
        BY <1>2, <2>2, <4>1
    <3> QED
      BY <1>1, <3>2, <3>3, OtherPipesLoseNone
  <2> QED
    BY <1>7, <2>1, <2>2 DEF ServerEnds
<1> QED
  BY <1>5, <1>6, <1>7

\* A batch gives its last line back.
LEMMA DeferLineLosesNone ==
  ASSUME EventInv, Shape, Pending, DeferLine, UNCHANGED <<handled, focuses, world, pipe>>
  PROVE  EventInv'
<1>1. CASE deferred # <<>>
  BY <1>1, EventsUnmoved DEF DeferLine
<1>2. CASE deferred = <<>>
  <2> DEFINE l == Head(channel)
  <2>1. channel # <<>> /\ deferred' = <<l>> /\ channel' = Tail(channel) /\ Append(<<>>, l) = <<l>>
    BY <1>2 DEF DeferLine, NextLine, Pending
  <2>2. IsSequence(<<>>) /\ IsSequence(Append(<<>>, l)) /\ IsSequence(channel)
    BY EmptySequence, SequenceAppend DEF Shape
  <2> HIDE DEF l
  <2>3. ASSUME NEW f \in Feeds
        PROVE  \E m, n \in Nat :
                 /\ Numbered(deferred', f, handled[f], m)
                 /\ Numbered(channel', f, m, n)
                 /\ IF f = Client THEN n = focuses ELSE Numbered(pipe[f], f, n, world[f] - 1)
    <3>1. PICK m, n \in Nat :
                 /\ Numbered(deferred, f, handled[f], m)
                 /\ Numbered(channel, f, m, n)
                 /\ IF f = Client THEN n = focuses ELSE Numbered(pipe[f], f, n, world[f] - 1)
      BY DEF EventInv, FeedsInOrder
    <3>2. handled[f] \in Nat
      BY DEF EventInv
    <3>3. /\ l.from # f => Numbered(deferred', f, handled[f], m)
          /\ l.from = f /\ l.type = "event" /\ l.at = m + 1 =>
               Numbered(deferred', f, handled[f], m + 1)
      BY <1>2, <2>1, <2>2, <3>1, <3>2, NumberedAppend
    <3>4. /\ l.from # f => Numbered(channel', f, m, n)
          /\ l.from = f => l.type = "event" /\ l.at = m + 1 /\ Numbered(channel', f, m + 1, n)
      BY <2>1, <2>2, <3>1, NumberedTail DEF l
    <3>5. m + 1 \in Nat
      OBVIOUS
    <3> QED
      BY <3>1, <3>3, <3>4, <3>5
  <2> QED
    BY <2>1, <2>2, <2>3 DEF EventInv, FeedsInOrder
<1> QED
  BY <1>1, <1>2

\* The collector sets aside what is no answer, and only drops what is one, or an error.
LEMMA CollectAnswerLosesNone ==
  ASSUME EventInv, Shape, CollectAnswer
  PROVE  EventInv'
<1> DEFINE l == Head(channel)
<1>1. /\ channel # <<>> /\ channel' = Tail(channel)
      /\ UNCHANGED <<handled, focuses, world, pipe>>
  BY DEF CollectAnswer, tmux, budgets
<1>2. \/ deferred' = Append(deferred, l)
      \/ deferred' = deferred /\ l.from \notin Feeds
  <2>1. l.type = "fatal" => l.from \notin Feeds
    BY <1>1, FirstLineIsAnEvent
  <2>2. IsPrimary(l) => l.from \notin Feeds
    BY FeedsAre DEF IsPrimary
  <2>3. \/ deferred' = Append(deferred, l)
        \/ deferred' = deferred /\ (l.type = "fatal" \/ IsPrimary(l))
    <3> DEFINE isAnswer == IsPrimary(l) /\ l.type \in {"begin", "end", "error"}
    <3>1. CASE l.type = "fatal"
      <4>1. ~isAnswer
        BY <3>1
      <4> QED
        BY <3>1, <4>1 DEF CollectAnswer, BrokerFails
    <3>2. CASE l.type # "fatal" /\ ~isAnswer
      BY <3>2 DEF CollectAnswer
    <3>3. CASE isAnswer /\ active = NoConn
      BY <3>3 DEF CollectAnswer
    <3>4. CASE isAnswer /\ active # NoConn
      BY <3>4 DEF CollectAnswer, BrokerFails, Read
    <3> QED
      BY <3>1, <3>2, <3>3, <3>4
  <2> HIDE DEF l
  <2> QED
    BY <2>1, <2>2, <2>3
<1>3. IsSequence(channel) /\ IsSequence(deferred) /\ IsSequence(deferred')
  <2>1. IsSequence(channel) /\ IsSequence(deferred)
    BY DEF Shape, EventInv
  <2>2. IsSequence(Append(deferred, l))
    BY <2>1, SequenceAppend
  <2> QED
    BY <1>2, <2>1, <2>2
<1> HIDE DEF l
<1>4. ASSUME NEW f \in Feeds
      PROVE  \E m, n \in Nat :
               /\ Numbered(deferred', f, handled[f], m)
               /\ Numbered(channel', f, m, n)
               /\ IF f = Client THEN n = focuses ELSE Numbered(pipe[f], f, n, world[f] - 1)
  <2>1. PICK m, n \in Nat :
               /\ Numbered(deferred, f, handled[f], m)
               /\ Numbered(channel, f, m, n)
               /\ IF f = Client THEN n = focuses ELSE Numbered(pipe[f], f, n, world[f] - 1)
    BY DEF EventInv, FeedsInOrder
  <2>2. handled[f] \in Nat /\ m + 1 \in Nat
    BY DEF EventInv
  <2>3. /\ l.from # f => Numbered(Append(deferred, l), f, handled[f], m)
        /\ l.from = f /\ l.type = "event" /\ l.at = m + 1 =>
             Numbered(Append(deferred, l), f, handled[f], m + 1)
    BY <1>3, <2>1, <2>2, NumberedAppend
  <2>4. /\ l.from # f => Numbered(channel', f, m, n)
        /\ l.from = f => l.type = "event" /\ l.at = m + 1 /\ Numbered(channel', f, m + 1, n)
    BY <1>1, <1>3, <2>1, NumberedTail DEF l
  <2> QED
    BY <1>2, <2>1, <2>2, <2>3, <2>4
<1> QED
  BY <1>1, <1>3, <1>4 DEF EventInv, FeedsInOrder

LEMMA DrainLosesNone ==
  ASSUME EventInv, Shape, DrainChannel
  PROVE  EventInv'
<1>1. /\ deferred' = deferred \o Retained(channel) /\ channel' = <<>>
      /\ UNCHANGED <<handled, focuses, world, pipe>>
  BY DEF DrainChannel, tmux, budgets
<1>2. IsSequence(deferred) /\ IsSequence(channel) /\ handled \in [Feeds -> Nat]
  BY DEF EventInv, Shape
<1>3. ASSUME NEW f \in Feeds
      PROVE  /\ IsSequence(deferred')
             /\ \E m, n \in Nat :
                  /\ Numbered(deferred', f, handled[f], m)
                  /\ Numbered(channel', f, m, n)
                  /\ IF f = Client THEN n = focuses ELSE Numbered(pipe[f], f, n, world[f] - 1)
  <2>1. PICK m, n \in Nat :
               /\ Numbered(deferred, f, handled[f], m)
               /\ Numbered(channel, f, m, n)
               /\ IF f = Client THEN n = focuses ELSE Numbered(pipe[f], f, n, world[f] - 1)
    BY DEF EventInv, FeedsInOrder
  <2>2. IsSequence(Retained(channel)) /\ Numbered(Retained(channel), f, m, n)
    BY <1>2, <2>1, RetainedNumbered
  <2>3. handled[f] \in Nat
    BY <1>2
  <2>4. IsSequence(deferred') /\ Numbered(deferred', f, handled[f], n)
    BY <1>1, <1>2, <2>1, <2>2, <2>3, NumberedConcat
  <2>5. Numbered(channel', f, n, n)
    BY <1>1, NoneNumbered
  <2> QED
    BY <2>1, <2>4, <2>5
<1>4. Client \in Feeds
  BY FeedsAre
<1> QED
  BY <1>1, <1>2, <1>3, <1>4 DEF EventInv, FeedsInOrder

LEMMA EventStep ==
  ASSUME EventInv, Shape, [Next]_vars
  PROVE  EventInv'
<1> USE DEF tmux, lines, broker, snapshot, refresh, budgets
<1>1. CASE \/ \E k \in Conns : ClientDies(k)
           \/ Terminate \/ IntervalReconcile \/ NoticeDeadPrimary \/ NoticeRequest
           \/ WriteCommand \/ CommandTimesOut \/ FallbackRead \/ FallbackFails \/ FinishReading
           \/ StartClient \/ StartFails \/ SwapClient \/ Publish \/ Shutdown \/ ExitSeen
           \/ KillClients \/ UNCHANGED vars
  <2>1. UNCHANGED <<handled, focuses, world, pipe, deferred, channel>>
    BY <1>1 DEF ClientDies, Terminate, IntervalReconcile, NoticeDeadPrimary, NoticeRequest,
       WriteCommand, CommandTimesOut, FallbackRead, FallbackFails, FinishReading, StartClient,
       StartFails, SwapClient, Publish, Shutdown, ExitSeen, KillClients, vars
  <2> QED
    BY <2>1, EventsUnmoved
<1>2. CASE \E s \in Sessions : SendFocus(s)
  BY <1>2, SendFocusLosesNone
<1>3. CASE \E s \in Sessions : Change(s)
  BY <1>3, ChangeLosesNone
<1>4. CASE \E x \in Conns \cup Others : Forward(x)
  BY <1>4, ForwardLosesNone
<1>5. CASE (\E k \in Conns : Execute(k) \/ Detach(k)) \/ ServerEnds
  BY <1>5, PrimaryPipesLoseNone
<1>6. ASSUME NEW k \in Conns, ReadFails(k)
      PROVE  EventInv'
  <2>1. channel' = Append(channel, FatalLine(k)) /\ UNCHANGED <<handled, focuses, world, pipe, deferred>>
    BY <1>6 DEF ReadFails
  <2>2. FatalLine(k).from \notin Feeds
    BY FeedsAre DEF FatalLine
  <2> QED
    BY <2>1, <2>2, ChannelGrows
<1>7. CASE HandleFocus \/ HandleFatal \/ CollectBatch
  <2>1. Pending /\ TakeLine /\ UNCHANGED <<focuses, world, pipe>>
    BY <1>7 DEF HandleFocus, HandleFatal, CollectBatch
  <2>2. Handle(NextLine)
    <3>1. Pending /\ NextLine.type = "fatal" => NextLine.from \notin Feeds
      BY FirstLineIsAnEvent
    <3> QED
      BY <1>7, <3>1 DEF HandleFocus, HandleFatal, CollectBatch, Handle
  <2> QED
    BY <2>1, <2>2, LineTaken
<1>8. CASE ApplyBatch
  <2>1. UNCHANGED <<handled, focuses, world, pipe>>
    BY <1>8 DEF ApplyBatch
  <2>2. UNCHANGED <<deferred, channel>> \/ (Pending /\ DeferLine)
    BY <1>8 DEF ApplyBatch
  <2> QED
    BY <2>1, <2>2, EventsUnmoved, DeferLineLosesNone
<1>9. CASE CollectAnswer
  BY <1>9, CollectAnswerLosesNone
<1>10. CASE DrainChannel
  BY <1>10, DrainLosesNone
<1> QED
  BY <1>1, <1>2, <1>3, <1>4, <1>5, <1>6, <1>7, <1>8, <1>9, <1>10 DEF Next, Receive, Refresh

\* With nothing in between, everything sent has been taken.
LEMMA NothingBetween ==
  ASSUME NEW f, NEW a \in Nat, NEW b \in Int, Numbered(<<>>, f, a, b)
  PROVE  a = b
<1>1. a <= b /\ \A e \in a + 1 .. b : \E i \in DOMAIN <<>> : TRUE
  BY DEF Numbered, NumberedAfter
<1>2. DOMAIN <<>> = {}
  BY EmptySequence
<1>3. b \notin a + 1 .. b
  BY <1>1, <1>2
<1> QED
  BY <1>1, <1>3

LEMMA EventInvImplies == EventInv /\ Shape => NoEventIsLost
<1> SUFFICES ASSUME EventInv, Shape, Quiet
             PROVE  handled[Client] = focuses /\ \A s \in Others : handled[s] = world[s] - 1
  BY DEF NoEventIsLost
<1>1. deferred = <<>> /\ channel = <<>> /\ \A s \in Others : pipe[s] = <<>>
  BY DEF Quiet, Pending
<1>2. ASSUME NEW f \in Feeds
      PROVE  handled[f] = IF f = Client THEN focuses ELSE world[f] - 1
  <2>1. PICK m, n \in Nat :
               /\ Numbered(<<>>, f, handled[f], m)
               /\ Numbered(<<>>, f, m, n)
               /\ IF f = Client THEN n = focuses ELSE Numbered(pipe[f], f, n, world[f] - 1)
    BY <1>1 DEF EventInv, FeedsInOrder
  <2>2. handled[f] \in Nat
    BY DEF EventInv
  <2>3. handled[f] = m /\ m = n
    BY <2>1, <2>2, NothingBetween
  <2>4. CASE f # Client
    <3>1. f \in Others /\ world[f] - 1 \in Int
      BY <2>4, FeedsAre DEF Shape
    <3>2. n = world[f] - 1
      BY <1>1, <2>1, <2>4, <3>1, NothingBetween
    <3> QED
      BY <2>3, <2>4, <3>2
  <2> QED
    BY <2>1, <2>3, <2>4
<1> QED
  BY <1>2, FeedsAre

\* No event of a subscriber or a consumer is lost, however often commands fail, answers are
\* late and the client is replaced while they wait in the channel.
THEOREM EventsAreKept == Spec => []NoEventIsLost
<1>1. Init => EventInv /\ Shape
  BY EventInit, BrokerInit DEF BrokerInv
<1>2. EventInv /\ Shape /\ [Next]_vars => (EventInv /\ Shape)'
  BY EventStep, ShapeStep
<1> QED
  BY <1>1, <1>2, EventInvImplies, PTL DEF Spec

-----------------------------------------------------------------------------
(* The listings of a batch                                                   *)

LEMMA SetToSeqHasAll ==
  ASSUME NEW S, IsFiniteSet(S)
  PROVE  IsSequence(SetToSeq(S)) /\ \A s \in S : \E i \in DOMAIN SetToSeq(S) : SetToSeq(S)[i] = s
<1> DEFINE n == Cardinality(S)
           F == {f \in [1 .. n -> S] : IsInjective(f)}
           q == SetToSeq(S)
<1>1. n \in Nat /\ ExistsBijection(1 .. n, S)
  BY FS_CardinalityType
<1>2. F # {}
  BY <1>1 DEF ExistsBijection, Bijection, Injection
<1>3. q \in F
  BY <1>2 DEF SetToSeq
<1>4. q \in Injection(1 .. n, S)
  BY <1>3 DEF Injection
<1>5. IsFiniteSet(1 .. n) /\ Cardinality(1 .. n) = n
  BY <1>1, FS_Interval
<1>6. q \in Surjection(1 .. n, S)
  <2> HIDE DEF q, n
  <2>1. Cardinality(1 .. n) = Cardinality(S)
    BY <1>5 DEF n
  <2> QED
    BY <1>4, <2>1, FS_Injection
<1>7. DOMAIN q = 1 .. n /\ \A s \in S : \E i \in 1 .. n : q[i] = s
  BY <1>6 DEF Surjection
<1>8. q \in Seq(S)
  BY <1>1, <1>3, SeqDef
<1> QED
  BY <1>7, <1>8 DEF IsSequence

LEMMA SequenceConcat ==
  ASSUME NEW p, IsSequence(p), NEW q, IsSequence(q), NEW r, r = p \o q
  PROVE  /\ IsSequence(r)
         /\ \A i \in DOMAIN p : i \in DOMAIN r /\ r[i] = p[i]
         /\ \A i \in DOMAIN q : i + Len(p) \in DOMAIN r /\ r[i + Len(p)] = q[i]
<1> DEFINE n == Len(p)
<1>1. n \in Nat /\ Len(q) \in Nat /\ DOMAIN p = 1 .. n /\ DOMAIN q = 1 .. Len(q)
  BY SequenceDomain
<1>2. PICK S, T : p \in Seq(S) /\ q \in Seq(T)
  BY DEF IsSequence
<1> DEFINE U == S \cup T
<1>3. p \in Seq(U) /\ q \in Seq(U)
  BY <1>1, <1>2, LenProperties, SeqDef
<1>4. /\ r \in Seq(U) /\ Len(r) = n + Len(q)
      /\ \A i \in 1 .. n + Len(q) : r[i] = IF i <= n THEN p[i] ELSE q[i - n]
  <2> HIDE DEF U
  <2> QED
    BY <1>3, ConcatProperties
<1>5. DOMAIN r = 1 .. n + Len(q) /\ IsSequence(r)
  BY <1>4, LenProperties DEF IsSequence
<1>6. ASSUME NEW i \in DOMAIN q
      PROVE  i + n \in DOMAIN r /\ r[i + n] = q[i]
  <2>1. i + n \in 1 .. n + Len(q) /\ ~(i + n <= n) /\ i + n - n = i
    BY <1>1, <1>6
  <2>2. r[i + n] = q[i + n - n]
    BY <1>4, <2>1
  <2> QED
    BY <1>5, <2>1, <2>2
<1>7. \A i \in DOMAIN p : i \in DOMAIN r /\ r[i] = p[i]
  <2> HIDE DEF n
  <2> QED
    BY <1>1, <1>4, <1>5
<1> QED
  BY <1>5, <1>6, <1>7

\* That a sequence of scopes has one of session s among them.
Lists(q, s) == \E i \in DOMAIN q : q[i] \in {s, All}

LEMMA ListsOf ==
  ASSUME NEW s
  PROVE  /\ \A x : /\ IsSequence(<<x>>) /\ <<x>> # <<>> /\ (x \in {s, All} => Lists(<<x>>, s))
                  /\ IsSequence(<<x, All>>) /\ Lists(<<x, All>>, s)
         /\ \A q : IsSequence(q) /\ q # <<>> =>
              /\ IsSequence(Tail(q)) /\ IsSequence(<<All>> \o Tail(q))
              /\ Lists(<<All>> \o Tail(q), s)
              /\ Lists(q, s) => Head(q) \in {s, All} \/ Lists(Tail(q), s)
<1>1. ASSUME NEW x
      PROVE  /\ IsSequence(<<x>>) /\ <<x>> # <<>> /\ (x \in {s, All} => Lists(<<x>>, s))
             /\ IsSequence(<<x, All>>) /\ Lists(<<x, All>>, s)
  <2>1. <<x>> \in Seq({x}) /\ <<x, All>> \in Seq({x, All})
    OBVIOUS
  <2>2. /\ 1 \in DOMAIN <<x>> /\ <<x>>[1] = x
        /\ 2 \in DOMAIN <<x, All>> /\ <<x, All>>[2] = All
    OBVIOUS
  <2> QED
    BY <2>1, <2>2 DEF IsSequence, Lists
<1>2. ASSUME NEW q, IsSequence(q), q # <<>>
      PROVE  /\ IsSequence(Tail(q)) /\ IsSequence(<<All>> \o Tail(q))
             /\ Lists(<<All>> \o Tail(q), s)
             /\ Lists(q, s) => Head(q) \in {s, All} \/ Lists(Tail(q), s)
  <2>1. IsSequence(Tail(q)) /\ IsSequence(<<All>>)
    BY <1>1, <1>2, SequenceTail
  <2> DEFINE r == <<All>> \o Tail(q)
  <2>2. IsSequence(r) /\ \A i \in DOMAIN <<All>> : i \in DOMAIN r /\ r[i] = <<All>>[i]
    BY <2>1, SequenceConcat
  <2>3. 1 \in DOMAIN <<All>> /\ <<All>>[1] = All
    OBVIOUS
  <2>4. Lists(r, s)
    BY <2>2, <2>3 DEF Lists
  <2>5. ASSUME Lists(q, s), Head(q) \notin {s, All}
        PROVE  Lists(Tail(q), s)
    <3> DEFINE after == Tail(q)
    <3>1. PICK i \in DOMAIN q : q[i] \in {s, All}
      BY <2>5 DEF Lists
    <3>2. /\ Len(q) \in Nat /\ DOMAIN q = 1 .. Len(q) /\ DOMAIN after = 1 .. Len(q) - 1
          /\ Head(q) = q[1] /\ \A j \in DOMAIN after : after[j] = q[j + 1]
      BY <1>2, SequenceDomain, SequenceTail
    <3> HIDE DEF after
    <3>3. i # 1 /\ i - 1 \in DOMAIN after /\ i - 1 + 1 = i
      BY <2>5, <3>1, <3>2
    <3>4. after[i - 1] \in {s, All}
      BY <3>1, <3>2, <3>3
    <3>5. Lists(after, s)
      BY <3>3, <3>4 DEF Lists
    <3> QED
      BY <3>5 DEF after
  <2> QED
    BY <2>1, <2>2, <2>4, <2>5
<1> QED
  BY <1>1, <1>2

LEMMA BatchLists ==
  ASSUME NEW b, IsFiniteSet(b.scopes), b.full \in BOOLEAN
  PROVE  /\ IsSequence(Listings(b))
         /\ \A s : b.full \/ s \in b.scopes => Lists(Listings(b), s)
<1> DEFINE p == IF b.full THEN <<All>> ELSE <<>>
           q == SetToSeq(b.scopes)
<1>1. IsSequence(q) /\ \A s \in b.scopes : \E i \in DOMAIN q : q[i] = s
  BY SetToSeqHasAll
<1>2. IsSequence(p) /\ (b.full => 1 \in DOMAIN p /\ p[1] = All)
  <2>1. IsSequence(<<All>>)
    BY ListsOf
  <2>2. 1 \in DOMAIN <<All>> /\ <<All>>[1] = All
    OBVIOUS
  <2>3. CASE b.full
    BY <2>1, <2>2, <2>3
  <2>4. CASE ~b.full
    BY <2>4, EmptySequence
  <2> QED
    BY <2>3, <2>4
<1> HIDE DEF p, q
<1> DEFINE r == p \o q
<1>3. /\ IsSequence(r)
      /\ \A i \in DOMAIN p : i \in DOMAIN r /\ r[i] = p[i]
      /\ \A i \in DOMAIN q : i + Len(p) \in DOMAIN r /\ r[i + Len(p)] = q[i]
  <2>1. IsSequence(p) /\ IsSequence(q) /\ r = p \o q
    BY <1>1, <1>2
  <2> HIDE DEF r
  <2>2. IsSequence(r)
    BY <2>1, SequenceConcat
  <2>3. \A i \in DOMAIN p : i \in DOMAIN r /\ r[i] = p[i]
    BY <2>1, SequenceConcat
  <2>4. \A i \in DOMAIN q : i + Len(p) \in DOMAIN r /\ r[i + Len(p)] = q[i]
    BY <2>1, SequenceConcat
  <2> QED
    BY <2>2, <2>3, <2>4
<1>4. Listings(b) = r
  BY DEF Listings, p, q
<1> HIDE DEF r
<1>5. ASSUME NEW s, b.full \/ s \in b.scopes
      PROVE  Lists(r, s)
  <2>1. CASE b.full
    BY <1>2, <1>3, <2>1 DEF Lists
  <2>2. CASE s \in b.scopes
    <3>1. PICK i \in DOMAIN q : q[i] = s
      BY <1>1, <2>2
    <3>2. PICK j \in DOMAIN r : r[j] = s
      BY <1>3, <3>1
    <3> QED
      BY <3>2 DEF Lists
  <2> QED
    BY <1>5, <2>1, <2>2
<1> QED
  BY <1>3, <1>4, <1>5

-----------------------------------------------------------------------------
(* What is still to be listed                                                *)

Ending == {"shutdown", "terminate", "waiting", "gone"}
Working == enabled /\ Attached(primary) /\ Heard /\ pc \notin Ending

\* An event among these lines calls for a listing of session s.
Tells(l, s) == l.type = "event" /\ l.scope \in {s, All}
Told(q, s) == \E i \in DOMAIN q : Tells(q[i], s)
Source(s) == IF s = Primary THEN primary ELSE s
Queued(s) == Told(deferred, s) \/ Told(channel, s) \/ Told(pipe[Source(s)], s)

\* A listing of it has been called for.
Due(s) ==
  \/ pc = "batch" /\ (batch.full \/ s \in batch.scopes)
  \/ pc \in {"refresh", "collect", "fallback"} /\ Lists(todo, s)

NothingForgotten == Working => \A s \in Sessions : view[s] = world[s] \/ Queued(s) \/ Due(s)

\* Rows that are not tmux's any more have been reported since they were read.
Current(l) ==
  l.type = "end" =>
    \A s \in Sessions : s \in DOMAIN l.rows => l.rows[s] = world[s] \/ Queued(s)
Honest(q) == \A i \in DOMAIN q : Current(q[i])
AnswersHonest == Working /\ pc = "collect" => Honest(Output) /\ Honest(channel)

\* What is published is what the loop knew when it last began a refresh.
SentOut ==
  pc \notin Ending => published = (IF pc \in {"idle", "batch"} THEN view ELSE before)

Orders ==
  /\ IsSequence(todo)
  /\ pc \in {"collect", "fallback"} => todo # <<>>
  /\ pc \in {"fallback", "recover", "start", "swap"} => ~enabled
  /\ batch = [exit |-> batch.exit, full |-> batch.full, scopes |-> batch.scopes]
  /\ batch.full \in BOOLEAN /\ IsFiniteSet(batch.scopes)

Sound == BrokerInv /\ EventInv /\ Orders /\ SentOut
QuietInv == Sound /\ (~AnsweredLate => NothingForgotten /\ AnswersHonest)

\* Lines that are added or taken.
LEMMA ToldOf ==
  ASSUME NEW s
  PROVE  /\ ~Told(<<>>, s)
         /\ \A q, x : IsSequence(q) =>
              (Told(Append(q, x), s) <=> Told(q, s) \/ Tells(x, s))
         /\ \A q : IsSequence(q) /\ q # <<>> =>
              (Told(q, s) => Tells(Head(q), s) \/ Told(Tail(q), s))
         /\ \A x : Tells(x, s) => Told(<<x>>, s)
         /\ \A q, x, y : IsSequence(q) /\ Told(q, s) => Told(q \o <<x, y>>, s)
<1>1. ~Told(<<>>, s)
  BY EmptySequence DEF Told
<1>2. ASSUME NEW q, NEW x, IsSequence(q)
      PROVE  Told(Append(q, x), s) <=> Told(q, s) \/ Tells(x, s)
  <2> DEFINE r == Append(q, x)
  <2>1. /\ Len(q) \in Nat /\ DOMAIN q = 1 .. Len(q) /\ DOMAIN r = 1 .. Len(q) + 1
        /\ \A i \in DOMAIN q : i \in DOMAIN r /\ r[i] = q[i]
        /\ r[Len(q) + 1] = x /\ Len(q) + 1 \in DOMAIN r
        /\ \A i \in DOMAIN r : i = Len(q) + 1 \/ i \in DOMAIN q
    BY <1>2, SequenceDomain, SequenceAppend
  <2> HIDE DEF r
  <2>2. Told(r, s) <=> Told(q, s) \/ Tells(x, s)
    BY <2>1 DEF Told
  <2> QED
    BY <2>2 DEF r
<1>3. ASSUME NEW q, IsSequence(q), q # <<>>, Told(q, s), ~Tells(Head(q), s)
      PROVE  Told(Tail(q), s)
  <2> DEFINE r == Tail(q)
  <2>1. PICK i \in DOMAIN q : Tells(q[i], s)
    BY <1>3 DEF Told
  <2>2. /\ Len(q) \in Nat /\ DOMAIN q = 1 .. Len(q) /\ DOMAIN r = 1 .. Len(q) - 1
        /\ Head(q) = q[1] /\ \A j \in DOMAIN r : r[j] = q[j + 1]
    BY <1>3, SequenceDomain, SequenceTail
  <2> HIDE DEF r
  <2>3. i # 1 /\ i - 1 \in DOMAIN r /\ i - 1 + 1 = i
    BY <1>3, <2>1, <2>2
  <2>4. Tells(r[i - 1], s)
    BY <2>1, <2>2, <2>3
  <2>5. Told(r, s)
    BY <2>3, <2>4 DEF Told
  <2> QED
    BY <2>5 DEF r
<1>4. ASSUME NEW x, Tells(x, s)
      PROVE  Told(<<x>>, s)
  <2>1. 1 \in DOMAIN <<x>> /\ <<x>>[1] = x
    OBVIOUS
  <2> QED
    BY <1>4, <2>1 DEF Told
<1>5. ASSUME NEW q, NEW x, NEW y, IsSequence(q), Told(q, s)
      PROVE  Told(q \o <<x, y>>, s)
  <2> DEFINE r == q \o <<x, y>>
  <2>1. Len(q) \in Nat /\ DOMAIN q = 1 .. Len(q)
    BY <1>5, SequenceDomain
  <2>2. DOMAIN r = 1 .. Len(q) + 2 /\ \A i \in 1 .. Len(q) : r[i] = q[i]
    BY <1>5, SequencePair
  <2> HIDE DEF r
  <2>3. \A i \in DOMAIN q : i \in DOMAIN r /\ r[i] = q[i]
    BY <2>1, <2>2
  <2>4. Told(r, s)
    BY <1>5, <2>3 DEF Told
  <2> QED
    BY <2>4 DEF r
<1> QED
  BY <1>1, <1>2, <1>3, <1>4, <1>5

LEMMA QueuedLines ==
  ASSUME Shape, EventInv, NEW s
  PROVE  /\ \A x, l : channel' = Append(channel, l) /\ UNCHANGED <<pipe, deferred, primary>> /\ Queued(s)
              => Queued(s)'
         /\ Pending /\ TakeLine /\ UNCHANGED <<pipe, primary>> /\ Queued(s)
              => Queued(s)' \/ Tells(NextLine, s)
         /\ Pending /\ DeferLine /\ UNCHANGED <<pipe, primary>> /\ Queued(s) => Queued(s)'
<1>1. IsSequence(channel) /\ IsSequence(deferred)
  BY DEF Shape, EventInv
<1>2. UNCHANGED <<pipe, primary>> => Told(pipe[Source(s)], s)' = Told(pipe[Source(s)], s)
  BY DEF Told, Source
<1>3. ASSUME NEW l, channel' = Append(channel, l), UNCHANGED <<pipe, deferred, primary>>, Queued(s)
      PROVE  Queued(s)'
  <2>1. Told(channel, s) => Told(Append(channel, l), s)
    BY <1>1, ToldOf
  <2> QED
    BY <1>2, <1>3, <2>1 DEF Queued
<1>4. ASSUME Pending, TakeLine, UNCHANGED <<pipe, primary>>, Queued(s)
      PROVE  Queued(s)' \/ Tells(NextLine, s)
  <2>1. CASE deferred # <<>>
    <3>1. NextLine = Head(deferred) /\ deferred' = Tail(deferred) /\ channel' = channel
      BY <1>4, <2>1 DEF NextLine, TakeLine
    <3>2. Told(deferred, s) => Tells(NextLine, s) \/ Told(deferred', s)
      BY <1>1, <2>1, <3>1, ToldOf
    <3> QED
      BY <1>2, <1>4, <3>1, <3>2 DEF Queued
  <2>2. CASE deferred = <<>>
    <3>1. NextLine = Head(channel) /\ channel # <<>> /\ channel' = Tail(channel) /\ deferred' = deferred
      BY <1>4, <2>2 DEF NextLine, TakeLine, Pending
    <3>2. Told(channel, s) => Tells(NextLine, s) \/ Told(channel', s)
      BY <1>1, <3>1, ToldOf
    <3> QED
      BY <1>2, <1>4, <3>1, <3>2 DEF Queued
  <2> QED
    BY <2>1, <2>2
<1>5. ASSUME Pending, DeferLine, UNCHANGED <<pipe, primary>>, Queued(s)
      PROVE  Queued(s)'
  <2>1. CASE deferred # <<>>
    BY <1>2, <1>5, <2>1 DEF DeferLine, Queued
  <2>2. CASE deferred = <<>>
    <3>1. /\ channel # <<>> /\ channel' = Tail(channel) /\ deferred' = <<Head(channel)>>
          /\ ~Told(deferred, s)
      BY <1>5, <2>2, ToldOf DEF NextLine, DeferLine, Pending
    <3>2. Told(channel, s) => Tells(Head(channel), s) \/ Told(channel', s)
      BY <1>1, <3>1, ToldOf
    <3>3. Tells(Head(channel), s) => Told(deferred', s)
      BY <3>1, ToldOf
    <3> QED
      BY <1>2, <1>5, <3>1, <3>2, <3>3 DEF Queued
  <2> QED
    BY <2>1, <2>2
<1> QED
  BY <1>3, <1>4, <1>5

-----------------------------------------------------------------------------
(* The order of the loop, and what has been published                        *)

LEMMA AbsorbIs ==
  ASSUME NEW b, b = [exit |-> b.exit, full |-> b.full, scopes |-> b.scopes],
         b.full \in BOOLEAN, IsFiniteSet(b.scopes), NEW l, NEW c, c = Absorb(b, l)
  PROVE  /\ c = [exit |-> c.exit, full |-> c.full, scopes |-> c.scopes]
         /\ c.full \in BOOLEAN /\ IsFiniteSet(c.scopes)
         /\ \A s : b.full \/ s \in b.scopes \/ Tells(l, s) => c.full \/ s \in c.scopes
<1> DEFINE e == b.exit
           f == b.full
           t == b.scopes
<1>1. b = [exit |-> e, full |-> f, scopes |-> t]
  OBVIOUS
<1> HIDE DEF e, f, t
<1>2. CASE l.type = "exit"
  <2>1. c = [exit |-> TRUE, full |-> f, scopes |-> t]
    BY <1>1, <1>2 DEF Absorb
  <2> QED
    BY <1>2, <2>1 DEF Tells, f, t
<1>3. CASE l.type \notin {"exit", "event"}
  <2>1. c = b
    BY <1>3 DEF Absorb
  <2> QED
    BY <1>3, <2>1 DEF Tells
<1>4. CASE l.type = "event" /\ l.scope = All
  <2>1. c = [exit |-> e, full |-> TRUE, scopes |-> {}]
    BY <1>1, <1>4 DEF Absorb
  <2>2. IsFiniteSet({})
    BY FS_EmptySet
  <2> QED
    BY <2>1, <2>2
<1>5. CASE l.type = "event" /\ l.scope # All
  <2>1. c = [exit |-> e, full |-> f, scopes |-> t \cup {l.scope}]
    BY <1>1, <1>5 DEF Absorb
  <2>2. IsFiniteSet(t \cup {l.scope})
    BY FS_AddElement DEF t
  <2> QED
    BY <1>5, <2>1, <2>2 DEF Tells, f, t
<1> QED
  BY <1>2, <1>3, <1>4, <1>5

LEMMA OrdersStep ==
  ASSUME Orders, SentOut, [Next]_vars
  PROVE  Orders' /\ SentOut'
<1> USE DEF tmux, lines, broker, snapshot, refresh, budgets
<1>1. ASSUME UNCHANGED <<todo, enabled, batch, view, published, before>>,
             pc' = pc \/ pc' \in Ending \/ (pc = "recover" /\ pc' = "start") \/ (pc = "start" /\ pc' = "swap")
             \/ (pc = "start" /\ pc' = "publish")
      PROVE  Orders' /\ SentOut'
  BY <1>1 DEF Orders, SentOut, Ending
<1>2. CASE \/ \E s \in Sessions : Change(s) \/ SendFocus(s)
           \/ \E k \in Conns : Execute(k) \/ Detach(k) \/ ClientDies(k) \/ ReadFails(k)
           \/ \E x \in Conns \cup Others : Forward(x)
           \/ ServerEnds \/ Terminate \/ UNCHANGED vars
  <2>1. UNCHANGED <<todo, enabled, batch, view, published, before, pc>>
    BY <1>2 DEF Change, SendFocus, Execute, Detach, ClientDies, ReadFails, Forward, ServerEnds,
                Terminate, vars
  <2> QED
    BY <1>1, <2>1
<1>3. CASE \/ HandleFatal \/ NoticeDeadPrimary \/ NoticeRequest \/ DrainChannel \/ StartClient
           \/ StartFails \/ Shutdown \/ ExitSeen \/ KillClients
  <2>1. UNCHANGED <<todo, enabled, batch, view, published, before>>
    BY <1>3 DEF HandleFatal, NoticeDeadPrimary, NoticeRequest, DrainChannel, StartClient,
                StartFails, Shutdown, ExitSeen, KillClients
  <2>2. pc' \in Ending \/ (pc = "recover" /\ pc' = "start") \/ (pc = "start" /\ pc' = "swap")
        \/ (pc = "start" /\ pc' = "publish")
    BY <1>3 DEF HandleFatal, NoticeDeadPrimary, NoticeRequest, DrainChannel, StartClient,
                StartFails, Shutdown, ExitSeen, KillClients, Ending
  <2> QED
    BY <1>1, <2>1, <2>2
<1>4. ASSUME UNCHANGED <<enabled, batch, view, published>>, pc \in {"idle", "batch"},
             pc' = "refresh", before' = view, IsSequence(todo')
      PROVE  Orders' /\ SentOut'
  BY <1>4 DEF Orders, SentOut, Ending
<1>5. CASE IntervalReconcile
  <2>1. IsSequence(<<All>>)
    BY ListsOf
  <2> QED
    BY <1>4, <1>5, <2>1 DEF IntervalReconcile, StartRefresh
<1>6. CASE HandleFocus
  <2>1. \A x : IsSequence(<<x>>) /\ IsSequence(<<x, All>>)
    BY ListsOf
  <2> QED
    BY <1>4, <1>6, <2>1 DEF HandleFocus, StartRefresh
<1>7. CASE ApplyBatch
  <2>1. IsSequence(Listings(batch))
    BY BatchLists DEF Orders
  <2> QED
    BY <1>4, <1>7, <2>1 DEF ApplyBatch, StartRefresh
<1>8. CASE CollectBatch
  <2>1. /\ batch' = Absorb(batch, NextLine) /\ pc \in {"idle", "batch"} /\ pc' = "batch"
        /\ UNCHANGED <<todo, enabled, view, published, before>>
    BY <1>8 DEF CollectBatch
  <2>2. /\ batch' = [exit |-> batch'.exit, full |-> batch'.full, scopes |-> batch'.scopes]
        /\ batch'.full \in BOOLEAN /\ IsFiniteSet(batch'.scopes)
    BY <2>1, AbsorbIs DEF Orders
  <2> QED
    BY <2>1, <2>2 DEF Orders, SentOut, Ending
<1>9. CASE WriteCommand
  <2>1. /\ pc = "refresh" /\ todo # <<>> /\ UNCHANGED <<todo, batch, view, published, before>>
        /\ (pc' = "collect" /\ UNCHANGED enabled) \/ (pc' = "fallback" /\ enabled' = FALSE)
    BY <1>9 DEF WriteCommand, BrokerFails
  <2> QED
    BY <2>1 DEF Orders, SentOut, Ending
<1>10. ASSUME pc \in {"refresh", "collect", "fallback"}, todo # <<>>, todo' = Tail(todo),
              pc' = "refresh", UNCHANGED <<enabled, batch, published, before>>
       PROVE  Orders' /\ SentOut'
  <2>1. IsSequence(todo')
    BY <1>10, SequenceTail DEF Orders
  <2> QED
    BY <1>10, <2>1 DEF Orders, SentOut, Ending
<1>11. CASE CollectAnswer
  <2>1. /\ pc = "collect" /\ UNCHANGED <<batch, published, before>>
        /\ \/ UNCHANGED <<pc, todo, view, enabled>>
           \/ pc' = "refresh" /\ todo' = Tail(todo) /\ UNCHANGED enabled
           \/ pc' = "fallback" /\ enabled' = FALSE /\ UNCHANGED <<todo, view>>
    <3>1. pc = "collect" /\ UNCHANGED <<batch, published, before>>
      BY <1>11 DEF CollectAnswer
    <3> DEFINE l == Head(channel)
               isAnswer == IsPrimary(l) /\ l.type \in {"begin", "end", "error"}
               Stays == UNCHANGED <<pc, todo, view, enabled>>
               Reads == pc' = "refresh" /\ todo' = Tail(todo) /\ UNCHANGED enabled
               Fails == pc' = "fallback" /\ enabled' = FALSE /\ UNCHANGED <<todo, view>>
    <3>2. CASE l.type = "fatal"
      <4>1. ~isAnswer
        BY <3>2
      <4> QED
        BY <1>11, <3>1, <3>2, <4>1 DEF CollectAnswer, BrokerFails
    <3>3. CASE l.type # "fatal" /\ ~isAnswer
      BY <1>11, <3>1, <3>3 DEF CollectAnswer
    <3>4. CASE isAnswer /\ active = NoConn
      <4>1. Stays
        BY <1>11, <3>4 DEF CollectAnswer
      <4> QED
        BY <3>1, <4>1
    <3>5. CASE isAnswer /\ active # NoConn
      <4>1. Reads \/ Fails
        BY <1>11, <3>5 DEF CollectAnswer, BrokerFails, Read
      <4> QED
        BY <3>1, <4>1
    <3> QED
      BY <3>2, <3>3, <3>4, <3>5
  <2>2. todo # <<>>
    BY <2>1 DEF Orders
  <2> QED
    BY <1>10, <2>1, <2>2 DEF Orders, SentOut, Ending
<1>12. CASE CommandTimesOut
  <2>1. /\ pc = "collect" /\ pc' = "fallback" /\ enabled' = FALSE
        /\ UNCHANGED <<todo, batch, view, published, before>>
    BY <1>12 DEF CommandTimesOut, BrokerFails
  <2> QED
    BY <2>1 DEF Orders, SentOut, Ending
<1>13. CASE FallbackRead
  <2>1. /\ pc \in {"refresh", "fallback"} /\ todo # <<>> /\ todo' = Tail(todo) /\ pc' = "refresh"
        /\ UNCHANGED <<enabled, batch, published, before>>
    BY <1>13 DEF FallbackRead, FallsBack, Read, Orders
  <2> QED
    BY <1>10, <2>1
<1>14. CASE FallbackFails
  <2>1. /\ pc \in {"refresh", "fallback"} /\ todo # <<>>
        /\ UNCHANGED <<enabled, batch, view, published, before>>
        /\ \/ pc' = "refresh" /\ todo' = <<All>> \o Tail(todo)
           \/ pc' = "terminate" /\ UNCHANGED todo
    BY <1>14 DEF FallbackFails, FallsBack, Orders
  <2>2. IsSequence(<<All>> \o Tail(todo))
    BY <2>1, ListsOf DEF Orders
  <2> QED
    BY <2>1, <2>2 DEF Orders, SentOut, Ending
<1>15. CASE FinishReading
  <2>1. /\ pc = "refresh" /\ UNCHANGED <<todo, enabled, batch, view, published, before>>
        /\ (pc' = "recover" /\ ~enabled) \/ pc' = "publish"
    BY <1>15 DEF FinishReading
  <2> QED
    BY <2>1 DEF Orders, SentOut, Ending
<1>16. CASE SwapClient
  <2>1. /\ pc = "swap" /\ pc' = "refresh" /\ todo' = <<All>> /\ enabled' = TRUE
        /\ UNCHANGED <<batch, view, published, before>>
    BY <1>16 DEF SwapClient, BootstrapListing
  <2>2. IsSequence(<<All>>)
    BY ListsOf
  <2> QED
    BY <2>1, <2>2 DEF Orders, SentOut, Ending
<1>17. CASE Publish
  <2>1. /\ pc = "publish" /\ pc' \in {"idle", "shutdown"} /\ UNCHANGED <<todo, enabled, view>>
        /\ published' = (IF ShouldPublish THEN view ELSE published) /\ before' = view
        /\ batch' = NoBatch
    BY <1>17 DEF Publish
  <2>2. published' = view
    BY <2>1 DEF SentOut, Ending, ShouldPublish
  <2>3. IsFiniteSet({})
    BY FS_EmptySet
  <2> QED
    BY <2>1, <2>2, <2>3 DEF Orders, SentOut, Ending, NoBatch
<1> QED
  BY <1>2, <1>3, <1>5, <1>6, <1>7, <1>8, <1>9, <1>11, <1>12, <1>13, <1>14, <1>15, <1>16, <1>17
     DEF Next, Receive, Refresh

-----------------------------------------------------------------------------
(* Nothing is forgotten                                                      *)

Quieted == NothingForgotten /\ AnswersHonest

\* What tmux does of itself is reported to the loop, and its answers were true.
LEMMA WorldQuiet ==
  ASSUME Shape, Good, Quieted,
         \/ \E s \in Sessions : Change(s)
         \/ \E k \in Conns : Detach(k) \/ ClientDies(k)
         \/ ServerEnds
  PROVE  Quieted'
<1>1. PipesGrow
  BY WorldSteps
<1>2. UNCHANGED <<deferred, channel, enabled, view, batch, todo, pc, primary, deaf>>
  BY DEF Change, Detach, ClientDies, ServerEnds, lines, broker, snapshot, refresh
<1>3. primary \in Conns /\ (Working' => Working)
  <2>1. primary \in Conns
    BY DEF Good, Clients
  <2>2. Attached(primary)' => Attached(primary)
    BY <1>1, <1>2, <2>1 DEF PipesGrow, Attached
  <2> QED
    BY <1>2, <2>1, <2>2 DEF Working, Heard, Ending
<1>4. \A s \in Sessions : Source(s) \in Conns \cup Others /\ Source(s)' = Source(s) /\ (Due(s)' <=> Due(s))
  BY <1>2, <1>3 DEF Source, Due, Sessions
<1>5. ASSUME NEW s \in Sessions, Queued(s)
      PROVE  Queued(s)'
  <2> DEFINE x == Source(s)
  <2>1. x \in Conns \cup Others /\ Source(s)' = x /\ IsSequence(pipe[x])
    BY <1>4 DEF Shape
  <2> HIDE DEF x
  <2>2. Told(pipe[x], s) => Told(pipe'[x], s)
    <3>1. CASE pipe'[x] = pipe[x]
      BY <3>1
    <3>2. ASSUME NEW l, pipe'[x] = Append(pipe[x], l)
          PROVE  Told(pipe[x], s) => Told(pipe'[x], s)
      BY <2>1, <3>2, ToldOf
    <3> QED
      BY <1>1, <2>1, <3>1, <3>2 DEF PipesGrow
  <2>3. Told(pipe[Source(s)], s)' = Told(pipe'[x], s) /\ Told(pipe[Source(s)], s) = Told(pipe[x], s)
    BY <2>1 DEF x
  <2>4. Told(deferred, s)' = Told(deferred, s) /\ Told(channel, s)' = Told(channel, s)
    BY <1>2
  <2> QED
    BY <1>5, <2>2, <2>3, <2>4 DEF Queued
<1>6. ASSUME Working, NEW s \in Sessions, world'[s] # world[s]
      PROVE  Queued(s)'
  <2>1. Change(s)
    <3>1. UNCHANGED world \/ \E r \in Sessions : Change(r)
      BY DEF Detach, ClientDies, ServerEnds
    <3>2. PICK r \in Sessions : Change(r)
      BY <1>6, <3>1
    <3>3. r = s
      BY <1>6, <3>2 DEF Change, Shape
    <3> QED
      BY <3>2, <3>3
  <2> DEFINE x == Source(s)
  <2>2. x \in Conns \cup Others /\ x \in Listeners(s) /\ IsSequence(pipe[x]) /\ Source(s)' = x
    BY <1>3, <1>4, <1>6 DEF Source, Listeners, Working, Shape
  <2> HIDE DEF x
  <2>3. PICK scope \in {s, All} : pipe'[x] = Append(pipe[x], Event(x, scope, world[s]))
    BY <2>1, <2>2 DEF Change
  <2>4. Tells(Event(x, scope, world[s]), s)
    BY DEF Tells, Event
  <2>5. Told(pipe'[x], s)
    BY <2>2, <2>3, <2>4, ToldOf
  <2> QED
    BY <2>2, <2>5 DEF Queued
<1>7. NothingForgotten'
  <2> SUFFICES ASSUME Working', NEW s \in Sessions
               PROVE  view'[s] = world'[s] \/ Queued(s)' \/ Due(s)'
    BY DEF NothingForgotten
  <2>1. view[s] = world[s] \/ Queued(s) \/ Due(s)
    BY <1>3 DEF Quieted, NothingForgotten
  <2>2. view' = view /\ (Due(s)' <=> Due(s))
    BY <1>2, <1>4
  <2>3. world'[s] = world[s] \/ Queued(s)'
    BY <1>3, <1>6
  <2> QED
    BY <1>5, <2>1, <2>2, <2>3
<1>8. ASSUME Working', NEW l, Current(l)
      PROVE  Current(l)'
  <2> SUFFICES ASSUME l.type = "end", NEW s \in Sessions, s \in DOMAIN l.rows
               PROVE  l.rows[s] = world'[s] \/ Queued(s)'
    BY DEF Current
  <2>1. l.rows[s] = world[s] \/ Queued(s)
    BY <1>8 DEF Current
  <2>2. world'[s] = world[s] \/ Queued(s)'
    BY <1>3, <1>6, <1>8
  <2> QED
    BY <1>5, <2>1, <2>2
<1>9. AnswersHonest'
  <2> SUFFICES ASSUME Working', pc' = "collect"
               PROVE  Honest(Output)' /\ Honest(channel)'
    BY DEF AnswersHonest
  <2>1. Honest(Output) /\ Honest(channel)
    BY <1>2, <1>3 DEF Quieted, AnswersHonest
  <2>2. Honest(channel)'
    BY <1>2, <1>8, <2>1 DEF Honest
  <2>3. Honest(Output)'
    <3> DEFINE q == pipe[primary]
    <3>1. IsSequence(q) /\ Output = q /\ Output' = pipe'[primary]
      BY <1>2, <1>3 DEF Shape, Output
    <3>2. CASE pipe'[primary] = q
      BY <1>8, <2>1, <3>1, <3>2 DEF Honest
    <3>3. ASSUME NEW l, Plain(l), pipe'[primary] = Append(q, l)
          PROVE  Honest(Output)'
      <4>1. \A i \in DOMAIN Append(q, l) : Append(q, l)[i] = l \/ \E j \in DOMAIN q : Append(q, l)[i] = q[j]
        BY <3>1, AppendMembers
      <4>2. Current(l)'
        BY <3>3 DEF Current, Plain
      <4>3. \A j \in DOMAIN q : Current(q[j])
        BY <2>1, <3>1 DEF Honest
      <4> HIDE DEF q
      <4> QED
        BY <1>8, <2>1, <3>1, <3>3, <4>1, <4>2, <4>3 DEF Honest
    <3> QED
      BY <1>1, <1>3, <3>2, <3>3 DEF PipesGrow
  <2> QED
    BY <2>2, <2>3
<1> QED
  BY <1>7, <1>9 DEF Quieted

\* Lines move on, and new answers are true.
LEMMA LinesQuiet ==
  ASSUME Quieted, UNCHANGED <<world, view, batch, todo, pc, primary, enabled>>,
         Working' => Working,
         \A s \in Sessions : Queued(s) => Queued(s)',
         Working' /\ pc = "collect" =>
           \A l : (\E i \in DOMAIN Output' : l = Output'[i]) \/ (\E i \in DOMAIN channel' : l = channel'[i])
             => \/ \E i \in DOMAIN Output : l = Output[i]
                \/ \E i \in DOMAIN channel : l = channel[i]
                \/ l.type = "end" => \A s \in Sessions : s \in DOMAIN l.rows => l.rows[s] = world[s]
  PROVE  Quieted'
<1>1. \A s : Due(s)' <=> Due(s)
  BY DEF Due
<1>2. NothingForgotten'
  BY <1>1 DEF Quieted, NothingForgotten
<1>3. AnswersHonest'
  <2> SUFFICES ASSUME Working', pc = "collect"
               PROVE  Honest(Output)' /\ Honest(channel)'
    BY DEF AnswersHonest
  <2>1. \A l : Current(l) => Current(l)'
    BY DEF Current
  <2>2. /\ \A i \in DOMAIN Output : Current(Output[i])
        /\ \A i \in DOMAIN channel : Current(channel[i])
    BY DEF Quieted, AnswersHonest, Honest
  <2>3. \A l : (l.type = "end" => \A s \in Sessions : s \in DOMAIN l.rows => l.rows[s] = world[s])
             => Current(l)'
    BY DEF Current
  <2>4. \A i \in DOMAIN Output' : Current(Output[i])'
    BY <2>1, <2>2, <2>3
  <2>5. \A i \in DOMAIN channel' : Current(channel[i])'
    BY <2>1, <2>2, <2>3
  <2> QED
    BY <2>4, <2>5 DEF Honest
<1> QED
  BY <1>2, <1>3 DEF Quieted

LEMMA SendFocusQuiet ==
  ASSUME Shape, EventInv, Good, Quieted, NEW s \in Sessions, SendFocus(s)
  PROVE  Quieted'
<1>1. PICK l : l.type = "event" /\ channel' = Append(channel, l)
  BY DEF SendFocus, Event
<1>2. UNCHANGED <<world, view, batch, todo, pc, primary, enabled, client, deaf, pipe, deferred, Output>>
  BY DEF SendFocus, tmux, lines, broker, snapshot, refresh, Output
<1>3. Working' => Working
  BY <1>2 DEF Working, Attached, Heard
<1>4. \A r \in Sessions : Queued(r) => Queued(r)'
  BY <1>1, <1>2, QueuedLines
<1>5. \A i \in DOMAIN channel' : channel'[i] = l \/ \E j \in DOMAIN channel : channel'[i] = channel[j]
  BY <1>1, AppendMembers DEF Shape
<1>6. \A h : (\E i \in DOMAIN Output' : h = Output'[i]) \/ (\E i \in DOMAIN channel' : h = channel'[i])
        => \/ \E i \in DOMAIN Output : h = Output[i]
           \/ \E i \in DOMAIN channel : h = channel[i]
           \/ h.type # "end"
  BY <1>1, <1>2, <1>5
<1> QED
  BY <1>2, <1>3, <1>4, <1>6, LinesQuiet

LEMMA ReadFailsQuiet ==
  ASSUME Shape, EventInv, Good, Quieted, NEW k \in Conns, ReadFails(k), ~AnsweredLate'
  PROVE  Quieted'
<1>1. k = primary /\ deaf' = deaf \cup {k} /\ channel' = Append(channel, FatalLine(k))
  BY DEF ReadFails, Mishap, AnsweredLate, Replaced
<1>2. UNCHANGED <<world, view, batch, todo, pc, primary, enabled, pipe, deferred>>
  BY DEF ReadFails, tmux, broker, snapshot, refresh
<1>3. ~Working'
  BY <1>1, <1>2 DEF Working, Heard
<1>4. \A r \in Sessions : Queued(r) => Queued(r)'
  BY <1>1, <1>2, QueuedLines
<1> QED
  BY <1>2, <1>3, <1>4, LinesQuiet

LEMMA ForwardQuiet ==
  ASSUME Shape, EventInv, Good, Quieted, NEW x \in Conns \cup Others, Forward(x)
  PROVE  Quieted'
<1> DEFINE l == Head(pipe[x])
<1>1. /\ x \notin deaf /\ pipe[x] # <<>>
      /\ channel' = Append(channel, l)
      /\ pipe' = [pipe EXCEPT ![x] = Tail(@)]
      /\ UNCHANGED <<world, view, batch, todo, pc, primary, enabled, client, deaf, deferred>>
  BY DEF Forward, tmux, broker, snapshot, refresh
<1>2. /\ IsSequence(pipe[x]) /\ IsSequence(channel) /\ x \in DOMAIN pipe
      /\ l = pipe[x][1] /\ 1 \in DOMAIN pipe[x]
  <2>1. IsSequence(pipe[x]) /\ IsSequence(channel) /\ x \in DOMAIN pipe
    BY DEF Shape
  <2> QED
    BY <1>1, <2>1, SequenceDomain, SequenceTail
<1>3. \A i \in DOMAIN Tail(pipe[x]) : \E j \in DOMAIN pipe[x] : Tail(pipe[x])[i] = pipe[x][j]
  BY <1>1, <1>2, TailMembers
<1>4. /\ pipe'[x] = Tail(pipe[x])
      /\ \A y \in Conns \cup Others : y # x => pipe'[y] = pipe[y]
  BY <1>1, <1>2 DEF Shape
<1> HIDE DEF l
<1>5. Working' => Working
  BY <1>1 DEF Working, Attached, Heard
<1>6. ASSUME NEW s \in Sessions, Queued(s)
      PROVE  Queued(s)'
  <2>1. Source(s) \in Conns \cup Others /\ Source(s)' = Source(s)
    BY <1>1 DEF Source, Good, Clients, Sessions
  <2>2. Told(deferred, s)' = Told(deferred, s)
    BY <1>1
  <2>3. Told(channel', s) <=> Told(channel, s) \/ Tells(l, s)
    BY <1>1, <1>2, ToldOf
  <2>4. CASE Source(s) = x
    <3>1. Told(pipe[x], s) => Tells(l, s) \/ Told(pipe'[x], s)
      BY <1>1, <1>2, <1>4, ToldOf DEF l
    <3>2. Queued(s) <=> Told(deferred, s) \/ Told(channel, s) \/ Told(pipe[x], s)
      BY <2>4 DEF Queued
    <3>3. Queued(s)' <=> Told(deferred, s) \/ Told(channel', s) \/ Told(pipe'[x], s)
      BY <2>1, <2>2, <2>4 DEF Queued
    <3> QED
      BY <1>6, <2>3, <3>1, <3>2, <3>3
  <2>5. CASE Source(s) # x
    <3> DEFINE y == Source(s)
    <3>1. y' = y /\ pipe'[y] = pipe[y]
      BY <1>4, <2>1, <2>5
    <3>2. Queued(s) <=> Told(deferred, s) \/ Told(channel, s) \/ Told(pipe[y], s)
      BY DEF Queued
    <3>3. Queued(s)' <=> Told(deferred, s) \/ Told(channel', s) \/ Told(pipe'[y], s)
      BY <2>1, <2>2 DEF Queued
    <3> HIDE DEF y
    <3> QED
      BY <1>6, <2>3, <3>1, <3>2, <3>3
  <2> QED
    BY <2>4, <2>5
<1>7. \A i \in DOMAIN channel' : channel'[i] = l \/ \E j \in DOMAIN channel : channel'[i] = channel[j]
  BY <1>1, <1>2, AppendMembers
<1>8. ASSUME Working'
      PROVE  \A h : (\E i \in DOMAIN Output' : h = Output'[i]) \/ (\E i \in DOMAIN channel' : h = channel'[i])
               => \/ \E i \in DOMAIN Output : h = Output[i]
                  \/ \E i \in DOMAIN channel : h = channel[i]
                  \/ h.type # "end"
  <2>1. CASE x = primary
    <3>1. Output = pipe[x] /\ Output' = Tail(pipe[x])
      BY <1>1, <1>4, <2>1 DEF Output
    <3> QED
      BY <1>2, <1>3, <1>7, <3>1
  <2>2. CASE x # primary
    <3>1. Output' = Output
      BY <1>1, <1>4, <2>2 DEF Output, Good, Clients
    <3>2. l.type # "end"
      BY <1>1, <1>2, <2>2 DEF Good, Silence, Plain
    <3> QED
      BY <1>7, <3>1, <3>2
  <2> QED
    BY <2>1, <2>2
<1> QED
  BY <1>1, <1>5, <1>6, <1>8, LinesQuiet

LEMMA ExecuteQuiet ==
  ASSUME Shape, EventInv, Good, Quieted, NEW k \in Conns, Execute(k)
  PROVE  Quieted'
<1> DEFINE scope == Head(written[k])
           a == Answer("begin", k, scope, Rows(scope))
<1>1. /\ Attached(k) /\ written[k] # <<>>
      /\ UNCHANGED <<world, view, batch, todo, pc, primary, enabled, client, deaf, deferred, channel>>
  BY DEF Execute, tmux, broker, snapshot, refresh
<1>2. PICK type \in {"end", "error"} :
        pipe' = [pipe EXCEPT ![k] = @ \o <<a, Answer(type, k, scope, Rows(scope))>>]
  BY DEF Execute
<1> DEFINE b == Answer(type, k, scope, Rows(scope))
<1>3. k = primary
  BY <1>1 DEF Good, Clients
<1>4. /\ IsSequence(pipe[k]) /\ pipe'[k] = pipe[k] \o <<a, b>>
      /\ \A y \in Conns \cup Others : y # k => pipe'[y] = pipe[y]
  BY <1>2 DEF Shape
<1>5. /\ a.type = "begin" /\ b.type \in {"end", "error"}
      /\ \A s \in Sessions : s \in DOMAIN b.rows => b.rows[s] = world[s]
  BY DEF Answer, Rows
<1> HIDE DEF a, b
<1>6. Working' => Working
  BY <1>1 DEF Working, Attached, Heard
<1>7. ASSUME NEW s \in Sessions, Queued(s)
      PROVE  Queued(s)'
  <2> DEFINE y == Source(s)
  <2>1. y \in Conns \cup Others /\ y' = y
    BY <1>1 DEF Source, Good, Clients, Sessions
  <2>2. Told(pipe[y], s) => Told(pipe'[y], s)
    <3>1. CASE y = k
      <4>1. Told(pipe[k], s) => Told(pipe[k] \o <<a, b>>, s)
        BY <1>4, ToldOf
      <4> HIDE DEF y
      <4> QED
        BY <1>4, <3>1, <4>1
    <3>2. CASE y # k
      <4> HIDE DEF y
      <4> QED
        BY <1>4, <2>1, <3>2
    <3> QED
      BY <3>1, <3>2
  <2>3. Queued(s) <=> Told(deferred, s) \/ Told(channel, s) \/ Told(pipe[y], s)
    BY DEF Queued
  <2>4. Queued(s)' <=> Told(deferred, s) \/ Told(channel, s) \/ Told(pipe'[y], s)
    BY <1>1, <2>1 DEF Queued
  <2> HIDE DEF y
  <2> QED
    BY <1>7, <2>2, <2>3, <2>4
<1>8. \A h : (\E i \in DOMAIN Output' : h = Output'[i]) \/ (\E i \in DOMAIN channel' : h = channel'[i])
        => \/ \E i \in DOMAIN Output : h = Output[i]
           \/ \E i \in DOMAIN channel : h = channel[i]
           \/ h.type = "end" => \A s \in Sessions : s \in DOMAIN h.rows => h.rows[s] = world[s]
  <2> DEFINE q == pipe[k]
             r == q \o <<a, b>>
  <2>1. /\ Len(q) \in Nat /\ DOMAIN q = 1 .. Len(q) /\ DOMAIN r = 1 .. Len(q) + 2
        /\ \A i \in DOMAIN q : r[i] = q[i]
        /\ r[Len(q) + 1] = a /\ r[Len(q) + 2] = b
    <3>1. IsSequence(q)
      BY <1>4
    <3> HIDE DEF q
    <3>2. Len(q) \in Nat /\ DOMAIN q = 1 .. Len(q)
      BY <3>1, SequenceDomain
    <3>3. /\ DOMAIN r = 1 .. Len(q) + 2 /\ \A i \in 1 .. Len(q) : r[i] = q[i]
          /\ r[Len(q) + 1] = a /\ r[Len(q) + 2] = b
      BY <3>1, SequencePair
    <3> HIDE DEF r
    <3> QED
      BY <3>2, <3>3
  <2>2. Output = q /\ Output' = r
    BY <1>1, <1>3, <1>4 DEF Output
  <2> HIDE DEF q, r
  <2>3. \A i \in DOMAIN r : r[i] = a \/ r[i] = b \/ \E j \in DOMAIN q : r[i] = q[j]
    BY <2>1
  <2> QED
    BY <1>1, <1>5, <2>2, <2>3
<1> QED
  BY <1>1, <1>6, <1>7, <1>8, LinesQuiet

\* What a listing that is read leaves to be listed.
LEMMA ReadQuiet ==
  ASSUME Shape, Orders, NothingForgotten, todo # <<>>, pc \in {"refresh", "collect", "fallback"},
         NEW rows, Read(rows), UNCHANGED world, Working' => Working,
         DOMAIN rows = (IF Asked = All THEN Sessions ELSE {Asked}),
         \A s \in Sessions : Queued(s) => Queued(s)',
         Working' => \A s \in Sessions : s \in DOMAIN rows => rows[s] = world[s] \/ Queued(s)
  PROVE  Quieted'
<1>1. todo' = Tail(todo) /\ pc' = "refresh" /\ view' = Adopt(Asked, rows)
  BY DEF Read
<1>2. ASSUME Working', NEW s \in Sessions
      PROVE  view'[s] = world[s] \/ Queued(s)' \/ Due(s)'
  <2>1. CASE s \in DOMAIN rows
    <3>1. view'[s] = rows[s]
      BY <1>1, <2>1 DEF Adopt
    <3> QED
      BY <1>2, <2>1, <3>1
  <2>2. CASE s \notin DOMAIN rows
    <3>1. Asked \notin {s, All}
      BY <2>2
    <3>2. view'[s] = view[s]
      BY <1>1, <2>2, <3>1 DEF Adopt
    <3>3. view[s] = world[s] \/ Queued(s) \/ Due(s)
      BY <1>2 DEF NothingForgotten
    <3>4. Due(s) => Lists(todo, s)
      BY DEF Due
    <3>5. Lists(todo, s) => Lists(todo', s)
      <4>1. Lists(todo, s) => Head(todo) \in {s, All} \/ Lists(Tail(todo), s)
        BY ListsOf DEF Orders
      <4> QED
        BY <1>1, <3>1, <4>1 DEF Asked
    <3>6. Lists(todo', s) => Due(s)'
      BY <1>1 DEF Due
    <3> QED
      BY <1>2, <3>2, <3>3, <3>4, <3>5, <3>6
  <2> QED
    BY <2>1, <2>2
<1> QED
  BY <1>1, <1>2 DEF Quieted, NothingForgotten, AnswersHonest

LEMMA CollectAnswerQuiet ==
  ASSUME Shape, EventInv, Good, Orders, Quieted, CollectAnswer
  PROVE  Quieted'
<1> DEFINE l == Head(channel)
           isAnswer == IsPrimary(l) /\ l.type \in {"begin", "end", "error"}
<1>1. /\ pc = "collect" /\ channel # <<>> /\ channel' = Tail(channel)
      /\ UNCHANGED <<world, client, pipe, deaf, primary, batch, Output>>
  BY DEF CollectAnswer, tmux, budgets, Output
<1>2. IsSequence(channel) /\ IsSequence(deferred) /\ 1 \in DOMAIN channel /\ l = channel[1]
  BY <1>1, SequenceDomain, SequenceTail DEF Shape, EventInv
<1>3. \A i \in DOMAIN channel' : \E j \in DOMAIN channel : channel'[i] = channel[j]
  BY <1>1, <1>2, TailMembers
<1>4. todo # <<>>
  BY <1>1 DEF Orders
<1>5. ASSUME NEW s \in Sessions, Queued(s), Tells(l, s) => deferred' = Append(deferred, l),
             deferred' = deferred \/ deferred' = Append(deferred, l)
      PROVE  Queued(s)'
  <2>1. Told(channel, s) => Tells(l, s) \/ Told(channel', s)
    BY <1>1, <1>2, ToldOf
  <2>2. Told(Append(deferred, l), s) <=> Told(deferred, s) \/ Tells(l, s)
    BY <1>2, ToldOf
  <2>3. Told(pipe[Source(s)], s)' = Told(pipe[Source(s)], s)
    BY <1>1 DEF Source, Told
  <2> HIDE DEF l
  <2> QED
    BY <1>5, <2>1, <2>2, <2>3 DEF Queued
<1>6. CASE \/ l.type = "fatal"
           \/ isAnswer /\ active # NoConn /\ ~(l.type = "end" /\ active = l.from)
  <2>1. l.type = "fatal" => ~isAnswer
    OBVIOUS
  <2>2. enabled' = FALSE /\ pc' = "fallback"
    BY <1>6, <2>1 DEF CollectAnswer, BrokerFails
  <2> QED
    BY <2>2 DEF Quieted, NothingForgotten, AnswersHonest, Working
<1>7. CASE \/ l.type # "fatal" /\ ~isAnswer
           \/ isAnswer /\ active = NoConn
  <2>1. /\ UNCHANGED <<enabled, pc, view, todo>>
        /\ deferred' = deferred \/ deferred' = Append(deferred, l)
        /\ ~isAnswer => deferred' = Append(deferred, l)
    <3>1. CASE l.type # "fatal" /\ ~isAnswer
      BY <3>1 DEF CollectAnswer
    <3>2. CASE isAnswer /\ active = NoConn
      BY <3>2 DEF CollectAnswer
    <3> QED
      BY <1>7, <3>1, <3>2
  <2>2. \A s : Tells(l, s) => ~isAnswer
    BY DEF Tells
  <2>3. \A s \in Sessions : Queued(s) => Queued(s)'
    BY <1>5, <2>1, <2>2
  <2>4. Working' => Working
    BY <1>1, <2>1 DEF Working, Attached, Heard
  <2> HIDE DEF l, isAnswer
  <2>5. \A h : (\E i \in DOMAIN Output' : h = Output'[i]) \/ (\E i \in DOMAIN channel' : h = channel'[i])
          => \/ \E i \in DOMAIN Output : h = Output[i]
             \/ \E i \in DOMAIN channel : h = channel[i]
    BY <1>1, <1>3
  <2> QED
    BY <1>1, <2>1, <2>3, <2>4, <2>5, LinesQuiet
<1>8. CASE isAnswer /\ active # NoConn /\ l.type = "end" /\ active = l.from
  <2>1. Read(l.rows) /\ UNCHANGED <<enabled, deferred>>
    BY <1>8 DEF CollectAnswer
  <2>2. \A s \in Sessions : Queued(s) => Queued(s)'
    BY <1>5, <1>8, <2>1 DEF Tells
  <2>3. Working' => Working
    BY <1>1, <2>1 DEF Working, Attached, Heard, Ending
  <2>4. Fresh(l, Awaited)
    <3>1. ~Calm(l, primary) /\ Awaited.conn = primary /\ NoConn # active
      BY <1>8, AwaitedIs DEF Calm, Plain
    <3>2. BeginRead \/ EndToRead
      BY <1>1, <1>8 DEF Good, Answers, Awaiting, NotExecuted, Executed, BeginForwarded, EndForwarded
    <3>3. ~AllCalm(channel, primary)
      BY <1>2, <3>1 DEF AllCalm
    <3>4. OneCloses(channel, Awaited)
      BY <3>2, <3>3 DEF BeginRead, EndToRead
    <3>5. Closes(l, Awaited)
      BY <1>1, <1>2, <3>1, <3>4, TailAnswer
    <3> QED
      BY <3>5 DEF Closes
  <2>5. DOMAIN l.rows = (IF Asked = All THEN Sessions ELSE {Asked})
    BY <2>4, AwaitedIs DEF Fresh
  <2>6. Working' => \A s \in Sessions : s \in DOMAIN l.rows => l.rows[s] = world[s] \/ Queued(s)
    <3>1. Working => Current(l)
      BY <1>1, <1>2 DEF Quieted, AnswersHonest, Honest
    <3> QED
      BY <1>8, <2>3, <3>1 DEF Current
  <2> QED
    BY <1>1, <1>4, <2>1, <2>2, <2>3, <2>5, <2>6, ReadQuiet DEF Quieted
<1> QED
  BY <1>6, <1>7, <1>8

\* The loop between two refreshes: what a line calls for is due once it is taken.
LEMMA LoopQuiet ==
  ASSUME Shape, EventInv, Good, Orders, Quieted,
         IntervalReconcile \/ HandleFocus \/ CollectBatch \/ ApplyBatch
  PROVE  Quieted'
<1>1. /\ UNCHANGED <<world, view, client, deaf, primary, enabled, pipe>>
      /\ pc \in {"idle", "batch"} /\ pc' \in {"batch", "refresh"}
  BY DEF IntervalReconcile, HandleFocus, CollectBatch, ApplyBatch, StartRefresh, tmux, lines, broker, snapshot
<1>2. Working' => Working
  BY <1>1 DEF Working, Attached, Heard, Ending
<1> SUFFICES ASSUME Working', NEW s \in Sessions, Queued(s) \/ Due(s)
             PROVE  Queued(s)' \/ Due(s)'
  BY <1>1, <1>2 DEF Quieted, NothingForgotten, AnswersHonest
<1>3. Due(s) => pc = "batch" /\ (batch.full \/ s \in batch.scopes)
  BY <1>1 DEF Due
<1>4. ASSUME pc' = "refresh", Lists(todo', s)
      PROVE  Due(s)'
  BY <1>4 DEF Due
<1>5. CASE IntervalReconcile
  <2>1. Lists(<<All>>, s)
    BY ListsOf
  <2> QED
    BY <1>4, <1>5, <2>1 DEF IntervalReconcile, StartRefresh
<1>6. CASE HandleFocus
  <2>1. pc = "idle" /\ Pending /\ TakeLine /\ pc' = "refresh"
    BY <1>6 DEF HandleFocus, StartRefresh
  <2>2. Queued(s)' \/ Tells(NextLine, s)
    BY <1>1, <1>3, <2>1, QueuedLines
  <2>3. CASE Tells(NextLine, s)
    <3>1. PICK listings \in {<<NextLine.scope>>, <<All>>, <<NextLine.scope, All>>} : todo' = listings
      BY <1>6 DEF HandleFocus, StartRefresh
    <3>2. NextLine.scope \in {s, All} /\ All \in {s, All}
      BY <2>3 DEF Tells
    <3>3. Lists(<<NextLine.scope>>, s) /\ Lists(<<All>>, s) /\ Lists(<<NextLine.scope, All>>, s)
      BY <3>2, ListsOf
    <3> QED
      BY <1>4, <2>1, <3>1, <3>3
  <2> QED
    BY <2>2, <2>3
<1>7. CASE CollectBatch
  <2>1. Pending /\ TakeLine /\ batch' = Absorb(batch, NextLine) /\ pc' = "batch"
    BY <1>7 DEF CollectBatch
  <2>2. Queued(s) => Queued(s)' \/ Tells(NextLine, s)
    BY <1>1, <2>1, QueuedLines
  <2>3. batch.full \/ s \in batch.scopes \/ Tells(NextLine, s) => batch'.full \/ s \in batch'.scopes
    BY <2>1, AbsorbIs DEF Orders
  <2> QED
    BY <1>3, <2>1, <2>2, <2>3 DEF Due
<1>8. CASE ApplyBatch
  <2>1. /\ pc' = "refresh" /\ todo' = Listings(batch)
        /\ UNCHANGED <<deferred, channel>> \/ (Pending /\ DeferLine)
    BY <1>8 DEF ApplyBatch, StartRefresh
  <2>2. batch.full \/ s \in batch.scopes => Lists(todo', s)
    BY <2>1, BatchLists DEF Orders
  <2>3. Queued(s) => Queued(s)'
    <3>1. CASE UNCHANGED <<deferred, channel>>
      BY <1>1, <3>1 DEF Queued, Told, Source
    <3>2. CASE Pending /\ DeferLine
      BY <1>1, <3>2, QueuedLines
    <3> QED
      BY <2>1, <3>1, <3>2
  <2> QED
    BY <1>3, <1>4, <2>1, <2>2, <2>3
<1> QED
  BY <1>5, <1>6, <1>7, <1>8

\* The rest of a refresh, with the broker in use: a listing is read, asked for again in
\* full, or asked for after the client was replaced.
LEMMA RefreshQuiet ==
  ASSUME Shape, EventInv, Good, Orders, Quieted,
         WriteCommand \/ FallbackRead \/ FallbackFails \/ FinishReading \/ SwapClient \/ Publish
  PROVE  Quieted'
<1> USE DEF tmux, lines, broker, snapshot, refresh, budgets
<1>1. /\ UNCHANGED <<world, pipe, channel, deferred>>
      /\ SwapClient \/ UNCHANGED <<client, deaf, primary>>
  BY DEF WriteCommand, FallbackRead, FallbackFails, FinishReading, SwapClient, Publish
<1>2. ASSUME ~SwapClient
      PROVE  \A s \in Sessions : Queued(s)' <=> Queued(s)
  BY <1>1, <1>2 DEF Queued, Told, Source
<1>3. ASSUME ~SwapClient, UNCHANGED enabled, pc \notin Ending
      PROVE  Working' => Working
  BY <1>1, <1>3 DEF Working, Attached, Heard
<1>4. CASE WriteCommand
  <2>1. pc = "refresh" /\ UNCHANGED <<view, todo>>
    BY <1>4 DEF WriteCommand
  <2>2. CASE ~Attached(primary)
    <3>1. ~enabled'
      BY <1>4, <2>2 DEF WriteCommand, BrokerFails
    <3> QED
      BY <3>1 DEF Quieted, NothingForgotten, AnswersHonest, Working
  <2>3. CASE Attached(primary)
    <3>1. pc' = "collect" /\ UNCHANGED <<enabled, client, deaf, primary>> /\ ~SwapClient
      BY <1>4, <2>1, <2>3 DEF WriteCommand, SwapClient
    <3>2. Working' => Working
      BY <1>3, <2>1, <3>1 DEF Ending
    <3>3. \A s : Due(s)' <=> Due(s)
      BY <2>1, <3>1 DEF Due
    <3>4. NothingForgotten'
      BY <1>1, <1>2, <2>1, <3>1, <3>2, <3>3 DEF Quieted, NothingForgotten
    <3>5. AnswersHonest'
      <4> SUFFICES ASSUME Working' PROVE Honest(Output)' /\ Honest(channel)'
        BY DEF AnswersHonest
      <4>1. AllCalm(channel, primary) /\ AllCalm(Output, primary) /\ Output' = Output
        BY <1>1, <2>1, <3>1, <3>2 DEF Good, Answers, NotAwaiting, Working, Output
      <4>2. /\ \A i \in DOMAIN channel : channel[i].type # "end"
            /\ \A i \in DOMAIN Output : Output[i].type # "end"
        BY <4>1 DEF AllCalm, Calm, Plain
      <4> QED
        BY <1>1, <4>1, <4>2 DEF Honest, Current
    <3> QED
      BY <3>4, <3>5 DEF Quieted
  <2> QED
    BY <2>2, <2>3
<1>5. CASE FallbackRead
  <2>1. /\ pc \in {"refresh", "fallback"} /\ todo # <<>> /\ Read(Rows(Asked))
        /\ UNCHANGED enabled /\ ~SwapClient
    BY <1>5 DEF FallbackRead, FallsBack, Orders, SwapClient
  <2>2. Working' => Working
    BY <1>3, <2>1 DEF Ending
  <2>3. /\ DOMAIN Rows(Asked) = (IF Asked = All THEN Sessions ELSE {Asked})
        /\ \A s \in Sessions : s \in DOMAIN Rows(Asked) => Rows(Asked)[s] = world[s]
    BY DEF Rows
  <2> QED
    BY <1>1, <1>2, <2>1, <2>2, <2>3, ReadQuiet DEF Quieted
<1>6. CASE FallbackFails
  <2>1. /\ pc \in {"refresh", "fallback"} /\ todo # <<>> /\ UNCHANGED enabled /\ ~SwapClient
        /\ UNCHANGED view
        /\ \/ pc' = "refresh" /\ todo' = <<All>> \o Tail(todo)
           \/ pc' = "terminate"
    BY <1>6 DEF FallbackFails, FallsBack, Orders, SwapClient
  <2>2. CASE pc' = "terminate"
    BY <2>2 DEF Quieted, NothingForgotten, AnswersHonest, Working, Ending
  <2>3. CASE pc' = "refresh" /\ todo' = <<All>> \o Tail(todo)
    <3>1. \A s : Lists(todo', s)
      BY <2>1, <2>3, ListsOf DEF Orders
    <3> QED
      BY <2>3, <3>1 DEF Quieted, NothingForgotten, AnswersHonest, Due
  <2> QED
    BY <2>1, <2>2, <2>3
<1>7. CASE FinishReading
  <2>1. /\ pc = "refresh" /\ todo = <<>> /\ UNCHANGED <<enabled, view>> /\ ~SwapClient
        /\ pc' \in {"recover", "publish"}
    BY <1>7 DEF FinishReading, SwapClient
  <2>2. \A s : ~Due(s)
    BY <2>1, EmptySequence DEF Due, Lists
  <2>3. Working' => Working
    BY <1>3, <2>1 DEF Ending
  <2> QED
    BY <1>1, <1>2, <2>1, <2>2, <2>3 DEF Quieted, NothingForgotten, AnswersHonest
<1>8. CASE SwapClient
  <2>1. pc' = "refresh" /\ todo' = <<All>>
    BY <1>8 DEF SwapClient, BootstrapListing
  <2>2. \A s : Lists(<<All>>, s)
    BY ListsOf
  <2> QED
    BY <2>1, <2>2 DEF Quieted, NothingForgotten, AnswersHonest, Due
<1>9. CASE Publish
  <2>1. /\ pc = "publish" /\ UNCHANGED <<enabled, view>> /\ ~SwapClient
        /\ pc' \in {"idle", "shutdown"}
    BY <1>9 DEF Publish, SwapClient
  <2>2. \A s : ~Due(s)
    BY <2>1 DEF Due
  <2>3. Working' => Working
    BY <1>3, <2>1 DEF Ending
  <2> QED
    BY <1>1, <1>2, <2>1, <2>2, <2>3 DEF Quieted, NothingForgotten, AnswersHonest
<1> QED
  BY <1>4, <1>5, <1>6, <1>7, <1>8, <1>9

\* The steps that leave the broker out of use, or the loop at its end.
LEMMA IdleQuiet ==
  ASSUME Orders, Quieted,
         \/ HandleFatal \/ NoticeDeadPrimary \/ NoticeRequest \/ CommandTimesOut \/ DrainChannel
         \/ StartClient \/ StartFails \/ Shutdown \/ ExitSeen \/ KillClients \/ Terminate
         \/ UNCHANGED vars
  PROVE  Quieted'
<1> USE DEF tmux, lines, broker, snapshot, refresh, budgets
<1>1. CASE Terminate \/ UNCHANGED vars
  <2>1. UNCHANGED <<world, client, pipe, deaf, channel, deferred, primary, enabled, view, pc, batch, todo>>
    BY <1>1 DEF Terminate, vars
  <2>2. /\ UNCHANGED Working /\ \A s : UNCHANGED <<Queued(s), Due(s)>>
        /\ Honest(Output)' = Honest(Output) /\ Honest(channel)' = Honest(channel)
    BY <2>1 DEF Working, Queued, Due, Told, Source, Attached, Heard, Honest, Current, Output
  <2> QED
    BY <2>1, <2>2 DEF Quieted, NothingForgotten, AnswersHonest
<1>2. CASE \/ HandleFatal \/ NoticeDeadPrimary \/ NoticeRequest \/ Shutdown \/ ExitSeen \/ KillClients
  <2>1. pc' \in Ending
    BY <1>2 DEF HandleFatal, NoticeDeadPrimary, NoticeRequest, Shutdown, ExitSeen, KillClients, Ending
  <2> QED
    BY <2>1 DEF Quieted, NothingForgotten, AnswersHonest, Working
<1>3. CASE CommandTimesOut \/ DrainChannel \/ StartClient \/ StartFails
  <2>1. ~enabled'
    BY <1>3 DEF CommandTimesOut, BrokerFails, DrainChannel, StartClient, StartFails, Orders
  <2> QED
    BY <2>1 DEF Quieted, NothingForgotten, AnswersHonest, Working
<1> QED
  BY <1>1, <1>2, <1>3

LEMMA QuietInit == Init => QuietInv
<1> SUFFICES ASSUME Init PROVE QuietInv
  OBVIOUS
<1>1. BrokerInv /\ EventInv
  BY BrokerInit, EventInit
<1>2. IsSequence(<<>>) /\ IsFiniteSet({})
  BY EmptySequence, FS_EmptySet
<1>3. Orders
  BY <1>2 DEF Init, Orders, NoBatch
<1>4. SentOut
  BY DEF Init, SentOut, Ending
<1>5. NothingForgotten /\ AnswersHonest
  BY DEF Init, NothingForgotten, AnswersHonest
<1> QED
  BY <1>1, <1>3, <1>4, <1>5 DEF QuietInv, Sound

LEMMA QuietStep == QuietInv /\ [Next]_vars => QuietInv'
<1> SUFFICES ASSUME QuietInv, [Next]_vars PROVE QuietInv'
  OBVIOUS
<1>1. Shape /\ BrokerInv /\ EventInv /\ Orders /\ SentOut
  BY DEF QuietInv, Sound, BrokerInv
<1>2. BrokerInv' /\ EventInv' /\ Orders' /\ SentOut'
  BY <1>1, BrokerStep, EventStep, OrdersStep
<1>3. ASSUME ~AnsweredLate'
      PROVE  Quieted'
  <2>1. ~AnsweredLate
    BY <1>3, MishapsGrow DEF AnsweredLate
  <2>2. Good /\ Quieted
    BY <1>1, <2>1 DEF QuietInv, BrokerInv, Quieted
  <2>3. CASE (\E s \in Sessions : Change(s)) \/ (\E k \in Conns : Detach(k) \/ ClientDies(k)) \/ ServerEnds
    BY <1>1, <2>2, <2>3, WorldQuiet
  <2>4. CASE \E s \in Sessions : SendFocus(s)
    BY <1>1, <2>2, <2>4, SendFocusQuiet
  <2>5. CASE \E k \in Conns : Execute(k)
    BY <1>1, <2>2, <2>5, ExecuteQuiet
  <2>6. CASE \E k \in Conns : ReadFails(k)
    BY <1>1, <1>3, <2>2, <2>6, ReadFailsQuiet
  <2>7. CASE \E x \in Conns \cup Others : Forward(x)
    BY <1>1, <2>2, <2>7, ForwardQuiet
  <2>8. CASE IntervalReconcile \/ HandleFocus \/ CollectBatch \/ ApplyBatch
    BY <1>1, <2>2, <2>8, LoopQuiet
  <2>9. CASE CollectAnswer
    BY <1>1, <2>2, <2>9, CollectAnswerQuiet
  <2>10. CASE WriteCommand \/ FallbackRead \/ FallbackFails \/ FinishReading \/ SwapClient \/ Publish
    BY <1>1, <2>2, <2>10, RefreshQuiet
  <2>11. CASE \/ HandleFatal \/ NoticeDeadPrimary \/ NoticeRequest \/ CommandTimesOut \/ DrainChannel
              \/ StartClient \/ StartFails \/ Shutdown \/ ExitSeen \/ KillClients \/ Terminate
              \/ UNCHANGED vars
    BY <1>1, <2>2, <2>11, IdleQuiet
  <2> QED
    BY <2>3, <2>4, <2>5, <2>6, <2>7, <2>8, <2>9, <2>10, <2>11 DEF Next, Receive, Refresh
<1> QED
  BY <1>2, <1>3 DEF QuietInv, Sound, Quieted

LEMMA QuietInvImplies == QuietInv => QuietMeansCurrent
<1> SUFFICES ASSUME QuietInv, Quiet, ~AnsweredLate
             PROVE  published = world
  BY DEF QuietMeansCurrent
<1>1. /\ pc = "idle" /\ deferred = <<>> /\ channel = <<>> /\ enabled /\ Attached(primary)
      /\ Heard /\ pipe[primary] = <<>> /\ \A s \in Others : pipe[s] = <<>>
  BY DEF Quiet, Pending, Heard
<1>2. Working
  BY <1>1 DEF Working, Ending
<1>3. \A s \in Sessions : pipe[Source(s)] = <<>>
  BY <1>1 DEF Source, Sessions
<1>4. \A s \in Sessions : ~Queued(s) /\ ~Due(s)
  BY <1>1, <1>3, ToldOf DEF Queued, Due
<1>5. \A s \in Sessions : view[s] = world[s]
  BY <1>2, <1>4 DEF QuietInv, NothingForgotten
<1>6. view \in [Sessions -> Nat] /\ world \in [Sessions -> Nat]
  BY DEF QuietInv, Sound, BrokerInv, Good, Known, Shape
<1>7. view = world
  BY <1>5, <1>6
<1>8. published = view
  BY <1>1 DEF QuietInv, Sound, SentOut, Ending
<1> QED
  BY <1>7, <1>8

\* With a working broker, an idle loop and no event on its way, consumers have been sent
\* tmux's present state: whatever came during a listing, with an answer, in a batch or while
\* the client was being replaced has been listed again.
THEOREM QuietIsAlwaysCurrent == Spec => []QuietMeansCurrent
BY QuietInit, QuietStep, QuietInvImplies, PTL DEF Spec
====
