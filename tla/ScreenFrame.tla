----------------------------- MODULE ScreenFrame -----------------------------
(***************************************************************************)
(* A captured screen and the questions every matcher of                    *)
(* classify/pane_output asks of it.                                        *)
(*                                                                         *)
(* A line is abstracted to its kind, the shape a matcher recognizes it by, *)
(* and a predicate on lines to the set of the kinds it accepts; "blank" is *)
(* a line of white space, "text" one no matcher knows.  Positions count    *)
(* from 1, the code's from 0; 0 stands for the code's None, so that        *)
(* "is none, or before i" is one comparison.                               *)
(***************************************************************************)
EXTENDS Integers, Sequences, SequencesExt

Blank == {"blank"}

\* The last line at or before `to` of one of the kinds K; the last of the screen.
LastUpTo(s, to, K) == LET I == {i \in 1..to : s[i] \in K} IN IF I = {} THEN 0 ELSE Max(I)
LastOf(s, K) == LastUpTo(s, Len(s), K)
LastBefore(s, i, K) == LastUpTo(s, i - 1, K)

\* Some / every line among lo..hi, as far as the screen reaches.
SomeIn(s, lo, hi, K) == \E i \in lo..hi : i \in 1..Len(s) /\ s[i] \in K
EveryIn(s, lo, hi, K) == \A i \in lo..hi : i \in 1..Len(s) => s[i] \in K

\* The lines strictly between two positions, in either order.
GapIs(s, i, j, K) == EveryIn(s, (IF i < j THEN i ELSE j) + 1, (IF i < j THEN j ELSE i) - 1, K)

\* At most n lines from line i to the end, line i included.
InTail(s, i, n) == i \in 1..Len(s) /\ Len(s) - i < n

\* Nothing but lines of the kinds K below line i; some line of K below line i.
OnlyBelow(s, i, K) == EveryIn(s, i + 1, Len(s), K)
SomeBelow(s, i, K) == SomeIn(s, i + 1, Len(s), K)

\* The kind of the last line above i that is not blank ("none" if there is none).
NonblankAbove(s, i) ==
    LET j == SelectLastInSubSeq(s, 1, i - 1, LAMBDA l : l \notin Blank)
    IN  IF j = 0 THEN "none" ELSE s[j]

LastNonblank(s) == NonblankAbove(s, Len(s) + 1)

\* Panes are taller than what an agent draws: the blank rows below go first.
TrimTrailingBlank(s) ==
    SubSeq(s, 1, SelectLastInSeq(s, LAMBDA l : l \notin Blank))
==============================================================================
