----------------------------- MODULE Selections -----------------------------
(***************************************************************************)
(* Lists made of a list or of a set: what the code writes as a filter and  *)
(* as a sort.  They are functions over the places of the list, so that the *)
(* provers can unfold them.                                                *)
(***************************************************************************)
EXTENDS Integers, Sequences, FiniteSets

\* The elements of a set as a relation puts them before each other.
Ordered(S, before) ==
  [i \in 1..Cardinality(S) |->
     CHOOSE p \in S : Cardinality({q \in S : <<q, p>> \in before}) = i - 1]
Ascending(S) == Ordered(S, {pair \in S \X S : pair[1] < pair[2]})

\* The rows of a set, in their order.
Those(rows, S) ==
  LET upTo[i \in 0..Len(rows)] ==
        IF i = 0 THEN <<>>
        ELSE IF rows[i] \in S THEN Append(upTo[i - 1], rows[i]) ELSE upTo[i - 1]
  IN upTo[Len(rows)]
=============================================================================
