-------------------------- MODULE MCSnapshotStream --------------------------
(* Instances of SnapshotStream for TLC: a pane's encoded size is its          *)
(* material value plus its volatile value, so small numbers exercise every    *)
(* branch of publish_diff.                                                    *)
EXTENDS SnapshotStream, FiniteSetsExt

CONSTANTS p1, p2

MCPanes == {p1, p2}

Rec(m, v) == [mat |-> m, vol |-> v]
Two(a, b) == [p \in MCPanes |-> IF p = p1 THEN a ELSE b]

RecSize(r) == r.mat + r.vol

MCFullSize(s) == 1 + SumFunctionOnSet([p \in MCPanes |-> IF Present(s, p) THEN RecSize(s[p]) ELSE 0], MCPanes)

MCDiffSize(s, t) ==
  LET d == WireDiff(s, t) IN
  MCFullSize(d.changed) + Cardinality(d.removed)

MCOmittedGrowth(s, t) ==
  LET omitted == {p \in MCPanes : Present(t, p) /\ ~Present(WireDiff(s, t).changed, p)
                                  /\ t[p].vol > s[p].vol}
  IN SumFunctionOnSet([p \in MCPanes |-> IF p \in omitted THEN t[p].vol - s[p].vol ELSE 0], MCPanes)

\* Sizes from 2 to 10 around a limit of 7: volatile-only growth within it and
\* past it, and replacements whose diff is larger than the snapshot.
SizedSnapshots ==
  {Two(Rec(4, 0), Absent), Two(Rec(4, 3), Absent), Two(Rec(1, 2), Rec(2, 0)),
   Two(Rec(1, 0), Absent), Two(Rec(2, 3), Rec(2, 2)), Two(Absent, Rec(4, 2))}
=============================================================================
