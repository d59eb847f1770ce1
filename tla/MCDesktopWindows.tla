-------------------------- MODULE MCDesktopWindows --------------------------
(* The profiles and their windows: one or two remote sources, two hosts,   *)
(* and a start with either. Or the dock's rows: two folders with the same  *)
(* three panes. What the two share (which folders are open, and by which   *)
(* connection) each leaves open, so one run checks both, each from initial *)
(* states of its own.                                                      *)
EXTENDS DesktopWindows, RowActivation
CONSTANTS a, b, h1, h2
VARIABLE subject

Remote(id, h) == [SshProfile(id) EXCEPT !.host = h]
State(active, profiles, open) == [active |-> active, profiles |-> profiles, open |-> open]

MCSshIds == {a, b}
MCHosts  == {h1, h2}

OnlyLocal == State(LocalId, <<LocalProfile>>, {LocalId})
OneRemote == State(a, <<LocalProfile, Remote(a, h1)>>, {LocalId, a})
TwoRemote == State(LocalId, <<LocalProfile, Remote(a, h1), Remote(b, h2)>>, {a})

Begins(s, f, d, t, p, x) ==
    [stored |-> s, focused |-> f,
     budget |-> [dock |-> d, settings |-> t, probes |-> p, faults |-> x]]

MCStarts == { Begins(OnlyLocal, TRUE, 0, 3, 1, 1), Begins(OneRemote, TRUE, 1, 3, 0, 1),
              Begins(TwoRemote, TRUE, 2, 0, 1, 0), Begins(OneRemote, TRUE, 1, 1, 2, 0),
              Begins(TwoRemote, TRUE, 0, 2, 1, 0), Begins(OneRemote, TRUE, 0, 2, 2, 0),
              Begins(TwoRemote, FALSE, 1, 1, 1, 0), Begins(OnlyLocal, TRUE, 0, 0, 0, 0) }

MCFolders == <<a, b>>
Frame(rows, p) == [rows |-> rows, focused |-> p]
MCFrames == {Frame({1, 2, 3}, 1), Frame({1, 2, 3}, 3), Frame({1, 3}, NoRow),
             Frame({}, NoRow)}

MCInit ==
  /\ subject \in {"windows", "rows"}
  /\ Init /\ RowsInit
  /\ subject # "rows" => openFolders = Sources
  /\ subject # "windows" => budget = [dock |-> 0, settings |-> 0, probes |-> 0, faults |-> 0]

MCNext ==
  \/ subject = "windows" /\ Next /\ UNCHANGED <<subject, rowVars>>
  \/ subject = "rows" /\ RowsNext /\ UNCHANGED <<subject, vars>>

MCSpec == MCInit /\ [][MCNext]_<<subject, vars, rowVars>>
=============================================================================
