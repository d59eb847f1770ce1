-------------------------- MODULE MCTerminalPicker --------------------------
(* The picker: four panes, three keys, and pages of two rows, of three, or *)
(* none. Or its cache of workspaces: four directories, one in the other,   *)
(* and the panes of two sessions. The two meet only in what a snapshot     *)
(* says of a pane's workspaces, which the picker's part leaves open, so    *)
(* one run checks both, each from initial states of its own.               *)
EXTENDS TerminalPicker, WorkspaceCache

VARIABLE subject

MCPanes == 1..4
MCKeys == 1..3
MCHeights == {2, 4}
MCPlaces == <<{2}, {1, 3}, {2}, {1, 2}>>
MCTexts == <<{0, 1}, {0}, {1}, {1}>>
MCGroupBys == {"session", "workspace"}
MCRecency == {4}
MCHints == {3}

MCDirs == {<<>>, <<"r">>, <<"r", "n">>, <<"r", "n", "x">>}
MCPanePlaces == {<<"a", <<>>>>, <<"a", <<"r", "n", "x">>>>, <<"b", <<"r">>>>, <<"b", <<"r", "n">>>>}
MCCommon == [d \in {<<"r", "n">>} |-> <<"w">>]

IdlePicker == groupBy = "session" /\ terminal = 4
IdleCache == grouping = "cwd" /\ \A d \in Dirs : git[d] = "none"

MCInit ==
  /\ PickerInit /\ WorkspaceInit
  /\ subject \in {"picker", "cache"}
  /\ (subject # "picker" => IdlePicker)
  /\ (subject # "cache" => IdleCache)

MCNext ==
  \/ subject = "picker" /\ PickerNext /\ UNCHANGED <<subject, workspaceVars>>
  \/ subject = "cache" /\ WorkspaceNext /\ UNCHANGED <<subject, pickerVars>>

MCSpec == MCInit /\ [][MCNext]_<<subject, pickerVars, workspaceVars>>
=============================================================================
