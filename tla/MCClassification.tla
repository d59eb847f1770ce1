-------------------------- MODULE MCClassification --------------------------
(* A pane whose programs are named here as they look to tmux and in the    *)
(* process table. Or the screen of an agent. Classification reads the      *)
(* first as rows and the second as captured text: no step of one changes   *)
(* the other, so one run checks both, each from initial states of its own. *)
EXTENDS PaneIdentity, Screens

VARIABLE subject

Proc(command, argv0, marks) == [command |-> command, argv0 |-> argv0, marks |-> marks]
T(glyph, sigs, label) == [glyph |-> glyph, sigs |-> sigs, label |-> label]
P(provider, command, process, env, titles) ==
  [agent |-> provider, command |-> command, process |-> process, env |-> env, titles |-> titles]

AllPrograms ==
  [shell |-> P(None, "shell", Proc("shell", "shell", {}), {}, {PlainTitle}),
   server |-> P(None, "node", Proc("node", "node", {}), {}, {PlainTitle}),
   script |-> P(None, "python", Proc("python", "python", {}), {}, {}),
   claude |-> P("Claude", "version", Proc("version", "claude", {"ClaudeBinary"}), {},
                {T("spinner", {}, "task"), T("idle", {"Claude"}, "Working on it")}),
   codex |-> P("Codex", "codex", Proc("codex", "codex", {}), {},
               {T("none", {}, "Ready")}),
   copilot |-> P("Copilot", "node", Proc("node", "node", {"CopilotArgument"}), {},
                 {T("none", {"Copilot"}, "Working")}),
   pi |-> P("Pi", "node", Proc("node", "node", {"PiArgument"}), {"PiVariable"},
            {T("none", {"PiMark"}, "task"), T("spinner", {"PiMark"}, "task")}),
   prime |-> P("Prime", "node", Proc("node", "primeagent", {}), {"PiVariable"},
               {T("none", {"Prime"}, "task")}),
   hermes |-> P("Hermes", "python", Proc("python", "python", {"HermesArgument"}), {}, {})]

\* A title of Pi outlives it.
Left == {T("none", {"PiMark"}, "task")}

AllNames == DOMAIN AllPrograms \ {"script", "codex"}

QuietScreen == agent = "Amp" /\ drawn = "Idle"

MCInit ==
  /\ PaneInit /\ ScreenInit
  /\ subject \in {"pane", "screen"}
  /\ subject # "screen" => QuietScreen

MCNext ==
  \/ subject = "pane" /\ PaneNext /\ UNCHANGED <<subject, screenVars>>
  \/ subject = "screen" /\ Older /\ UNCHANGED <<subject, paneVars>>

MCSpec == MCInit /\ [][MCNext]_<<subject, paneVars, screenVars>>
=============================================================================
