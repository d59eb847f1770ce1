------------------------- MODULE PaneClassification -------------------------
(* What one pane is taken for: the provider, where the knowledge comes from,  *)
(* the status and the label a row of tmux gives, with the process table where *)
(* the row does not settle it.                                                *)
(*                                                                            *)
(* A title is a leading glyph, the signatures its text has and a label. A     *)
(* process is its command, the basename of argv[0], the shapes its arguments  *)
(* and executable match, and the agents' variables in its environment.        *)
EXTENDS Naturals, Sequences

None == "none"

\* The first of some places in a sequence.
First(places) == CHOOSE i \in places : \A j \in places : i <= j

Glyphs == {"none", "spinner", "idle", "working", "robot", "gemini"}
Signatures == {"Claude", "Opencode", "Codex", "Copilot", "CursorCli", "PiMark", "PiPlain",
               "Grok", "Droid", "Prime", "Gemini", "GeminiWord"}
Labels == {"task", "Ready", "Working", "Waiting", "Action Required", "Working on it"}

\* command_aliases
AliasOf ==
  [codex |-> "Codex", claude |-> "Claude", aider |-> "Aider", gemini |-> "Gemini",
   agy |-> "Antigravity", opencode |-> "Opencode", copilot |-> "Copilot", cursor |-> "CursorCli",
   picodingagent |-> "Pi", grok |-> "Grok", hermes |-> "Hermes", droid |-> "Droid",
   kimi |-> "KimiCode", primeagent |-> "Prime"]

Aliases == DOMAIN AliasOf
ProviderFromCommand(c) == IF c \in Aliases THEN AliasOf[c] ELSE None

-----------------------------------------------------------------------------
(* Titles                                                                    *)

\* What is left of the signatures behind the glyph: spinner and idle glyphs are
\* taken off for everybody, the working glyph for Claude only. Signatures at the
\* end of a title, or anywhere in it, need nothing taken off.
Visible(t) ==
  CASE t.glyph \in {"none", "spinner", "idle", "gemini"} -> t.sigs
    [] t.glyph = "working" -> t.sigs \cap {"Claude", "Codex", "Grok", "GeminiWord"}
    [] OTHER -> t.sigs \cap {"Codex", "Grok", "GeminiWord"}

Spinner(t) == t.glyph = "spinner"

Hint(p, strong, explicit) == [provider |-> p, strong |-> strong, explicit |-> explicit]
NoHint == Hint(None, FALSE, FALSE)

\* PROVIDER_TITLE_SPECS: the first signature of this list decides.
HintOrder == <<"Claude", "Opencode", "Codex", "Copilot", "CursorCli", "PiMark", "PiPlain",
               "Grok", "Droid", "Prime", "Gemini", "GeminiWord">>

HintFor(sig, t) ==
  CASE sig \in {"Claude", "Opencode", "Codex", "Prime", "Gemini"} -> Hint(sig, TRUE, TRUE)
    [] sig \in {"Copilot", "CursorCli", "Droid"} -> Hint(sig, FALSE, TRUE)
    [] sig = "PiMark" -> Hint("Pi", TRUE, TRUE)
    [] sig = "PiPlain" -> Hint("Pi", Spinner(t), TRUE)
    [] sig = "Grok" -> Hint("Grok", Spinner(t), TRUE)
    [] OTHER -> Hint("Gemini", FALSE, FALSE)

TitleHint(t) ==
  LET present == {i \in DOMAIN HintOrder : HintOrder[i] \in Visible(t)}
  IN IF present = {} THEN NoHint ELSE HintFor(HintOrder[First(present)], t)

\* The title names another agent than the one the pane was found to run.
Conflicts(p, matched, t) ==
  LET hint == TitleHint(t)
  IN /\ matched # "PaneTitle"
     /\ hint.explicit
     /\ hint.strong \/ hint.provider \in {"Copilot", "CursorCli", "Droid"}
     /\ hint.provider # p

RunState(label) == CASE label \in {"Working", "Waiting"} -> "Busy"
                     [] label = "Ready" -> "Idle"
                     [] OTHER -> None

ReadyWorking(label) == IF label = "Waiting" THEN None ELSE RunState(label)

LabelStatus(sig, t) == IF sig \in Visible(t) THEN RunState(t.label) ELSE None

ClaudeTitleStatus(t) ==
  CASE LabelStatus("Claude", t) = "Busy" \/ t.glyph \in {"spinner", "working"} -> "Busy"
    [] LabelStatus("Claude", t) # "Busy" /\ t.glyph = "idle" ->
         IF "Claude" \in Visible(t) /\ t.label = "Working on it" THEN None ELSE "Idle"
    [] OTHER -> LabelStatus("Claude", t)

\* Any segment of a Codex title may be its state, whoever's prefix is before it.
Segmented(t) ==
  /\ t.sigs \subseteq {"Codex", "Claude", "Opencode", "Copilot", "CursorCli"}
  /\ t.sigs \subseteq {"Codex"} => t.glyph \in {"none", "idle"}

CodexTitleStatus(t) ==
  CASE Spinner(t) \/ (Segmented(t) /\ t.label = "Action Required") -> "Busy"
    [] ~Spinner(t) /\ Segmented(t) /\ t.label # "Action Required" -> RunState(t.label)
    [] OTHER -> None

GeminiTitleStatus(t) ==
  CASE t.glyph = "gemini" -> IF t.label = "Ready" THEN "Idle" ELSE "Busy"
    [] t.glyph \in {"none", "spinner", "idle"} /\ t.sigs = {} ->
         IF t.label \in {"Working", "Action Required"} THEN "Busy"
         ELSE IF t.label = "Ready" THEN "Idle" ELSE None
    [] OTHER -> None

TitleStatus(p, t) ==
  CASE p = "Claude" -> ClaudeTitleStatus(t)
    [] p = "Codex" -> CodexTitleStatus(t)
    [] p = "Gemini" -> GeminiTitleStatus(t)
    [] p = "Copilot" -> IF t.glyph = "robot" THEN "Busy"
                        ELSE IF "Copilot" \in Visible(t) THEN ReadyWorking(t.label) ELSE None
    [] p = "CursorCli" -> IF "CursorCli" \in Visible(t) THEN ReadyWorking(t.label) ELSE None
    [] p = "Pi" -> IF Visible(t) \cap {"PiMark", "PiPlain"} # {} /\ Spinner(t) THEN "Busy" ELSE None
    [] p = "Grok" -> IF Spinner(t) THEN "Busy" ELSE None
    [] OTHER -> None

-----------------------------------------------------------------------------
(* Rows                                                                      *)

Match(p, by) == [provider |-> p, by |-> by]
NoMatch == Match(None, None)

\* current_command_for_analysis: a version number is no command.
CommandForAnalysis(c) == IF c = "version" THEN "" ELSE c

\* Pi and Prime leave their titles behind: believed only over a command they run
\* as, or with a spinner.
StaleTitle(p, c, t) ==
  /\ ~Spinner(t)
  /\ \/ p = "Pi" /\ c \notin {"pi", "node", "bun"}
     \/ p = "Prime" /\ c \notin {"primeagent", "node", "bun"}

\* classify_provider_from_analysis, for a provider published in metadata.
ClassifyProvider(published, command, t) ==
  LET c == CommandForAnalysis(command)
      hint == TitleHint(t)
  IN CASE published # None -> Match(published, "PaneMetadata")
       [] published = None /\ ProviderFromCommand(c) # None ->
            Match(ProviderFromCommand(c), "PaneCurrentCommand")
       [] published = None /\ ProviderFromCommand(c) = None /\ hint.strong
            /\ ~StaleTitle(hint.provider, c, t) -> Match(hint.provider, "PaneTitle")
       [] OTHER -> IF c = "pi" /\ Visible(t) \cap {"PiMark", "PiPlain"} # {}
                   THEN Match("Pi", "PaneCurrentCommand") ELSE NoMatch

\* infer_status
Status(match, t, state) ==
  IF state \in {"Busy", "Idle", "Waiting"} THEN [kind |-> state, source |-> "PaneMetadata"]
  ELSE IF ~Conflicts(match.provider, match.by, t) /\ TitleStatus(match.provider, t) # None
  THEN [kind |-> TitleStatus(match.provider, t), source |-> "TmuxTitle"]
  ELSE [kind |-> "Unknown", source |-> "NotChecked"]

\* Where the label of the pane comes from: its title unless that is another
\* agent's, and, for Cursor, unless it says nothing.
Display(match, t) ==
  LET cursorTitle == "CursorCli" \in Visible(t)
      dull == \/ t.label \in {"Ready", "Working", "Waiting"}
              \/ match.by # "PaneMetadata" /\ ~cursorTitle
  IN CASE Conflicts(match.provider, match.by, t) -> "window"
       [] ~Conflicts(match.provider, match.by, t) /\ match.provider = "CursorCli" ->
            IF ~(match.by = "PaneTitle" /\ cursorTitle) /\ dull THEN "window" ELSE "title"
       [] OTHER -> "title"

\* pane_derived_fields
Derived(match, t, state) ==
  [match |-> match, status |-> Status(match, t, state), display |-> Display(match, t)]

-----------------------------------------------------------------------------
(* Processes                                                                 *)

Launchers == {"node", "bun", "python", "pi", "amp"}
Shells == {"shell", "npx"}
Shown(c, t) == t.glyph \in {"spinner", "idle"} \/ c = "version"

UsesForeground(c, t) == c \in Launchers \cup Shells \/ Shown(c, t)
UsesDescendants(c, t) == c # "amp" /\ (c \in Launchers \/ Shown(c, t))

FallbackCandidate(match, published, c, t) ==
  match = NoMatch /\ published = None /\ (UsesForeground(c, t) \/ UsesDescendants(c, t))

\* provider_match_from_proc_evidence: what a process can be known by, best first.
Rungs ==
  <<[by |-> "AmpExecutable", is |-> "Amp"], [by |-> "Command", is |-> "its own"],
    [by |-> "Argv0", is |-> "its own"], [by |-> "AiderModule", is |-> "Aider"],
    [by |-> "AiderScript", is |-> "Aider"], [by |-> "AiderPackage", is |-> "Aider"],
    [by |-> "ClaudeBinary", is |-> "Claude"], [by |-> "ClaudeTeammate", is |-> "Claude"],
    [by |-> "GeminiArgument", is |-> "Gemini"], [by |-> "OpencodeArgument", is |-> "Opencode"],
    [by |-> "OpencodeVariable", is |-> "Opencode"], [by |-> "CopilotArgument", is |-> "Copilot"],
    [by |-> "PiArgument", is |-> "Pi"], [by |-> "HermesArgument", is |-> "Hermes"],
    [by |-> "PiVariable", is |-> "Pi"]>>

Climb(process, suppressPi) ==
  (process.marks \ (IF suppressPi THEN {"PiVariable"} ELSE {}))
  \cup (IF ProviderFromCommand(process.command) = None THEN {} ELSE {"Command"})
  \cup (IF ProviderFromCommand(process.argv0) = None THEN {} ELSE {"Argv0"})

ProcessProvider(process, suppressPi) ==
  LET held == Climb(process, suppressPi)
      reached == {i \in DOMAIN Rungs : Rungs[i].by \in held}
      best == Rungs[First(reached)]
  IN IF reached = {} THEN None
     ELSE IF best.by = "Command" THEN ProviderFromCommand(process.command)
     ELSE IF best.by = "Argv0" THEN ProviderFromCommand(process.argv0)
     ELSE best.is

\* Mutant: each process is judged on its own.
NoPrime(processes) == FALSE

\* Prime's tools inherit the variable by which Pi is known.
PrimeIsAmong(processes) ==
  \E i \in DOMAIN processes :
    "Prime" \in {ProviderFromCommand(processes[i].command), ProviderFromCommand(processes[i].argv0)}

\* apply_proc_fallback: the first process that is known decides, the foreground
\* ones before the descendants of the pane.
Fallback(c, t, foreground, descendants) ==
  LET evidence == (IF UsesForeground(c, t) THEN foreground ELSE <<>>)
                  \o (IF UsesDescendants(c, t) THEN descendants ELSE <<>>)
      prime == PrimeIsAmong(evidence)
      known == {i \in DOMAIN evidence : ProcessProvider(evidence[i], prime) # None}
  IN IF known = {} THEN NoMatch
     ELSE Match(ProcessProvider(evidence[First(known)], prime), "ProcProcessTree")
=============================================================================
