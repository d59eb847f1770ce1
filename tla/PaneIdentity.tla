---------------------------- MODULE PaneIdentity ----------------------------
(* One pane in which programs come and go, and the record the daemon keeps of *)
(* it: full listings classify it from nothing, targeted refreshes may carry   *)
(* the identity that process evidence gave it.                                *)
(*                                                                            *)
(* The pane has a shell, a program in the foreground, perhaps one that was    *)
(* suspended, and perhaps a tool the foreground agent runs. A title stays     *)
(* until somebody paints another; published metadata stays until cleared.     *)
EXTENDS PaneClassification, FiniteSets

CONSTANTS
  LeftTitles,  \* titles that may stay when the program that painted them ends
  Programs,    \* what can run in the pane
  Program      \* of each: agent, command, process, tools' environment, titles

PlainTitle == [glyph |-> "none", sigs |-> {}, label |-> "task"]
ToolProcess(p) == [command |-> "shell", argv0 |-> "shell", marks |-> Program[p].env]

\* A program has no other agent's looks: no command, title or process of it is
\* another's, nor are those of its tools, but that Prime's have the mark of Pi.
LooksLikeItself(p) ==
  LET its == {None, Program[p].agent}
  IN /\ ProviderFromCommand(Program[p].command) \in its
     /\ Program[p].command = "pi" => Program[p].agent = "Pi"
     /\ \A t \in Program[p].titles : TitleHint(t).strong => TitleHint(t).provider \in its
     /\ \A prime \in BOOLEAN :
          /\ ProcessProvider(Program[p].process, prime) \in its
          /\ prime \/ Program[p].agent # "Prime" => ProcessProvider(ToolProcess(p), prime) \in its

\* An agent can be known: its process by itself, Prime's by its name, and its
\* command is its own or that of a runtime whose descendants are looked at.
Recognisable(p) ==
  Program[p].agent # None =>
    /\ \A prime \in BOOLEAN : ProcessProvider(Program[p].process, prime) = Program[p].agent
    /\ \/ ProviderFromCommand(Program[p].command) # None
       \/ UsesDescendants(Program[p].command, PlainTitle)
    /\ Program[p].agent = "Prime" =>
         "Prime" \in {ProviderFromCommand(Program[p].process.command),
                     ProviderFromCommand(Program[p].process.argv0)}

\* Only Pi and Prime leave titles behind.
ASSUME ProgramsAssumption ==
  /\ "shell" \in Programs /\ None \notin Programs /\ Program["shell"].agent = None
  /\ \A p \in Programs : LooksLikeItself(p) /\ Recognisable(p)
  /\ \A t \in LeftTitles : TitleHint(t).provider \in {"Pi", "Prime"} /\ ~Spinner(t)

VARIABLES
  fg,          \* the program in the foreground, "shell" when none
  stopped,     \* a suspended program, or None
  tool,        \* the agent runs a tool: "no", or how the foreground then looks
  title,       \* what is painted
  painter,     \* the program that painted it
  metadata,    \* the @agent options: provider, state, whose pid
  shown,       \* the daemon's record of the pane
  proven       \* the last match by process evidence: provider and command

world == <<fg, stopped, tool, title, painter, metadata>>
paneVars == <<world, shown, proven>>

NoMetadata == [provider |-> None, state |-> None, pid |-> None]
Unproven == [provider |-> None, command |-> None]

Agent(p) == IF p = None THEN None ELSE Program[p].agent
Alive == {Agent(fg), Agent(stopped)} \ {None}

-----------------------------------------------------------------------------
(* What tmux and the process table say                                       *)

\* The name of the foreground group; on macOS it may be that of the tool.
Command == IF tool = "named" THEN "shell" ELSE Program[fg].command

Members == IF tool = "no" THEN <<Program[fg].process>>
           ELSE <<Program[fg].process, ToolProcess(fg)>>
Reversed(s) == [i \in DOMAIN s |-> s[Len(s) + 1 - i]]

Rest == IF stopped = None THEN <<>> ELSE <<Program[stopped].process>>

\* The processes of the foreground group, or the tool's alone when it has taken
\* the terminal, and those under the pane's shell. No order can be relied on.
Tables ==
  {[foreground |-> IF tool = "owns" THEN <<ToolProcess(fg)>> ELSE Members, descendants |-> Members \o Rest],
   [foreground |-> IF tool = "owns" THEN <<ToolProcess(fg)>> ELSE Reversed(Members),
    descendants |-> Reversed(Members \o Rest)]}

\* trusted_agent_metadata: a published pid must be a process of the pane.
TrustedMetadata ==
  IF metadata.pid = None \/ metadata.pid \in {fg, stopped} THEN metadata ELSE NoMetadata

-----------------------------------------------------------------------------
(* Records                                                                   *)

Record(match, resolved, published, derived) ==
  [provider |-> match.provider, by |-> match.by, resolved |-> resolved, published |-> published,
   status |-> derived.status, display |-> derived.display, command |-> Command, title |-> title]

\* What a row is taken for when it is classified from nothing, and whether the
\* process table was asked: when the row does not settle it.
Judged(table) ==
  LET match == ClassifyProvider(TrustedMetadata.provider, Command, title)
      found == Fallback(Command, title, table.foreground, table.descendants)
  IN IF FallbackCandidate(match, TrustedMetadata.provider, Command, title) /\ found # NoMatch
     THEN [match |-> found, resolved |-> TRUE] ELSE [match |-> match, resolved |-> FALSE]

Classified(judged) ==
  Record(judged.match, judged.resolved, TrustedMetadata.provider,
         Derived(judged.match, title, TrustedMetadata.state))

Judgements == {Judged(table) : table \in Tables}
Listings == {Classified(judged) : judged \in Judgements}

\* Mutant: identities that came from a title are kept too.
PreservesAny(retitled) ==
  LET fresh == ClassifyProvider(TrustedMetadata.provider, Command, title).provider
  IN /\ shown.provider # None /\ shown.published = None
     /\ TrustedMetadata.provider = None
     /\ \/ fresh = shown.provider
        \/ fresh = None /\ shown.command = Command /\ (retitled \/ shown.title = title)

\* Process evidence gave the identity, nobody publishes one, and the row names
\* no other agent: the same provider, or none and the same command.
Preserves(retitled) ==
  LET fresh == ClassifyProvider(TrustedMetadata.provider, Command, title).provider
  IN /\ shown.resolved /\ shown.provider # None /\ shown.published = None
     /\ TrustedMetadata.provider = None
     /\ \/ fresh = shown.provider
        \/ fresh = None /\ shown.command = Command /\ (retitled \/ shown.title = title)

\* The identity is carried; the status and the label are new, derived as if the
\* provider had been published.
Carried ==
  Record(Match(shown.provider, shown.by), shown.resolved, TrustedMetadata.provider,
         Derived(Match(shown.provider, "PaneMetadata"), title, TrustedMetadata.state))

ProvenBy(record) ==
  IF record.resolved THEN [provider |-> record.provider, command |-> Command] ELSE Unproven

Show(record) ==
  /\ shown' = record
  /\ proven' = ProvenBy(record)
  /\ UNCHANGED world

\* A full listing, the listing of a scope that finds the pane new, or a targeted
\* refresh that keeps nothing: these ask the process table too.
List == \E record \in Listings : Show(record)

\* A targeted refresh that keeps the identity. One caused by a title event
\* brings its title with it.
CarryIdentity(retitled) ==
  /\ Preserves(retitled)
  /\ shown' = Carried
  /\ UNCHANGED <<world, proven>>

-----------------------------------------------------------------------------
(* The pane                                                                  *)

Run(p) ==
  /\ fg = "shell" /\ p \notin {"shell", stopped}
  /\ fg' = p
  /\ UNCHANGED <<stopped, tool, title, painter, metadata, shown, proven>>

Paint ==
  /\ \E t \in Program[fg].titles : title' = t /\ t # title
  /\ painter' = fg
  /\ UNCHANGED <<fg, stopped, tool, metadata, shown, proven>>

StartTool ==
  /\ Agent(fg) # None /\ tool = "no"
  /\ tool' \in {"group", "named", "owns"}
  /\ UNCHANGED <<fg, stopped, title, painter, metadata, shown, proven>>

EndTool ==
  /\ tool # "no"
  /\ tool' = "no"
  /\ UNCHANGED <<fg, stopped, title, painter, metadata, shown, proven>>

\* An agent of the published contract says who it is and how it does.
Publish ==
  /\ Agent(fg) = "Hermes"
  /\ metadata' = [provider |-> "Hermes", state |-> "Busy", pid |-> fg]
  /\ UNCHANGED <<fg, stopped, tool, title, painter, shown, proven>>

\* Most programs restore the title; some, and killed ones, leave it behind.
End ==
  /\ fg # "shell" /\ tool = "no"
  /\ fg' = "shell"
  /\ \/ title \in LeftTitles /\ UNCHANGED <<title, painter>>
     \/ title' = PlainTitle /\ painter' = "shell"
  /\ UNCHANGED <<stopped, tool, metadata, shown, proven>>

Suspend ==
  /\ fg # "shell" /\ stopped = None /\ tool = "no"
  /\ stopped' = fg /\ fg' = "shell"
  /\ UNCHANGED <<tool, title, painter, metadata, shown, proven>>

Resume ==
  /\ fg = "shell" /\ stopped # None
  /\ fg' = stopped /\ stopped' = None
  /\ UNCHANGED <<tool, title, painter, metadata, shown, proven>>

PaneInit ==
  /\ fg = "shell" /\ stopped = None /\ tool = "no"
  /\ title = PlainTitle /\ painter = "shell"
  /\ metadata = NoMetadata
  /\ \E record \in Listings : shown = record /\ proven = ProvenBy(record)

PaneNext ==
  \/ \E p \in Programs : Run(p)
  \/ Paint \/ StartTool \/ EndTool \/ Publish \/ End \/ Suspend \/ Resume
  \/ List
  \/ \E retitled \in BOOLEAN : CarryIdentity(retitled)

PaneSpec == PaneInit /\ [][PaneNext]_paneVars

-----------------------------------------------------------------------------
(* Properties                                                                *)

PaneTypeOK ==
  /\ fg \in Programs /\ stopped \in (Programs \cup {None}) \ {"shell"}
  /\ tool \in {"no", "group", "named", "owns"}
  /\ title \in UNION {Program[p].titles : p \in Programs} \cup {PlainTitle}
  /\ painter \in Programs
  /\ shown.resolved => shown.provider # None

Residue == painter \notin {fg, stopped}

\* "The same accepted residue": a title of Pi or Prime that was left behind,
\* over a runtime they use themselves.
AcceptedResidue ==
  Residue /\ TitleHint(title).provider \in {"Pi", "Prime"} /\ Command \in {"node", "bun"}

\* A listing shows an agent of the pane, in front or suspended, and none only when no
\* agent is in front. Other programs, tools with an inherited environment, titles of Pi and Prime over a
\* shell and the options of a publisher that has gone make no ghosts; an agent in
\* the foreground is not missed, whatever tool it runs and whatever was left in
\* the pane before it.
ListingsAreOfThePane ==
  AcceptedResidue
    \/ \A judged \in Judgements :
         judged.match.provider \in Alive \cup (IF Agent(fg) = None THEN {None} ELSE {})

\* A ghost in the record: nothing in the pane is what it shows.
Ghost(record) == record.provider \notin Alive \cup {None}

\* An identity that outlives its agent through targeted refreshes is one the
\* process table has given: titles and commands alone are never carried.
CarriedIdentityWasProven ==
  [][shown' # shown /\ Ghost(shown)' /\ ~AcceptedResidue' => shown'.provider = proven'.provider]_paneVars

\* Neither the status nor the label of a pane is read from a title that names
\* another agent.
OtherAgentsTitleSaysNothing ==
  [][LET named == TitleHint(title)
     IN /\ shown' # shown
        /\ shown'.status.source = "TmuxTitle" \/ shown'.display # "window"
        /\ named.explicit
        /\ named.strong \/ named.provider \in {"Copilot", "CursorCli", "Droid"}
        => shown'.provider = named.provider]_paneVars

\* The record rests on evidence: both.
RecordsRestOnEvidence == CarriedIdentityWasProven /\ OtherAgentsTitleSaysNothing
=============================================================================
