----------------------------- MODULE ScreenStatus -----------------------------
(***************************************************************************)
(* What a captured screen says of the agent that draws it: one matcher per *)
(* provider (src/app/classify/pane_output).  A matcher looks for the       *)
(* agent's own prompt and footer at the bottom of the screen and for marks *)
(* of a turn near them; what it is not sure of it leaves unknown ("None"). *)
(*                                                                         *)
(* The text predicates of a matcher are sets of line kinds.  A line two    *)
(* predicates accept has a kind of its own (Claude's "❯ 1. Submit answers" *)
(* is "submit_at": a prompt and an option).                                *)
(***************************************************************************)
EXTENDS ScreenFrame

Verdicts == {"None", "Idle", "Busy", "Waiting"}

-------------------------------------------------------------------------------
(* Amp: the composer box, its bottom border tells the state. *)

AmpBottoms == {"amp_still", "amp_wave", "amp_odd"}

AmpStatus(s) ==
    LET bottom == LastOf(s, AmpBottoms)
        top == LastBefore(s, bottom, {"amp_top"})
        composer == /\ InTail(s, bottom, 8)
                    /\ LastNonblank(s) = s[bottom]
                    /\ top > 0 /\ top < bottom - 1 /\ bottom - top <= 7
                    /\ GapIs(s, top, bottom, {"amp_body"})
    IN  CASE ~composer -> "None"
          [] composer /\ s[bottom] = "amp_still" -> "Idle"
          [] composer /\ s[bottom] = "amp_wave" -> "Busy"
          [] OTHER -> "None"

-------------------------------------------------------------------------------
(* Antigravity: the footer below the ">" box. *)

AntigravityFooters == {"ag_shortcuts", "ag_cancel"}

AntigravityStatus(s) ==
    LET footer == LastOf(s, AntigravityFooters)
        live == /\ footer > 0
                /\ OnlyBelow(s, footer, Blank)
                /\ SomeIn(s, footer - 6, footer - 1, {"ag_prompt"})
    IN  CASE ~live -> "None"
          [] live /\ s[footer] = "ag_cancel" -> "Busy"
          [] OTHER -> "Idle"

-------------------------------------------------------------------------------
(* Claude: dialogs first, then the prompt with its marker, then the prompt. *)

ClaudePrompts == {"cl_prompt", "cl_submit_at", "cl_cancel_at", "cl_chat_at"}
ClaudeSubmit == {"cl_submit", "cl_submit_at"}
ClaudeCancelOption == {"cl_cancel_option", "cl_cancel_at"}
ClaudeChat == {"cl_chat", "cl_chat_at"}
ClaudeCancelHint == {"cl_hint", "cl_select_hint"}
ClaudeBusy == {"cl_interrupt", "cl_permission"}
ClaudeFooters == {"cl_footer", "cl_interrupt"}
ClaudeGap == Blank \cup {"cl_border"}

ClaudeAskQuestion(s) ==
    LET chat == LastOf(s, ClaudeChat)
        cancel == LastOf(s, ClaudeCancelHint)
    IN  /\ chat > 0 /\ chat < cancel
        /\ InTail(s, chat, 12) /\ InTail(s, cancel, 4)
        /\ SomeIn(s, chat, Len(s), {"cl_select", "cl_select_hint"})
        /\ ~SomeBelow(s, chat, ClaudePrompts)

ClaudeAskReview(s) ==
    LET review == LastOf(s, {"cl_review"})
        ready == LastOf(s, {"cl_ready"})
        submit == LastOf(s, ClaudeSubmit)
    IN  /\ review > 0 /\ review < ready /\ ready < submit
        /\ InTail(s, ready, 10) /\ InTail(s, submit, 6)
        /\ LastNonblank(s) \in ClaudeCancelOption

\* Mutant: any prompt below the question, the dialog's own cursor too, retires it.
ClaudePermissionNoPromptBelow(s) ==
    LET question == LastOf(s, {"cl_proceed"})
        cancel == LastOf(s, ClaudeCancelHint)
    IN  /\ question > 0 /\ question < cancel
        /\ InTail(s, question, 12) /\ InTail(s, cancel, 4)
        /\ ~SomeBelow(s, question, ClaudePrompts)

ClaudePermission(s) ==
    LET question == LastOf(s, {"cl_proceed"})
        cancel == LastOf(s, ClaudeCancelHint)
    IN  /\ question > 0 /\ question < cancel
        /\ InTail(s, question, 12) /\ InTail(s, cancel, 4)
        /\ ~SomeBelow(s, cancel, ClaudePrompts)

ClaudePromptIsCurrent(s, prompt) ==
    InTail(s, prompt, 8) /\ SomeIn(s, prompt, Len(s), ClaudeFooters)

ClaudeStatus(s) ==
    LET prompt == LastOf(s, ClaudePrompts)
        marker == LastOf(s, ClaudeBusy)
        distance == IF marker < prompt THEN prompt - marker ELSE marker - prompt
        dialog == ClaudeAskQuestion(s) \/ ClaudeAskReview(s) \/ ClaudePermission(s)
        current == ClaudePromptIsCurrent(s, prompt)
        marked == /\ current /\ marker > 0
                  /\ distance <= 6 /\ GapIs(s, marker, prompt, ClaudeGap)
    IN  CASE dialog \/ (marked /\ s[marker] = "cl_permission") -> "Waiting"
          [] ~dialog /\ marked /\ s[marker] # "cl_permission" -> "Busy"
          [] ~dialog /\ ~marked /\ current -> "Idle"
          [] OTHER -> "None"

-------------------------------------------------------------------------------
(* Codex: a marker below the prompt, or just above the current prompt. *)

CodexPrompts == {"cx_prompt", "cx_proceed_at"}
CodexApprovals == {"cx_confirm", "cx_proceed_at"}
CodexBusy == CodexApprovals \cup {"cx_interrupt"}

CodexPromptIsCurrent(s, prompt) ==
    /\ InTail(s, prompt, 6)
    /\ SomeIn(s, prompt, Len(s), {"cx_footer"})
    /\ OnlyBelow(s, prompt, Blank \cup {"cx_footer"})

CodexStatus(s) ==
    LET prompt == LastOf(s, CodexPrompts)
        marker == LastOf(s, CodexBusy)
        near == /\ marker <= prompt /\ prompt - marker <= 4
                /\ GapIs(s, marker, prompt, Blank \cup {"cx_branch"})
                /\ CodexPromptIsCurrent(s, prompt)
        marked == marker > 0 /\ (prompt < marker \/ near)
    IN  CASE marked /\ s[marker] \in CodexApprovals -> "Waiting"
          [] marked /\ s[marker] \notin CodexApprovals -> "Busy"
          [] ~marked /\ CodexPromptIsCurrent(s, prompt) -> "Idle"
          [] OTHER -> "None"

-------------------------------------------------------------------------------
(* Copilot: a prompt under its context line, plain or in a box. *)

CopilotFooters == {"co_idle", "co_working"}

\* The footer under the boxed prompt when the box is what is drawn last.
CopilotBoxFooter(s) ==
    LET bottom == LastOf(s, {"co_bottom"})
        top == LastBefore(s, bottom, {"co_top"})
        live == /\ top > 0 /\ top < bottom - 1
                /\ NonblankAbove(s, top) = "co_context"
                /\ GapIs(s, top, bottom, {"co_input"})
                /\ OnlyBelow(s, bottom, Blank \cup CopilotFooters)
        below == SelectInSubSeq(s, bottom + 1, Len(s), LAMBDA l : l \notin Blank)
    IN  IF live /\ below > 0 THEN s[below] ELSE "none"

\* The plain prompt has a separator between it and its context line.
CopilotPlainPrompt(s) == LastOf(s, {"co_arrow"})
CopilotContext(s) == LastBefore(s, CopilotPlainPrompt(s), {"co_context"})
CopilotSeparated(s) ==
    /\ CopilotContext(s) > 0
    /\ SomeIn(s, CopilotContext(s), CopilotPlainPrompt(s) - 1, {"co_rule"})

CopilotTrustModal(s) ==
    LET modal == LastOf(s, {"co_trust"})
    IN  /\ modal > 0
        /\ ~SomeIn(s, modal, Len(s), {"co_arrow"})
        /\ SomeIn(s, modal, Len(s), {"co_trust_question"})

CopilotStatus(s) ==
    LET prompt == CopilotPlainPrompt(s)
        context == CopilotContext(s)
        busy == \/ context > 1 /\ s[context - 1] = "co_thinking"
                \/ CopilotSeparated(s) /\ SomeIn(s, prompt, Len(s), {"co_working"})
                \/ CopilotBoxFooter(s) = "co_working"
                \/ CopilotTrustModal(s)
        idle == \/ CopilotBoxFooter(s) = "co_idle"
                \/ CopilotSeparated(s) /\ SomeIn(s, prompt, Len(s), {"co_idle"})
    IN  CASE busy -> "Busy"
          [] ~busy /\ idle -> "Idle"
          [] OTHER -> "None"

-------------------------------------------------------------------------------
(* Cursor CLI: a bordered footer, or (newer) a prompt without borders. *)

CursorArrows == {"cu_follow_up", "cu_draft", "cu_stop"}
CursorFooters == {"cu_composer", "cu_path"}

CursorChrome(s, prompt, more) ==
    /\ SomeIn(s, prompt, Len(s), CursorFooters)
    /\ OnlyBelow(s, prompt, Blank \cup CursorFooters \cup more)

CursorBorderless(s) ==
    LET prompt == LastOf(s, CursorArrows)
        stop == prompt > 0 /\ s[prompt] = "cu_stop"
    IN  CASE prompt = 0 -> "None"
          [] stop /\ CursorChrome(s, prompt, {"cu_tasks"}) -> "Busy"
          [] prompt > 0 /\ ~stop /\ CursorChrome(s, prompt, {}) -> "Idle"
          [] OTHER -> "None"

CursorStatus(s) ==
    LET top == LastOf(s, {"cu_top"})
        prompt == SelectInSubSeq(s, top, Len(s), LAMBDA l : l \in CursorArrows)
        busy == \/ prompt > 0 /\ s[prompt] = "cu_stop"
                \/ NonblankAbove(s, top) = "cu_running"
        idle == prompt > 0 /\ (s[prompt] = "cu_follow_up" \/ CursorChrome(s, prompt, {"cu_bottom"}))
    IN  CASE top = 0 -> CursorBorderless(s)
          [] top > 0 /\ busy -> "Busy"
          [] top > 0 /\ ~busy /\ idle -> "Idle"
          [] OTHER -> "None"

-------------------------------------------------------------------------------
(* Droid: a window that ends at its footer or its input box. *)

DroidBoxes == {"dr_box", "dr_steer"}

DroidWindow(s, last, K) == last > 0 /\ SomeIn(s, last - 8, last, K)

DroidStatus(s) ==
    LET footer == LastOf(s, {"dr_footer"})
        box == LastOf(s, DroidBoxes)
        last == IF InTail(s, box, 8) /\ box > footer THEN box ELSE footer
        steer == DroidWindow(s, last, {"dr_steer"})
        idle == DroidWindow(s, last, {"dr_box"})
    IN  CASE steer \/ (~idle /\ DroidWindow(s, last, {"dr_streaming"})) -> "Busy"
          [] ~steer /\ idle -> "Idle"
          [] OTHER -> "None"

-------------------------------------------------------------------------------
(* Gemini: approval modals count with their box or glyph, near the bottom. *)

GeminiApprovals == {"ge_action", "ge_action_boxed", "ge_action_glyph"}
GeminiBoxed == {"ge_box", "ge_action_boxed"}
GeminiGlyphs == {"ge_glyph", "ge_action_glyph"}

GeminiMarker(s) ==
    LET current(i) == \/ s[i] = "ge_agent"
                      \/ s[i] \in GeminiApprovals /\ \/ SomeIn(s, i - 3, i + 3, GeminiBoxed)
                                                     \/ SomeIn(s, i - 1, i + 1, GeminiGlyphs)
        I == {i \in 1..Len(s) : current(i)}
    IN  IF I = {} THEN 0 ELSE Max(I)

GeminiAuth(s) ==
    LET opening == LastOf(s, {"ge_auth"})
    IN  IF /\ InTail(s, opening, 14)
           /\ SomeIn(s, opening, Len(s), {"ge_continue"})
           /\ SomeIn(s, opening, Len(s), {"ge_navigate"})
        THEN opening ELSE 0

GeminiStatus(s) ==
    LET prompt == LastOf(s, {"ge_prompt"})
        marker == GeminiMarker(s)
        auth == GeminiAuth(s)
        busy == \/ InTail(s, marker, 14) /\ prompt < marker
                \/ auth > 0 /\ prompt < auth
    IN  CASE busy -> "Busy"
          [] ~busy /\ InTail(s, prompt, 8) -> "Idle"
          [] OTHER -> "None"

-------------------------------------------------------------------------------
(* Grok: the pinned input box, its footer, the spinner above it. *)

GrokIdleFooters == {"gr_keys_idle", "gr_version"}
GrokFooters == GrokIdleFooters \cup {"gr_keys_busy", "gr_keys_odd"}

GrokBox(s) ==
    LET border == LastOf(s, {"gr_bottom"})
    IN  IF /\ border > 1 /\ s[border - 1] = "gr_input"
           /\ OnlyBelow(s, border, Blank \cup GrokFooters)
        THEN border ELSE 0

GrokStatus(s) ==
    LET box == GrokBox(s)
        top == LastBefore(s, box, {"gr_top"})
        busy == \/ SomeBelow(s, box, {"gr_keys_busy"})
                \/ top > 0 /\ NonblankAbove(s, top) = "gr_spinner"
        idle == /\ SomeBelow(s, box, GrokFooters)
                /\ OnlyBelow(s, box, Blank \cup GrokIdleFooters)
    IN  CASE box > 0 /\ busy -> "Busy"
          [] box > 0 /\ ~busy /\ idle -> "Idle"
          [] box = 0 /\ LastNonblank(s) = "gr_spinner" -> "Busy"
          [] OTHER -> "None"

-------------------------------------------------------------------------------
(* Hermes: the prompt right under the status bar, with rules only below. *)

HermesChrome == Blank \cup {"he_rule"}

HermesUnderStatusBar(s, prompt) ==
    LET bar == LastBefore(s, prompt, {"he_bar"})
    IN  bar > 0 /\ prompt - bar <= 3 /\ GapIs(s, bar, prompt, HermesChrome)

HermesStatus(s) ==
    LET working == LastOf(s, {"he_busy"})
        starting == LastOf(s, {"he_init"})
        prompt == LastOf(s, {"he_prompt"})
        current(i) == i > 0 /\ HermesUnderStatusBar(s, i) /\ OnlyBelow(s, i, HermesChrome)
        busy == \/ current(working) /\ prompt < working
                \/ /\ InTail(s, starting, 12) /\ prompt < starting
                   /\ SomeIn(s, starting, Len(s), {"he_rule"})
    IN  CASE busy -> "Busy"
          [] ~busy /\ current(prompt) /\ working < prompt -> "Idle"
          [] OTHER -> "None"

-------------------------------------------------------------------------------
(* Kimi Code: the input box, a spinner or a Todo panel above it, a chip below. *)

KimiSpinners == {"ki_moon", "ki_moon_bare", "ki_composing", "ki_braille", "ki_glyph"}
KimiTodoRows == {"ki_item", "ki_expand", "ki_collapse6"}

\* The Todo rows of a panel: items, and a last row that counts the hidden ones.
KimiPanelIsComplete(rows) ==
    LET last == rows[Len(rows)]
        items(n) == \A i \in 1..n : rows[i] = "ki_item"
    IN  /\ rows # <<>>
        /\ items(Len(rows) - 1)
        /\ CASE last = "ki_collapse6" -> Len(rows) - 1 = 6
             [] last = "ki_expand" -> Len(rows) - 1 = 5
             [] OTHER -> Len(rows) <= 5

\* The divider of the Todo panel that is mounted on the box (0: there is none).
KimiTodoDivider(s, box) ==
    LET header == SelectLastInSubSeq(s, 1, box - 2, LAMBDA l : l \notin KimiTodoRows)
    IN  IF /\ box > 1 /\ s[box - 1] = "ki_top"
           /\ header > 1 /\ header < box - 2
           /\ KimiPanelIsComplete(SubSeq(s, header + 1, box - 2))
           /\ s[header] = "ki_todo" /\ s[header - 1] = "ki_divider"
        THEN header - 1 ELSE 0

\* The spinner line of the activity pane right above the panel ("none").
KimiTodoSpinner(s, divider) ==
    LET spinner == LastBefore(s, divider, KimiSpinners)
    IN  IF /\ spinner > 0 /\ divider - spinner <= 12
           /\ \A i \in spinner + 1..divider - 1 : s[i] \notin Blank
        THEN s[spinner] ELSE "none"

KimiFooterBusy(s, box) ==
    LET bottom == SelectInSubSeq(s, box, Len(s), LAMBDA l : l = "ki_bottom")
    IN  bottom > 0 /\ SomeBelow(s, bottom, {"ki_chip"})

KimiStatus(s) ==
    LET box == LastOf(s, {"ki_box"})
        divider == KimiTodoDivider(s, box)
        todo == IF divider > 0 THEN KimiTodoSpinner(s, divider) ELSE "none"
        above(K) == divider = 0 /\ SomeIn(s, box - 12, box, K)
        busy == \/ todo \in {"ki_moon", "ki_composing"}
                \/ above({"ki_moon"})
                \/ divider = 0 /\ box > 2 /\ s[box - 2] = "ki_composing"
                \/ KimiFooterBusy(s, box)
        ambiguous == todo # "none" \/ above(KimiSpinners)
    IN  CASE ~InTail(s, box, 8) -> "None"
          [] InTail(s, box, 8) /\ busy -> "Busy"
          [] InTail(s, box, 8) /\ ~busy /\ ~ambiguous -> "Idle"
          [] OTHER -> "None"

-------------------------------------------------------------------------------
(* Opencode: three idle anchors, markers that must be below or right above. *)

OpencodeWaiting == {"oc_permission", "oc_question"}
OpencodeBusy == OpencodeWaiting \cup {"oc_interrupt"}
OpencodeGap == Blank \cup {"oc_border", "oc_side", "oc_placeholder"}

OpencodeChromeBelow(s, i, more) ==
    \A j \in i + 1..Len(s) : \/ s[j] \in Blank \cup {"oc_tip"} \cup more
                             \/ j = Len(s) /\ s[j] = "oc_status_bar"

OpencodeCommandBar(s) ==
    LET bar == LastOf(s, {"oc_command_bar"})
    IN  IF SomeIn(s, bar - 2, bar - 1, {"oc_border"}) /\ OpencodeChromeBelow(s, bar, {})
        THEN bar ELSE 0

OpencodeInputBox(s) ==
    LET border == LastOf(s, {"oc_border"})
    IN  IF OpencodeChromeBelow(s, border, {"oc_command_bar"}) THEN border ELSE 0

OpencodeMarkerIsCurrent(s, marker, idle) ==
    LET footer(anchor) == marker <= anchor /\ GapIs(s, marker, anchor, OpencodeGap)
        pinned == footer(OpencodeCommandBar(s)) \/ footer(OpencodeInputBox(s))
    IN  pinned \/ IF idle > 0 THEN idle < marker ELSE InTail(s, marker, 8)

OpencodeStatus(s) ==
    LET placeholder == LastOf(s, {"oc_placeholder"})
        idle == Max({OpencodeCommandBar(s), OpencodeInputBox(s),
                     IF InTail(s, placeholder, 8) THEN placeholder ELSE 0})
        marker == LastOf(s, OpencodeBusy)
        marked == marker > 0 /\ OpencodeMarkerIsCurrent(s, marker, idle)
    IN  CASE marked /\ s[marker] \in OpencodeWaiting -> "Waiting"
          [] marked /\ s[marker] \notin OpencodeWaiting -> "Busy"
          [] ~marked /\ idle > 0 -> "Idle"
          [] OTHER -> "None"

-------------------------------------------------------------------------------
(* Pi: the context footer, at most four extension rows under it. *)

PiFooter(s) ==
    LET footer == LastOf(s, {"pi_footer"})
    IN  IF InTail(s, footer, 5) /\ ~SomeBelow(s, footer, Blank) THEN footer ELSE 0

PiEditorIsCurrent(s, border) == InTail(s, border, 10) /\ PiFooter(s) > 0

PiStatus(s) ==
    LET border == LastOf(s, {"pi_border"})
        loader == LastOf(s, {"pi_loader"})
        near == /\ loader <= border /\ border - loader <= 4
                /\ GapIs(s, loader, border, Blank \cup {"pi_border"})
                /\ PiEditorIsCurrent(s, border)
        busy == loader > 0 /\ loader <= PiFooter(s) /\ (border < loader \/ near)
    IN  CASE busy -> "Busy"
          [] ~busy /\ PiEditorIsCurrent(s, border) -> "Idle"
          [] OTHER -> "None"

-------------------------------------------------------------------------------
(* Prime: footer, loader at most eight lines above; any other spinner: unknown. *)

PrimeSpinners == {"pr_loader", "pr_spinner"}

\* Mutant: a spinner that is no loader of the model does not stop the prompt from counting.
PrimeStatusSpinnerIgnored(s) ==
    LET footer == LastOf(s, {"pr_footer"})
        live == InTail(s, footer, 3)
        above(i, n) == live /\ i > 0 /\ i <= footer /\ footer - i <= n
    IN  CASE above(LastOf(s, {"pr_loader"}), 8) -> "Busy"
          [] ~above(LastOf(s, {"pr_loader"}), 8) /\ above(LastOf(s, {"pr_prompt"}), 4) -> "Idle"
          [] OTHER -> "None"

PrimeStatus(s) ==
    LET footer == LastOf(s, {"pr_footer"})
        live == InTail(s, footer, 3)
        above(i, n) == live /\ i > 0 /\ i <= footer /\ footer - i <= n
        busy == above(LastOf(s, {"pr_loader"}), 8)
    IN  CASE busy -> "Busy"
          [] ~busy /\ LastOf(s, PrimeSpinners) = 0 /\ above(LastOf(s, {"pr_prompt"}), 4) -> "Idle"
          [] OTHER -> "None"

-------------------------------------------------------------------------------
(* The providers with a matcher; Aider has none. *)

Matched == {"Amp", "Antigravity", "Claude", "Codex", "Copilot", "CursorCli", "Droid",
            "Gemini", "Grok", "Hermes", "KimiCode", "Opencode", "Pi", "Prime"}

Verdict(p, s) ==
    CASE p = "Amp" -> AmpStatus(s)
      [] p = "Antigravity" -> AntigravityStatus(s)
      [] p = "Claude" -> ClaudeStatus(s)
      [] p = "Codex" -> CodexStatus(s)
      [] p = "Copilot" -> CopilotStatus(s)
      [] p = "CursorCli" -> CursorStatus(s)
      [] p = "Droid" -> DroidStatus(s)
      [] p = "Gemini" -> GeminiStatus(s)
      [] p = "Grok" -> GrokStatus(s)
      [] p = "Hermes" -> HermesStatus(s)
      [] p = "KimiCode" -> KimiStatus(s)
      [] p = "Opencode" -> OpencodeStatus(s)
      [] p = "Pi" -> PiStatus(s)
      [] p = "Prime" -> PrimeStatus(s)
      [] OTHER -> "None"
===============================================================================
