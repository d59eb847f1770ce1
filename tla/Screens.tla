-------------------------------- MODULE Screens --------------------------------
(***************************************************************************)
(* The screens of agents, grown from the bottom up: what an agent draws    *)
(* now (one of the frames its tests record, or anything), and above it     *)
(* what is left of earlier turns, dialogs, shells and output.              *)
(***************************************************************************)
EXTENDS ScreenStatus

CONSTANT MaxOlder     \* how many blocks of older lines are in sight above the frame

VARIABLES agent,    \* the provider whose matcher reads the screen
          drawn,    \* the state of the agent, which drew the frame at the bottom
          screen,   \* the captured lines
          older,    \* blocks put above so far
          verdict   \* what the matcher makes of the screen

screenVars == <<agent, drawn, screen, older, verdict>>

\* Frames as agents draw them in each state (from the tests of the matchers).
Frames(p) ==
    CASE p = "Amp" ->
           {<<"Idle", <<"amp_top", "amp_body", "amp_body", "amp_still">>>>,
            <<"Busy", <<"amp_top", "amp_body", "amp_wave">>>>}
      [] p = "Antigravity" ->
           {<<"Idle", <<"text", "ag_prompt", "text", "ag_shortcuts", "blank">>>>,
            <<"Busy", <<"text", "text", "ag_prompt", "text", "ag_cancel">>>>}
      [] p = "Claude" ->
           {<<"Idle", <<"cl_border", "cl_prompt", "cl_border", "cl_footer">>>>,
            <<"Busy", <<"cl_border", "cl_prompt", "cl_border", "cl_interrupt">>>>,
            <<"Busy", <<"cl_interrupt", "blank", "cl_border", "cl_prompt", "cl_border", "cl_footer">>>>,
            <<"Waiting", <<"cl_permission", "blank", "cl_border", "cl_prompt", "cl_border", "cl_footer">>>>,
            <<"Waiting", <<"cl_proceed", "cl_prompt", "text", "text", "blank", "cl_hint">>>>,
            <<"Waiting", <<"cl_prompt", "text", "cl_border", "cl_chat", "blank", "cl_select", "cl_hint">>>>,
            <<"Waiting", <<"cl_review", "text", "cl_ready", "blank", "cl_submit_at", "cl_cancel_option">>>>,
            <<"Waiting", <<"cl_review", "text", "cl_ready", "blank", "cl_submit", "cl_cancel_at">>>>}
      [] p = "Codex" ->
           {<<"Idle", <<"cx_prompt", "blank", "cx_footer">>>>,
            <<"Busy", <<"cx_interrupt", "blank", "cx_branch", "cx_prompt", "blank", "cx_footer">>>>,
            <<"Waiting", <<"text", "cx_proceed_at", "text", "text", "cx_confirm">>>>}
      [] p = "Copilot" ->
           {<<"Idle", <<"co_context", "co_rule", "co_arrow", "co_rule", "co_idle">>>>,
            <<"Busy", <<"co_thinking", "co_context", "co_rule", "co_arrow", "co_rule", "co_idle">>>>,
            <<"Busy", <<"co_context", "co_rule", "co_arrow", "co_rule", "co_working">>>>,
            <<"Busy", <<"co_trust", "text", "co_trust_question", "text">>>>}
      [] p = "CopilotBoxed" ->
           {<<"Idle", <<"co_context", "co_top", "co_input", "co_bottom", "co_idle">>>>,
            <<"Busy", <<"co_context", "co_top", "co_input", "co_bottom", "co_working">>>>}
      [] p = "CursorCli" ->
           {<<"Idle", <<"cu_draft", "blank", "cu_composer", "cu_path">>>>,
            <<"Busy", <<"cu_stop", "cu_tasks", "cu_composer", "cu_path">>>>}
      [] p = "CursorCliBordered" ->
           {<<"Idle", <<"cu_top", "cu_follow_up", "cu_bottom", "cu_composer", "cu_path">>>>,
            <<"Busy", <<"cu_running", "cu_top", "cu_draft", "text", "cu_bottom", "cu_composer">>>>,
            <<"Busy", <<"cu_top", "cu_stop", "cu_bottom", "cu_composer">>>>}
      [] p = "Droid" ->
           {<<"Idle", <<"text", "dr_box", "text", "dr_footer">>>>,
            <<"Busy", <<"dr_streaming", "text", "text", "dr_steer", "text", "dr_footer">>>>}
      [] p = "Gemini" ->
           {<<"Idle", <<"ge_prompt", "text", "text">>>>,
            <<"Busy", <<"ge_box", "ge_action_boxed", "ge_box", "ge_action_boxed", "ge_box">>>>,
            <<"Busy", <<"ge_agent", "text", "text">>>>,
            <<"Busy", <<"ge_box", "ge_auth", "ge_continue", "text", "ge_navigate", "ge_box">>>>}
      [] p = "Grok" ->
           {<<"Idle", <<"gr_top", "gr_input", "gr_bottom", "blank", "gr_keys_idle">>>>,
            <<"Idle", <<"gr_top", "gr_input", "gr_bottom", "blank", "gr_version">>>>,
            <<"Busy", <<"gr_spinner", "blank", "gr_top", "gr_input", "gr_bottom", "blank", "gr_keys_busy">>>>,
            <<"Busy", <<"gr_spinner", "blank", "gr_top", "gr_input", "gr_bottom", "blank", "gr_keys_odd">>>>,
            <<"Busy", <<"text", "gr_spinner">>>>}
      [] p = "Hermes" ->
           {<<"Idle", <<"he_bar", "he_rule", "he_prompt", "he_rule">>>>,
            <<"Busy", <<"he_bar", "he_busy">>>>,
            <<"Busy", <<"he_init", "text", "he_bar", "he_rule">>>>}
      [] p = "KimiCode" ->
           {<<"Idle", <<"blank", "ki_top", "ki_box", "ki_bottom", "text", "text">>>>,
            <<"Busy", <<"ki_moon", "blank", "ki_top", "ki_box", "ki_bottom", "text">>>>,
            <<"Busy", <<"ki_moon", "text", "text", "blank", "ki_top", "ki_box", "ki_bottom", "text">>>>,
            <<"Busy", <<"ki_composing", "ki_top", "ki_box", "ki_bottom", "text">>>>,
            <<"Busy", <<"ki_composing", "text", "ki_divider", "ki_todo", "ki_item", "ki_item",
                        "ki_top", "ki_box", "ki_bottom", "text">>>>,
            <<"Busy", <<"ki_glyph", "ki_divider", "ki_todo", "ki_item", "ki_item", "ki_item",
                        "ki_item", "ki_item", "ki_expand", "ki_top", "ki_box", "ki_bottom">>>>,
            <<"Busy", <<"ki_todo", "ki_item", "ki_top", "ki_box", "ki_bottom", "ki_chip">>>>}
      [] p = "Opencode" ->
           {<<"Idle", <<"oc_placeholder", "text", "text">>>>,
            <<"Idle", <<"oc_side", "oc_border", "oc_command_bar", "oc_tip", "oc_status_bar">>>>,
            <<"Idle", <<"oc_side", "oc_border", "oc_status_bar">>>>,
            <<"Busy", <<"oc_placeholder", "text", "text", "oc_interrupt">>>>,
            <<"Busy", <<"oc_interrupt", "oc_side", "oc_border", "oc_command_bar", "oc_status_bar">>>>,
            <<"Waiting", <<"oc_permission", "text", "oc_permission", "text">>>>,
            <<"Waiting", <<"text", "oc_question", "oc_question">>>>}
      [] p = "Pi" ->
           {<<"Idle", <<"pi_border", "blank", "pi_border", "text", "pi_footer", "text">>>>,
            <<"Busy", <<"pi_loader", "pi_border", "blank", "pi_border", "text", "pi_footer">>>>,
            <<"Busy", <<"pi_loader", "pi_footer">>>>}
      [] OTHER ->
           {<<"Idle", <<"text", "pr_prompt", "pr_footer">>>>,
            <<"Busy", <<"pr_loader", "text", "pr_prompt", "pr_footer">>>>,
            <<"Busy", <<"pr_spinner", "pr_prompt", "pr_footer">>>>}

\* What earlier output may have left: any line the frames consist of, plain
\* lines, a screenful of them, and whole frames of earlier turns.
Loose(p) ==
    CASE p = "Claude" -> {<<"cl_chat_at">>, <<"cl_select_hint">>}
      [] p = "Codex" -> {}
      [] p = "Gemini" -> {<<"ge_action">>, <<"ge_action_glyph">>, <<"ge_glyph">>}
      [] p = "KimiCode" -> {<<"ki_moon_bare">>, <<"ki_braille">>, <<"ki_collapse6">>}
      [] p = "Amp" -> {<<"amp_odd">>}
      [] OTHER -> {}

Fill(n) == [i \in 1..n |-> "text"]

Blocks(p) ==
    {<<f[2][i]>> : <<f, i>> \in {<<f, i>> \in Frames(p) \X (1..12) : i <= Len(f[2])}}
        \cup {f[2] : f \in Frames(p)} \cup Loose(p) \cup {<<"blank">>, Fill(5), Fill(12)}

\* Two builds of one provider that draw differently are agents of their own here.
Agents == Matched \cup {"CursorCliBordered", "CopilotBoxed"}
ProviderOf(a) ==
    CASE a = "CursorCliBordered" -> "CursorCli"
      [] a = "CopilotBoxed" -> "Copilot"
      [] OTHER -> a

Read(a, s) == Verdict(ProviderOf(a), TrimTrailingBlank(s))

ScreenInit ==
    /\ older = 0
    /\ agent \in Agents
    /\ \E f \in Frames(agent) : drawn = f[1] /\ screen = f[2]
    /\ verdict = Read(agent, screen)

\* One more older block of lines is in sight above the screen.
Older ==
    /\ older < MaxOlder
    /\ older' = older + 1
    /\ \E b \in Blocks(agent) : screen' = b \o screen
    /\ verdict' = Read(agent, screen')
    /\ UNCHANGED <<agent, drawn>>

ScreenSpec == ScreenInit /\ [][Older]_screenVars

-------------------------------------------------------------------------------
(* Properties. *)

(***************************************************************************)
(* What is left of earlier turns above the frame of an agent at work, or   *)
(* of one that asks its user, never makes it read as idle: no older prompt *)
(* or footer is taken for the current one.                                 *)
(***************************************************************************)
NeverIdleWhileBusy == drawn \in {"Busy", "Waiting"} => verdict # "Idle"

(***************************************************************************)
(* The question an agent asks its user is recognized whatever was on the   *)
(* screen before it (answered dialogs and finished turns too).             *)
(***************************************************************************)
WaitingIsSeen == drawn = "Waiting" => verdict = "Waiting"
===============================================================================
