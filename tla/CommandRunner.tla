----------------------------- MODULE CommandRunner -----------------------------
(***************************************************************************)
(* The desktop host's one-shot calls: preflight, picker rows, focus and    *)
(* daemon status, each a run of `agentscan`, here or over SSH.  A child    *)
(* writes to two pipes that a thread each drains; a descendant (a daemon   *)
(* that the child started) may inherit them and hold them open long after  *)
(* the child is gone.  The call polls the child, gives up at its timeout,  *)
(* and waits a grace for each pipe once the child is gone.                 *)
(*                                                                         *)
(* Output is a sequence of chunks, known by who wrote them.  A message of  *)
(* failure is the set of the phrases that are looked for in it.  Time is   *)
(* in ticks; a drain thread with something to read reads it within one.    *)
(***************************************************************************)
EXTENDS Naturals, Sequences

CONSTANTS
  Timeout, ProbeTimeout,  \* ticks a call waits for its child, and a probe for its own
  LIVE_CHILD_EXIT_GRACE,  \* ticks for each pipe after that
  Profiles,               \* the settings that calls are made with
  Messages,               \* what failing children say: sets of phrases
  MaxChunks               \* bound: chunks in a pipe

\* What a profile says, and what that meets on the machine it names.
RunnerSettings ==
  [ssh : BOOLEAN, configured : {"none", "good", "gone"}, flaw : {"none", "env", "host", "tty", "pane"},
   installed : SUBSET {"dirs", "path", "shims"}, remote : {"on_path", "login_only", "nowhere"}]

Phrases ==
  {"auth", "lookup", "unreachable", "host_key", "client_tty", "no_rows", "bad_json", "incompatible",
   "auto_start", "tmux", "not_found", "no_server", "dropped", "binary", "stale_pane", "timed_out"}

ASSUME RunnerAssumption ==
  /\ Timeout \in Nat /\ ProbeTimeout \in Nat /\ LIVE_CHILD_EXIT_GRACE \in Nat \ {0}
  /\ Profiles \subseteq RunnerSettings /\ Messages \subseteq SUBSET Phrases /\ MaxChunks \in Nat

VARIABLES
  runner,     \* the profile's settings, and what they meet on their machine
  shot,       \* the operation, and how far it is
  spawned,    \* the child: "none", "running", "zombie" or "reaped"
  exit,       \* how it ended: its success, what it said or printed
  heir,       \* whether a descendant holds the pipes
  pipe,       \* per pipe: the chunks written
  drained,    \* per pipe: how many of them its thread has read
  elapsed,    \* ticks since the child was spawned
  waited,     \* ticks since the call began to wait for a pipe
  reply       \* what the last call answered

childVars == <<spawned, exit, heir, pipe, drained, elapsed>>
runnerVars == <<runner, shot, childVars, waited, reply>>

Pipes == {"stdout", "stderr"}
OneShots == {"preflight", "hotkeys", "focus", "status"}
Printed == {"good", "garbled", "other_schema", "bad_rows", "no_rows", "not_running"}

-----------------------------------------------------------------------------
(* Settings. *)

\* agentscan_binary_for_settings: a path that the profile or the environment
\* names is taken as it is; else the install directories are searched before
\* PATH, and PATH before the shims.
LocalBinary(r) ==
  IF r.configured # "none" THEN r.configured
  ELSE IF r.installed \cap {"dirs", "path", "shims"} # {} THEN "good" ELSE "gone"

\* What keeps a call from its child: validate_ssh_host, validate_client_tty
\* and validate_command_env, or no pane to focus.
Refused(op, r) ==
  \/ r.flaw = "env"
  \/ op = "focus" /\ r.flaw = "pane"
  \/ r.ssh /\ (r.flaw = "host" \/ (op = "focus" /\ r.flaw = "tty"))

\* The remote PATH has the install directories after its own: a binary that
\* only an interactive shell's rc file puts on PATH is not found.
FindsBinary(r) == IF r.ssh THEN r.remote = "on_path" ELSE LocalBinary(r) = "good"

-----------------------------------------------------------------------------
(* What is said of a failure. *)

Has(message, phrases) == message \cap phrases # {}
LooksLikeBinaryNotFound(message) == {"not_found", "binary"} \subseteq message

\* classify_desktop_failure: the tests in the order they are made.
Tests(ssh, op, m) ==
  << <<m = {}, "failed">>,
     <<ssh /\ Has(m, {"auth"}), "SSH authentication failed">>,
     <<ssh /\ Has(m, {"lookup"}), "SSH host lookup failed">>,
     <<ssh /\ Has(m, {"unreachable"}), "SSH connection failed">>,
     <<ssh /\ Has(m, {"host_key"}), "SSH host key verification failed">>,
     <<ssh /\ Has(m, {"client_tty"}), "Remote client tty is invalid">>,
     <<Has(m, {"no_rows"}), "Incompatible: older host">>,
     <<Has(m, {"bad_json"}), "Invalid JSON">>,
     <<Has(m, {"incompatible"}), "Incompatible">>,
     <<Has(m, {"auto_start"}), "Daemon auto-start was refused">>,
     <<Has(m, {"tmux"}) /\ Has(m, {"not_found", "no_server"}), "tmux is unavailable">>,
     <<Has(m, {"tmux"}) /\ Has(m, {"dropped"}), "The tmux server dropped a fresh client">>,
     <<LooksLikeBinaryNotFound(m), "binary was not found">>,
     <<op = "focus" /\ Has(m, {"stale_pane"}), "Focus target is stale">>,
     <<TRUE, "as it is">> >>

Classified(op, m) ==
  LET tests == Tests(runner.ssh, op, m)
  IN tests[CHOOSE i \in DOMAIN tests : tests[i][1] /\ \A j \in 1..(i - 1) : ~tests[j][1]][2]

Failure(op, m) == [kind |-> "error", class |-> Classified(op, m), suggested |-> FALSE]
Success(kind) == [kind |-> kind, class |-> "none", suggested |-> FALSE]

\* An envelope of rows is taken when its schema is known and every row is whole.
RowsOf(op, content) ==
  IF content \in {"other_schema", "bad_rows"} THEN Failure(op, {"incompatible"})
  ELSE Success("rows")

\* What makes an answer of a child's output: the host's hostname line and
\* version, rows, or a status to look at.
OfOutput(op, content) ==
  IF op \in {"preflight", "focus"} THEN Success("ok")
  ELSE IF content = "garbled" THEN Failure(op, {"bad_json"})
  ELSE IF op = "status" THEN Success(IF content = "not_running" THEN "unreachable" ELSE "reachable")
  ELSE IF content = "no_rows" THEN Failure(op, {"no_rows", "bad_json"})
  ELSE RowsOf(op, content)

-----------------------------------------------------------------------------
(* The child, its heir, and the threads that drain its pipes. *)

WriterLeft == spawned = "running" \/ heir
AtEnd(p) == ~WriterLeft /\ drained[p] = Len(pipe[p])
AllRead == \A p \in Pipes : drained[p] = Len(pipe[p])

Writes(who, p) ==
  /\ Len(pipe[p]) < MaxChunks
  /\ pipe' = [pipe EXCEPT ![p] = Append(@, who)]
  /\ UNCHANGED <<runner, shot, spawned, exit, heir, drained, elapsed, waited, reply>>

ChildWrites == spawned = "running" /\ \E p \in Pipes : Writes("child", p)
HeirWrites == heir /\ \E p \in Pipes : Writes("heir", p)

HeirIsBorn ==
  /\ spawned = "running" /\ ~heir /\ heir' = TRUE
  /\ UNCHANGED <<runner, shot, spawned, exit, pipe, drained, elapsed, waited, reply>>

HeirEnds ==
  /\ heir /\ heir' = FALSE
  /\ UNCHANGED <<runner, shot, spawned, exit, pipe, drained, elapsed, waited, reply>>

\* A binary that is not there is what `env`, over SSH, says of it; a probe
\* prints where the login shell finds the binary, if it does.
Endings ==
  IF shot.op = "probe" THEN {[ok |-> TRUE, content |-> runner.remote, message |-> {}],
                             [ok |-> FALSE, content |-> "garbled", message |-> {"unreachable"}]}
  ELSE [ok : {FALSE}, content : {"garbled"}, message : Messages]
       \cup (IF FindsBinary(runner) THEN [ok : {TRUE}, content : Printed, message : {{}}]
             ELSE {[ok |-> FALSE, content |-> "garbled", message |-> {"not_found", "binary"}]})

ChildExits ==
  /\ spawned = "running" /\ spawned' = "zombie"
  /\ exit' \in Endings
  /\ UNCHANGED <<runner, shot, heir, pipe, drained, elapsed, waited, reply>>

Drain(p) ==
  /\ drained[p] < Len(pipe[p])
  /\ drained' = [drained EXCEPT ![p] = @ + 1]
  /\ UNCHANGED <<runner, shot, spawned, exit, heir, pipe, elapsed, waited, reply>>

-----------------------------------------------------------------------------
(* The call: run_command_with_timeout and those around it. *)

InCall(label) == shot.at = label
CallGoes(label) == shot' = [shot EXCEPT !.at = label]

\* A spawn makes the child, its pipes and their threads; those of the child
\* before are detached, and no longer looked at.
SpawnAs(op) ==
  /\ shot' = [op |-> op, at |-> "poll"]
  /\ spawned' = "running" /\ heir' = FALSE /\ elapsed' = 0 /\ waited' = 0
  /\ pipe' = [p \in Pipes |-> <<>>] /\ drained' = [p \in Pipes |-> 0]

Replies(answer) ==
  /\ reply' = answer /\ shot' = [shot EXCEPT !.at = "idle"]

\* Any profile may make the call; a local binary that is not there fails the
\* spawn, and only the calls other than preflight name the binary then.
BeginOneShot(op, r) ==
  /\ InCall("idle")
  /\ runner' = r
  /\ UNCHANGED <<exit>>
  /\ IF Refused(op, r)
       THEN /\ reply' = [kind |-> "error", suggested |-> FALSE,
                         class |-> IF r.flaw = "tty" THEN "Remote client tty is invalid" ELSE "as it is"]
            /\ UNCHANGED <<shot, spawned, heir, pipe, drained, elapsed, waited>>
     ELSE IF ~r.ssh /\ ~FindsBinary(r)
       THEN /\ reply' = [kind |-> "error", suggested |-> FALSE,
                         class |-> IF op = "preflight" THEN "as it is" ELSE "binary was not found"]
            /\ UNCHANGED <<shot, spawned, heir, pipe, drained, elapsed, waited>>
     ELSE SpawnAs(op) /\ UNCHANGED reply

LimitOf(op) == IF op = "probe" THEN ProbeTimeout ELSE Timeout

\* The probe that a preflight ends with adds to its failure, or does not.
AfterFailure(m) ==
  IF shot.op = "preflight" /\ runner.ssh /\ LooksLikeBinaryNotFound(m)
    THEN SpawnAs("probe") /\ reply' = Failure("preflight", m) /\ UNCHANGED <<runner, exit>>
    ELSE /\ IF shot.op = "probe" THEN Replies(reply) ELSE Replies(Failure(shot.op, m))
         /\ UNCHANGED <<runner, spawned, exit, heir, pipe, drained, elapsed, waited>>

SeeExit ==
  /\ InCall("poll") /\ spawned = "zombie"
  /\ spawned' = "reaped" /\ CallGoes("stdout") /\ waited' = 0
  /\ UNCHANGED <<runner, exit, heir, pipe, drained, elapsed, reply>>

\* Killed and reaped in one; what it wrote is not looked at.
TimeOut ==
  /\ InCall("poll") /\ spawned = "running" /\ elapsed >= LimitOf(shot.op)
  /\ spawned' = "reaped" /\ CallGoes("timed_out")
  /\ UNCHANGED <<runner, exit, heir, pipe, drained, elapsed, waited, reply>>

ReportTimeout == InCall("timed_out") /\ AfterFailure({"timed_out"})

\* Mutant: a pipe is read to its end.
CollectedAtEnd(p) == AtEnd(p)

\* collect_pipe: until the pipe's end, or for the grace, then what there is.
Collected(p) == AtEnd(p) \/ waited >= LIVE_CHILD_EXIT_GRACE

CollectStdout ==
  /\ InCall("stdout") /\ Collected("stdout")
  /\ shot' = [shot EXCEPT !.at = "stderr"] /\ waited' = 0
  /\ UNCHANGED <<runner, childVars, reply>>

CollectStderr ==
  /\ InCall("stderr") /\ Collected("stderr")
  /\ CallGoes("collected")
  /\ UNCHANGED <<runner, childVars, waited, reply>>

\* An heir's bytes between the child's spoil what is parsed.
Content ==
  IF \E i \in 1..drained["stdout"] : pipe["stdout"][i] = "heir" THEN "garbled" ELSE exit.content

ReportOutput ==
  /\ InCall("collected")
  /\ IF ~exit.ok THEN AfterFailure(exit.message)
     ELSE /\ Replies(IF shot.op = "probe"
                       THEN [reply EXCEPT !.suggested = exit.content = "login_only"]
                       ELSE OfOutput(shot.op, Content))
          /\ UNCHANGED <<runner, childVars, waited>>

\* Time passes for nobody who has something to do.
TimePasses ==
  /\ AllRead
  /\ \/ InCall("poll") /\ spawned = "running" /\ elapsed < LimitOf(shot.op)
     \/ InCall("stdout") /\ ~Collected("stdout")
     \/ InCall("stderr") /\ ~Collected("stderr")
  /\ elapsed' = elapsed + 1
  /\ waited' = IF InCall("poll") THEN 0 ELSE waited + 1
  /\ UNCHANGED <<runner, shot, spawned, exit, heir, pipe, drained, reply>>

RunnerInit ==
  /\ runner \in Profiles
  /\ shot = [op |-> "status", at |-> "idle"]
  /\ spawned = "none" /\ exit = [ok |-> FALSE, content |-> "garbled", message |-> {}]
  /\ heir = FALSE /\ pipe = [p \in Pipes |-> <<>>] /\ drained = [p \in Pipes |-> 0]
  /\ elapsed = 0 /\ waited = 0
  /\ reply = Success("ok")

RunnerNext ==
  \/ \E op \in OneShots, r \in Profiles : BeginOneShot(op, r)
  \/ ChildWrites \/ HeirWrites \/ HeirIsBorn \/ HeirEnds \/ ChildExits
  \/ \E p \in Pipes : Drain(p)
  \/ SeeExit \/ TimeOut \/ ReportTimeout \/ CollectStdout \/ CollectStderr \/ ReportOutput
  \/ TimePasses

RunnerSpec == RunnerInit /\ [][RunnerNext]_runnerVars

-----------------------------------------------------------------------------

RunnerTypeOK ==
  /\ runner \in RunnerSettings
  /\ shot \in [op : OneShots \cup {"probe"},
              at : {"idle", "poll", "timed_out", "stdout", "stderr", "collected"}]
  /\ spawned \in {"none", "running", "zombie", "reaped"} /\ heir \in BOOLEAN
  /\ exit.ok \in BOOLEAN /\ exit.message \subseteq Phrases
  /\ pipe \in [Pipes -> Seq({"child", "heir"})] /\ drained \in [Pipes -> Nat]
  /\ \A p \in Pipes : drained[p] <= Len(pipe[p]) /\ Len(pipe[p]) <= MaxChunks
  /\ elapsed \in Nat /\ waited \in Nat
  /\ reply.kind \in {"ok", "rows", "reachable", "unreachable", "error"} /\ reply.suggested \in BOOLEAN

ChildsOutputIsIn(p) == \A i \in DOMAIN pipe[p] : pipe[p][i] = "child" => i <= drained[p]

\* An answer made of a child's output has all of it, the child is reaped, and
\* no call outlasts its timeout by more than the two graces: a descendant that
\* holds the pipes, and writes to them, changes neither.
AnswersAreWholeAndInTime ==
  /\ InCall("collected") => spawned = "reaped" /\ \A p \in Pipes : ChildsOutputIsIn(p)
  /\ InCall("idle") => spawned \in {"none", "reaped"}
  /\ ~InCall("idle") => elapsed <= LimitOf(shot.op) + 2 * LIVE_CHILD_EXIT_GRACE

\* A path is offered to the user only for a remote binary that the call did not
\* find and the user's login shell does, on the host that the call was for.
SuggestionIsWanted ==
  InCall("idle") /\ reply.suggested =>
    runner.ssh /\ runner.remote = "login_only" /\ reply.kind = "error"

OneShotsAreSound == AnswersAreWholeAndInTime /\ SuggestionIsWanted
=============================================================================
