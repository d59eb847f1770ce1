--------------------------- MODULE DesktopWindows ---------------------------
(***************************************************************************)
(* The two windows of the desktop app and the settings they share.  Each   *)
(* window is a web view with its own services (src/desktop/src/effect):    *)
(* Profiles keeps the sources in a ref and in the storage both windows     *)
(* read, Preflight probes the dock's active source and mirrors the result  *)
(* to the settings window, HostnameEnrichment files the host names probes  *)
(* find.  The settings form (useSettingsForm.ts) holds drafts of its own.  *)
(*                                                                         *)
(* The windows are two processes: one may store between the other's load   *)
(* and its store.  A commit is therefore two steps here, with the state    *)
(* about to be stored in `writing'.                                        *)
(***************************************************************************)
EXTENDS Integers, Sequences, FiniteSets, Selections

CONSTANTS
    LocalId, SshIds,   \* the local source, and ids for the remote ones
    Hosts, NoHost,     \* what a remote is reached by; NoHost: a draft without
    Runners,           \* binary path, environment and client tty of a source
    None,
    Starts             \* where a run begins: a stored profile state, whether
                       \* settings is shown, and the bounds of the run: what
                       \* the user does in each window, probes launched,
                       \* and stores refused or messages missed

VARIABLES
    storage,     \* what is persisted: [active, profiles, open]
    ref,         \* what each window shows
    writing,     \* per window: the state a mutator is about to store, or None
    toDock,      \* messages on their way to the dock, in order
    toSettings,  \* and to the settings window
    draft,       \* the form's host and runner
    reloadDue,   \* the form became clean and its effect has not reloaded yet
    focused,     \* the settings window has the focus
    armed,       \* the source key the dock's preflight was last configured for
    probing,     \* its probe is running
    resolved,    \* the dock's PreflightState
    wire,        \* lastWireRef: what a replay request is answered with
    wireDue,     \* published and not emitted yet
    tick,        \* the recorder has not looked at `resolved' yet
    synced,      \* the settings window's mirror of the preflight
    attempted,   \* keys the background prober has tried
    inFlight,    \* background probes: [id, key]
    budget, commands, probes, faults

shared == <<storage, ref, writing, toDock, toSettings>>
form   == <<draft, reloadDue, focused>>
probe  == <<armed, probing, resolved, wire, wireDue, tick, synced, attempted, inFlight>>
spent  == <<budget, commands, probes, faults>>
vars   == <<shared, form, probe, spent>>

-----------------------------------------------------------------------------
\* Profile states.

\* The machine behind a host; what a probe of it finds.
MachineOf(h) == h

SshProfile(id) == [id |-> id, kind |-> "ssh", host |-> NoHost,
                   runner |-> CHOOSE r \in Runners : TRUE,
                   enabled |-> TRUE, probed |-> None]

LocalProfile == [SshProfile(LocalId) EXCEPT !.kind = "local"]

Members(s) == {s.profiles[i] : i \in DOMAIN s.profiles}
Ids(s)     == {p.id : p \in Members(s)}
Named(s, id) == CHOOSE p \in Members(s) : p.id = id

\* A profile state: the local source is always there, no id twice, and no label of
\* another machine than the host's.
IsLabelled(p) == p.probed # None => p.probed = MachineOf(p.host)
IsProfile(p) ==
    /\ DOMAIN p = {"id", "kind", "host", "runner", "enabled", "probed"}
    /\ p.kind = IF p.id = LocalId THEN "local" ELSE "ssh"
    /\ IsLabelled(p)
IsProfileState(s) ==
    /\ DOMAIN s = {"active", "profiles", "open"}
    /\ s.profiles \in Seq(Members(s)) /\ LocalId \in Ids(s)
    /\ \A i, j \in DOMAIN s.profiles : s.profiles[i].id = s.profiles[j].id => i = j
    /\ \A p \in Members(s) : IsProfile(p)

ASSUME StartsAssumption == \A start \in Starts : IsProfileState(start.stored)

Runnable(p) == p.kind = "local" \/ p.enabled
IsFolder(p) == Runnable(p) /\ (p.kind = "ssh" => p.host # NoHost)

First(s, P) ==
    s.profiles[CHOOSE i \in DOMAIN s.profiles :
                   s.profiles[i] \in P /\ \A j \in 1..(i - 1) : s.profiles[j] \notin P]

\* getActiveProfile: the active one, or the first that can run.
Active(s) ==
    LET runnable == {p \in Members(s) : Runnable(p)}
        chosen   == {p \in runnable : p.id = s.active}
    IN  First(s, IF chosen # {} THEN chosen ELSE runnable)

RunnerKey(p) == [kind |-> p.kind, host |-> p.host, runner |-> p.runner]
ActiveKey(s) == RunnerKey(Active(s))

\* One profile per host survives a load: the first that can run, else the first.
Survivor(s, p) ==
    LET twins == {q \in Members(s) : q.kind = "ssh" /\ q.host = p.host}
        live  == {q \in twins : Runnable(q)}
    IN  IF p.kind = "local" THEN p ELSE First(s, IF live # {} THEN live ELSE twins)

Remap(s, id) == IF id \in Ids(s) THEN Survivor(s, Named(s, id)).id ELSE id

Normalize(s) ==
    LET survivors == {p \in Members(s) : Survivor(s, p) = p}
        runnable  == {p \in survivors : Runnable(p)}
        running   == {p.id : p \in runnable}
        active    == Remap(s, s.active)
    IN  [ active   |-> IF active \in running THEN active ELSE First(s, runnable).id,
          profiles |-> Those(s.profiles, survivors),
          open     |-> {Remap(s, id) : id \in s.open} \cap running ]

\* loadProfileState: every read of the storage is normalized.
Latest == Normalize(storage)

Replace(s, id, p) ==
    [s EXCEPT !.profiles = [i \in DOMAIN s.profiles |->
                               IF s.profiles[i].id = id THEN p ELSE s.profiles[i]]]

-----------------------------------------------------------------------------
\* The mutators' state changes: from the latest state to the one to commit,
\* which is None when nothing is to be written.

Select(s, id) ==
    IF id = s.active \/ id \notin Ids(s) THEN None
    ELSE IF ~Runnable(Named(s, id)) THEN None ELSE [s EXCEPT !.active = id]

\* addSshProfile: the one draft without a host is reused, else a new one is made.
Drafts(s) == {p \in Members(s) : p.kind = "ssh" /\ p.host = NoHost}

AddSsh(s, id) ==
    IF Drafts(s) # {}
    THEN LET d    == First(s, Drafts(s)).id
             next == [s EXCEPT !.active = d, !.open = @ \cup {d}]
         IN  IF next = s THEN None ELSE next
    ELSE [active |-> id, profiles |-> Append(s.profiles, SshProfile(id)),
          open |-> s.open \cup {id}]

\* deleteActiveProfile removes the source this window shows; the storage's
\* active one stays if it is another.
Delete(s, id) ==
    Normalize([s EXCEPT !.profiles = Those(@, {p \in Members(s) : p.id # id}),
                        !.active = IF @ \in Ids(s) \ {id} THEN @ ELSE LocalId])

ToggleOpen(s, id) ==
    IF id \notin Ids(s) THEN None
    ELSE [s EXCEPT !.open = IF id \in @ THEN @ \ {id} ELSE @ \cup {id}]

SetEnabled(s, id, on) ==
    IF id \notin Ids(s) \/ id = LocalId THEN None
    ELSE IF Named(s, id).enabled = on THEN None
    ELSE LET next == Replace(s, id, [Named(s, id) EXCEPT !.enabled = on])
         IN  Normalize([next EXCEPT !.open = IF on THEN @ \cup {id} ELSE @ \ {id}])

\* reorderProfile inserts at the target's old index.
Reorder(s, id, target) ==
    IF {id, target} \subseteq Ids(s) /\ id # target
    THEN LET at   == CHOOSE i \in DOMAIN s.profiles : s.profiles[i].id = target
             rest == Those(s.profiles, {p \in Members(s) : p.id # id})
         IN  [s EXCEPT !.profiles = SubSeq(rest, 1, at - 1) \o <<Named(s, id)>>
                                    \o SubSeq(rest, at, Len(rest))]
    ELSE None

\* recordProbedHost: only onto the connection that was probed.
IsStillProbedById(p, key) == TRUE
IsStillProbed(p, key) == RunnerKey(p) = key

RecordProbedHost(s, id, label, key) ==
    IF id \notin Ids(s) \/ id = LocalId \/ label = None THEN None
    ELSE IF ~IsStillProbed(Named(s, id), key) \/ Named(s, id).probed = label THEN None
    ELSE Replace(s, id, [Named(s, id) EXCEPT !.probed = label])

SshHostCollides(s, id, h) ==
    h # NoHost /\ \E p \in Members(s) : p.id # id /\ p.kind = "ssh" /\ p.host = h

\* updateProfileSettingsById: an edit of a profile that has gone is dropped.
ApplyEdit(s, id, d) ==
    IF id \notin Ids(s) THEN s
    ELSE LET p == Named(s, id)
         IN  Replace(s, id, [p EXCEPT
                !.runner = d.runner,
                !.host = IF p.kind = "ssh" THEN d.host ELSE @,
                !.enabled = TRUE,
                !.probed = IF p.kind = "ssh" /\ d.host # p.host THEN None ELSE @])

-----------------------------------------------------------------------------
\* The form, and what a window does when its ref changes.

Committed(s) == [host |-> Active(s).host, runner |-> Active(s).runner]
Dirty(s, d)  == d # Committed(s)
IsDirty      == Dirty(ref.settings, draft)
FormKey(s)   == <<Active(s).id, ActiveKey(s)>>

BecomesClean(wasDirty, dirty) == wasDirty /\ ~dirty

\* A render of the settings window on ref s with drafts d: another source or
\* other committed values reset the drafts, and a form that became clean
\* owes a reload.
Shows(s, d) ==
    LET drafts == IF FormKey(s) # FormKey(ref.settings) THEN Committed(s) ELSE d
    IN  /\ draft' = drafts
        /\ reloadDue' = (reloadDue \/ BecomesClean(IsDirty, Dirty(s, drafts)))

Adopt(w, s) ==
    /\ ref' = [ref EXCEPT ![w] = s]
    /\ IF w = "settings" THEN Shows(s, draft) ELSE UNCHANGED <<draft, reloadDue>>

Free(w) == writing[w] = None

\* A mutator of window w has loaded the storage and means to store `next'.
Begin(w, next) ==
    /\ writing' = [writing EXCEPT ![w] = next]
    /\ UNCHANGED <<storage, ref, toDock, toSettings, form>>

\* A mutator that has nothing to write; select and add adopt what is stored.
Reload(w) ==
    /\ Adopt(w, Latest)
    /\ UNCHANGED <<storage, writing, toDock, toSettings, focused>>

Mutates(w, next) == next # None /\ Begin(w, next)
MutatesOrAdopts(w, next) == IF next # None THEN Begin(w, next) ELSE Reload(w)

Command(w) ==
    /\ Free(w)
    /\ commands[w] < budget[w]
    /\ commands' = [commands EXCEPT ![w] = @ + 1]
    /\ UNCHANGED <<probe, budget, probes, faults>>

\* Profiles.commit: store, tell the other window, show.
Commit(w) ==
    /\ ~Free(w)
    /\ storage' = writing[w]
    /\ writing' = [writing EXCEPT ![w] = None]
    /\ IF w = "dock"
       THEN toSettings' = Append(toSettings, [kind |-> "profiles"]) /\ UNCHANGED toDock
       ELSE toDock' = Append(toDock, "profiles") /\ UNCHANGED toSettings
    /\ Adopt(w, writing[w])
    /\ UNCHANGED <<focused, probe, spent>>

\* The store throws: nothing is told and nothing is shown.
StoreThrows(w) ==
    /\ ~Free(w)
    /\ faults < budget.faults
    /\ faults' = faults + 1
    /\ writing' = [writing EXCEPT ![w] = None]
    /\ UNCHANGED <<storage, ref, toDock, toSettings, form, probe, budget, commands, probes>>

-----------------------------------------------------------------------------
\* What the user does in the dock.

DockSelect == /\ Command("dock")
              /\ \E p \in Members(ref.dock) :
                     IsFolder(p) /\ MutatesOrAdopts("dock", Select(Latest, p.id))

DockToggle == /\ Command("dock")
              /\ \E p \in Members(ref.dock) :
                     IsFolder(p) /\ Mutates("dock", ToggleOpen(Latest, p.id))

\* The source menu lists every source with a connection, hidden ones too.
DockEnable == /\ Command("dock")
              /\ \E p \in Members(ref.dock) :
                     /\ p.kind = "ssh" /\ p.host # NoHost
                     /\ Mutates("dock", SetEnabled(Latest, p.id, ~p.enabled))

DockReorder == /\ Command("dock")
               /\ \E p, q \in Members(ref.dock) :
                      Mutates("dock", Reorder(Latest, p.id, q.id))

\* What the user does in the settings window.

Typed == focused /\ Command("settings")

TypeInForm ==
    /\ Typed
    /\ \E d \in [host : IF Active(ref.settings).kind = "ssh" THEN Hosts \cup {NoHost} ELSE {NoHost},
                 runner : Runners] :
           d # draft /\ Shows(ref.settings, d)
    /\ UNCHANGED <<shared, focused>>

Valid(s, d) ==
    Active(s).kind = "ssh" => d.host # NoHost /\ ~SshHostCollides(s, Active(s).id, d.host)

\* applyRunnerSettings targets the ref's active id and checks the host again.
ApplyForm ==
    /\ Typed /\ IsDirty /\ Valid(ref.settings, draft)
    /\ LET id == ref.settings.active
       IN  IF id \in Ids(Latest) \ {LocalId} /\ SshHostCollides(Latest, id, draft.host)
           THEN Reload("settings")
           ELSE Begin("settings", ApplyEdit(Latest, id, draft))

ResetForm == /\ Typed /\ IsDirty
             /\ Shows(ref.settings, Committed(ref.settings))
             /\ UNCHANGED <<shared, focused>>

\* The highlighted card of a form with edits does nothing.
SelectCard == /\ Typed
              /\ \E p \in Members(ref.settings) :
                     /\ ~(IsDirty /\ p.id = Active(ref.settings).id)
                     /\ MutatesOrAdopts("settings", Select(Latest, p.id))

Known == LET states == {storage, ref.dock, ref.settings} \cup ({writing.dock} \ {None})
         IN  UNION {Ids(s) : s \in states} \cup {f.id : f \in inFlight}

AddCard == /\ Typed
           /\ \E id \in SshIds :
                  /\ Drafts(Latest) = {} => id \notin Known
                  /\ MutatesOrAdopts("settings", AddSsh(Latest, id))

DeleteCard == /\ Typed /\ Active(ref.settings).kind = "ssh"
              /\ Mutates("settings", Delete(Latest, Active(ref.settings).id))

ReorderCards == /\ Typed
                /\ \E p, q \in Members(ref.settings) :
                       Mutates("settings", Reorder(Latest, p.id, q.id))

ToggleCard == /\ Typed /\ IsFolder(Active(ref.settings))
              /\ Mutates("settings", ToggleOpen(Latest, Active(ref.settings).id))

\* The focus reconciler: reload unless there are edits, and ask the dock for
\* its preflight.
Focus ==
    /\ ~focused /\ Command("settings")
    /\ focused' = TRUE
    /\ IF IsDirty THEN UNCHANGED <<ref, draft, reloadDue>> ELSE Adopt("settings", Latest)
    /\ toDock' = Append(toDock, "request")
    /\ UNCHANGED <<storage, writing, toSettings>>

Hide == /\ Typed /\ focused' = FALSE
        /\ UNCHANGED <<shared, draft, reloadDue>>

\* The form's effect on becoming clean; it only reloads while it still is.
ReloadWhenClean ==
    /\ Free("settings") /\ reloadDue
    /\ reloadDue' = FALSE
    /\ LET s == IF IsDirty THEN ref.settings ELSE Latest
       IN  /\ ref' = [ref EXCEPT !.settings = s]
           /\ draft' = IF FormKey(s) # FormKey(ref.settings) THEN Committed(s) ELSE draft
    /\ UNCHANGED <<storage, writing, toDock, toSettings, focused, probe, spent>>

-----------------------------------------------------------------------------
\* Messages between the windows.

AdoptsSyncAlways == TRUE
AdoptsSync == ~IsDirty

HearProfiles ==
    /\ Free("settings") /\ toSettings # <<>> /\ Head(toSettings).kind = "profiles"
    /\ toSettings' = Tail(toSettings)
    /\ IF AdoptsSync THEN Adopt("settings", Latest) ELSE UNCHANGED <<ref, draft, reloadDue>>
    /\ UNCHANGED <<storage, writing, toDock, focused, probe, spent>>

HearPreflight ==
    /\ Free("settings") /\ toSettings # <<>> /\ Head(toSettings).kind = "preflight"
    /\ toSettings' = Tail(toSettings)
    /\ synced' = Head(toSettings)
    /\ UNCHANGED <<storage, ref, writing, toDock, form, armed, probing, resolved, wire, wireDue,
                   tick, attempted, inFlight, spent>>

\* emitTo has no replay: a window that is not shown may miss a message.
Miss ==
    /\ ~focused /\ toSettings # <<>> /\ faults < budget.faults
    /\ faults' = faults + 1
    /\ toSettings' = Tail(toSettings)
    /\ UNCHANGED <<storage, ref, writing, toDock, form, probe, budget, commands, probes>>

DockHears ==
    /\ Free("dock") /\ toDock # <<>>
    /\ toDock' = Tail(toDock)
    /\ IF Head(toDock) = "profiles"
       THEN Adopt("dock", Latest) /\ UNCHANGED toSettings
       ELSE toSettings' = Append(toSettings, wire) /\ UNCHANGED <<ref, draft, reloadDue>>
    /\ UNCHANGED <<storage, writing, focused, probe, spent>>

-----------------------------------------------------------------------------
\* Preflight and the host names it finds.

Wire(status, key, label) ==
    [kind |-> "preflight", status |-> status, key |-> key, label |-> label]

WireOf(next, key) == [next EXCEPT !.key = IF next.status = "ready" THEN @ ELSE key]

\* publish: the state and the wire kept for replays, then the emission.
Publish(next) ==
    /\ resolved' = next
    /\ wire' = WireOf(next, armed')
    /\ wireDue' = TRUE
    /\ tick' = TRUE

Launch ==
    /\ probes < budget.probes
    /\ probes' = probes + 1
    /\ UNCHANGED <<budget, commands, faults>>

\* The effect on the active source's key: the probe that ran is superseded,
\* a result that is ready stays until the new one.
Configure ==
    /\ Launch
    /\ Free("dock") /\ armed # ActiveKey(ref.dock)
    /\ armed' = ActiveKey(ref.dock)
    /\ probing' = TRUE
    /\ IF resolved.status = "ready"
       THEN wireDue' = FALSE /\ UNCHANGED <<resolved, wire, tick>>
       ELSE Publish(Wire("loading", None, None))
    /\ UNCHANGED <<shared, form, synced, attempted, inFlight>>

\* The probe of the armed source answers: with a host name, without, or not
\* at all.
ProbeResolves ==
    /\ Free("dock") /\ probing
    /\ probing' = FALSE
    /\ \E next \in {Wire("ready", armed, None), Wire("failed", None, None)} \cup
                   {Wire("ready", armed, MachineOf(h)) : h \in {armed.host} \ {NoHost}} :
           armed' = armed /\ Publish(next)
    /\ UNCHANGED <<shared, form, synced, attempted, inFlight, spent>>

Emit ==
    /\ Free("dock") /\ wireDue
    /\ wireDue' = FALSE
    /\ toSettings' = Append(toSettings, wire)
    /\ UNCHANGED <<storage, ref, writing, toDock, form, armed, probing, resolved, wire, tick, synced,
                   attempted, inFlight, spent>>

\* recordDriverProbes: the host name goes to whichever profile owns the key.
RecordDriverProbe ==
    /\ Free("dock") /\ tick
    /\ tick' = FALSE
    /\ LET owners == {p \in Members(ref.dock) : RunnerKey(p) = resolved.key}
           next   == IF owners = {} \/ resolved.status # "ready" THEN None
                     ELSE RecordProbedHost(Latest, (CHOOSE p \in owners : TRUE).id,
                                           resolved.label, resolved.key)
       IN  writing' = [writing EXCEPT !.dock = next]
    /\ UNCHANGED <<storage, ref, toDock, toSettings, form, armed, probing, resolved, wire, wireDue,
                   synced, attempted, inFlight, spent>>

\* probeBackgroundSources: a source that is online, was never probed and is
\* not the active one is probed once.
ProbeInBackground ==
    /\ Launch
    /\ Free("dock")
    /\ \E p \in Members(ref.dock) :
           LET key     == RunnerKey(p)
               current == {RunnerKey(q) : q \in {q \in Members(ref.dock) : IsFolder(q)}}
           IN  /\ IsFolder(p) /\ p.kind = "ssh" /\ p.probed = None
               /\ key # ActiveKey(ref.dock) /\ key \notin attempted
               /\ attempted' = (attempted \cap current) \cup {key}
               /\ inFlight' = inFlight \cup {[id |-> p.id, key |-> key]}
    /\ UNCHANGED <<shared, form, armed, probing, resolved, wire, wireDue, tick, synced>>

BackgroundProbeResolves ==
    /\ Free("dock")
    /\ \E f \in inFlight, label \in {None, "found"} :
           /\ inFlight' = inFlight \ {f}
           /\ writing' = [writing EXCEPT !.dock =
                 RecordProbedHost(Latest, f.id,
                                  IF label = None THEN None ELSE MachineOf(f.key.host), f.key)]
    /\ UNCHANGED <<storage, ref, toDock, toSettings, form, armed, probing, resolved, wire, wireDue,
                   tick, synced, attempted, spent>>

-----------------------------------------------------------------------------
\* Both windows start from what is stored.
Init ==
    \E start \in Starts : LET s == start.stored IN
        /\ storage = s
        /\ budget = start.budget
        /\ ref = [dock |-> s, settings |-> s]
        /\ writing = [dock |-> None, settings |-> None]
        /\ toDock = <<>> /\ toSettings = <<>>
        /\ draft = Committed(s) /\ reloadDue = FALSE /\ focused = start.focused
        /\ armed = None /\ probing = FALSE
        /\ resolved = Wire("loading", None, None) /\ wire = resolved
        /\ synced = IF focused THEN wire ELSE None
        /\ wireDue = FALSE /\ tick = FALSE
        /\ attempted = {} /\ inFlight = {}
        /\ commands = [dock |-> 0, settings |-> 0] /\ probes = 0 /\ faults = 0

Next ==
    \/ DockSelect \/ DockToggle \/ DockEnable \/ DockReorder
    \/ TypeInForm \/ ApplyForm \/ ResetForm
    \/ SelectCard \/ AddCard \/ DeleteCard \/ ReorderCards \/ ToggleCard
    \/ Focus \/ Hide \/ ReloadWhenClean
    \/ \E w \in {"dock", "settings"} : Commit(w) \/ StoreThrows(w)
    \/ HearProfiles \/ HearPreflight \/ Miss \/ DockHears
    \/ Configure \/ ProbeResolves \/ Emit \/ RecordDriverProbe
    \/ ProbeInBackground \/ BackgroundProbeResolves

Spec == Init /\ [][Next]_vars

-----------------------------------------------------------------------------
\* Properties.

\* A label found by a probe is only ever filed under the connection that was
\* probed, in the storage and in both windows, however late the probe answers.
LabelsAreOfTheirConnection ==
    \A s \in {storage, ref.dock, ref.settings} : \A p \in Members(s) : IsLabelled(p)

\* When the messages have been heard, the dock shows what is stored; so does
\* a settings window that has the focus and no edits, whatever it missed.
WindowsFollowStorage ==
    /\ (Free("dock") /\ Free("settings") /\ "profiles" \notin {toDock[i] : i \in DOMAIN toDock})
           => Normalize(ref.dock) = Latest
    /\ ( /\ Free("dock") /\ Free("settings") /\ focused /\ ~IsDirty /\ ~reloadDue
         /\ \A i \in DOMAIN toSettings : toSettings[i].kind # "profiles" )
           => Normalize(ref.settings) = Latest

\* Edits in the form are lost to no message, no probe, no refocus and nothing
\* that is done in the dock: only to what the user does in the form's window.
EditsSurviveTheDock ==
    [][(IsDirty /\ draft' # draft) =>
           ((focused /\ commands'.settings # commands.settings) \/ ~Free("settings"))]_vars

\* What is stored was found out about the connection it is stored with, and what the
\* windows show is what is stored.
StorageIsTrueAndShown == LabelsAreOfTheirConnection /\ WindowsFollowStorage
=============================================================================
