--------------------------- MODULE WorkspaceCache ---------------------------
(***************************************************************************)
(* The workspaces by which the picker groups panes, and the cache between  *)
(* the picker and the file system: finding the repository of a directory   *)
(* means looking for ".git" all the way up, for every pane of every        *)
(* snapshot. An answer is kept for two seconds under the pane's session    *)
(* and directory; a repository is kept for every directory on the way up   *)
(* to it too, so that the panes below it need no search of their own.      *)
(*                                                                         *)
(* A directory is the sequence of its names; the root, <<>>, has no name   *)
(* of its own. Time is counted in ticks.                                   *)
(***************************************************************************)
EXTENDS Naturals, Sequences

CONSTANTS
  Dirs,                 \* directories, with all those above them
  PanePlaces,           \* the sessions and directories of panes
  Common,               \* where a linked worktree may be, and whose repository's it is
  WORKSPACE_CACHE_TTL,  \* ticks
  MaxTreeChanges        \* bound: times a ".git" comes or goes

Up(d) == {SubSeq(d, 1, n) : n \in 0..Len(d)}

ASSUME WorkspaceAssumption ==
  /\ \A d \in Dirs : d \in Seq(STRING) /\ Up(d) \subseteq Dirs
  /\ \A p \in PanePlaces : p[2] \in Dirs
  /\ DOMAIN Common \subseteq Dirs /\ \A d \in DOMAIN Common : Common[d] # <<>>
  /\ WORKSPACE_CACHE_TTL \in Nat \ {0} /\ MaxTreeChanges \in Nat

VARIABLES
  grouping,     \* "git-repo" or "cwd"
  git,          \* per directory: what its ".git" is
  entries,      \* the cache, per session and directory of a pane
  ancestors,    \* the cache, per directory on the way to a repository
  since,        \* per place: ticks since an answer was last what the tree says (history)
  treeChanges

workspaceVars == <<grouping, git, entries, ancestors, since, treeChanges>>

\* The places panes are in, and those above them.
PlacesAbove == UNION {{<<p[1], d>> : d \in Up(p[2])} : p \in PanePlaces}

Workspace(source, id) == [source |-> source, id |-> id]
Workspaces ==
  {Workspace("git-repo", d) : d \in Dirs \cup {Common[w] : w \in DOMAIN Common}}
    \cup {Workspace("cwd", d) : d \in Dirs} \cup {Workspace("session", <<p[1]>>) : p \in PanePlaces}

------------------------------------------------------------------------------
(* What the file system says                                               *)

Deepest(ds) == CHOOSE d \in ds : \A e \in ds : Len(e) <= Len(d)
WithGit(d) == {e \in Up(d) : git[e] # "none"}

\* The directory whose ".git" counts, if any.
Holder(d) == Deepest(WithGit(d))

\* The linked worktrees of a repository are its own; a submodule, and a worktree
\* whose repository cannot be found, is a repository like any other.
RepositoryAt(e) == IF git[e] = "worktree" THEN Common[e] ELSE e

SessionWorkspace(s) == Workspace("session", <<s>>)
CwdWorkspace(s, d) == IF d = <<>> THEN SessionWorkspace(s) ELSE Workspace("cwd", d)

\* compute_workspace_for_pane: a repository without a name is none.
Computed(p) ==
  IF grouping = "git-repo" /\ WithGit(p[2]) # {} /\ RepositoryAt(Holder(p[2])) # <<>>
  THEN Workspace("git-repo", RepositoryAt(Holder(p[2])))
  ELSE CwdWorkspace(p[1], p[2])

------------------------------------------------------------------------------
(* The cache                                                               *)

Entry(w, age) == [workspace |-> w, age |-> age]
NoEntry == Entry(Workspace("none", <<>>), WORKSPACE_CACHE_TTL)
Unexpired(e) == e.age < WORKSPACE_CACHE_TTL

\* Mutant: any repository above will do.
KnownAnywhereAbove(d) == {e \in Up(d) : Unexpired(ancestors[e])}

\* The directories from d upwards whose repository is known, up to the first
\* ".git", at which the search must begin anew.
KnownAbove(d) ==
  {e \in Up(d) : Unexpired(ancestors[e]) /\ \A f \in WithGit(d) : Len(f) <= Len(e)}

Hit(d) == grouping = "git-repo" /\ KnownAbove(d) # {}

\* The directories between a pane's and its repository's.
OnTheWay(d) == {e \in Up(d) : Len(e) >= Len(Holder(d))}

\* PickerWorkspaceCache::workspace_for_pane: what is answered, and kept if it
\* had to be searched for.
WorkspaceForPane(p) ==
  IF Unexpired(entries[p]) THEN entries[p].workspace
  ELSE IF Hit(p[2]) THEN ancestors[Deepest(KnownAbove(p[2]))].workspace
  ELSE Computed(p)

Ask(p) ==
  /\ ~Unexpired(entries[p]) /\ ~Hit(p[2])
  /\ LET found == Entry(Computed(p), 0) IN
       /\ entries' = [entries EXCEPT ![p] = found]
       /\ ancestors' = IF found.workspace.source # "git-repo" THEN ancestors
                       ELSE [e \in Dirs |-> IF e \in OnTheWay(p[2]) THEN found ELSE ancestors[e]]
  /\ UNCHANGED <<grouping, git, since, treeChanges>>

\* The daemon is unavailable: the list is empty and the cache is cleared.
Clear ==
  /\ entries' = [p \in PanePlaces |-> NoEntry]
  /\ ancestors' = [d \in Dirs |-> NoEntry]
  /\ UNCHANGED <<grouping, git, since, treeChanges>>

------------------------------------------------------------------------------
(* The world                                                               *)

\* A repository is made, deleted or becomes a linked worktree.
ChangeTree(d) ==
  /\ treeChanges < MaxTreeChanges /\ treeChanges' = treeChanges + 1
  /\ \E kind \in {"none", "repo"} \cup (IF d \in DOMAIN Common THEN {"worktree"} ELSE {}) :
       git' = [git EXCEPT ![d] = kind]
  /\ UNCHANGED <<grouping, entries, ancestors>>
  /\ since' = [p \in PlacesAbove |-> [since[p] EXCEPT ![Computed(p)'] = 0]]

Older(age) == IF age < WORKSPACE_CACHE_TTL THEN age + 1 ELSE age
Aged(cache) == [k \in DOMAIN cache |-> Entry(cache[k].workspace, Older(cache[k].age))]

TickTree ==
  /\ entries' = Aged(entries) /\ ancestors' = Aged(ancestors)
  /\ since' = [p \in PlacesAbove |->
                 [w \in Workspaces |-> IF w = Computed(p) THEN 0 ELSE Older(since[p][w])]]
  /\ UNCHANGED <<grouping, git, treeChanges>>

WorkspaceInit ==
  /\ grouping \in {"git-repo", "cwd"}
  /\ git \in [Dirs -> {"none", "repo"}]
  /\ entries = [p \in PanePlaces |-> NoEntry]
  /\ ancestors = [d \in Dirs |-> NoEntry]
  /\ since = [p \in PlacesAbove |->
                [w \in Workspaces |-> IF w = Computed(p) THEN 0 ELSE WORKSPACE_CACHE_TTL]]
  /\ treeChanges = 0

WorkspaceNext ==
  \/ \E p \in PanePlaces : Ask(p)
  \/ Clear \/ TickTree
  \/ \E d \in Dirs : ChangeTree(d)

WorkspaceSpec == WorkspaceInit /\ [][WorkspaceNext]_workspaceVars

------------------------------------------------------------------------------
(***************************************************************************)
(* However the cache was filled (by the pane itself, by another one in the *)
(* same directory or by one deeper in the tree), an answer is what the     *)
(* tree said less than the time to live ago of the pane's own directory,   *)
(* or of one above it below which there is no ".git" now: no nested        *)
(* repository or worktree goes by the name of the one around it, nothing   *)
(* stays because it is often asked for, and no session's panes show up     *)
(* under another session.                                                  *)
(***************************************************************************)
AnswersAreRecent ==
  \A p \in PanePlaces : \E d \in Up(p[2]) :
    /\ \A e \in WithGit(p[2]) : Len(e) <= Len(d)
    /\ since[<<p[1], d>>][WorkspaceForPane(p)] < WORKSPACE_CACHE_TTL
=============================================================================
