------------------------------ MODULE SocketPath ------------------------------
(***************************************************************************)
(* Where the daemon's socket is.  Every process works the path out for     *)
(* itself, from its environment and from the directories it finds or       *)
(* makes; daemon and clients meet only if they come to the same one.  A    *)
(* step is one system call, so that two processes may prepare the same     *)
(* directory at once.                                                      *)
(*                                                                         *)
(* A candidate path stands for its directory, and a directory for what the *)
(* calls below can tell apart of it:                                       *)
(*   "long"     its path leaves no room for a socket's                     *)
(*   "blocked"  it is not there and cannot be made, or is no directory     *)
(*   "absent"   it is not there                                            *)
(*   "foreign"  it is another user's                                       *)
(*   "sealed"   others may enter it, and the file system is read-only      *)
(*   "open"     others may enter it                                        *)
(*   "private"  it is this user's alone                                    *)
(***************************************************************************)
EXTENDS Naturals, Sequences

CONSTANTS Resolvers   \* processes of one user with one environment

Variables == {"AGENTSCAN_SOCKET_PATH", "XDG_RUNTIME_DIR", "TMPDIR", "HOME", "XDG_STATE_HOME"}
Kinds == {"long", "blocked", "absent", "foreign", "sealed", "open", "private"}

VARIABLES
  platform, environment,  \* the same for all: "macos" or "unix", and the variables set
  disk,                   \* per candidate: its directory
  rpc,                    \* per resolver: where it is
  candidate               \* per resolver: the place of the candidate it tries

socketVars == <<platform, environment, disk, rpc, candidate>>

-----------------------------------------------------------------------------
(* The candidates, the best first. *)

If(variable, source) == IF variable \in environment THEN <<source>> ELSE <<>>

UnixStateHome ==
  IF "XDG_STATE_HOME" \in environment THEN <<"XdgState">> ELSE If("HOME", "UnixState")

Candidates ==
  IF "AGENTSCAN_SOCKET_PATH" \in environment THEN <<"Explicit">>
  ELSE If("XDG_RUNTIME_DIR", "RuntimeDir") \o
         IF platform = "macos" THEN If("TMPDIR", "MacosTemp") \o If("HOME", "MacosCache")
         ELSE UnixStateHome

CandidatePlaces == DOMAIN Candidates
Tried(p) == Candidates[candidate[p]]

\* What may end at this candidate, whoever comes first: the directory is or
\* can be made the user's alone; a path the user names is taken as it is.
Usable(c) ==
  disk[c] \in IF c = "Explicit" THEN {"private"} ELSE {"absent", "open", "private"}

-----------------------------------------------------------------------------
(* One resolver. *)

ResolverAt(p, label) == rpc[p] = label

ResolverGoes(p, label) ==
  /\ rpc' = [rpc EXCEPT ![p] = label]
  /\ UNCHANGED <<platform, environment, candidate>>

\* An explicit path has no fallback; the last candidate has none left.
Skip(p) ==
  /\ IF Tried(p) # "Explicit" /\ candidate[p] < Len(Candidates)
       THEN /\ candidate' = [candidate EXCEPT ![p] = @ + 1]
            /\ rpc' = [rpc EXCEPT ![p] = "prepare"]
       ELSE rpc' = [rpc EXCEPT ![p] = "failed"] /\ UNCHANGED candidate
  /\ UNCHANGED <<platform, environment>>

BeginResolve(p) ==
  /\ ResolverAt(p, "start")
  /\ ResolverGoes(p, IF Candidates = <<>> THEN "failed" ELSE "prepare")
  /\ UNCHANGED disk

\* Mutant: a directory that is there already is an error.
MakeParentOnce(p) ==
  /\ ResolverAt(p, "prepare")
  /\ IF Tried(p) # "Explicit" /\ disk[Tried(p)] # "absent" THEN Skip(p) /\ UNCHANGED disk
     ELSE /\ disk' = IF Tried(p) = "Explicit" THEN disk ELSE [disk EXCEPT ![Tried(p)] = "open"]
          /\ ResolverGoes(p, "inspect")

\* check_socket_path_length, then create_dir_all, which takes a directory
\* another process has just made; how open a new one is, the umask says.
MakeParent(p) ==
  /\ ResolverAt(p, "prepare")
  /\ \/ /\ disk[Tried(p)] = "long" \/ (Tried(p) # "Explicit" /\ disk[Tried(p)] = "blocked")
        /\ Skip(p) /\ UNCHANGED disk
     \/ /\ disk[Tried(p)] # "long"
        /\ Tried(p) = "Explicit" \/ disk[Tried(p)] \notin {"blocked", "absent"}
        /\ ResolverGoes(p, "inspect") /\ UNCHANGED disk
     \/ /\ Tried(p) # "Explicit" /\ disk[Tried(p)] = "absent"
        /\ \E mode \in {"open", "private"} : disk' = [disk EXCEPT ![Tried(p)] = mode]
        /\ ResolverGoes(p, "inspect")

\* validate_socket_parent: owner and mode are of one reading of the directory.
InspectParent(p) ==
  /\ ResolverAt(p, "inspect")
  /\ UNCHANGED disk
  /\ CASE disk[Tried(p)] = "private" -> ResolverGoes(p, "resolved")
       [] disk[Tried(p)] \in {"open", "sealed"} /\ Tried(p) # "Explicit" -> ResolverGoes(p, "tighten")
       [] OTHER -> Skip(p)

TightenParent(p) ==
  /\ ResolverAt(p, "tighten")
  /\ IF disk[Tried(p)] = "sealed" THEN Skip(p) /\ UNCHANGED disk
     ELSE /\ disk' = [disk EXCEPT ![Tried(p)] = "private"]
          /\ ResolverGoes(p, "resolved")

SocketInit ==
  /\ platform \in {"macos", "unix"}
  /\ environment \in SUBSET Variables
  /\ disk \in [{Candidates[i] : i \in CandidatePlaces} -> Kinds]
  /\ rpc = [p \in Resolvers |-> "start"]
  /\ candidate = [p \in Resolvers |-> 1]

SocketNext ==
  \E p \in Resolvers : BeginResolve(p) \/ MakeParent(p) \/ InspectParent(p) \/ TightenParent(p)

SocketSpec == SocketInit /\ [][SocketNext]_socketVars

-----------------------------------------------------------------------------

SocketTypeOK ==
  /\ platform \in {"macos", "unix"} /\ environment \subseteq Variables
  /\ disk \in [{Candidates[i] : i \in CandidatePlaces} -> Kinds]
  /\ rpc \in [Resolvers -> {"start", "prepare", "inspect", "tighten", "resolved", "failed"}]
  /\ candidate \in [Resolvers -> Nat \ {0}]

\* Daemon and clients meet: processes that start from the same environment,
\* at the same time or one after another, come to the same socket, in a
\* directory that is the user's alone; and where one finds no place for it,
\* none does.
OneSocketForAll ==
  /\ \A p, q \in Resolvers :
       ResolverAt(p, "resolved") => ~ResolverAt(q, "failed")
                                 /\ (ResolverAt(q, "resolved") => Tried(p) = Tried(q))
  /\ \A p \in Resolvers : ResolverAt(p, "resolved") => disk[Tried(p)] = "private"
=============================================================================
