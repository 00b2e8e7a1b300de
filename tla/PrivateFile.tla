----------------------------- MODULE PrivateFile -----------------------------
(***************************************************************************)
(* WritePrivateAtomicFile on Linux: a file is rendered into a temporary    *)
(* file of the same directory, synced, and renamed over its destination,   *)
(* and the directory is synced.  Several processes may save to the same    *)
(* destination; any call may fail, a process may be killed between any two *)
(* calls, and the machine may lose power.                                  *)
(*                                                                         *)
(* A rename is atomic for readers.  What was not synced may be lost with   *)
(* the power: of a file its content, of a directory its last renames.      *)
(***************************************************************************)

CONSTANTS
  Savers,   \* processes; also the version that each of them renders
  Absent,   \* no entry at the destination
  Old,      \* a regular file that was there before
  Other,    \* an entry that is no regular file: a directory, a link, ...
  TornFile  \* the destination after its content was lost

ASSUME PrivateFileAssumption ==
  /\ {Absent, Old, Other, TornFile} \cap Savers = {}
  /\ Absent # Old /\ Absent # Other /\ Absent # TornFile
  /\ Old # Other /\ Old # TornFile /\ Other # TornFile

VARIABLES
  call,    \* the call that each writer makes next
  file,    \* the content of each writer's file
  names,   \* the temporary names in the directory
  target,  \* the entry of the destination
  remains  \* what the entry may be after a power loss

fileVars == <<call, file, names, target, remains>>

SaveEnds == {"saved", "failed", "killed"}
Calls ==
  {"check", "create", "render", "sync", "recheck", "rename", "sync_parent", "cleanup"} \cup SaveEnds

FileInit ==
  /\ call = [w \in Savers |-> "check"]
  /\ file = [w \in Savers |-> "none"]
  /\ names = {}
  /\ target \in {Absent, Old, Other}
  /\ remains = {target}

\* w has made the call `now`; it makes `next` next.
Moves(w, now, next) ==
  /\ call[w] = now
  /\ call' = [call EXCEPT ![w] = next]

\* Mutant: whatever is at the destination is accepted, a symbolic link is followed.
acceptOutputTargetAt(entry) == entry \in Savers \cup {Absent, Old, Other, TornFile}

\* The destination must be absent or a regular file.
rejectUnsafeOutputTargetAt(entry) == entry # Other

\* The parent is opened component by component, or is not a directory to use.
CheckTarget(w) ==
  /\ \/ Moves(w, "check", "create") /\ rejectUnsafeOutputTargetAt(target)
     \/ Moves(w, "check", "failed")
  /\ UNCHANGED <<file, names, target, remains>>

\* A fresh name is created; with 128 bits of randomness it is the writer's own.
CreateTemporary(w) ==
  /\ \/ /\ Moves(w, "create", "render")
        /\ names' = names \cup {w}
        /\ file' = [file EXCEPT ![w] = "partial"]
     \/ Moves(w, "create", "failed") /\ UNCHANGED <<names, file>>
  /\ UNCHANGED <<target, remains>>

Render(w) ==
  /\ \/ Moves(w, "render", "sync") /\ file' = [file EXCEPT ![w] = "written"]
     \/ Moves(w, "render", "cleanup") /\ UNCHANGED file
  /\ UNCHANGED <<names, target, remains>>

\* Mutant: the file is closed without a sync.
CloseOnly(w) ==
  /\ Moves(w, "sync", "recheck") \/ Moves(w, "sync", "cleanup")
  /\ UNCHANGED <<file, names, target, remains>>

\* The content is synced and the file closed.
SyncFile(w) ==
  /\ \/ Moves(w, "sync", "recheck") /\ file' = [file EXCEPT ![w] = "synced"]
     \/ Moves(w, "sync", "cleanup") /\ UNCHANGED file
  /\ UNCHANGED <<names, target, remains>>

Recheck(w) ==
  /\ \/ Moves(w, "recheck", "rename") /\ rejectUnsafeOutputTargetAt(target)
     \/ Moves(w, "recheck", "cleanup")
  /\ UNCHANGED <<file, names, target, remains>>

\* Mutant: the rename is the last call, the directory is not synced.
RenameAndReturn(w) ==
  /\ \/ /\ Moves(w, "rename", "saved")
        /\ target' = w
        /\ remains' = remains \cup {w}
        /\ names' = names \ {w}
     \/ Moves(w, "rename", "cleanup") /\ UNCHANGED <<names, target, remains>>
  /\ UNCHANGED file

\* From here on there is no temporary name to remove.
RenameFile(w) ==
  /\ \/ /\ Moves(w, "rename", "sync_parent")
        /\ target' = w
        /\ remains' = remains \cup {w}
        /\ names' = names \ {w}
     \/ Moves(w, "rename", "cleanup") /\ UNCHANGED <<names, target, remains>>
  /\ UNCHANGED file

\* If this sync, or the close after it, fails, an error is returned although the
\* file is in place.
SyncParent(w) ==
  /\ \/ Moves(w, "sync_parent", "saved") /\ remains' = {target}
     \/ Moves(w, "sync_parent", "failed") /\ remains' \in {remains, {target}}
  /\ UNCHANGED <<file, names, target>>

\* The error of the removal is ignored.
Cleanup(w) ==
  /\ Moves(w, "cleanup", "failed")
  /\ names' \in {names, names \ {w}}
  /\ UNCHANGED <<file, target, remains>>

KillSave(w) ==
  /\ call[w] \notin SaveEnds
  /\ call' = [call EXCEPT ![w] = "killed"]
  /\ UNCHANGED <<file, names, target, remains>>

\* A surviving entry whose content was not synced may be torn.  Temporary names
\* may be lost, and come back where a rename was lost.
LosePower ==
  /\ call' = [w \in Savers |-> IF call[w] \in SaveEnds THEN call[w] ELSE "killed"]
  /\ \E v \in remains :
       target' \in {v} \cup (IF v \in Savers /\ file[v] # "synced" THEN {TornFile} ELSE {})
  /\ remains' = {target'}
  /\ names' \in SUBSET
       (names \cup {w \in Savers : w \in remains \ {target'} /\ call[w] # "saved"})
  /\ UNCHANGED file

AllSaved == (\A w \in Savers : call[w] \in SaveEnds) /\ UNCHANGED fileVars

Save(w) ==
  \/ CheckTarget(w) \/ CreateTemporary(w) \/ Render(w) \/ SyncFile(w) \/ Recheck(w)
  \/ RenameFile(w) \/ SyncParent(w) \/ Cleanup(w)

FileNext == (\E w \in Savers : Save(w) \/ KillSave(w)) \/ LosePower \/ AllSaved

FileSpec == FileInit /\ [][FileNext]_fileVars

-----------------------------------------------------------------------------
(* Properties.                                                             *)

FileTypeOK ==
  /\ call \in [Savers -> Calls]
  /\ file \in [Savers -> {"none", "partial", "written", "synced"}]
  /\ names \subseteq Savers
  /\ target \in Savers \cup {Absent, Old, Other, TornFile}
  /\ remains \subseteq Savers \cup {Absent, Old, Other, TornFile}

\* A save that was reported as done outlives a power loss: what was at the
\* destination before never comes back.  And an entry that is no regular file is
\* never replaced (README.md:264): as long as it may be found there, no rename,
\* whether it is durable yet or not, has put anything else in its place.
SavedIsDurable ==
  /\ \A w \in Savers : call[w] = "saved" => remains \subseteq Savers
  /\ Other \in remains => remains = {Other}

-----------------------------------------------------------------------------
(* The inductive invariant, in parts.                                      *)

\* A temporary name is never that of a version that may be found.
TemporaryIsHidden == names \cap remains = {}

\* Only synced content is ever renamed, so no survivor is torn.
RenamedIsSynced ==
  /\ \A w \in Savers :
       /\ w \in remains => file[w] = "synced"
       /\ call[w] \in {"recheck", "rename", "sync_parent", "saved"} => file[w] = "synced"
  /\ TornFile \notin remains

\* Which writers have their temporary name, and which a version in place.
NamesFollowStep ==
  \A w \in Savers :
    /\ call[w] \in {"check", "create"} => w \notin names \cup remains
    /\ call[w] \in {"render", "sync", "recheck", "rename", "cleanup"} => w \in names
    /\ call[w] \in {"sync_parent", "saved"} => w \notin names /\ target \in Savers

\* An entry that is no regular file stops every save before it begins.
OtherIsKept ==
  Other \in remains =>
    /\ remains = {Other}
    /\ \A w \in Savers : call[w] \in {"check", "failed", "killed"}

FileInv ==
  /\ FileTypeOK
  /\ target \in remains
  /\ TemporaryIsHidden
  /\ RenamedIsSynced
  /\ NamesFollowStep
  /\ OtherIsKept
  /\ SavedIsDurable

-----------------------------------------------------------------------------
(* The promise about the destination.                                      *)

Replacement == INSTANCE Publication WITH
  Versions <- Savers \cup {Old, Other}, Replaceable <- TRUE, visible <- target,
  survivors <- remains, Nothing <- Absent

\* Whatever fails, dies or interleaves, the destination holds nothing, what was
\* there before, or the whole file of one writer, also after a power loss.
ImplementsReplacement == Replacement!Spec

=============================================================================
