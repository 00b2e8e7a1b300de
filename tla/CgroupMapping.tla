----------------------------- MODULE CgroupMapping -----------------------------
(***************************************************************************)
(* buildVMCgroupMappings of package ebpf: the PID that the inventory has   *)
(* for a VM is bound to the cgroups of a libvirt machine by a sequence of  *)
(* reads in /proc and /sys, each of which sees the host at another moment. *)
(* Meanwhile a process may end, its PID may be given to another process,   *)
(* and the cgroups of a machine may go and come back.                      *)
(*                                                                         *)
(* A cgroup is named by the scope of its machine and the place in it; a    *)
(* cgroup that comes back has the same path and another inode.             *)
(***************************************************************************)
EXTENDS Integers, Sequences, FiniteSets

CONSTANTS VMs,         \* the names of the VMs, sorted
          Pids,        \* the PIDs that may be used
          Scopes,      \* the machine scopes of libvirt
          MaxChanges   \* bound on what happens on the host

ASSUME MappingAssumption ==
  /\ VMs \in Seq(STRING) /\ Pids \subseteq Nat \ {0} /\ MaxChanges \in Nat
  /\ \A i, j \in DOMAIN VMs : VMs[i] = VMs[j] => i = j

VARIABLES pidOf,      \* the PID of every VM in the inventory, 0 if it has none
          process,    \* of every PID: [start, qemu, path], start 0 if there is no process
          tree,       \* of every scope: [inode, places], the cgroups that exist
          lives,      \* every process there ever was, with its PID
          changes,    \* what has happened on the host
          turn,       \* the VM that is read
          step,       \* what is read next
          seen,       \* what the reads of this VM returned: the paths still to be looked
              \* at, and those found, with their inodes
          mapping     \* of every VM: [quality, pid, primary, paths, ids, start]

host == <<process, tree, lives, changes>>
Machine == {VMs[i] : i \in DOMAIN VMs}
Places == {"machine_scope", "domain_scope", "emulator"}
Depth == [place \in Places |-> CASE place = "machine_scope" -> 1 [] place = "domain_scope" -> 2 [] OTHER -> 3]
Path(scope, place) == [scope |-> scope, place |-> place]
Outside == Path("-", "-")
NoProcess == [start |-> 0, qemu |-> FALSE, path |-> Outside]
NotSeen == [path |-> Outside, start |-> 0, paths |-> {}, found |-> {}]

Unmapped == [quality |-> "unavailable", pid |-> 0, primary |-> Outside, paths |-> {}, ids |-> {}, start |-> 0]
Verified(m) == m.quality \in {"cgroup_v2_inode_tree", "cgroup_v2_inode_partial"}

\* The inode of a cgroup that exists.
CgroupExists(path) == path.scope \in Scopes /\ path.place \in tree[path.scope].places
cgroupInode(path) == <<path, tree[path.scope].inode>>

-----------------------------------------------------------------------------
(* What happens on the host.                                               *)
Change == changes < MaxChanges /\ changes' = changes + 1

\* A process ends; when it was the last of its machine, libvirt may have
\* removed the cgroups, inner ones first.
ProcessEnds(pid, left) ==
  /\ Change /\ process[pid].start # 0
  /\ process' = [process EXCEPT ![pid] = NoProcess]
  /\ LET scope == process[pid].path.scope
         shared == \E other \in Pids \ {pid} : process[other].path.scope = scope
     IN /\ shared => left = Places
        /\ tree' = [s \in Scopes |-> IF s = scope THEN [tree[s] EXCEPT !.places = @ \cap left] ELSE tree[s]]
  /\ UNCHANGED lives

\* A process is given a PID that is free; the cgroups it belongs to exist.
ProcessStarts(pid, qemu, scope) ==
  /\ Change /\ process[pid].start = 0
  /\ LET p == [start |-> changes + 2, qemu |-> qemu, path |-> IF scope \in Scopes THEN Path(scope, "emulator") ELSE Outside]
     IN /\ process' = [process EXCEPT ![pid] = p]
        /\ lives' = lives \cup {<<pid, p>>}
  /\ tree' = [s \in Scopes |-> IF s = scope /\ "emulator" \notin tree[s].places
                               THEN [inode |-> tree[s].inode + 1, places |-> Places] ELSE tree[s]]

Host ==
  \/ \E pid \in Pids, left \in {{}, {"machine_scope"}, Places} : ProcessEnds(pid, left)
  \/ \E pid \in Pids, qemu \in BOOLEAN, scope \in Scopes \cup {"-"} : ProcessStarts(pid, qemu, scope)

-----------------------------------------------------------------------------
(* The reads of the mapper, one action each, of the inodes one per path.  A *)
(* read of a process fails if there is none, and may fail for other reasons. *)
vm == VMs[turn]
p == process[pidOf[vm]]
At(name) == turn \in DOMAIN VMs /\ step = name

\* The mapping of this VM is known, and the next VM is looked at.
Conclude(m) ==
  /\ mapping' = [mapping EXCEPT ![vm] = m]
  /\ turn' = turn + 1 /\ step' = "pid" /\ seen' = NotSeen

Reject(quality) == Conclude([Unmapped EXCEPT !.quality = quality, !.pid = pidOf[vm], !.primary = seen.path])
Proceed(next) == step' = next /\ UNCHANGED <<turn, mapping>>

HasPid ==
  /\ At("pid")
  /\ IF pidOf[vm] = 0 THEN Conclude([Unmapped EXCEPT !.quality = "missing_qemu_pid"])
     ELSE Proceed("name") /\ UNCHANGED seen

\* readSafeProcessName and isQEMUProcessName
ReadName ==
  /\ At("name")
  /\ \/ p.qemu /\ Proceed("cgroup") /\ UNCHANGED seen
     \/ p.start # 0 /\ ~p.qemu /\ Reject("non_qemu_pid")
     \/ Reject("stale_or_unreadable_qemu_pid")

\* parseUnifiedCgroupPath: the file may have no line of the unified hierarchy.
ReadCgroup ==
  /\ At("cgroup")
  /\ \/ p.start # 0 /\ Proceed("start") /\ seen' = [seen EXCEPT !.path = p.path]
     \/ p.start # 0 /\ Reject("cgroup_v2_path_missing")
     \/ Reject("cgroup_unreadable")

ReadStartTime ==
  /\ At("start")
  /\ \/ p.start # 0 /\ Proceed("tree") /\ seen' = [seen EXCEPT !.start = p.start]
     \/ Reject("stale_or_unreadable_qemu_pid")

\* The scope, the path itself, what lies between them, and the cgroups that
\* are found in the scope.  The walk through the scope may be one action: all the
\* places kept here lie between the scope and the path, and are listed anyway.
relatedLibvirtCgroupPaths(path) ==
  {Path(path.scope, "machine_scope"), Path(path.scope, "domain_scope"), path}
    \cup {Path(path.scope, place) : place \in tree[path.scope].places}

ReadTree ==
  /\ At("tree")
  /\ IF seen.path.scope \in Scopes
     THEN Proceed("name again") /\ seen' = [seen EXCEPT !.paths = relatedLibvirtCgroupPaths(seen.path)]
     ELSE Reject("not_libvirt_vm_cgroup")

\* The mapper believes its first reads.
ConfirmNothing(same, next) == Proceed(next) /\ UNCHANGED seen

\* What was read is read again, and has to be the same.
Confirm(same, next) ==
  \/ same /\ Proceed(next) /\ UNCHANGED seen
  \/ Reject("stale_or_reused_qemu_pid")

ConfirmName == At("name again") /\ Confirm(p.qemu, "cgroup again")
ConfirmCgroup == At("cgroup again") /\ Confirm(p.start # 0 /\ p.path = seen.path, "start again")
ConfirmStartTime == At("start again") /\ Confirm(p.start = seen.start, "inodes")

\* The inode of the next path in order, if the cgroup still exists.
ReadInode ==
  /\ At("inodes") /\ UNCHANGED <<turn, step, mapping>>
  /\ \E path \in seen.paths :
       /\ \A other \in seen.paths : Depth[path.place] <= Depth[other.place]
       /\ seen' = [seen EXCEPT !.paths = @ \ {path},
                               !.found = @ \cup (IF CgroupExists(path) THEN {cgroupInode(path)} ELSE {})]

\* Every path has been looked at; the VM has the cgroups that were found.
ConcludeTree ==
  /\ At("inodes") /\ seen.paths = {}
  /\ LET paths == {id[1] : id \in seen.found}
     IN Conclude([quality |-> CASE seen.path \in paths /\ Cardinality(seen.found) > 1 -> "cgroup_v2_inode_tree"
                                [] seen.path \in paths /\ Cardinality(seen.found) = 1 -> "cgroup_v2_inode_partial"
                                [] OTHER -> "cgroup_inode_unavailable",
                  pid |-> pidOf[vm], primary |-> seen.path, paths |-> paths,
                  ids |-> seen.found, start |-> seen.start])

MapVM ==
  \/ HasPid \/ ReadName \/ ReadCgroup \/ ReadStartTime \/ ReadTree
  \/ ConfirmName \/ ConfirmCgroup \/ ConfirmStartTime \/ ReadInode \/ ConcludeTree

\* IndexVMCgroupMappings: a cgroup belongs to one VM.
Unambiguous == \A left, right \in Machine : left # right => mapping[left].ids \cap mapping[right].ids = {}

-----------------------------------------------------------------------------
(* validateMappedQEMUProcess, in the same reads.                           *)
Mappable(m) == m.pid # 0 /\ Verified(m)

\* Whether the path is still the one that was mapped, in a scope that was.
StillMapped(m, path) == path = m.primary /\ {path, Path(path.scope, "machine_scope")} \subseteq m.paths

SameQEMUProcessIdentity(left, right) == left.start # 0 /\ left = right
=============================================================================
