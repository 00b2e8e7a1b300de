---------------------------- MODULE VMStorageProofs ----------------------------
(***************************************************************************)
(* Proofs about VMStorage: whatever ends, starts and is reused on the host *)
(* between the reads, a verified mapping is that of one process, and a     *)
(* difference that is reported is of one cgroup and one process, for any   *)
(* number of VMs, PIDs, machines and changes.                              *)
(***************************************************************************)
EXTENDS VMStorage, TLAPS

Processes == [start : Nat, qemu : BOOLEAN, path : {Path(scope, "emulator") : scope \in Scopes} \cup {Outside}]

\* Every process that runs is one of the lives, and started in the past.
HostInv ==
  /\ changes \in Nat
  /\ process \in [Pids -> Processes]
  /\ lives \subseteq Pids \X Processes
  /\ \A pid \in Pids : process[pid].start # 0 => <<pid, process[pid]>> \in lives
  /\ \A pid \in Pids : process[pid].start <= changes + 1

\* The places in buildVMCgroupMappings where a PID, a path and a start are known.
Confirming == {"tree", "name again", "cgroup again", "start again", "inodes"}
Reading == {"name", "cgroup", "start"} \cup Confirming

\* The process that is read now is the one whose start was read.
Unchanged == p.start = seen.start
Life == <<pidOf[vm], [start |-> seen.start, qemu |-> TRUE, path |-> seen.path]>>

MapperInv ==
  /\ pidOf \in [Machine -> Pids \cup {0}]
  /\ seen = [path |-> seen.path, start |-> seen.start, paths |-> seen.paths, found |-> seen.found]
  /\ step \in Reading => turn \in DOMAIN VMs /\ pidOf[vm] \in Pids
  /\ step \in Confirming => seen.start \in 1..(changes + 1)
  /\ step = "cgroup again" => (Unchanged => p.qemu)
  /\ step = "start again" => (Unchanged => p.qemu /\ p.path = seen.path)
  /\ step = "inodes" => Life \in lives

\* The mapper by itself.
MappingInv == HostInv /\ MapperInv /\ DOMAIN mapping = Machine /\ MappingIsOfOneProcess

-----------------------------------------------------------------------------
(* What the samples know, in the terms of the cgroup and the process data  *)
(* of the first sample (b) and the second (a), and of the mapping m.       *)
Machines == [inode : Nat, places : SUBSET Places]
inode(path) == tree[path.scope].inode

CgroupShape(c) == c = [ok |-> c.ok, path |-> c.path, id |-> c.id, data |-> c.data, from |-> c.from] /\ c.ok \in BOOLEAN
ProcessShape(q) == q = [ok |-> q.ok, identity |-> q.identity, value |-> q.value, from |-> q.from] /\ q.ok \in BOOLEAN
SampleShape(s) ==
  /\ s = [cgroup |-> s.cgroup, virsh |-> s.virsh, qemu |-> s.qemu]
  /\ CgroupShape(s.cgroup) /\ ProcessShape(s.qemu)

\* The inode of a cgroup only grows: it was identified before it was read,
\* and identified again after that.
Identified(c) == /\ c.path.scope \in Scopes /\ c.id = <<c.path, c.id[2]>>
                 /\ c.id[2] \in Nat /\ c.id[2] <= inode(c.path)
CgroupsMatch(b, a) ==
  /\ b.path # Outside => Identified(b)
  /\ b.ok => /\ b.path # Outside /\ b.from = <<b.path, b.from[2]>>
             /\ b.from[2] \in Nat /\ b.id[2] <= b.from[2] /\ b.from[2] <= inode(b.path)
  /\ a.path # Outside => /\ a.path = b.path /\ a.id = <<a.path, a.id[2]>> /\ a.id[2] \in Nat
                         /\ b.ok => b.from[2] <= a.id[2]
  /\ a.ok => a.path # Outside

\* So do the starts of the processes that have a PID.
NoOlder(start, m) == process[m.pid].start = 0 \/ start <= process[m.pid].start
Confirmed(b, a, m) ==
  /\ b.ok => b.from = a.identity.start
  /\ <<m.pid, [start |-> a.identity.start, qemu |-> TRUE, path |-> m.primary]>> \in lives
ProcessesMatch(b, a, m) ==
  /\ b.identity.start \in 0..(changes + 1)
  /\ b.ok => /\ Mappable(m) /\ b.from \in 1..(changes + 1)
             /\ b.identity.start <= b.from /\ NoOlder(b.from, m)
  /\ a.ok => Confirmed(b, a, m)

\* What is known between two reads of a sample.
Validating == {"validate name", "validate cgroup", "validate start", "io"}
StillThere(b, m) == process[m.pid].start # 0 /\ process[m.pid].start = b.identity.start
StepKnown(next, b, a, m) ==
  /\ next \in {"inode", "io.stat", "virsh"} \cup Validating => ~(IF phase = "baseline" THEN b ELSE a).qemu.ok
  /\ next = "io.stat" => (IF phase = "baseline" THEN b ELSE a).cgroup.path # Outside
  /\ next \in Validating => Mappable(m)
  /\ phase = "baseline" /\ next = "io" => b.qemu.identity.start \in 1..(changes + 1) /\ NoOlder(b.qemu.identity.start, m)
  /\ phase = "after" /\ next = "validate cgroup" => (StillThere(b.qemu, m) => process[m.pid].qemu)
  /\ phase = "after" /\ next = "validate start" =>
       (StillThere(b.qemu, m) => process[m.pid].qemu /\ process[m.pid].path = m.primary)
  /\ phase = "after" /\ next = "io" => Confirmed(b.qemu, a.qemu, m)

\* Samples are taken in their phases only, and the report is of the samples.
NotSampled == [name \in Machine |-> NoSample]
TreeInv == tree \in [Scopes -> Machines]
SamplesInv ==
  /\ DOMAIN baseline = Machine /\ DOMAIN after = Machine
  /\ \A name \in Machine :
       /\ SampleShape(baseline[name]) /\ SampleShape(after[name])
       /\ CgroupsMatch(baseline[name].cgroup, after[name].cgroup)
       /\ ProcessesMatch(baseline[name].qemu, after[name].qemu, mapping[name])
PhaseInv ==
  /\ phase = "map" => baseline = NotSampled
  /\ phase \in {"map", "baseline"} => after = NotSampled
  /\ phase = "reported" => report.vms = [name \in Machine |-> buildVMReport(name)]
  /\ phase \in {"baseline", "after"} /\ turn \in DOMAIN VMs => StepKnown(step, baseline[vm], after[vm], mapping[vm])

Inv == MappingInv /\ TreeInv /\ SamplesInv /\ PhaseInv

-----------------------------------------------------------------------------
LEMMA CurrentVM == turn \in DOMAIN VMs => vm \in Machine
BY DEF vm, Machine

LEMMA HostInitially == Init => HostInv
<1> SUFFICES ASSUME Init PROVE HostInv
  OBVIOUS
<1>1. PICK scope \in [Pids -> Scopes] :
        process = [pid \in Pids |-> [start |-> 1, qemu |-> TRUE, path |-> Path(scope[pid], "emulator")]]
  BY DEF Init
<1>2. \A pid \in Pids : process[pid] \in Processes
  BY <1>1 DEF Processes
<1>3. process \in [Pids -> Processes]
  BY <1>1, <1>2
<1>4. changes = 0 /\ lives = {<<pid, process[pid]>> : pid \in Pids}
  BY DEF Init
<1>5. \A pid \in Pids : process[pid].start = 1
  BY <1>1
<1>6. \A pid \in Pids : process[pid].start <= changes + 1
  BY <1>4, <1>5
<1>7. \A pid \in Pids : <<pid, process[pid]>> \in lives
  BY <1>4
<1>8. lives \subseteq Pids \X Processes
  BY <1>2, <1>4
<1> QED
  BY <1>3, <1>4, <1>6, <1>7, <1>8 DEF HostInv

\* What the host does keeps what is known of its processes, and a process
\* that is there afterwards was there before or is younger than all before.
LEMMA HostKeeps ==
  ASSUME HostInv, Host
  PROVE  /\ HostInv'
         /\ changes' = changes + 1
         /\ lives \subseteq lives'
         /\ \A pid \in Pids : process'[pid] = process[pid] \/ process'[pid].start \in {0, changes + 2}
<1> USE DEF HostInv
<1>1. CASE \E pid \in Pids, left \in {{}, {"machine_scope"}, Places} : ProcessEnds(pid, left)
  <2>1. PICK pid \in Pids : /\ changes' = changes + 1 /\ lives' = lives
                            /\ process' = [process EXCEPT ![pid] = NoProcess]
    BY <1>1 DEF ProcessEnds, Change
  <2>2. NoProcess \in Processes /\ NoProcess.start = 0
    BY DEF NoProcess, Processes
  <2>3. \A q \in Pids : process'[q] = process[q] \/ process'[q] = NoProcess
    BY <2>1
  <2>4. process' \in [Pids -> Processes]
    BY <2>1, <2>2
  <2>5. \A q \in Pids : process'[q].start # 0 => <<q, process'[q]>> \in lives'
    BY <2>1, <2>2, <2>3
  <2>6. \A q \in Pids : process'[q].start <= changes' + 1
    <3> SUFFICES ASSUME NEW q \in Pids PROVE process'[q].start <= changes' + 1
      OBVIOUS
    <3>1. process[q].start \in Nat
      BY DEF Processes
    <3> QED
      BY <2>1, <2>2, <2>3, <3>1
  <2> QED
    BY <2>1, <2>2, <2>3, <2>4, <2>5, <2>6
<1>2. CASE \E pid \in Pids, qemu \in BOOLEAN, scope \in Scopes \cup {"-"} : ProcessStarts(pid, qemu, scope)
  <2>1. PICK pid \in Pids, qemu \in BOOLEAN, scope \in Scopes \cup {"-"} : ProcessStarts(pid, qemu, scope)
    BY <1>2
  <2> DEFINE new == [start |-> changes + 2, qemu |-> qemu,
                     path |-> IF scope \in Scopes THEN Path(scope, "emulator") ELSE Outside]
  <2>2. /\ changes' = changes + 1 /\ process' = [process EXCEPT ![pid] = new]
        /\ lives' = lives \cup {<<pid, new>>}
    BY <2>1 DEF ProcessStarts, Change
  <2>3. new \in Processes /\ new.start = changes + 2
    BY DEF Processes
  <2> HIDE DEF new
  <2>4. \A q \in Pids : process'[q] = process[q] \/ (q = pid /\ process'[q] = new)
    BY <2>2
  <2>5. process' \in [Pids -> Processes]
    BY <2>2, <2>3
  <2>6. \A q \in Pids : process'[q].start # 0 => <<q, process'[q]>> \in lives'
    BY <2>2, <2>4
  <2>7. \A q \in Pids : process'[q].start <= changes' + 1
    <3> SUFFICES ASSUME NEW q \in Pids PROVE process'[q].start <= changes' + 1
      OBVIOUS
    <3>1. process[q].start \in Nat
      BY DEF Processes
    <3> QED
      BY <2>2, <2>3, <2>4, <3>1
  <2> QED
    BY <2>2, <2>3, <2>4, <2>5, <2>6, <2>7
<1> QED
  BY <1>1, <1>2 DEF Host

-----------------------------------------------------------------------------
(* The mapper.                                                             *)

\* What runs now has a life, and nothing starts in the future.
LEMMA CurrentProcess ==
  ASSUME HostInv, NEW pid \in Pids
  PROVE  /\ process[pid] = [start |-> process[pid].start, qemu |-> process[pid].qemu, path |-> process[pid].path]
         /\ process[pid].start \in Nat /\ process[pid].qemu \in BOOLEAN
         /\ process[pid].start <= changes + 1
         /\ process[pid].start # 0 => <<pid, process[pid]>> \in lives
<1>1. process[pid] \in Processes
  BY DEF HostInv
<1> QED
  BY <1>1 DEF HostInv, Processes

\* Whatever happens on the host, what the mapper knows stays true: a process
\* that replaces the one that was read has another start.
LEMMA MapperOnHost ==
  ASSUME HostInv, MapperInv, Host, UNCHANGED <<pidOf, mapper>>
  PROVE  MapperInv'
<1>1. /\ pidOf' = pidOf /\ turn' = turn /\ step' = step /\ seen' = seen
      /\ vm' = vm /\ p' = process'[pidOf[vm]]
  BY DEF mapper, vm, p
<1>2. changes' = changes + 1 /\ lives \subseteq lives' /\ changes \in Nat
  BY HostKeeps DEF HostInv
<1>3. step \in Confirming => seen.start \in 1..(changes' + 1)
  <2>1. step \in Confirming => seen.start \in 1..(changes + 1)
    BY DEF MapperInv
  <2> QED
    BY <1>2, <2>1
<1>4. step \in Confirming => (Unchanged' => p' = p /\ Unchanged)
  <2> SUFFICES ASSUME step \in Confirming, Unchanged' PROVE p' = p /\ Unchanged
    OBVIOUS
  <2>1. pidOf[vm] \in Pids /\ seen.start \in 1..(changes + 1)
    BY DEF MapperInv, Reading
  <2>2. p'.start = seen.start
    BY <1>1 DEF Unchanged
  <2>3. p'.start # 0 /\ p'.start # changes + 2
    BY <2>1, <2>2, <1>2
  <2>4. p' = p
    BY <2>1, <2>3, <1>1, HostKeeps DEF p
  <2> QED
    BY <2>2, <2>4 DEF Unchanged
<1>5. /\ step = "cgroup again" => step \in Confirming
      /\ step = "start again" => step \in Confirming
  BY DEF Confirming
<1>6. Life' = Life
  BY <1>1 DEF Life
<1>7. p' = p => p'.qemu = p.qemu /\ p'.path = p.path
  OBVIOUS
<1>8. /\ step' = "cgroup again" => (Unchanged' => p'.qemu)
      /\ step' = "start again" => (Unchanged' => p'.qemu /\ p'.path = seen'.path)
  BY <1>1, <1>4, <1>5, <1>7 DEF MapperInv
<1>9. /\ pidOf' \in [Machine -> Pids \cup {0}]
      /\ seen' = [path |-> seen'.path, start |-> seen'.start, paths |-> seen'.paths, found |-> seen'.found]
      /\ step' \in Reading => turn' \in DOMAIN VMs /\ pidOf'[vm'] \in Pids
      /\ step' \in Confirming => seen'.start \in 1..(changes' + 1)
      /\ step' = "inodes" => Life' \in lives'
  BY <1>1, <1>2, <1>3, <1>6 DEF MapperInv
<1> QED
  BY <1>8, <1>9 DEF MapperInv

\* The next VM is looked at, or none.
LEMMA MapperIsReset ==
  ASSUME MapperInv, seen' = NotSeen, step' \notin Reading, pidOf' = pidOf
  PROVE  MapperInv'
<1>1. step' \notin Confirming /\ step' \notin {"cgroup again", "start again", "inodes"}
  BY DEF Reading, Confirming
<1>2. seen' = [path |-> seen'.path, start |-> seen'.start, paths |-> seen'.paths, found |-> seen'.found]
  BY DEF NotSeen
<1> QED
  BY <1>1, <1>2 DEF MapperInv

LEMMA RejectedIsUnverified ==
  ASSUME NEW quality \in {"missing_qemu_pid", "non_qemu_pid", "stale_or_unreadable_qemu_pid", "cgroup_v2_path_missing",
                          "cgroup_unreadable", "not_libvirt_vm_cgroup", "stale_or_reused_qemu_pid"},
         NEW m, m.quality = quality
  PROVE  ~Verified(m)
BY DEF Verified

\* A mapping that is concluded is one of those that are not verified, or of one process.
OfOneLife(m) == Verified(m) => <<m.pid, [start |-> m.start, qemu |-> TRUE, path |-> m.primary]>> \in lives

LEMMA Concluded ==
  ASSUME MappingInv, NEW m, Conclude(m), OfOneLife(m), turn \in DOMAIN VMs, UNCHANGED <<pidOf, host>>
  PROVE  MappingInv'
<1>1. HostInv'
  BY DEF MappingInv, HostInv, host
<1>2. MapperInv'
  <2>1. seen' = NotSeen /\ step' = "pid" /\ pidOf' = pidOf
    BY DEF Conclude
  <2>2. "pid" \notin Reading
    BY DEF Reading, Confirming
  <2> QED
    BY <2>1, <2>2, MapperIsReset DEF MappingInv
<1>3. mapping' = [mapping EXCEPT ![vm] = m] /\ lives' = lives
  BY DEF Conclude, host
<1>4. DOMAIN mapping' = Machine
  BY <1>3 DEF MappingInv
<1>5. \A name \in Machine : mapping'[name] = mapping[name] \/ mapping'[name] = m
  BY <1>3 DEF MappingInv
<1>6. MappingIsOfOneProcess'
  BY <1>3, <1>5 DEF MappingInv, MappingIsOfOneProcess, OfOneLife, Verified
<1> QED
  BY <1>1, <1>2, <1>4, <1>6 DEF MappingInv

LEMMA Rejected ==
  ASSUME MappingInv, turn \in DOMAIN VMs, UNCHANGED <<pidOf, host>>,
         NEW quality \in {"missing_qemu_pid", "non_qemu_pid", "stale_or_unreadable_qemu_pid", "cgroup_v2_path_missing",
                          "cgroup_unreadable", "not_libvirt_vm_cgroup", "stale_or_reused_qemu_pid"},
         Reject(quality)
  PROVE  MappingInv'
<1> DEFINE m == [Unmapped EXCEPT !.quality = quality, !.pid = pidOf[vm], !.primary = seen.path]
<1>1. m.quality = quality
  BY DEF Unmapped
<1>2. Conclude(m)
  BY DEF Reject
<1> HIDE DEF m
<1>3. OfOneLife(m)
  BY <1>1, RejectedIsUnverified DEF OfOneLife
<1> QED
  BY <1>2, <1>3, Concluded

\* A read that goes on to another one.
LEMMA ProceedStep ==
  ASSUME MappingInv, UNCHANGED <<pidOf, host, turn, mapping>>, turn \in DOMAIN VMs, pidOf[vm] \in Pids,
         seen' = [path |-> seen'.path, start |-> seen'.start, paths |-> seen'.paths, found |-> seen'.found],
         step' \in Confirming => seen'.start \in 1..(changes + 1),
         step' = "cgroup again" => (p.start = seen'.start => p.qemu),
         step' = "start again" => (p.start = seen'.start => p.qemu /\ p.path = seen'.path),
         step' = "inodes" => <<pidOf[vm], [start |-> seen'.start, qemu |-> TRUE, path |-> seen'.path]>> \in lives
  PROVE  MappingInv'
<1>1. /\ pidOf' = pidOf /\ process' = process /\ lives' = lives /\ changes' = changes /\ turn' = turn
      /\ mapping' = mapping /\ vm' = vm /\ p' = p
  BY DEF host, vm, p
<1>2. HostInv'
  BY <1>1 DEF MappingInv, HostInv
<1>3. MapperInv'
  BY <1>1 DEF MappingInv, MapperInv, Unchanged, Life
<1>4. DOMAIN mapping' = Machine /\ MappingIsOfOneProcess'
  BY <1>1 DEF MappingInv, MappingIsOfOneProcess
<1> QED
  BY <1>2, <1>3, <1>4 DEF MappingInv

LEMMA MapperStep ==
  ASSUME MappingInv, MapVM, UNCHANGED <<pidOf, host>>
  PROVE  MappingInv'
<1> USE DEF At
<1>0. /\ HostInv /\ MapperInv
      /\ seen = [path |-> seen.path, start |-> seen.start, paths |-> seen.paths, found |-> seen.found]
  BY DEF MappingInv, MapperInv
<1>a. step \in Reading => /\ turn \in DOMAIN VMs /\ pidOf[vm] \in Pids
                          /\ p.start \in Nat /\ p.qemu \in BOOLEAN /\ p.start <= changes + 1 /\ changes \in Nat
                          /\ p = [start |-> p.start, qemu |-> p.qemu, path |-> p.path]
                          /\ p.start # 0 => <<pidOf[vm], p>> \in lives
  BY <1>0, CurrentProcess DEF MapperInv, p, HostInv
<1>1. CASE HasPid
  <2>1. turn \in DOMAIN VMs
    BY <1>1 DEF HasPid
  <2>2. pidOf[vm] \in Pids \cup {0}
    BY <1>0, <2>1, CurrentVM DEF MapperInv
  <2>3. CASE pidOf[vm] = 0
    <3> DEFINE m == [Unmapped EXCEPT !.quality = "missing_qemu_pid"]
    <3>1. Conclude(m)
      BY <1>1, <2>3 DEF HasPid
    <3>2. m.quality = "missing_qemu_pid"
      BY DEF Unmapped
    <3> HIDE DEF m
    <3>3. OfOneLife(m)
      BY <3>2, RejectedIsUnverified DEF OfOneLife
    <3> QED
      BY <2>1, <3>1, <3>3, Concluded
  <2>4. CASE pidOf[vm] # 0
    <3>1. step' = "name" /\ UNCHANGED <<turn, mapping, seen>>
      BY <1>1, <2>4 DEF HasPid, Proceed
    <3> QED
      BY <1>0, <2>1, <2>2, <2>4, <3>1, ProceedStep DEF Confirming
  <2> QED
    BY <2>3, <2>4
<1>2. CASE ReadName
  <2>1. step \in Reading
    BY <1>2 DEF ReadName, Reading
  <2>2. CASE Proceed("cgroup") /\ UNCHANGED seen
    BY <1>0, <1>a, <2>1, <2>2, ProceedStep DEF Proceed, Confirming
  <2>3. CASE Reject("non_qemu_pid") \/ Reject("stale_or_unreadable_qemu_pid")
    BY <1>a, <2>1, <2>3, Rejected
  <2> QED
    BY <1>2, <2>2, <2>3 DEF ReadName
<1>3. CASE ReadCgroup
  <2>1. step \in Reading
    BY <1>3 DEF ReadCgroup, Reading
  <2>2. CASE Proceed("start") /\ seen' = [seen EXCEPT !.path = p.path]
    <3>1. seen' = [path |-> seen'.path, start |-> seen'.start, paths |-> seen'.paths, found |-> seen'.found]
      BY <1>0, <2>2
    <3> QED
      BY <1>a, <2>1, <2>2, <3>1, ProceedStep DEF Proceed, Confirming
  <2>3. CASE Reject("cgroup_v2_path_missing") \/ Reject("cgroup_unreadable")
    BY <1>a, <2>1, <2>3, Rejected
  <2> QED
    BY <1>3, <2>2, <2>3 DEF ReadCgroup
<1>4. CASE ReadStartTime
  <2>1. step \in Reading
    BY <1>4 DEF ReadStartTime, Reading
  <2>2. CASE p.start # 0 /\ Proceed("tree") /\ seen' = [seen EXCEPT !.start = p.start]
    <3>1. seen' = [path |-> seen'.path, start |-> seen'.start, paths |-> seen'.paths, found |-> seen'.found] /\ seen'.start = p.start
      BY <1>0, <2>2
    <3>2. seen'.start \in 1..(changes + 1)
      BY <1>a, <2>1, <2>2, <3>1
    <3>3. step' = "tree"
      BY <2>2 DEF Proceed
    <3> QED
      BY <1>a, <2>1, <2>2, <3>1, <3>2, <3>3, ProceedStep DEF Proceed
  <2>3. CASE Reject("stale_or_unreadable_qemu_pid")
    BY <1>a, <2>1, <2>3, Rejected
  <2> QED
    BY <1>4, <2>2, <2>3 DEF ReadStartTime
<1>5. CASE ReadTree
  <2>1. step \in Reading /\ step \in Confirming
    BY <1>5 DEF ReadTree, Reading, Confirming
  <2>2. CASE Proceed("name again") /\ seen' = [seen EXCEPT !.paths = relatedLibvirtCgroupPaths(seen.path)]
    <3>1. seen' = [path |-> seen'.path, start |-> seen'.start, paths |-> seen'.paths, found |-> seen'.found] /\ seen'.start = seen.start
      BY <1>0, <2>2
    <3>2. seen'.start \in 1..(changes + 1)
      BY <1>0, <2>1, <3>1 DEF MapperInv
    <3>3. step' = "name again"
      BY <2>2 DEF Proceed
    <3> QED
      BY <1>a, <2>1, <2>2, <3>1, <3>2, <3>3, ProceedStep DEF Proceed
  <2>3. CASE Reject("not_libvirt_vm_cgroup")
    BY <1>a, <2>1, <2>3, Rejected
  <2> QED
    BY <1>5, <2>2, <2>3 DEF ReadTree
<1>6. CASE ConfirmName
  <2>1. step \in Reading /\ step \in Confirming
    BY <1>6 DEF ConfirmName, Reading, Confirming
  <2>2. CASE p.qemu /\ Proceed("cgroup again") /\ UNCHANGED seen
    <3>1. step' = "cgroup again" /\ seen.start \in 1..(changes + 1)
      BY <1>0, <2>1, <2>2 DEF Proceed, MapperInv
    <3> QED
      BY <1>0, <1>a, <2>1, <2>2, <3>1, ProceedStep DEF Proceed
  <2>3. CASE Reject("stale_or_reused_qemu_pid")
    BY <1>a, <2>1, <2>3, Rejected
  <2> QED
    BY <1>6, <2>2, <2>3 DEF ConfirmName, Confirm
<1>7. CASE ConfirmCgroup
  <2>1. step \in Reading /\ step \in Confirming
    BY <1>7 DEF ConfirmCgroup, Reading, Confirming
  <2>2. CASE p.path = seen.path /\ Proceed("start again") /\ UNCHANGED seen
    <3>1. step' = "start again" /\ seen.start \in 1..(changes + 1)
      BY <1>0, <2>1, <2>2 DEF Proceed, MapperInv
    <3>2. p.start = seen.start => p.qemu
      BY <1>0, <1>7 DEF ConfirmCgroup, MapperInv, Unchanged
    <3> QED
      BY <1>0, <1>a, <2>1, <2>2, <3>1, <3>2, ProceedStep DEF Proceed
  <2>3. CASE Reject("stale_or_reused_qemu_pid")
    BY <1>a, <2>1, <2>3, Rejected
  <2> QED
    BY <1>7, <2>2, <2>3 DEF ConfirmCgroup, Confirm
<1>8. CASE ConfirmStartTime
  <2>1. step \in Reading /\ step \in Confirming
    BY <1>8 DEF ConfirmStartTime, Reading, Confirming
  <2>2. CASE p.start = seen.start /\ Proceed("inodes") /\ UNCHANGED seen
    <3>1. step' = "inodes" /\ seen.start \in 1..(changes + 1)
      BY <1>0, <2>1, <2>2 DEF Proceed, MapperInv
    <3>2. p.qemu /\ p.path = seen.path
      BY <1>0, <1>8, <2>2 DEF ConfirmStartTime, MapperInv, Unchanged
    <3>3. p.start # 0
      BY <1>a, <2>1, <2>2, <3>1
    <3>4. p = [start |-> seen.start, qemu |-> TRUE, path |-> seen.path]
      BY <1>a, <2>1, <2>2, <3>2
    <3>5. <<pidOf[vm], p>> \in lives
      BY <1>a, <2>1, <3>3
    <3>6. <<pidOf[vm], [start |-> seen'.start, qemu |-> TRUE, path |-> seen'.path]>> \in lives
      BY <2>2, <3>4, <3>5
    <3> QED
      BY <1>0, <1>a, <2>1, <2>2, <3>1, <3>6, ProceedStep DEF Proceed
  <2>3. CASE Reject("stale_or_reused_qemu_pid")
    BY <1>a, <2>1, <2>3, Rejected
  <2> QED
    BY <1>8, <2>2, <2>3 DEF ConfirmStartTime, Confirm
<1>9. CASE ReadInode
  <2>1. step = "inodes" /\ step \in Reading /\ step \in Confirming /\ step' = step
    BY <1>9 DEF ReadInode, Reading, Confirming
  <2>2. PICK left, found : seen' = [seen EXCEPT !.paths = left, !.found = found]
    BY <1>9 DEF ReadInode
  <2>3. /\ seen' = [path |-> seen'.path, start |-> seen'.start, paths |-> seen'.paths, found |-> seen'.found]
        /\ seen'.path = seen.path /\ seen'.start = seen.start
    BY <1>0, <2>2
  <2>4. seen'.start \in 1..(changes + 1)
    BY <1>0, <2>1, <2>3 DEF MapperInv
  <2>5. <<pidOf[vm], [start |-> seen'.start, qemu |-> TRUE, path |-> seen'.path]>> \in lives
    BY <1>0, <2>1, <2>3 DEF MapperInv, Life
  <2>6. UNCHANGED <<turn, mapping>>
    BY <1>9 DEF ReadInode
  <2> QED
    BY <1>a, <2>1, <2>3, <2>4, <2>5, <2>6, ProceedStep
<1>10. CASE ConcludeTree
  <2>1. step \in Reading /\ step = "inodes"
    BY <1>10 DEF ConcludeTree, Reading, Confirming
  <2>2. PICK m : Conclude(m) /\ m.pid = pidOf[vm] /\ m.start = seen.start /\ m.primary = seen.path
    BY <1>10 DEF ConcludeTree
  <2>3. OfOneLife(m)
    BY <1>0, <2>1, <2>2 DEF OfOneLife, MapperInv, Life
  <2> QED
    BY <1>a, <2>1, <2>2, <2>3, Concluded
<1> QED
  BY <1>1, <1>2, <1>3, <1>4, <1>5, <1>6, <1>7, <1>8, <1>9, <1>10 DEF MapVM

-----------------------------------------------------------------------------
LEMMA MappingInitially == Init => MappingInv
<1> SUFFICES ASSUME Init PROVE MappingInv
  OBVIOUS
<1>1. HostInv
  BY HostInitially
<1>2. MapperInv
  <2>1. step = "pid" /\ seen = NotSeen /\ pidOf \in [Machine -> Pids \cup {0}]
    BY DEF Init
  <2> QED
    BY <2>1 DEF MapperInv, NotSeen, Reading, Confirming
<1>3. mapping = [name \in Machine |-> Unmapped]
  BY DEF Init
<1>4. ~Verified(Unmapped)
  BY DEF Unmapped, Verified
<1> QED
  BY <1>1, <1>2, <1>3, <1>4 DEF MappingInv, MappingIsOfOneProcess

LEMMA MappingIsInductive == MappingInv /\ [Next]_vars => MappingInv'
<1> SUFFICES ASSUME MappingInv, [Next]_vars PROVE MappingInv'
  OBVIOUS
<1>1. CASE Changing
  <2>1. Host /\ UNCHANGED <<pidOf, mapper, mapping>>
    BY <1>1 DEF Changing
  <2>2. HostInv' /\ lives \subseteq lives'
    BY <2>1, HostKeeps DEF MappingInv
  <2>3. MapperInv'
    BY <2>1, MapperOnHost DEF MappingInv
  <2>4. mapping' = mapping
    BY <2>1
  <2> QED
    BY <2>2, <2>3, <2>4 DEF MappingInv, MappingIsOfOneProcess
<1>2. CASE Mapping
  BY <1>2, MapperStep DEF Mapping
\* After the mapping the steps have other names.
<1>3. ASSUME UNCHANGED <<pidOf, host, mapping>>, step' \notin Reading,
             seen' = [path |-> seen'.path, start |-> seen'.start, paths |-> seen'.paths, found |-> seen'.found]
      PROVE  MappingInv'
  <2>1. /\ HostInv' /\ DOMAIN mapping' = Machine /\ MappingIsOfOneProcess'
    BY <1>3 DEF MappingInv, HostInv, MappingIsOfOneProcess, host
  <2>2. step' \notin Confirming /\ step' \notin {"cgroup again", "start again", "inodes"}
    BY <1>3 DEF Reading, Confirming
  <2>3. MapperInv'
    BY <1>3, <2>2 DEF MappingInv, MapperInv
  <2> QED
    BY <2>1, <2>3 DEF MappingInv
<1>4. seen = [path |-> seen.path, start |-> seen.start, paths |-> seen.paths, found |-> seen.found]
  BY DEF MappingInv, MapperInv
<1>5. \A next : BeginPhase(next) =>
        /\ step' \notin Reading
        /\ seen' = [path |-> seen'.path, start |-> seen'.start, paths |-> seen'.paths, found |-> seen'.found]
  BY DEF BeginPhase, Reading, Confirming, NotSeen
<1>6. ASSUME UNCHANGED <<pidOf, host, mapping, turn, step, seen>> PROVE MappingInv'
  BY <1>6 DEF MappingInv, HostInv, MapperInv, MappingIsOfOneProcess, host, Unchanged, Life, vm, p
<1>7. CASE Indexed
  BY <1>3, <1>5, <1>6, <1>7 DEF Indexed, mapper
<1>8. CASE SampleVM
  <2>1. UNCHANGED <<pidOf, host, mapping>>
    BY <1>8 DEF SampleVM, SampleStopped, ReadCgroupInode, ReadIOStat, ReadBlockStats, ValidateName, ValidateCgroup,
                ValidateStart, ReadProcessIO, Sampled, Put
  <2>2. step' \notin Reading
    BY <1>8 DEF SampleVM, SampleStopped, ReadCgroupInode, ReadIOStat, ReadBlockStats, ValidateName, ValidateCgroup,
                ValidateStart, ReadProcessIO, Sampled, Go, NextVM, Invalid, Reading, Confirming
  <2>3. seen' = [path |-> seen'.path, start |-> seen'.start, paths |-> seen'.paths, found |-> seen'.found]
    BY <1>8, <1>4 DEF SampleVM, SampleStopped, ReadCgroupInode, ReadIOStat, ReadBlockStats, ValidateName, ValidateCgroup,
                ValidateStart, ReadProcessIO, Sampled, Invalid, NotSeen
  <2> QED
    BY <1>3, <2>1, <2>2, <2>3
<1>9. CASE Wait
  BY <1>3, <1>5, <1>9 DEF Wait
<1>10. CASE Report
  BY <1>6, <1>10 DEF Report, mapper
<1>11. CASE Ended \/ UNCHANGED vars
  BY <1>6, <1>11 DEF Ended, vars
<1> QED
  BY <1>1, <1>2, <1>7, <1>8, <1>9, <1>10, <1>11 DEF Next

\* A verified mapping is of one process, whatever happened between the reads
\* of buildVMCgroupMappings.
THEOREM MappingsHold == Spec => []MappingIsOfOneProcess
<1>1. MappingInv => MappingIsOfOneProcess
  BY DEF MappingInv
<1> QED
  BY <1>1, MappingInitially, MappingIsInductive, PTL DEF Spec

-----------------------------------------------------------------------------
(* The samples.                                                            *)
LEMMA NoSampleFacts ==
  /\ SampleShape(NoSample)
  /\ NoSample.cgroup.path = Outside /\ ~NoSample.cgroup.ok
  /\ ~NoSample.qemu.ok /\ NoSample.qemu.identity.start = 0
BY DEF NoSample, NoCgroup, NoProcessData, NoProcess, SampleShape, CgroupShape, ProcessShape

\* The inode of a path does not fall.
LEMMA TreeKeeps ==
  ASSUME TreeInv, HostInv, Host
  PROVE  TreeInv' /\ \A scope \in Scopes : tree[scope].inode <= tree'[scope].inode
<1> USE DEF TreeInv, Machines
<1>1. CASE \E pid \in Pids, left \in {{}, {"machine_scope"}, Places} : ProcessEnds(pid, left)
  <2>1. PICK pid \in Pids, left \in {{}, {"machine_scope"}, Places} : ProcessEnds(pid, left)
    BY <1>1
  <2>2. tree' = [s \in Scopes |-> IF s = process[pid].path.scope THEN [tree[s] EXCEPT !.places = @ \cap left] ELSE tree[s]]
    BY <2>1 DEF ProcessEnds
  <2>3. \A s \in Scopes : tree'[s] \in Machines /\ tree'[s].inode = tree[s].inode
    BY <2>2
  <2> QED
    BY <2>2, <2>3
<1>2. CASE \E pid \in Pids, qemu \in BOOLEAN, scope \in Scopes \cup {"-"} : ProcessStarts(pid, qemu, scope)
  <2>1. PICK pid \in Pids, qemu \in BOOLEAN, scope \in Scopes \cup {"-"} : ProcessStarts(pid, qemu, scope)
    BY <1>2
  <2>2. tree' = [s \in Scopes |-> IF s = scope /\ "emulator" \notin tree[s].places
                               THEN [inode |-> tree[s].inode + 1, places |-> Places] ELSE tree[s]]
    BY <2>1 DEF ProcessStarts
  <2>3. \A s \in Scopes : tree'[s] \in Machines /\ tree[s].inode <= tree'[s].inode
    BY <2>2
  <2> QED
    BY <2>2, <2>3
<1> QED
  BY <1>1, <1>2 DEF Host

\* The PID of a mapping that was verified.
LEMMA MappablePid ==
  ASSUME MappingInv, NEW name \in Machine, Mappable(mapping[name])
  PROVE  mapping[name].pid \in Pids
BY DEF MappingInv, MappingIsOfOneProcess, Mappable, HostInv

LEMMA CgroupsOnHost ==
  ASSUME TreeInv, HostInv, Host, NEW b, NEW a, CgroupsMatch(b, a)
  PROVE  CgroupsMatch(b, a)'
<1> DEFINE i == tree[b.path.scope].inode
           j == tree'[b.path.scope].inode
<1>1. b.path.scope \in Scopes => i \in Nat /\ j \in Nat /\ i <= j
  BY TreeKeeps DEF TreeInv, Machines
<1>2. inode(b.path) = i /\ inode(b.path)' = j
  BY DEF inode
<1> HIDE DEF i, j
<1>3. b.path # Outside => Identified(b)'
  BY <1>1, <1>2 DEF CgroupsMatch, Identified
<1>4. b.ok => b.from[2] <= j
  BY <1>1, <1>2 DEF CgroupsMatch, Identified
<1> QED
  BY <1>2, <1>3, <1>4 DEF CgroupsMatch

LEMMA ProcessesOnHost ==
  ASSUME MappingInv, Host, UNCHANGED <<baseline, after, mapping>>, NEW name \in Machine,
         ProcessesMatch(baseline[name].qemu, after[name].qemu, mapping[name])
  PROVE  ProcessesMatch(baseline[name].qemu, after[name].qemu, mapping[name])'
<1> DEFINE b == baseline[name].qemu
           a == after[name].qemu
           m == mapping[name]
<1>0. b' = b /\ a' = a /\ m' = m
  OBVIOUS
<1>1. HostInv' /\ changes' = changes + 1 /\ lives \subseteq lives' /\ changes \in Nat
  BY HostKeeps DEF HostInv, MappingInv
<1>2. Mappable(m) => process'[m.pid] = process[m.pid] \/ process'[m.pid].start \in {0, changes + 2}
  BY MappablePid, HostKeeps DEF MappingInv
<1>3. ProcessesMatch(b, a, m)
  OBVIOUS
<1> HIDE DEF b, a, m
<1>4. b.identity.start \in 0..(changes' + 1)
  BY <1>1, <1>3 DEF ProcessesMatch
<1>5. b.ok => Mappable(m) /\ b.from \in 1..(changes' + 1) /\ b.identity.start <= b.from
  BY <1>1, <1>3 DEF ProcessesMatch
<1>6. b.ok => process'[m.pid].start = 0 \/ b.from <= process'[m.pid].start
  BY <1>1, <1>2, <1>3 DEF ProcessesMatch, NoOlder
<1>7. a.ok => Confirmed(b, a, m)'
  BY <1>0, <1>1, <1>3 DEF ProcessesMatch, Confirmed
<1>8. Mappable(m)' = Mappable(m)
  BY <1>0 DEF Mappable, Verified
<1>9. ProcessesMatch(b, a, m)'
  BY <1>0, <1>4, <1>5, <1>6, <1>7, <1>8 DEF ProcessesMatch, NoOlder
<1> QED
  BY <1>9 DEF b, a, m

LEMMA StepOnHost ==
  ASSUME MappingInv, Host, UNCHANGED <<phase, turn, step, baseline, after, mapping>>, turn \in DOMAIN VMs,
         StepKnown(step, baseline[vm], after[vm], mapping[vm]),
         ProcessesMatch(baseline[vm].qemu, after[vm].qemu, mapping[vm])
  PROVE  StepKnown(step, baseline[vm], after[vm], mapping[vm])'
<1> DEFINE b == baseline[vm]
           a == after[vm]
           m == mapping[vm]
<1>0. b' = b /\ a' = a /\ m' = m /\ step' = step /\ phase' = phase
  BY DEF vm
<1>1. HostInv' /\ changes' = changes + 1 /\ lives \subseteq lives' /\ changes \in Nat
  BY HostKeeps DEF HostInv, MappingInv
<1>2. Mappable(m) => process'[m.pid] = process[m.pid] \/ process'[m.pid].start \in {0, changes + 2}
  BY MappablePid, CurrentVM, HostKeeps DEF MappingInv
<1>3. StepKnown(step, b, a, m) /\ ProcessesMatch(b.qemu, a.qemu, m)
  OBVIOUS
<1> HIDE DEF b, a, m
<1>4. step \in Validating => Mappable(m)
  BY <1>3 DEF StepKnown
<1>5. ASSUME Mappable(m), StillThere(b.qemu, m)'
      PROVE  StillThere(b.qemu, m) /\ process'[m.pid] = process[m.pid]
  <2>1. process'[m.pid].start # 0 /\ process'[m.pid].start = b.qemu.identity.start
    BY <1>0, <1>5 DEF StillThere
  <2>2. process'[m.pid] = process[m.pid]
    BY <1>1, <1>2, <1>3, <1>5, <2>1 DEF ProcessesMatch
  <2> QED
    BY <2>1, <2>2 DEF StillThere
<1>6. phase = "baseline" /\ step = "io" =>
        b.qemu.identity.start \in 1..(changes' + 1) /\ NoOlder(b.qemu.identity.start, m)'
  <2> SUFFICES ASSUME phase = "baseline", step = "io"
               PROVE  b.qemu.identity.start \in 1..(changes' + 1) /\ NoOlder(b.qemu.identity.start, m)'
    OBVIOUS
  <2>1. Mappable(m) /\ b.qemu.identity.start \in 1..(changes + 1) /\ NoOlder(b.qemu.identity.start, m)
    BY <1>3 DEF StepKnown, Validating
  <2>2. process'[m.pid].start = 0 \/ b.qemu.identity.start <= process'[m.pid].start
    BY <1>1, <1>2, <2>1 DEF NoOlder
  <2> QED
    BY <1>0, <1>1, <2>1, <2>2 DEF NoOlder
<1>7. phase = "after" /\ step = "validate cgroup" => (StillThere(b.qemu, m)' => process'[m.pid].qemu)
  BY <1>3, <1>4, <1>5 DEF StepKnown, Validating
<1>8. phase = "after" /\ step = "validate start" =>
        (StillThere(b.qemu, m)' => process'[m.pid].qemu /\ process'[m.pid].path = m.primary)
  BY <1>3, <1>4, <1>5 DEF StepKnown, Validating
<1>9. phase = "after" /\ step = "io" => Confirmed(b.qemu, a.qemu, m)'
  BY <1>0, <1>1, <1>3 DEF StepKnown, Confirmed
<1>10. Mappable(m)' = Mappable(m)
  BY <1>0 DEF Mappable, Verified
<1>11. /\ step \in {"inode", "io.stat", "virsh"} \cup Validating => ~(IF phase = "baseline" THEN b ELSE a).qemu.ok
       /\ step = "io.stat" => (IF phase = "baseline" THEN b ELSE a).cgroup.path # Outside
  BY <1>3 DEF StepKnown
<1>12. StepKnown(step, b, a, m)'
  BY <1>0, <1>4, <1>6, <1>7, <1>8, <1>9, <1>10, <1>11 DEF StepKnown
<1> QED
  BY <1>12 DEF b, a, m

LEMMA InvOnHost == Inv /\ Changing => Inv'
<1> SUFFICES ASSUME Inv, Changing PROVE Inv'
  OBVIOUS
<1>1. /\ Host
      /\ UNCHANGED <<pidOf, turn, step, seen, mapping, stopped, phase, baseline, after, report>>
      /\ vm' = vm
  BY DEF Changing, mapper, vm
<1>2. HostInv /\ MappingInv /\ TreeInv /\ SamplesInv /\ PhaseInv
  BY DEF Inv, MappingInv
<1>3. MappingInv'
  BY <1>2, MappingIsInductive DEF Next
<1>4. TreeInv'
  BY <1>1, <1>2, TreeKeeps
<1>5. SamplesInv'
  <2>1. ASSUME NEW name \in Machine
        PROVE  /\ SampleShape(baseline[name])' /\ SampleShape(after[name])'
               /\ CgroupsMatch(baseline[name].cgroup, after[name].cgroup)'
               /\ ProcessesMatch(baseline[name].qemu, after[name].qemu, mapping[name])'
    <3>1. /\ CgroupsMatch(baseline[name].cgroup, after[name].cgroup)
          /\ ProcessesMatch(baseline[name].qemu, after[name].qemu, mapping[name])
          /\ SampleShape(baseline[name]) /\ SampleShape(after[name])
      BY <1>2 DEF SamplesInv
    <3>2. SampleShape(baseline[name])' /\ SampleShape(after[name])'
      BY <1>1, <3>1 DEF SampleShape, CgroupShape, ProcessShape
    <3>3. \A c, d : CgroupsMatch(c, d) => CgroupsMatch(c, d)'
      BY <1>1, <1>2, CgroupsOnHost
    <3>4. CgroupsMatch(baseline[name].cgroup, after[name].cgroup)'
      BY <1>1, <3>1, <3>3 DEF CgroupsMatch, Identified, inode
    <3>5. ProcessesMatch(baseline[name].qemu, after[name].qemu, mapping[name])'
      BY <1>1, <1>2, <3>1, ProcessesOnHost
    <3> QED
      BY <3>2, <3>4, <3>5
  <2> QED
    BY <1>1, <1>2, <2>1 DEF SamplesInv
<1>6. PhaseInv'
  <2>1. ASSUME phase \in {"baseline", "after"}, turn \in DOMAIN VMs
        PROVE  StepKnown(step, baseline[vm], after[vm], mapping[vm])'
    <3>1. vm \in Machine
      BY <2>1, CurrentVM
    <3>2. StepKnown(step, baseline[vm], after[vm], mapping[vm])
      BY <1>2, <2>1 DEF PhaseInv
    <3>3. ProcessesMatch(baseline[vm].qemu, after[vm].qemu, mapping[vm])
      BY <1>2, <3>1 DEF SamplesInv
    <3> QED
      BY <1>1, <1>2, <2>1, <3>2, <3>3, StepOnHost
  <2>2. NotSampled' = NotSampled
    BY DEF NotSampled
  <2>3. \A name : buildVMReport(name)' = buildVMReport(name)
    BY <1>1 DEF buildVMReport, buildCgroupEvidence, buildVirshEvidence, buildQEMUEvidence
  <2>4. phase = "reported" => report.vms = [name \in Machine |-> buildVMReport(name)]'
    BY <1>2, <2>3 DEF PhaseInv
  <2> QED
    BY <1>1, <1>2, <2>1, <2>2, <2>4 DEF PhaseInv
<1> QED
  BY <1>3, <1>4, <1>5, <1>6 DEF Inv

-----------------------------------------------------------------------------
(* Samples that were not taken yet, and a sample that is put.              *)
LEMMA NotSampledFacts ==
  ASSUME HostInv, baseline = NotSampled, after = NotSampled
  PROVE  SamplesInv
<1>1. changes \in Nat
  BY DEF HostInv
<1>2. \A m : ProcessesMatch(NoSample.qemu, NoSample.qemu, m)
  BY <1>1, NoSampleFacts DEF ProcessesMatch
<1>3. CgroupsMatch(NoSample.cgroup, NoSample.cgroup)
  BY NoSampleFacts DEF CgroupsMatch
<1> QED
  BY <1>2, <1>3, NoSampleFacts DEF SamplesInv, NotSampled

First(v) == IF phase = "baseline" THEN v ELSE baseline[vm]
Second(v) == IF phase = "baseline" THEN after[vm] ELSE v
Sampler == phase \in {"baseline", "after"} /\ turn \in DOMAIN VMs

\* A sample that matches the other one of its VM keeps the invariant.
LEMMA PutKeeps ==
  ASSUME Inv, Sampler, MappingInv', NEW v, Put(v), SampleShape(v),
         CgroupsMatch(First(v).cgroup, Second(v).cgroup), ProcessesMatch(First(v).qemu, Second(v).qemu, mapped),
         \/ step' = "stopped"
         \/ turn' = turn /\ StepKnown(step', First(v), Second(v), mapped)
  PROVE  Inv'
<1>1. UNCHANGED <<pidOf, host, mapping, stopped, phase, report>>
  BY DEF Put
<1>2. HostInv /\ MappingInv /\ TreeInv /\ SamplesInv /\ PhaseInv /\ vm \in Machine
  BY CurrentVM DEF Inv, MappingInv, Sampler
<1>3. /\ phase = "baseline" => baseline' = [baseline EXCEPT ![vm] = v] /\ after' = after
      /\ phase # "baseline" => after' = [after EXCEPT ![vm] = v] /\ baseline' = baseline
  BY DEF Put
<1>4. /\ DOMAIN baseline' = Machine /\ DOMAIN after' = Machine
      /\ baseline'[vm] = First(v) /\ after'[vm] = Second(v)
      /\ \A name \in Machine : name # vm => baseline'[name] = baseline[name] /\ after'[name] = after[name]
  BY <1>2, <1>3 DEF SamplesInv, First, Second
<1>5. \A name \in Machine : SampleShape(baseline'[name]) /\ SampleShape(after'[name])
  BY <1>2, <1>4 DEF SamplesInv, First, Second
<1>6. \A name \in Machine : CgroupsMatch(baseline'[name].cgroup, after'[name].cgroup)
  BY <1>2, <1>4 DEF SamplesInv
<1>7. \A name \in Machine : ProcessesMatch(baseline'[name].qemu, after'[name].qemu, mapping[name])
  BY <1>2, <1>4 DEF SamplesInv, mapped
<1>8. process' = process /\ tree' = tree /\ lives' = lives /\ changes' = changes /\ mapping' = mapping /\ phase' = phase
  BY <1>1 DEF host
<1>9. \A name \in Machine : CgroupsMatch(baseline[name].cgroup, after[name].cgroup)'
  BY <1>6, <1>8 DEF CgroupsMatch, Identified, inode
<1>10. \A name \in Machine : ProcessesMatch(baseline[name].qemu, after[name].qemu, mapping[name])'
  BY <1>7, <1>8 DEF ProcessesMatch, NoOlder, Confirmed, Mappable, Verified
<1>11. SamplesInv'
  BY <1>4, <1>5, <1>9, <1>10 DEF SamplesInv, SampleShape, CgroupShape, ProcessShape
<1>12. TreeInv'
  BY <1>2, <1>8 DEF TreeInv
<1>13. ASSUME turn' = turn, StepKnown(step', First(v), Second(v), mapped)
       PROVE  StepKnown(step, baseline[vm], after[vm], mapping[vm])'
  <2>1. vm' = vm
    BY <1>13 DEF vm
  <2>2. StepKnown(step', baseline'[vm], after'[vm], mapping[vm])
    BY <1>4, <1>13 DEF mapped
  <2> QED
    BY <1>8, <2>1, <2>2 DEF StepKnown, NoOlder, Confirmed, StillThere, Mappable, Verified
<1>14. ASSUME step' = "stopped" PROVE StepKnown(step, baseline[vm], after[vm], mapping[vm])'
  BY <1>14 DEF StepKnown, Validating
<1>15. phase = "baseline" => after' = NotSampled
  BY <1>2 DEF Put, PhaseInv
<1>16. NotSampled' = NotSampled
  BY DEF NotSampled
<1>17. PhaseInv'
  BY <1>8, <1>13, <1>14, <1>15, <1>16 DEF PhaseInv, Sampler
<1> QED
  BY <1>11, <1>12, <1>17 DEF Inv

LEMMA InvOnMapping == Inv /\ Mapping => Inv'
<1> SUFFICES ASSUME Inv, Mapping PROVE Inv'
  OBVIOUS
<1>1. MappingInv' /\ HostInv'
  BY MappingIsInductive DEF Inv, Next, MappingInv
<1>2. UNCHANGED <<host, phase, baseline, after>> /\ phase = "map"
  BY DEF Mapping
<1>3. baseline = NotSampled /\ after = NotSampled
  BY <1>2 DEF Inv, PhaseInv
<1>4. baseline' = NotSampled' /\ after' = NotSampled'
  BY <1>2, <1>3 DEF NotSampled
<1>5. SamplesInv'
  <2>1. NotSampled' = NotSampled
    BY DEF NotSampled
  <2>2. changes' \in Nat
    BY <1>1 DEF HostInv
  <2>3. \A name \in Machine : baseline'[name] = NoSample /\ after'[name] = NoSample
    BY <1>4, <2>1 DEF NotSampled
  <2>4. \A name \in Machine : ProcessesMatch(baseline[name].qemu, after[name].qemu, mapping[name])'
    BY <2>2, <2>3, NoSampleFacts DEF ProcessesMatch
  <2>5. \A name \in Machine : CgroupsMatch(baseline[name].cgroup, after[name].cgroup)'
    BY <2>3, NoSampleFacts DEF CgroupsMatch
  <2>6. \A name \in Machine : SampleShape(baseline[name])' /\ SampleShape(after[name])'
    BY <2>3, NoSampleFacts DEF SampleShape, CgroupShape, ProcessShape
  <2> QED
    BY <1>4, <2>1, <2>4, <2>5, <2>6 DEF SamplesInv, NotSampled
<1>6. TreeInv'
  BY <1>2 DEF Inv, TreeInv, host
<1>7. PhaseInv'
  BY <1>2, <1>4 DEF PhaseInv
<1> QED
  BY <1>1, <1>5, <1>6, <1>7 DEF Inv

\* Between the samples.
LEMMA InvBetween == Inv /\ (Indexed \/ Wait \/ Report \/ Ended \/ UNCHANGED vars) => Inv'
<1> SUFFICES ASSUME Inv, Indexed \/ Wait \/ Report \/ Ended \/ UNCHANGED vars PROVE Inv'
  OBVIOUS
<1>1. MappingInv'
  BY MappingIsInductive DEF Inv, Next
<1>2. UNCHANGED <<host, mapping, baseline, after>>
  BY DEF Indexed, Wait, Report, Ended, vars
<1>3. TreeInv'
  BY <1>2 DEF Inv, TreeInv, host
<1>4. SamplesInv'
  <2>1. SamplesInv
    BY DEF Inv
  <2>2. /\ process' = process /\ tree' = tree /\ lives' = lives /\ changes' = changes
        /\ mapping' = mapping /\ baseline' = baseline /\ after' = after
    BY <1>2 DEF host
  <2>3. \A name \in Machine : CgroupsMatch(baseline[name].cgroup, after[name].cgroup)'
    BY <2>1, <2>2 DEF SamplesInv, CgroupsMatch, Identified, inode
  <2>4. \A name \in Machine : ProcessesMatch(baseline[name].qemu, after[name].qemu, mapping[name])'
    BY <2>1, <2>2 DEF SamplesInv, ProcessesMatch, NoOlder, Confirmed, Mappable, Verified
  <2>5. \A name \in Machine : SampleShape(baseline[name])' /\ SampleShape(after[name])'
    BY <2>1, <2>2 DEF SamplesInv, SampleShape, CgroupShape, ProcessShape
  <2> QED
    BY <2>1, <2>2, <2>3, <2>4, <2>5 DEF SamplesInv
<1>5. NotSampled' = NotSampled
  BY DEF NotSampled
<1>6. PhaseInv'
  <2>1. CASE Indexed
    <3>1. baseline' = NotSampled' /\ after' = NotSampled' /\ phase' \in {"baseline", "failed"}
      BY <1>2, <1>5, <2>1 DEF Indexed, BeginPhase, Inv, PhaseInv
    <3>2. phase' = "baseline" => step' = "stopped"
      BY <2>1 DEF Indexed, BeginPhase
    <3>3. step' = "stopped" => StepKnown(step, baseline[vm], after[vm], mapping[vm])'
      BY DEF StepKnown, Validating
    <3> QED
      BY <3>1, <3>2, <3>3 DEF PhaseInv
  <2>2. CASE Wait
    <3>1. phase' = "after" /\ step' = "stopped"
      BY <2>2 DEF Wait, BeginPhase
    <3>2. step' = "stopped" => StepKnown(step, baseline[vm], after[vm], mapping[vm])'
      BY DEF StepKnown, Validating
    <3> QED
      BY <3>1, <3>2 DEF PhaseInv
  <2>3. CASE Report
    <3>1. phase' = "reported" /\ report'.vms = [name \in Machine |-> buildVMReport(name)]
      BY <2>3 DEF Report
    <3>2. \A name : buildVMReport(name)' = buildVMReport(name)
      BY <1>2 DEF buildVMReport, buildCgroupEvidence, buildVirshEvidence, buildQEMUEvidence
    <3> QED
      BY <3>1, <3>2 DEF PhaseInv
  <2>4. CASE Ended \/ UNCHANGED vars
    <3>1. UNCHANGED <<turn, step, phase, report>> /\ vm' = vm
      BY <2>4 DEF Ended, vars, vm
    <3>2. \A name : buildVMReport(name)' = buildVMReport(name)
      BY <1>2 DEF buildVMReport, buildCgroupEvidence, buildVirshEvidence, buildQEMUEvidence
    <3>3. phase \in {"baseline", "after"} /\ turn \in DOMAIN VMs => StepKnown(step, baseline[vm], after[vm], mapping[vm])'
      BY <1>2, <3>1 DEF Inv, PhaseInv, StepKnown, host, NoOlder, Confirmed, StillThere, Mappable, Verified
    <3> QED
      BY <1>2, <1>5, <3>1, <3>2, <3>3 DEF Inv, PhaseInv
  <2> QED
    BY <2>1, <2>2, <2>3, <2>4
<1> QED
  BY <1>1, <1>3, <1>4, <1>6 DEF Inv

-----------------------------------------------------------------------------
(* The reads of a sample.                                                  *)
LEMMA SampleNow ==
  ASSUME Inv, Sampler
  PROVE  /\ vm \in Machine /\ SampleShape(sample)
         /\ SampleShape(baseline[vm]) /\ SampleShape(after[vm])
         /\ First(sample) = baseline[vm] /\ Second(sample) = after[vm]
         /\ CgroupsMatch(baseline[vm].cgroup, after[vm].cgroup)
         /\ ProcessesMatch(baseline[vm].qemu, after[vm].qemu, mapped)
         /\ StepKnown(step, baseline[vm], after[vm], mapped)
         /\ phase = "baseline" => after[vm] = NoSample
<1>1. vm \in Machine
  BY CurrentVM DEF Sampler
<1> QED
  BY <1>1 DEF Inv, SamplesInv, PhaseInv, Sampler, First, Second, sample, mapped, NotSampled

\* What a new value changes of a sample.
LEMMA SameProcessData ==
  ASSUME NEW v, v.qemu = sample.qemu
  PROVE  First(v).qemu = First(sample).qemu /\ Second(v).qemu = Second(sample).qemu
BY DEF First, Second, sample

LEMMA SameCgroupData ==
  ASSUME NEW v, v.cgroup = sample.cgroup
  PROVE  First(v).cgroup = First(sample).cgroup /\ Second(v).cgroup = Second(sample).cgroup
BY DEF First, Second, sample

LEMMA WithCgroup ==
  ASSUME NEW s, SampleShape(s), NEW c, CgroupShape(c)
  PROVE  /\ SampleShape([s EXCEPT !.cgroup = c])
         /\ [s EXCEPT !.cgroup = c].cgroup = c /\ [s EXCEPT !.cgroup = c].qemu = s.qemu
BY DEF SampleShape

LEMMA WithProcess ==
  ASSUME NEW s, SampleShape(s), NEW q, ProcessShape(q)
  PROVE  /\ SampleShape([s EXCEPT !.qemu = q])
         /\ [s EXCEPT !.qemu = q].qemu = q /\ [s EXCEPT !.qemu = q].cgroup = s.cgroup
BY DEF SampleShape

\* Nothing was learned.
LEMMA GoOn ==
  ASSUME Inv, Sampler, MappingInv', Put(sample),
         \/ step' = "stopped"
         \/ turn' = turn /\ StepKnown(step', baseline[vm], after[vm], mapped)
  PROVE  Inv'
<1>1. First(sample) = baseline[vm] /\ Second(sample) = after[vm]
  BY SampleNow
<1> QED
  BY <1>1, SampleNow, PutKeeps

LEMMA EndIsKnown == \A b, a, m : StepKnown("end", b, a, m)
BY DEF StepKnown, Validating

LEMMA OnSampleStopped == Inv /\ MappingInv' /\ SampleStopped => Inv'
<1> SUFFICES ASSUME Inv, MappingInv', SampleStopped PROVE Inv'
  OBVIOUS
<1>1. Sampler /\ Put(NoSample)
  BY DEF SampleStopped, Sampling, At, Sampler
<1>2. CgroupsMatch(First(NoSample).cgroup, Second(NoSample).cgroup)
  BY <1>1, SampleNow, NoSampleFacts DEF CgroupsMatch, First, Second
<1>3. ProcessesMatch(First(NoSample).qemu, Second(NoSample).qemu, mapped)
  BY <1>1, SampleNow, NoSampleFacts DEF ProcessesMatch, First, Second, Inv, MappingInv, HostInv
<1>4. StepKnown("inode", First(NoSample), Second(NoSample), mapped)
  BY NoSampleFacts DEF StepKnown, Validating, First, Second
<1>5. step' = "stopped" \/ (turn' = turn /\ step' = "inode")
  BY DEF SampleStopped, Go, NextVM
<1> QED
  BY <1>1, <1>2, <1>3, <1>4, <1>5, NoSampleFacts, PutKeeps

LEMMA OnReadCgroupInode == Inv /\ MappingInv' /\ ReadCgroupInode => Inv'
<1> SUFFICES ASSUME Inv, MappingInv', ReadCgroupInode PROVE Inv'
  OBVIOUS
<1>1. Sampler /\ step = "inode"
  BY DEF ReadCgroupInode, Sampling, At, Sampler
<1>2. ~sample.qemu.ok
  BY <1>1, SampleNow DEF StepKnown, sample
<1>3. ASSUME NEW path \in Candidates, CgroupExists(path),
             Put([sample EXCEPT !.cgroup = Found(path)]), Go("io.stat")
      PROVE  Inv'
  <2> DEFINE c == Found(path)
             v == [sample EXCEPT !.cgroup = c]
  <2>0. CgroupShape(c) /\ c.path = path /\ c.id = <<path, inode(path)>> /\ c.ok = FALSE
    BY DEF Found, CgroupShape, cgroupInode, inode
  <2>1. /\ SampleShape(v) /\ v.qemu = sample.qemu
        /\ v.cgroup.path = path /\ v.cgroup.id = <<path, inode(path)>> /\ v.cgroup.ok = FALSE
    BY <1>1, <2>0, SampleNow, WithCgroup
  <2>2. Put(v)
    BY <1>3
  <2> HIDE DEF v
  <2>3. path.scope \in Scopes /\ path.place \in Places /\ inode(path) \in Nat
    BY <1>3 DEF CgroupExists, Inv, TreeInv, Machines, inode
  <2>4. path # Outside
    BY <2>3 DEF Places, Outside, Path
  <2>5. ProcessesMatch(First(v).qemu, Second(v).qemu, mapped)
    BY <1>1, <2>1, SameProcessData, SampleNow
  <2>6. v.cgroup.id[2] = inode(path)
    BY <2>1
  <2>7. CgroupsMatch(First(v).cgroup, Second(v).cgroup)
    <3>1. CASE phase = "baseline"
      <4>1. First(v) = v /\ Second(v) = NoSample
        BY <1>1, <3>1, SampleNow DEF First, Second
      <4>2. Identified(v.cgroup)
        BY <2>1, <2>3, <2>6 DEF Identified
      <4> QED
        BY <2>1, <4>1, <4>2, NoSampleFacts DEF CgroupsMatch
    <3>2. CASE phase # "baseline"
      <4>1. First(v) = baseline[vm] /\ Second(v) = v
        BY <3>2 DEF First, Second
      <4>2. path = baseline[vm].cgroup.path
        BY <3>2 DEF Candidates
      <4> QED
        BY <1>1, <2>1, <2>3, <2>4, <2>6, <4>1, <4>2, SampleNow DEF CgroupsMatch
    <3> QED
      BY <3>1, <3>2
  <2>8. StepKnown("io.stat", First(v), Second(v), mapped)
    BY <1>2, <2>1, <2>4 DEF StepKnown, Validating, First, Second
  <2> QED
    BY <1>1, <1>3, <2>1, <2>2, <2>5, <2>7, <2>8, PutKeeps DEF Go
<1>4. ASSUME Put([sample EXCEPT !.cgroup = NoCgroup]), Go("virsh")
      PROVE  Inv'
  <2> DEFINE v == [sample EXCEPT !.cgroup = NoCgroup]
  <2>0. CgroupShape(NoCgroup) /\ NoSample.cgroup = NoCgroup
    BY DEF CgroupShape, NoCgroup, NoSample
  <2>1. SampleShape(v) /\ v.qemu = sample.qemu /\ v.cgroup = NoSample.cgroup
    BY <1>1, <2>0, SampleNow, WithCgroup
  <2>2. Put(v)
    BY <1>4
  <2> HIDE DEF v
  <2>3. ProcessesMatch(First(v).qemu, Second(v).qemu, mapped)
    BY <1>1, <2>1, SameProcessData, SampleNow
  <2>4. CgroupsMatch(First(v).cgroup, Second(v).cgroup)
    BY <1>1, <2>1, SampleNow, NoSampleFacts DEF CgroupsMatch, First, Second
  <2>5. StepKnown("virsh", First(v), Second(v), mapped)
    BY <1>2, <2>1 DEF StepKnown, Validating, First, Second
  <2> QED
    BY <1>1, <1>4, <2>1, <2>2, <2>3, <2>4, <2>5, PutKeeps DEF Go
<1> QED
  BY <1>3, <1>4 DEF ReadCgroupInode

LEMMA OnReadIOStat == Inv /\ MappingInv' /\ ReadIOStat => Inv'
<1> SUFFICES ASSUME Inv, MappingInv', ReadIOStat PROVE Inv'
  OBVIOUS
<1>1. Sampler /\ step = "io.stat"
  BY DEF ReadIOStat, Sampling, At, Sampler
<1>2. ~sample.qemu.ok /\ sample.cgroup.path # Outside
  BY <1>1, SampleNow DEF StepKnown, sample
<1>3. turn' = turn /\ step' = "virsh"
  BY DEF ReadIOStat, Go
<1> DEFINE path == sample.cgroup.path
<1>4. ASSUME NEW data, CgroupExists(path),
             Put([sample EXCEPT !.cgroup = Filled(@, data)])
      PROVE  Inv'
  <2> DEFINE c == Filled(sample.cgroup, data)
             v == [sample EXCEPT !.cgroup = c]
  <2>1. /\ CgroupShape(c) /\ c.path = path /\ c.id = sample.cgroup.id /\ c.from = <<path, inode(path)>>
    BY DEF Filled, CgroupShape, cgroupInode, inode
  <2>2. SampleShape(v) /\ v.qemu = sample.qemu /\ v.cgroup = c
    BY <1>1, <2>1, SampleNow, WithCgroup
  <2>3. Put(v)
    BY <1>4
  <2>4. path.scope \in Scopes /\ inode(path) \in Nat
    BY <1>4 DEF CgroupExists, Inv, TreeInv, Machines, inode
  <2> HIDE DEF v, path
  <2>5. ProcessesMatch(First(v).qemu, Second(v).qemu, mapped)
    BY <1>1, <2>2, SameProcessData, SampleNow
  <2>6. c.from[2] = inode(path)
    BY <2>1
  <2>7. CgroupsMatch(First(v).cgroup, Second(v).cgroup)
    <3>1. CASE phase = "baseline"
      <4>1. First(v) = v /\ Second(v) = NoSample /\ sample = baseline[vm]
        BY <1>1, <3>1, SampleNow DEF First, Second, sample
      <4>2. path # Outside /\ Identified(sample.cgroup)
        BY <1>1, <1>2, <4>1, SampleNow DEF CgroupsMatch, path
      <4>3. Identified(c) /\ c.path # Outside
        BY <2>1, <4>2 DEF Identified, path
      <4>4. c.id[2] <= c.from[2] /\ c.from[2] <= inode(c.path) /\ c.from[2] \in Nat
        BY <2>1, <2>4, <2>6, <4>3 DEF Identified
      <4> QED
        BY <2>1, <2>2, <2>6, <4>1, <4>3, <4>4, NoSampleFacts DEF CgroupsMatch
    <3>2. CASE phase # "baseline"
      <4>1. First(v) = baseline[vm] /\ Second(v) = v /\ sample = after[vm]
        BY <3>2 DEF First, Second, sample
      <4> QED
        BY <1>1, <1>2, <2>1, <2>2, <4>1, SampleNow DEF CgroupsMatch, path
    <3> QED
      BY <3>1, <3>2
  <2>8. StepKnown("virsh", First(v), Second(v), mapped)
    BY <1>2, <2>2 DEF StepKnown, Validating, First, Second
  <2> QED
    BY <1>1, <1>3, <2>2, <2>3, <2>5, <2>7, <2>8, PutKeeps
<1>5. ASSUME Put([sample EXCEPT !.cgroup = NoCgroup])
      PROVE  Inv'
  <2> DEFINE v == [sample EXCEPT !.cgroup = NoCgroup]
  <2>1. CgroupShape(NoCgroup) /\ NoSample.cgroup = NoCgroup
    BY DEF CgroupShape, NoCgroup, NoSample
  <2>2. SampleShape(v) /\ v.qemu = sample.qemu /\ v.cgroup = NoSample.cgroup
    BY <1>1, <2>1, SampleNow, WithCgroup
  <2>3. Put(v)
    BY <1>5
  <2> HIDE DEF v
  <2>4. ProcessesMatch(First(v).qemu, Second(v).qemu, mapped)
    BY <1>1, <2>2, SameProcessData, SampleNow
  <2>5. CgroupsMatch(First(v).cgroup, Second(v).cgroup)
    BY <1>1, <2>2, SampleNow, NoSampleFacts DEF CgroupsMatch, First, Second
  <2>6. StepKnown("virsh", First(v), Second(v), mapped)
    BY <1>2, <2>2 DEF StepKnown, Validating, First, Second
  <2> QED
    BY <1>1, <1>3, <2>2, <2>3, <2>4, <2>5, <2>6, PutKeeps
<1> QED
  BY <1>4, <1>5 DEF ReadIOStat

LEMMA OnReadBlockStats == Inv /\ MappingInv' /\ ReadBlockStats => Inv'
<1> SUFFICES ASSUME Inv, MappingInv', ReadBlockStats PROVE Inv'
  OBVIOUS
<1>1. Sampler /\ step = "virsh"
  BY DEF ReadBlockStats, Sampling, At, Sampler
<1>2. ~sample.qemu.ok
  BY <1>1, SampleNow DEF StepKnown, sample
<1>3. turn' = turn /\ (step' = "end" \/ (step' = "validate name" /\ Mappable(mapped)))
  BY DEF ReadBlockStats, Go
<1>4. PICK answer : Put([sample EXCEPT !.virsh = answer])
  BY DEF ReadBlockStats
<1> DEFINE v == [sample EXCEPT !.virsh = answer]
<1>5. SampleShape(v) /\ v.qemu = sample.qemu /\ v.cgroup = sample.cgroup
  BY <1>1, SampleNow DEF SampleShape
<1>6. Put(v)
  BY <1>4
<1> HIDE DEF v
<1>7. ProcessesMatch(First(v).qemu, Second(v).qemu, mapped) /\ CgroupsMatch(First(v).cgroup, Second(v).cgroup)
  BY <1>1, <1>5, SameProcessData, SameCgroupData, SampleNow
<1>8. Mappable(mapped) => StepKnown("validate name", First(v), Second(v), mapped)
  BY <1>2, <1>5 DEF StepKnown, Validating, First, Second
<1> QED
  BY <1>1, <1>3, <1>5, <1>6, <1>7, <1>8, EndIsKnown, PutKeeps

LEMMA OnValidateName == Inv /\ MappingInv' /\ ValidateName => Inv'
<1> SUFFICES ASSUME Inv, MappingInv', ValidateName PROVE Inv'
  OBVIOUS
<1>1. Sampler /\ step = "validate name" /\ Put(sample)
  BY DEF ValidateName, Sampling, At, Sampler
<1>2. StepKnown("validate name", baseline[vm], after[vm], mapped)
  BY <1>1, SampleNow
<1>3. CASE process1.qemu /\ Go("validate cgroup")
  <2>1. StepKnown("validate cgroup", baseline[vm], after[vm], mapped)
    BY <1>2, <1>3 DEF StepKnown, Validating, process1
  <2> QED
    BY <1>1, <1>3, <2>1, GoOn DEF Go
<1>4. CASE Invalid
  BY <1>1, <1>4, EndIsKnown, GoOn DEF Go, Invalid
<1> QED
  BY <1>3, <1>4 DEF ValidateName

LEMMA OnValidateCgroup == Inv /\ MappingInv' /\ ValidateCgroup => Inv'
<1> SUFFICES ASSUME Inv, MappingInv', ValidateCgroup PROVE Inv'
  OBVIOUS
<1>1. Sampler /\ step = "validate cgroup" /\ Put(sample)
  BY DEF ValidateCgroup, Sampling, At, Sampler
<1>2. StepKnown("validate cgroup", baseline[vm], after[vm], mapped)
  BY <1>1, SampleNow
<1>3. CASE StillMapped(mapped, process1.path) /\ Go("validate start")
  <2>1. StepKnown("validate start", baseline[vm], after[vm], mapped)
    BY <1>2, <1>3 DEF StepKnown, Validating, process1, StillMapped
  <2> QED
    BY <1>1, <1>3, <2>1, GoOn DEF Go
<1>4. CASE Invalid
  BY <1>1, <1>4, EndIsKnown, GoOn DEF Go, Invalid
<1> QED
  BY <1>3, <1>4 DEF ValidateCgroup

LEMMA OnValidateStart == Inv /\ MappingInv' /\ ValidateStart => Inv'
<1> SUFFICES ASSUME Inv, MappingInv', ValidateStart PROVE Inv'
  OBVIOUS
<1>1. Sampler /\ step = "validate start"
  BY DEF ValidateStart, Sampling, At, Sampler
<1>2. /\ vm \in Machine /\ HostInv
      /\ StepKnown("validate start", baseline[vm], after[vm], mapped)
      /\ ProcessesMatch(baseline[vm].qemu, after[vm].qemu, mapped)
  BY <1>1, SampleNow DEF Inv, MappingInv
<1>3. Mappable(mapped) /\ mapped.pid \in Pids
  BY <1>2, MappablePid DEF StepKnown, Validating, Inv, mapped
<1>4. /\ process1 = [start |-> process1.start, qemu |-> process1.qemu, path |-> process1.path]
      /\ process1.start \in Nat /\ process1.qemu \in BOOLEAN /\ process1.start <= changes + 1 /\ changes \in Nat
      /\ process1.start # 0 => <<mapped.pid, process1>> \in lives
  BY <1>2, <1>3, CurrentProcess DEF process1, HostInv
<1> DEFINE identity == [start |-> process1.start, qemu |-> TRUE, path |-> seen.path]
<1>5. CASE Put(sample) /\ Go("end")
  BY <1>1, <1>5, EndIsKnown, GoOn DEF Go
<1>6. ASSUME process1.start # 0, Put([sample EXCEPT !.qemu = Validated(identity)]),
             Go(IF OneProcess(identity) THEN "io" ELSE "end")
      PROVE  Inv'
  <2> DEFINE q == Validated(identity)
             v == [sample EXCEPT !.qemu = q]
  <2>1. ProcessShape(q) /\ q.ok = FALSE /\ q.identity = identity
    BY DEF ProcessShape, Validated
  <2> HIDE DEF q
  <2>2. SampleShape(v) /\ v.qemu = q /\ v.cgroup = sample.cgroup
    BY <1>1, <2>1, SampleNow, WithProcess
  <2>3. Put(v)
    BY <1>6 DEF q
  <2>4. identity.start = process1.start
    OBVIOUS
  <2> HIDE DEF v
  <2>5. CgroupsMatch(First(v).cgroup, Second(v).cgroup)
    BY <1>1, <2>2, SameCgroupData, SampleNow
  <2>6. ProcessesMatch(First(v).qemu, Second(v).qemu, mapped)
    <3>1. CASE phase = "baseline"
      <4>1. First(v) = v /\ Second(v) = NoSample
        BY <1>1, <3>1, SampleNow DEF First, Second
      <4>2. v.qemu.identity.start \in 0..(changes + 1)
        BY <1>4, <2>1, <2>2
      <4> QED
        BY <2>1, <2>2, <4>1, <4>2, NoSampleFacts DEF ProcessesMatch
    <3>2. CASE phase # "baseline"
      <4>1. First(v) = baseline[vm] /\ Second(v) = v
        BY <3>2 DEF First, Second
      <4> QED
        BY <1>2, <2>1, <2>2, <4>1 DEF ProcessesMatch
    <3> QED
      BY <3>1, <3>2
  <2>7. ASSUME OneProcess(identity) PROVE StepKnown("io", First(v), Second(v), mapped)
    <3>1. CASE phase = "baseline"
      <4>1. First(v) = v
        BY <3>1 DEF First
      <4>2. v.qemu.identity.start \in 1..(changes + 1) /\ NoOlder(v.qemu.identity.start, mapped)
        BY <1>4, <1>6, <2>1, <2>2 DEF NoOlder, process1
      <4> QED
        BY <1>3, <2>1, <2>2, <3>1, <4>1, <4>2 DEF StepKnown, Validating
    <3>2. CASE phase = "after"
      <4>1. First(v) = baseline[vm] /\ Second(v) = v
        BY <3>2 DEF First, Second
      <4>2. baseline[vm].qemu.identity = identity
        BY <2>7, <3>2 DEF OneProcess, SameQEMUProcessIdentity
      <4>3. StillThere(baseline[vm].qemu, mapped)
        BY <1>6, <2>4, <4>2 DEF StillThere, process1
      <4>4. process1.qemu /\ process1.path = mapped.primary
        BY <1>2, <3>2, <4>3 DEF StepKnown, process1
      <4>5. process1 = [start |-> process1.start, qemu |-> TRUE, path |-> mapped.primary]
        BY <1>4, <4>4
      <4>6. <<mapped.pid, [start |-> process1.start, qemu |-> TRUE, path |-> mapped.primary]>> \in lives
        BY <1>4, <1>6, <4>5
      <4>7. baseline[vm].qemu.ok => baseline[vm].qemu.from = process1.start
        <5> SUFFICES ASSUME baseline[vm].qemu.ok PROVE baseline[vm].qemu.from = process1.start
          OBVIOUS
        <5> DEFINE from == baseline[vm].qemu.from
        <5>1. from \in 1..(changes + 1) /\ process1.start <= from /\ NoOlder(from, mapped)
          BY <1>2, <2>4, <4>2 DEF ProcessesMatch
        <5>2. from <= process1.start
          BY <1>6, <5>1 DEF NoOlder, process1
        <5> HIDE DEF from
        <5>3. from = process1.start
          BY <1>4, <5>1, <5>2
        <5> QED
          BY <5>3 DEF from
      <4>8. Confirmed(baseline[vm].qemu, q, mapped)
        BY <2>1, <4>6, <4>7 DEF Confirmed
      <4> QED
        BY <1>3, <2>1, <2>2, <3>2, <4>1, <4>8 DEF StepKnown, Validating
    <3> QED
      BY <1>1, <3>1, <3>2 DEF Sampler
  <2>8. turn' = turn /\ (step' = "end" \/ (step' = "io" /\ OneProcess(identity)))
    BY <1>6 DEF Go
  <2> QED
    BY <1>1, <2>2, <2>3, <2>5, <2>6, <2>7, <2>8, EndIsKnown, PutKeeps
<1> QED
  BY <1>5, <1>6 DEF ValidateStart

LEMMA OnReadProcessIO == Inv /\ MappingInv' /\ ReadProcessIO => Inv'
<1> SUFFICES ASSUME Inv, MappingInv', ReadProcessIO PROVE Inv'
  OBVIOUS
<1>1. Sampler /\ step = "io" /\ turn' = turn /\ step' = "end"
  BY DEF ReadProcessIO, Sampling, At, Sampler, Go
<1>2. /\ vm \in Machine /\ HostInv
      /\ StepKnown("io", baseline[vm], after[vm], mapped)
      /\ ProcessesMatch(baseline[vm].qemu, after[vm].qemu, mapped)
  BY <1>1, SampleNow DEF Inv, MappingInv
<1>3. Mappable(mapped) /\ mapped.pid \in Pids
  BY <1>2, MappablePid DEF StepKnown, Validating, Inv, mapped
<1>4. process1.start \in Nat /\ process1.start <= changes + 1 /\ changes \in Nat
  BY <1>2, <1>3, CurrentProcess DEF process1, HostInv
<1>5. CASE Put(sample)
  BY <1>1, <1>5, EndIsKnown, GoOn
<1>6. ASSUME NEW value, process1.start # 0,
             Put([sample EXCEPT !.qemu = [ok |-> TRUE, identity |-> @.identity, value |-> value, from |-> process1.start]])
      PROVE  Inv'
  <2> DEFINE q == [ok |-> TRUE, identity |-> sample.qemu.identity, value |-> value, from |-> process1.start]
             v == [sample EXCEPT !.qemu = q]
  <2>1. ProcessShape(q) /\ q.identity = sample.qemu.identity /\ q.from = process1.start
    BY DEF ProcessShape
  <2>2. SampleShape(v) /\ v.qemu = q /\ v.cgroup = sample.cgroup
    BY <1>1, <2>1, SampleNow, WithProcess
  <2>3. Put(v)
    BY <1>6
  <2> HIDE DEF q, v
  <2>4. CgroupsMatch(First(v).cgroup, Second(v).cgroup)
    BY <1>1, <2>2, SameCgroupData, SampleNow
  <2>5. ProcessesMatch(First(v).qemu, Second(v).qemu, mapped)
    <3>1. CASE phase = "baseline"
      <4>1. First(v) = v /\ Second(v) = NoSample /\ sample = baseline[vm]
        BY <1>1, <3>1, SampleNow DEF First, Second, sample
      <4>2. q.identity.start \in 1..(changes + 1) /\ NoOlder(q.identity.start, mapped)
        BY <1>2, <2>1, <3>1, <4>1 DEF StepKnown
      <4>3. q.identity.start <= q.from /\ q.from \in 1..(changes + 1) /\ NoOlder(q.from, mapped)
        BY <1>4, <1>6, <2>1, <4>2 DEF NoOlder, process1
      <4>4. q.identity.start \in 0..(changes + 1)
        BY <4>2
      <4> QED
        BY <1>3, <2>2, <4>1, <4>3, <4>4, NoSampleFacts DEF ProcessesMatch
    <3>2. CASE phase = "after"
      <4>1. First(v) = baseline[vm] /\ Second(v) = v /\ sample = after[vm]
        BY <3>2 DEF First, Second, sample
      <4>2. Confirmed(baseline[vm].qemu, sample.qemu, mapped)
        BY <1>2, <3>2, <4>1 DEF StepKnown
      <4>3. Confirmed(baseline[vm].qemu, q, mapped)
        BY <2>1, <4>2 DEF Confirmed
      <4> QED
        BY <1>2, <2>2, <4>1, <4>3 DEF ProcessesMatch
    <3> QED
      BY <1>1, <3>1, <3>2 DEF Sampler
  <2> QED
    BY <1>1, <2>2, <2>3, <2>4, <2>5, EndIsKnown, PutKeeps
<1> QED
  BY <1>5, <1>6 DEF ReadProcessIO

LEMMA OnSampled == Inv /\ MappingInv' /\ Sampled => Inv'
<1> SUFFICES ASSUME Inv, MappingInv', Sampled PROVE Inv'
  OBVIOUS
<1>1. Sampler /\ Put(sample) /\ step' = "stopped"
  BY DEF Sampled, Sampling, At, Sampler, NextVM
<1> QED
  BY <1>1, GoOn

-----------------------------------------------------------------------------
LEMMA InvInitially == Init => Inv
<1> SUFFICES ASSUME Init PROVE Inv
  OBVIOUS
<1>1. MappingInv /\ HostInv
  BY MappingInitially DEF MappingInv
<1>2. baseline = NotSampled /\ after = NotSampled /\ phase = "map"
  BY DEF Init, NotSampled
<1>3. SamplesInv
  BY <1>1, <1>2, NotSampledFacts
<1>4. TreeInv
  <2>1. PICK scope \in [Pids -> Scopes] :
          tree = [s \in Scopes |-> [inode |-> 1, places |-> IF \E pid \in Pids : scope[pid] = s THEN Places ELSE {}]]
    BY DEF Init
  <2>2. \A s \in Scopes : tree[s] \in Machines
    BY <2>1 DEF Machines
  <2> QED
    BY <2>1, <2>2 DEF TreeInv
<1>5. PhaseInv
  BY <1>2 DEF PhaseInv
<1> QED
  BY <1>1, <1>3, <1>4, <1>5 DEF Inv

LEMMA InvIsInductive == Inv /\ [Next]_vars => Inv'
<1> SUFFICES ASSUME Inv, [Next]_vars PROVE Inv'
  OBVIOUS
<1>1. MappingInv'
  BY MappingIsInductive DEF Inv
<1>2. CASE SampleVM
  BY <1>1, <1>2, OnSampleStopped, OnReadCgroupInode, OnReadIOStat, OnReadBlockStats, OnValidateName, OnValidateCgroup,
     OnValidateStart, OnReadProcessIO, OnSampled DEF SampleVM
<1> QED
  BY <1>2, InvOnHost, InvOnMapping, InvBetween DEF Next

\* What the report makes available was measured twice.
LEMMA SectionsOfReport ==
  ASSUME NEW name
  PROVE  /\ buildVMReport(name).sections["cgroup_io_stat"] = buildCgroupEvidence(baseline[name].cgroup, after[name].cgroup)
         /\ buildVMReport(name).sections["qemu_pressure"] = buildQEMUEvidence(baseline[name].qemu, after[name].qemu)
BY DEF buildVMReport, Sections

LEMMA InvImpliesEvidence == Inv => EvidenceIsOfOneSource
<1> SUFFICES ASSUME Inv, phase = "reported", NEW name \in Machine
             PROVE  /\ report.vms[name].sections["cgroup_io_stat"].available => baseline[name].cgroup.from = after[name].cgroup.id
                    /\ report.vms[name].sections["qemu_pressure"].available =>
                         /\ baseline[name].qemu.from = after[name].qemu.identity.start
                         /\ <<mapping[name].pid, [start |-> after[name].qemu.identity.start, qemu |-> TRUE, path |-> mapping[name].primary]>> \in lives
  BY DEF EvidenceIsOfOneSource
<1> DEFINE b == baseline[name]
           a == after[name]
           m == mapping[name]
<1>1. /\ CgroupsMatch(b.cgroup, a.cgroup) /\ ProcessesMatch(b.qemu, a.qemu, m)
      /\ SampleShape(b) /\ SampleShape(a)
  BY DEF Inv, SamplesInv
<1>2. report.vms[name] = buildVMReport(name)
  BY DEF Inv, PhaseInv
<1>3. /\ report.vms[name].sections["cgroup_io_stat"] = buildCgroupEvidence(b.cgroup, a.cgroup)
      /\ report.vms[name].sections["qemu_pressure"] = buildQEMUEvidence(b.qemu, a.qemu)
  BY <1>2, SectionsOfReport
<1> HIDE DEF b, a, m
<1>4. ASSUME buildCgroupEvidence(b.cgroup, a.cgroup).available
      PROVE  b.cgroup.from = a.cgroup.id
  <2>1. b.cgroup.ok /\ a.cgroup.ok /\ b.cgroup.id = a.cgroup.id
    BY <1>4 DEF buildCgroupEvidence, Unmeasured, SameSource
  <2> DEFINE i == b.cgroup.id[2]
             j == b.cgroup.from[2]
             k == a.cgroup.id[2]
  <2>2. /\ b.cgroup.from = <<b.cgroup.path, j>> /\ a.cgroup.id = <<b.cgroup.path, k>>
        /\ i \in Nat /\ j \in Nat /\ k \in Nat /\ i <= j /\ j <= k
    BY <1>1, <2>1 DEF CgroupsMatch, Identified
  <2>3. i = k
    BY <2>1
  <2> HIDE DEF i, j, k
  <2>4. j = k
    BY <2>2, <2>3
  <2> QED
    BY <2>2, <2>4
<1>5. ASSUME buildQEMUEvidence(b.qemu, a.qemu).available
      PROVE  /\ b.qemu.from = a.qemu.identity.start
             /\ <<m.pid, [start |-> a.qemu.identity.start, qemu |-> TRUE, path |-> m.primary]>> \in lives
  <2>1. b.qemu.ok /\ a.qemu.ok
    <3>1. ~Unmeasured("unavailable").available
      BY DEF Unmeasured
    <3>2. ~b.qemu.ok \/ ~a.qemu.ok => buildQEMUEvidence(b.qemu, a.qemu) = Unmeasured("unavailable")
      BY DEF buildQEMUEvidence
    <3> QED
      BY <1>5, <3>1, <3>2
  <2>2. Confirmed(b.qemu, a.qemu, m)
    BY <1>1, <2>1 DEF ProcessesMatch
  <2> QED
    BY <2>1, <2>2 DEF Confirmed
<1> QED
  BY <1>3, <1>4, <1>5 DEF b, a, m

\* A difference that is reported is of one cgroup and one QEMU process,
\* whatever happened between the reads of the mapper and of both samples.
THEOREM EvidenceHolds == Spec => []EvidenceIsOfOneSource
BY InvInitially, InvIsInductive, InvImpliesEvidence, PTL DEF Spec
=============================================================================
