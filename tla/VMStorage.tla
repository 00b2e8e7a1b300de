------------------------------- MODULE VMStorage -------------------------------
(***************************************************************************)
(* vm storage-stats: the VMs are mapped to their cgroups (CgroupMapping),  *)
(* three sources are sampled for each before and after a window, and the   *)
(* differences are reported.  The sources are found again at the second    *)
(* sample: the cgroup by its path, libvirt by the name of the VM, the      *)
(* process by its PID; each may be another one by then.                    *)
(***************************************************************************)
EXTENDS CgroupMapping

CONSTANTS Values,      \* what a counter of a process may have reached
          CgroupRows,  \* what io.stat may say of a device: rows, see below
          VirshRows,   \* what libvirt may say of a virtual disk
          ShutOff      \* the sets of VMs that may be shut off

ASSUME ValuesAssumption == Values \subseteq Nat

VARIABLES stopped,     \* the VMs that the inventory knows to be shut off
          phase,       \* "map", "baseline", "after", "reported" or "failed"
          baseline,    \* of every VM: what the first sample returned
          after,       \* and the second
          report       \* the report

Absent == [row |-> "absent", value |-> 0]
Malformed == [row |-> "malformed", value |-> 0]
Counter(value) == [row |-> "present", value |-> value]

NoCgroup == [ok |-> FALSE, path |-> Outside, id |-> <<>>, data |-> Absent, from |-> <<>>]
NoProcessData == [ok |-> FALSE, identity |-> NoProcess, value |-> 0, from |-> 0]
NoSample == [cgroup |-> NoCgroup, virsh |-> [ok |-> FALSE, data |-> Absent], qemu |-> NoProcessData]
NoReport == [vms |-> [name \in {} |-> {}], unavailable |-> {}]

vars == <<pidOf, host, turn, step, seen, mapping, stopped, phase, baseline, after, report>>
mapper == <<turn, step, seen>>

Init ==
  /\ \E scope \in [Pids -> Scopes] :
       /\ process = [pid \in Pids |-> [start |-> 1, qemu |-> TRUE, path |-> Path(scope[pid], "emulator")]]
       /\ tree = [s \in Scopes |-> [inode |-> 1, places |-> IF \E pid \in Pids : scope[pid] = s THEN Places ELSE {}]]
  /\ lives = {<<pid, process[pid]>> : pid \in Pids}
  /\ changes = 0
  /\ pidOf \in [Machine -> Pids \cup {0}]
  /\ stopped \in ShutOff
  /\ turn = 1 /\ step = "pid" /\ seen = NotSeen
  /\ mapping = [name \in Machine |-> Unmapped]
  /\ phase = "map"
  /\ baseline = [name \in Machine |-> NoSample] /\ after = [name \in Machine |-> NoSample]
  /\ report = NoReport

-----------------------------------------------------------------------------
BeginPhase(next) == phase' = next /\ turn' = 1 /\ step' = "stopped" /\ seen' = NotSeen

\* Mappings that contradict each other end the command.
Indexed ==
  /\ phase = "map" /\ turn > Len(VMs)
  /\ IF Unambiguous THEN BeginPhase("baseline") ELSE phase' = "failed" /\ UNCHANGED mapper
  /\ UNCHANGED <<pidOf, host, mapping, stopped, baseline, after, report>>

\* The window: timerWindowWaiter sleeps for the whole duration.
Wait ==
  /\ phase = "baseline" /\ turn > Len(VMs)
  /\ BeginPhase("after")
  /\ UNCHANGED <<pidOf, host, mapping, stopped, baseline, after, report>>

-----------------------------------------------------------------------------
(* A sample of one VM, read by read.                                       *)
sample == IF phase = "baseline" THEN baseline[vm] ELSE after[vm]
Sampling(name) == phase \in {"baseline", "after"} /\ At(name)

Put(value) ==
  /\ IF phase = "baseline" THEN baseline' = [baseline EXCEPT ![vm] = value] /\ UNCHANGED after
     ELSE after' = [after EXCEPT ![vm] = value] /\ UNCHANGED baseline
  /\ UNCHANGED <<pidOf, host, mapping, stopped, phase, report>>

Go(next) == step' = next /\ UNCHANGED turn
NextVM == turn' = turn + 1 /\ step' = "stopped"
mapped == mapping[vm]

\* isKnownStopped: a VM that is shut off is not sampled.
SampleStopped ==
  /\ Sampling("stopped")
  /\ IF vm \in stopped THEN NextVM ELSE Go("inode")
  /\ seen' = NotSeen /\ Put(NoSample)

\* preferredCgroupCandidates: the whole machine, else its domain, else the emulator.
preferredCgroupCandidates == SelectSeq(<<"machine_scope", "domain_scope", "emulator">>, LAMBDA place :
                               \E path \in mapped.paths : path.place = place)

\* readPreferredIOStat takes the first cgroup whose directory is there and
\* whose io.stat can be read; the second sample takes the path of the first.
Candidates ==
  IF phase = "baseline"
  THEN {Path(mapped.primary.scope, preferredCgroupCandidates[i]) : i \in DOMAIN preferredCgroupCandidates}
  ELSE {baseline[vm].cgroup.path} \ {Outside}

Found(path) == [ok |-> FALSE, path |-> path, id |-> cgroupInode(path), data |-> Absent, from |-> <<>>]
Filled(c, data) == [ok |-> TRUE, path |-> c.path, id |-> c.id, data |-> data, from |-> cgroupInode(c.path)]

ReadCgroupInode ==
  /\ Sampling("inode")
  /\ \/ \E path \in Candidates :
          /\ CgroupExists(path)
          /\ Put([sample EXCEPT !.cgroup = Found(path)])
          /\ Go("io.stat")
     \/ Put([sample EXCEPT !.cgroup = NoCgroup]) /\ Go("virsh")
  /\ UNCHANGED seen

\* Counters of a cgroup only grow, and a device may come and go.
Grown(data, first) ==
  first.from = cgroupInode(first.path) /\ data.row = "present" /\ first.data.row = "present" => data.value >= first.data.value

ReadIOStat ==
  /\ Sampling("io.stat")
  /\ LET path == sample.cgroup.path IN
       \/ /\ CgroupExists(path)
          /\ \E data \in CgroupRows :
               /\ phase = "after" => Grown(data, baseline[vm].cgroup)
               /\ Put([sample EXCEPT !.cgroup = Filled(@, data)])
       \/ Put([sample EXCEPT !.cgroup = NoCgroup])
  /\ Go("virsh") /\ UNCHANGED seen

\* libvirt counts from zero again when the VM is started again.
ReadBlockStats ==
  /\ Sampling("virsh")
  /\ \/ \E data \in VirshRows : Put([sample EXCEPT !.virsh = [ok |-> TRUE, data |-> data]])
     \/ Put([sample EXCEPT !.virsh = [ok |-> FALSE, data |-> Absent]])
  /\ Go(IF Mappable(mapped) THEN "validate name" ELSE "end") /\ UNCHANGED seen

\* validateMappedQEMUProcess: the name, the cgroup and the start of the process.
process1 == process[mapped.pid]
Invalid == seen' = NotSeen /\ Go("end")

ValidateName ==
  /\ Sampling("validate name")
  /\ \/ process1.qemu /\ Go("validate cgroup") /\ UNCHANGED seen
     \/ Invalid
  /\ Put(sample)

ValidateCgroup ==
  /\ Sampling("validate cgroup")
  /\ \/ /\ process1.start # 0 /\ StillMapped(mapped, process1.path)
        /\ Go("validate start") /\ seen' = [seen EXCEPT !.path = process1.path]
     \/ Invalid
  /\ Put(sample)

Validated(identity) == [ok |-> FALSE, identity |-> identity, value |-> 0, from |-> 0]

AnyProcess(identity) == TRUE

\* The second sample compares the identity with that of the first.
OneProcess(identity) == phase = "after" => SameQEMUProcessIdentity(baseline[vm].qemu.identity, identity)

ValidateStart ==
  /\ Sampling("validate start")
  /\ LET identity == [start |-> process1.start, qemu |-> TRUE, path |-> seen.path] IN
       \/ /\ process1.start # 0
          /\ Put([sample EXCEPT !.qemu = Validated(identity)])
          /\ Go(IF OneProcess(identity) THEN "io" ELSE "end")
       \/ Put(sample) /\ Go("end")
  /\ UNCHANGED seen

\* The I/O counters of whatever process has the PID now.
ReadProcessIO ==
  /\ Sampling("io")
  /\ \/ \E value \in Values :
          /\ process1.start # 0
          /\ phase = "after" /\ process1.start = baseline[vm].qemu.from => value >= baseline[vm].qemu.value
          /\ Put([sample EXCEPT !.qemu = [ok |-> TRUE, identity |-> @.identity, value |-> value, from |-> process1.start]])
     \/ Put(sample)
  /\ Go("end") /\ UNCHANGED seen

Sampled == Sampling("end") /\ NextVM /\ UNCHANGED seen /\ Put(sample)

SampleVM ==
  \/ SampleStopped \/ ReadCgroupInode \/ ReadIOStat \/ ReadBlockStats
  \/ ValidateName \/ ValidateCgroup \/ ValidateStart \/ ReadProcessIO \/ Sampled

-----------------------------------------------------------------------------
(* The report.                                                             *)
\* DeltaCgroupIOStat and DeltaVirshBlockStats: the status of one row.
Status(before, now) ==
  CASE before.row # "present" /\ now.row = "present" -> "baseline_missing"
    [] before.row = "present" /\ now.row # "present" -> "missing_after"
    [] before.row = "present" /\ now.row = "present" /\ now.value < before.value -> "counter_reset"
    [] OTHER -> "ok"

Delta(before, now) ==
  IF before.row = "present" /\ now.row = "present" /\ now.value >= before.value THEN now.value - before.value ELSE 0

Unmeasured(quality) == [available |-> FALSE, quality |-> quality, delta |-> 0]
Measured(quality, delta) == [available |-> TRUE, quality |-> quality, delta |-> delta]
Parsed(before, now) == before.row # "malformed" /\ now.row # "malformed"

\* The inode is taken to be known.
SourceKept(before, now) == TRUE
SameSource(before, now) == before.id = now.id

buildCgroupEvidence(before, now) ==
  CASE ~before.ok \/ ~now.ok -> Unmeasured("unavailable")
    [] before.ok /\ now.ok /\ ~SameSource(before, now) -> Unmeasured("source_replaced")
    [] before.ok /\ now.ok /\ SameSource(before, now) /\ ~Parsed(before.data, now.data) -> Unmeasured("unavailable")
    [] OTHER -> Measured(IF before.path.place = "emulator" \/ Status(before.data, now.data) # "ok" THEN "partial" ELSE "measured",
                         Delta(before.data, now.data))

buildVirshEvidence(before, now) ==
  IF before.ok /\ now.ok /\ Parsed(before.data, now.data)
  THEN Measured(IF Status(before.data, now.data) = "ok" THEN "measured" ELSE "partial", Delta(before.data, now.data))
  ELSE Unmeasured("unavailable")

buildQEMUEvidence(before, now) ==
  CASE ~before.ok \/ ~now.ok -> Unmeasured("unavailable")
    [] before.ok /\ now.ok /\ now.value < before.value -> Unmeasured("counter_reset")
    [] OTHER -> Measured("measured", now.value - before.value)

Sections == {"cgroup_io_stat", "virsh_domstats", "qemu_pressure"}

buildVMReport(name) ==
  LET section == [s \in Sections |->
                    CASE s = "cgroup_io_stat" -> buildCgroupEvidence(baseline[name].cgroup, after[name].cgroup)
                      [] s = "virsh_domstats" -> buildVirshEvidence(baseline[name].virsh, after[name].virsh)
                      [] s = "qemu_pressure" -> buildQEMUEvidence(baseline[name].qemu, after[name].qemu)]
  IN [sections |-> section,
      quality |-> CASE \A s \in Sections : ~section[s].available -> "unavailable"
                    [] \A s \in Sections : section[s].available /\ section[s].quality = "measured" -> "measured"
                    [] OTHER -> "partial"]

unavailableSections(name, r) ==
  {[vm |-> name, section |-> s, status |-> r.sections[s].quality] : s \in {x \in Sections : ~r.sections[x].available}}
    \cup (IF mapping[name].quality = "cgroup_v2_inode_tree" THEN {}
          ELSE {[vm |-> name, section |-> "cgroup_mapping",
                 status |-> IF mapping[name].quality = "cgroup_v2_inode_partial" THEN "partial" ELSE "unavailable"]})

Report ==
  /\ phase = "after" /\ turn > Len(VMs)
  /\ phase' = "reported"
  /\ report' = [vms |-> [name \in Machine |-> buildVMReport(name)],
                unavailable |-> UNION {unavailableSections(name, buildVMReport(name)) : name \in Machine}]
  /\ UNCHANGED <<pidOf, host, mapper, mapping, stopped, baseline, after>>

-----------------------------------------------------------------------------
Changing == phase \in {"map", "baseline", "after"} /\ Host
              /\ UNCHANGED <<pidOf, mapper, mapping, stopped, phase, baseline, after, report>>
Mapping == phase = "map" /\ MapVM /\ UNCHANGED <<pidOf, host, stopped, phase, baseline, after, report>>
Ended == phase \in {"reported", "failed"} /\ UNCHANGED vars

Next == Changing \/ Mapping \/ Indexed \/ SampleVM \/ Wait \/ Report \/ Ended

Spec == Init /\ [][Next]_vars
-----------------------------------------------------------------------------
\* Type invariant.
TypeOK ==
  /\ phase \in {"map", "baseline", "after", "reported", "failed"}
  /\ turn \in 1..(Len(VMs) + 1) /\ stopped \subseteq Machine
  /\ changes \in 0..MaxChanges
  /\ \A name \in Machine : mapping[name].pid \in Pids \cup {0}

\* A mapping that is verified is that of one process: a QEMU process had the
\* PID, the cgroup and the start time that were read one after another, also
\* if the PID was reused between any two of the reads.
MappingIsOfOneProcess ==
  \A name \in Machine : LET m == mapping[name] IN
    Verified(m) => <<m.pid, [start |-> m.start, qemu |-> TRUE, path |-> m.primary]>> \in lives

\* A difference that is reported is not one of two sources: the cgroup and
\* the process that the second sample identified are those whose counters
\* the first sample read, and the process is a QEMU process in the mapped
\* cgroup.  (What was identified may still end before its counters are read
\* for the second time; no read of /proc or /sys can tell.)
EvidenceIsOfOneSource ==
  phase = "reported" => \A name \in Machine :
    LET sections == report.vms[name].sections
        process2 == after[name].qemu.identity
    IN /\ sections["cgroup_io_stat"].available => baseline[name].cgroup.from = after[name].cgroup.id
       /\ sections["qemu_pressure"].available =>
            /\ baseline[name].qemu.from = process2.start
            /\ <<mapping[name].pid, [start |-> process2.start, qemu |-> TRUE, path |-> mapping[name].primary]>> \in lives
=============================================================================
