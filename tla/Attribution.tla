------------------------------ MODULE Attribution ------------------------------
(***************************************************************************)
(* The report of VM-attributed latency, from the maps of the kernel: whose *)
(* operations they were, how many are nobody's, and of which quality the   *)
(* whole is.                                                               *)
(*                                                                         *)
(* Of a snapshot of the maps: status is "failed" (the collection ended     *)
(* with an error), "host" (no ownership in this kernel) or "attributed";   *)
(* operations has the completed operations of every cgroup, host those of  *)
(* the host.  Latencies and their histograms are left out, and so are      *)
(* counts near 2^64.                                                       *)
(***************************************************************************)
EXTENDS Integers, FiniteSets, Functions

\* A cgroup that two VMs claim makes the index an error.
IndexVMCgroupMappings(mappings) ==
  \A name, other \in DOMAIN mappings : name # other => mappings[name] \cap mappings[other] = {}

\* The operations recorded under the cgroups of a VM, and under no VM's.
recordKernelCgroupOperation(kernel, cgroups) ==
  SumFunctionOnSet(kernel.operations, cgroups \cap DOMAIN kernel.operations)

\* What the host saw beyond the VMs' operations, and what was not completed
\* under observation, is not attributed; the difference is of unsigned
\* numbers, so the larger one decides.
finish(kernel, mappings) ==
  LET operations == [name \in DOMAIN mappings |-> recordKernelCgroupOperation(kernel, mappings[name])]
      attributed == SumFunction(operations)
      beyond == IF kernel.host > attributed THEN kernel.host - attributed ELSE 0
  IN [attributed |-> attributed,
      unattributed |-> beyond + kernel.lookupMiss + kernel.incomplete,
      matched |-> Cardinality({name \in DOMAIN mappings : operations[name] > 0}),
      ops |-> operations]

\* At most 5 % or 25 % of the operations may be nobody's.
runtimeVMBlockAttributionQuality(summary) ==
  LET total == summary.attributed + summary.unattributed
  IN CASE summary.attributed = 0 \/ summary.matched = 0 -> "unavailable"
       [] summary.attributed > 0 /\ 100 * summary.unattributed <= 5 * total -> "available"
       [] summary.attributed > 0 /\ 100 * summary.unattributed > 5 * total
            /\ 100 * summary.unattributed <= 25 * total -> "degraded"
       [] OTHER -> "unavailable"

\* The report before anything was collected.
newVMBlockLatencyReport(mappings) ==
  [given |-> TRUE, available |-> FALSE, quality |-> "unavailable", attributed |-> 0, unattributed |-> 0,
   ops |-> [name \in DOMAIN mappings |-> 0]]

\* A collection that failed keeps the operations it counted, but is not available.
CollectVMBlockLatencyReport(kernel, mappings) ==
  LET blank == newVMBlockLatencyReport(mappings)
      summary == finish(kernel, mappings)
      counted == [blank EXCEPT !.attributed = summary.attributed, !.unattributed = summary.unattributed,
                               !.ops = summary.ops]
  IN CASE ~IndexVMCgroupMappings(mappings) -> blank
       [] IndexVMCgroupMappings(mappings) /\ kernel.status = "failed" -> counted
       [] IndexVMCgroupMappings(mappings) /\ kernel.status = "host" -> [counted EXCEPT !.available = TRUE]
       [] OTHER -> [counted EXCEPT !.available = TRUE, !.quality = runtimeVMBlockAttributionQuality(summary)]
=============================================================================
