------------------------------- MODULE Verdicts -------------------------------
(***************************************************************************)
(* From the summaries of a window to a verdict: who is compared with whom  *)
(* (traceplan, discovery), which rates are pressure and which of them      *)
(* dominate (qemuio), what the storage topology and an experiment add      *)
(* (diagnose, incident), what VM-attributed latency may veto, and what a   *)
(* watch makes of it.  Disks are sets of names, empty if the mapping is    *)
(* not known; the texts of reasons and conclusions are left out.           *)
(***************************************************************************)
EXTENDS Sampling

CONSTANTS VM,          \* of every name: [tenant, running, pid]
          Thresholds   \* [bytes, calls: rates, ratio: a number]

ASSUME VerdictsAssumption ==
  /\ VM \in [Names -> [tenant : STRING, running : BOOLEAN, pid : BOOLEAN]]
  /\ Thresholds.ratio \in Nat \ {0}
  /\ Thresholds.bytes \in Rates /\ Thresholds.bytes.n > 0
  /\ Thresholds.calls \in Rates /\ Thresholds.calls.n > 0

NearZero == Rate(1, 1)      \* of both kinds of rates
None == "-"
Before(a, b) == \E i, j \in DOMAIN Order : i < j /\ Order[i] = a /\ Order[j] = b

-----------------------------------------------------------------------------
(* traceplan.Resolve: a victim is the name of a VM or else of a tenant.    *)
OfTenant(tenant) == {name \in Names : VM[name].tenant = tenant}
VictimTargets(victim) == IF victim \in Names THEN {victim} ELSE OfTenant(victim)
Resolves(victim, suspect) == suspect \in Names /\ VictimTargets(victim) # {}

\* The elements of a sequence that are in a set, in their order.
Keep(seq, set) ==
  LET kept[i \in 0..Len(seq)] ==
        IF i = 0 THEN <<>> ELSE IF seq[i] \in set THEN Append(kept[i - 1], seq[i]) ELSE kept[i - 1]
  IN kept[Len(seq)]

Sorted(names) == Keep(Order, names)

\* The suspect comes after the victims unless it is one of them.
NewPlan(victims, suspect) ==
  Sorted(victims) \o (IF suspect \in victims \cup {None} THEN <<>> ELSE <<suspect>>)

\* discovery.Resolve: the VMs that run on a disk of a victim that runs.
isRunning(name) == VM[name].running
hasQEMUPID(name) == VM[name].pid
sharesPhysicalDisk(left, right) == left \cap right # {}

Discoverable(victim) == victim \in Names /\ isRunning(victim) /\ hasQEMUPID(victim)
CandidateTargets(victim, disks) ==
  {name \in Names \ {victim} : isRunning(name) /\ hasQEMUPID(name) /\ sharesPhysicalDisk(disks[victim], disks[name])}
SamplingPlan(victim, candidates) == <<victim>> \o Sorted(candidates)

-----------------------------------------------------------------------------
(* Pressure and dominance, in bytes and in system calls.                   *)
Meaningful(rate, threshold) == AtLeast(rate, threshold)

\* Mutant: pressure is dominance.
suspectIsDominantAlone(victim, suspect, threshold) == Meaningful(suspect, threshold)

suspectIsDominant(victim, suspect, threshold) ==
  /\ Meaningful(suspect, threshold)
  /\ Exceeds(victim, NearZero) => AtLeast(suspect, Times(Thresholds.ratio, victim))

MeaningfulBytes(summary) == summary.available /\ Meaningful(summary.bytes, Thresholds.bytes)
MeaningfulCalls(summary) == summary.available /\ Meaningful(summary.calls, Thresholds.calls)

\* The rates of one kind, by name.
BytesOf(S) == [name \in Names |-> S[name].bytes]
CallsOf(S) == [name \in Names |-> S[name].calls]
MaxBytesOf(S) == [name \in Names |-> S[name].maxBytes]
MaxCallsOf(S) == [name \in Names |-> S[name].maxCalls]

SumOf(names, rates) == FoldFunctionOnSet(Plus, Nil, rates, names)

\* finalizeSummary: the victims together against the suspect.  What is not
\* available counts for nothing, and without data of both sides nothing is
\* said of either.
finalizeSummary(victims, suspect, S) ==
  LET measured == {name \in victims : S[name].available}
      known == measured # {} /\ suspect # None /\ S[suspect].available
      victimBytes == SumOf(measured, BytesOf(S))
      victimCalls == SumOf(measured, CallsOf(S))
  IN [victims |-> victims, suspect |-> suspect,
      victimData |-> measured # {}, suspectData |-> suspect # None /\ S[suspect].available,
      pressure |-> known /\ Meaningful(S[suspect].bytes, Thresholds.bytes),
      dominant |-> known /\ suspectIsDominant(victimBytes, S[suspect].bytes, Thresholds.bytes),
      callPressure |-> known /\ Meaningful(S[suspect].calls, Thresholds.calls),
      callDominant |-> known /\ suspectIsDominant(victimCalls, S[suspect].calls, Thresholds.calls)]

-----------------------------------------------------------------------------
(* discovery.Analyze: of the candidates with meaningful bytes the one that *)
(* writes most is selected if it dominates everyone else; system calls     *)
(* are looked at only if no candidate writes meaningfully.                 *)
Ahead(a, b, average, highest) ==
  \/ Exceeds(average[a], average[b])
  \/ ~Exceeds(average[b], average[a]) /\ Exceeds(highest[a], highest[b])
  \/ /\ ~Exceeds(average[b], average[a]) /\ ~Exceeds(highest[b], highest[a])
     /\ Before(a, b)

First(candidates, average, highest) ==
  CHOOSE a \in candidates : \A b \in candidates \ {a} : Ahead(a, b, average, highest)

competingRate(victim, candidates, selected, S, average) ==
  Highest({Nil} \cup {average[name] : name \in {n \in {victim} \cup (candidates \ {selected}) : S[n].available}})

Dominates(name, victim, candidates, S, average, threshold) ==
  suspectIsDominant(competingRate(victim, candidates, name, S, average), average[name], threshold)

\* Mutant: the victim is not compared with.
selectAmongCandidates(victim, candidates, S) ==
  LET writers == {name \in candidates : MeaningfulBytes(S[name])}
  IN IF writers = {} THEN None ELSE First(writers, BytesOf(S), MaxBytesOf(S))

selectCandidate(victim, candidates, S) ==
  LET writers == {name \in candidates : MeaningfulBytes(S[name])}
      callers == {name \in candidates : MeaningfulCalls(S[name])}
      writer == First(writers, BytesOf(S), MaxBytesOf(S))
      caller == First(callers, CallsOf(S), MaxCallsOf(S))
  IN IF writers # {}
     THEN IF Dominates(writer, victim, candidates, S, BytesOf(S), Thresholds.bytes) THEN writer ELSE None
     ELSE IF callers # {} /\ Dominates(caller, victim, candidates, S, CallsOf(S), Thresholds.calls) THEN caller
     ELSE None

Score(name, selected, S) ==
  CASE name = selected -> "HIGH"
    [] name # selected /\ (MeaningfulBytes(S[name]) \/ MeaningfulCalls(S[name])) -> "MEDIUM"
    [] OTHER -> "LOW"

-----------------------------------------------------------------------------
(* An experiment compares a workload without and with noise.               *)
NoExperiment == [given |-> FALSE, drop |-> 0, increase |-> 0]
\* The changes are percentages of a baseline that is positive.
Slowdown(impact) == impact.drop > 0 /\ impact.increase > 0
assess(impact) == IF Slowdown(impact) THEN "probable" ELSE "none"

\* sharedPhysicalDisk: whether the mapping of both sides is known, and any
\* disk of a victim is one of the suspect.
Union(names, disks) == UNION {disks[name] : name \in names}
Topology(victims, suspect, disks) ==
  LET left == Union(victims, disks)
      right == IF suspect = None THEN {} ELSE disks[suspect]
  IN [available |-> left # {} /\ right # {}, shared |-> sharesPhysicalDisk(left, right)]

Dominant(q) == IF q.pressure THEN q.dominant ELSE q.callPressure /\ q.callDominant
Supported(q, topology) == topology.shared /\ q.victimData /\ q.suspectData /\ Dominant(q)
Quiet(q) == q.victimData /\ q.suspectData /\ ~q.pressure /\ ~q.callPressure

Verdict(impact, q, topology) ==
  CASE ~Slowdown(impact) -> "Insufficient"
    [] Slowdown(impact) /\ Quiet(q) -> "LowPressure"
    [] Slowdown(impact) /\ ~Quiet(q) /\ topology.available /\ ~topology.shared -> "TopologyMismatch"
    [] Slowdown(impact) /\ Supported(q, topology) -> "Probable"
    [] OTHER -> "Insufficient"

LiveVerdict(q, topology) ==
  CASE topology.available /\ ~topology.shared -> "TopologyMismatchLive"
    [] Quiet(q) /\ (topology.available => topology.shared) -> "LowPressureLive"
    [] Supported(q, topology) -> "LikelyLive"
    [] OTHER -> "InsufficientLive"

newDiagnosisReport(impact, q, topology) ==
  IF impact.given THEN Verdict(impact, q, topology) ELSE LiveVerdict(q, topology)

\* AssessEBPFVMAttribution: the operations of the victims and of the suspect
\* in a report of VM-attributed latency.  Without a suspect in the topology
\* the name of the inputs is used, which a dash is not.
NoAttribution == [given |-> FALSE, available |-> FALSE, quality |-> "unavailable", attributed |-> 0,
                  unattributed |-> 0, ops |-> [name \in Names |-> 0]]
OpsOf(report, names) == SumFunctionOnSet(report.ops, names)

AssessEBPFVMAttribution(report, victims, suspect) ==
  LET victimOps == OpsOf(report, victims)
      suspectOps == IF suspect = None THEN 0 ELSE report.ops[suspect]
  IN [available |-> /\ report.given /\ report.available /\ report.attributed > 0
                    /\ report.quality \in {"available", "degraded"},
      quality |-> report.quality,
      suspectDominant |-> suspectOps > 0 /\ (victimOps > 0 => suspectOps >= Thresholds.ratio * victimOps)]

ApplyEBPFVMAttribution(verdict, report, victims, suspect) ==
  LET assessment == AssessEBPFVMAttribution(report, victims, suspect)
      vetoes == assessment.available /\ assessment.quality = "available" /\ ~assessment.suspectDominant
  IN CASE vetoes /\ verdict = "Probable" -> "Insufficient"
       [] vetoes /\ verdict = "LikelyLive" -> "InsufficientLive"
       [] OTHER -> verdict

-----------------------------------------------------------------------------
(* What watch noisy-neighbor shows and when it is alarmed.                 *)
\* Mutant: system calls are not looked at.
bytesClassification(q) ==
  CASE q.pressure -> IF q.dominant THEN "HIGH" ELSE "MEDIUM"
    [] ~q.pressure -> IF q.suspectData THEN "LOW" ELSE None

pairwiseClassification(q) ==
  CASE q.pressure -> IF q.dominant THEN "HIGH" ELSE "MEDIUM"
    [] ~q.pressure /\ q.callPressure -> IF q.callDominant THEN "HIGH" ELSE "MEDIUM"
    [] ~q.pressure /\ ~q.callPressure -> IF q.suspectData THEN "LOW" ELSE None

IterationScore(discovered, selected, q) ==
  CASE discovered -> IF selected = None THEN None ELSE "HIGH"
    [] OTHER -> pairwiseClassification(q)

IsAlert(verdict) == verdict = "LikelyLive"
=============================================================================
