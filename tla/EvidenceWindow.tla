---------------------------- MODULE EvidenceWindow ----------------------------
(***************************************************************************)
(* A command that gathers evidence, from its request to its verdict: the   *)
(* targets and disks are resolved, the window is sampled while processes   *)
(* come and go, and what was measured is analysed.  A pair of VMs is       *)
(* diagnosed with the disks that were mapped before the window; a suspect  *)
(* that is discovered was a candidate by the disks before the window and   *)
(* is judged by those after it; observe looks at disks after its window.   *)
(* A capture diagnoses in one window and observes in a second one, where a *)
(* discovery may find another suspect.                                     *)
(***************************************************************************)
EXTENDS Observation, Attribution

CONSTANTS Requests,    \* [tool, victim, suspect, discover, duration, interval, experiment, ebpf, ...]
          DiskMaps,    \* the disks of every VM, as the host may map them
          Impacts,     \* the experiments a report directory may hold
          Kernels,     \* the maps of the kernel at the end of the window
          Mappings,    \* the cgroups of the VMs that are sampled
          Answers,     \* what the host collector and those of a guest may answer: [host, guest]
          Stale        \* VMs whose PID in the inventory may be of no process

ASSUME EvidenceAssumption ==
  /\ Requests \subseteq [tool : {"diagnose", "observe", "capture"}, victim : STRING, suspect : STRING,
                         discover : BOOLEAN, duration : Int, interval : Int, experiment : BOOLEAN, ebpf : BOOLEAN,
                         guest : BOOLEAN, includeGuest : BOOLEAN, includeServices : BOOLEAN, includeDB : BOOLEAN,
                         configured : SUBSET STRING]
  /\ Answers \subseteq [host : Availability, guest : Availability]
  /\ \A kernel \in Kernels : /\ IsFiniteSet(DOMAIN kernel.operations)
                            /\ \A cgroup \in DOMAIN kernel.operations : kernel.operations[cgroup] \in Nat

VARIABLES phase,       \* "request", "window" or "ended"
          request,
          disks,       \* as they were mapped before the window
          diagnosis,   \* what the diagnosis says
          snapshot     \* what observe says

evidenceVars == <<sampling, phase, request, disks, diagnosis, snapshot>>

Process(name, present) == [alive |-> hasQEMUPID(name) /\ present, owner |-> 0, bytes |-> 0, calls |-> 0]
NoWindow == [targets |-> <<>>, duration |-> 0, interval |-> 0]
Unmapped == [name \in Names |-> {}]
Nothing == [kind |-> "none"]
NoKernel == [status |-> "failed", operations |-> <<>>, host |-> 0, lookupMiss |-> 0, incomplete |-> 0]

EvidenceInit ==
  /\ phase = "request" /\ diagnosis = Nothing /\ snapshot = Nothing
  /\ request \in Requests
  /\ disks = Unmapped
  /\ process \in {[name \in Names |-> Process(name, name \notin gone)] : gone \in SUBSET Stale}
  /\ window = NoWindow /\ previous = <<>> /\ turn = 1 /\ elapsed = 0 /\ samples = <<>>
  /\ truth = [name \in Names |-> [seconds |-> 0, bytes |-> 0, calls |-> 0]]

-----------------------------------------------------------------------------
(* Resolution of the targets.  What cannot be loaded or resolved is the    *)
(* end before anything was sampled, except that a bundle is written        *)
(* without its snapshot.                                                   *)
Observing == request.tool = "observe" \/ diagnosis # Nothing

Known ==
  CASE Observing -> request.victim \in Names /\ request.suspect \in Names \cup {None}
    [] ~Observing /\ request.discover -> Discoverable(request.victim)
    [] ~Observing /\ ~request.discover -> Resolves(request.victim, request.suspect)

Targets ==
  CASE Observing -> allRunningPlan
    [] ~Observing /\ request.discover -> SamplingPlan(request.victim, CandidateTargets(request.victim, disks'))
    [] ~Observing /\ ~request.discover -> NewPlan(VictimTargets(request.victim), request.suspect)

Open ==
  /\ phase = "request" /\ Known
  /\ disks' \in IF Observing THEN {disks} ELSE DiskMaps
  /\ OpenWindow(Targets, request.duration, request.interval)
  /\ phase' = "window"
  /\ UNCHANGED <<request, diagnosis, snapshot>>

\* The report directory, the configuration, the inventory or a name is not valid.
Refuse ==
  /\ phase = "request"
  /\ snapshot' = IF diagnosis = Nothing THEN Nothing
                 ELSE SnapshotOfBundle(NewUnavailableSnapshot(diagnosis.suspect), request, diagnosis.report)
  /\ phase' = "ended"
  /\ UNCHANGED <<sampling, request, disks, diagnosis>>

Sample ==
  /\ phase = "window"
  /\ Sleep \/ Read
  /\ UNCHANGED <<phase, request, disks, diagnosis, snapshot>>

-----------------------------------------------------------------------------
\* The collector of VM-attributed latency ran beside the window if asked to.
Attributed(kernel, names) ==
  IF request.ebpf THEN CollectVMBlockLatencyReport(kernel, [name \in Names |-> IF name \in names THEN Mappings[name] ELSE {}])
  ELSE NoAttribution

Summaries == [name \in Names |-> SummaryOf(name)]

collectNoisyNeighborEvidence(S, impact, kernel) ==
  LET victims == VictimTargets(request.victim)
      q == finalizeSummary(victims, request.suspect, S)
      report == Attributed(kernel, victims \cup {request.suspect})
      verdict == newDiagnosisReport(impact, q, Topology(victims, request.suspect, disks))
  IN [suspect |-> request.suspect, disks |-> disks, report |-> report, impact |-> impact,
      verdict |-> ApplyEBPFVMAttribution(verdict, report, victims, request.suspect),
      score |-> IterationScore(FALSE, None, q)]

\* Without a dominant candidate nothing else counts.
collectDiscoveredNoisyNeighborEvidence(S, impact, kernel, later) ==
  LET victim == request.victim
      candidates == CandidateTargets(victim, disks)
      selected == selectCandidate(victim, candidates, S)
      q == finalizeSummary({victim}, selected, S)
      report == Attributed(kernel, {victim} \cup candidates)
      verdict == newDiagnosisReport(impact, q, Topology({victim}, selected, later))
  IN [suspect |-> selected, disks |-> later, report |-> report, impact |-> impact,
      verdict |-> IF selected = None THEN "NoDominantCandidate"
                  ELSE ApplyEBPFVMAttribution(verdict, report, {victim}, selected),
      score |-> IterationScore(TRUE, selected, q)]

\* A capture goes on to observe.
Diagnose ==
  /\ phase = "window" /\ WindowEnded /\ ~Observing
  /\ \E S \in {Summaries}, later \in IF request.discover THEN DiskMaps ELSE {disks},
        impact \in IF request.experiment THEN Impacts ELSE {NoExperiment},
        kernel \in IF request.ebpf THEN Kernels ELSE {NoKernel} :
       diagnosis' = IF request.discover THEN collectDiscoveredNoisyNeighborEvidence(S, impact, kernel, later)
                    ELSE collectNoisyNeighborEvidence(S, impact, kernel)
  /\ phase' = IF request.tool = "capture" THEN "request" ELSE "ended"
  /\ UNCHANGED <<sampling, request, disks, snapshot>>

Snapshot ==
  /\ phase = "window" /\ WindowEnded /\ Observing
  /\ \E S \in {Summaries}, later \in DiskMaps, answer \in Answers,
        report \in {IF diagnosis = Nothing THEN NoAttribution ELSE diagnosis.report} :
       LET taken == Observe(request, request.suspect, S, later, answer.host, answer.guest, report)
       IN snapshot' = IF diagnosis = Nothing THEN taken ELSE SnapshotOfBundle(taken, request, report)
  /\ phase' = "ended"
  /\ UNCHANGED <<sampling, request, disks, diagnosis>>

Done == phase = "ended" /\ UNCHANGED evidenceVars

EvidenceNext == Open \/ Refuse \/ Sample \/ Diagnose \/ Snapshot \/ Done
EvidenceSpec == EvidenceInit /\ [][EvidenceNext]_evidenceVars

-----------------------------------------------------------------------------
Same(r, s) == AtLeast(r, s) /\ AtLeast(s, r)

(* What a summary says of a VM whose PID stayed with its process is what   *)
(* that process did in the intervals between two good readings, and it is  *)
(* available exactly if there was one: a failed reading takes away the     *)
(* intervals on both its sides, from the work and from the time.           *)
(* (qemuio: sampleIntervals, ratesForSamples, summarizeSamples)            *)
SummaryIsMeasured ==
  phase = "window" /\ WindowEnded =>
    \A name \in {n \in DOMAIN previous : process[n].owner = 0} :
      LET s == SummaryOf(name)
          t == truth[name]
      IN /\ s.available <=> t.seconds > 0
         /\ s.available => /\ s.seconds = t.seconds /\ t.seconds <= window.duration
                           /\ Same(s.bytes, Rate(t.bytes, t.seconds)) /\ Same(s.calls, Rate(t.calls, t.seconds))
                           /\ AtLeast(s.maxBytes, s.bytes) /\ AtLeast(s.maxCalls, s.calls)

Diagnosed == phase = "ended" /\ request.tool = "diagnose" /\ diagnosis # Nothing
Victims == VictimTargets(request.victim)
Outweighs(S, rates, threshold) ==
  /\ AtLeast(rates[diagnosis.suspect], threshold)
  /\ \A name \in Victims :
       S[name].available /\ Exceeds(rates[name], NearZero)
         => AtLeast(rates[diagnosis.suspect], Times(Thresholds.ratio, rates[name]))

(* An alarming verdict rests on all its evidence: a victim and the suspect *)
(* were measured, the suspect outweighs every victim in bytes, or in calls *)
(* if it writes little, they share a disk, also when the suspect became a  *)
(* candidate, an experiment got slower if there was one, and VM-attributed *)
(* latency of full quality does not show otherwise.                        *)
(* (diagnose.Verdict, LiveVerdict, ApplyEBPFVMAttribution)                 *)
AlertIsEvidenced ==
  Diagnosed /\ diagnosis.verdict \in {"Probable", "LikelyLive"} =>
    \E S \in {Summaries} :
      /\ diagnosis.suspect \in Names /\ S[diagnosis.suspect].available
      /\ \E name \in Victims : S[name].available
      /\ IF AtLeast(S[diagnosis.suspect].bytes, Thresholds.bytes) THEN Outweighs(S, BytesOf(S), Thresholds.bytes)
         ELSE Outweighs(S, CallsOf(S), Thresholds.calls)
      /\ \E name \in Victims : diagnosis.disks[name] \cap diagnosis.disks[diagnosis.suspect] # {}
      /\ request.discover => disks[request.victim] \cap disks[diagnosis.suspect] # {}
      /\ diagnosis.impact.given => diagnosis.impact.drop > 0 /\ diagnosis.impact.increase > 0
      /\ diagnosis.report.available /\ diagnosis.report.quality = "available"
           => /\ diagnosis.report.ops[diagnosis.suspect] > 0
              /\ \A name \in Victims : diagnosis.report.ops[diagnosis.suspect] >= diagnosis.report.ops[name]

(* The ranking of the candidates and the verdict on the pair agree: a      *)
(* selected suspect that still shares a disk with a measured victim is     *)
(* likely, unless VM-attributed latency vetoes it; and without a selection *)
(* there is no alarm.                                                      *)
(* (discovery.selectCandidate against diagnose.LiveVerdict)                *)
SelectionAgreesWithVerdict ==
  Diagnosed /\ request.discover /\ ~request.experiment =>
    IF diagnosis.suspect = None THEN diagnosis.verdict = "NoDominantCandidate"
    ELSE /\ SummaryOf(request.victim).available
         /\ diagnosis.disks[request.victim] \cap diagnosis.disks[diagnosis.suspect] # {}
         /\ ~(diagnosis.report.available /\ diagnosis.report.quality = "available")
         => diagnosis.verdict = "LikelyLive"

(* What diagnose calls likely, watch scores HIGH, and observe, had it      *)
(* looked at the same window and disks, would have correlated.             *)
(* (watch.NewIterationSummary, observe.buildCorrelations)                  *)
ToolsAgree ==
  Diagnosed /\ diagnosis.verdict = "LikelyLive" =>
    /\ diagnosis.score = "HIGH"
    /\ request.victim \in Names /\ diagnosis.disks = disks =>
         {"victim_and_suspect_share_physical_disk", "suspect_qemu_write_pressure_high"} \subseteq
           Observe(request, request.suspect, Summaries, disks, "whole", "whole", NoAttribution).correlations

(* A snapshot names every section once, lists exactly those that are not   *)
(* there as unavailable, and is not called measured with one of its base   *)
(* sections missing.  In a bundle it has the attribution of the diagnosis: *)
(* of its own suspect, which is another one if the second window changed   *)
(* the selection, I/O is only claimed if the diagnosis counted it.         *)
(* (observe.Collect, ApplyEBPFVMAttribution, capture.writeObserveSnapshot) *)
SnapshotIsConsistent ==
  snapshot # Nothing =>
    LET sections == snapshot.evidence.sections
        missing == snapshot.evidence.unavailable
    IN /\ \A i, j \in DOMAIN sections : sections[i].section = sections[j].section => i = j
       /\ Range(missing) = {q \in Range(sections) : q.state \in Missing}
       /\ snapshot.quality = "measured" =>
            BaseSections \subseteq {q.section : q \in {r \in Range(sections) : r.state \in {"measured", "derived"}}}
       /\ request.tool = "capture" /\ request.ebpf =>
            /\ StateOf(snapshot.evidence, "ebpf_vm_attribution") = "measured" => diagnosis.report.quality = "available"
            /\ "suspect_vm_attributed_io_observed" \in snapshot.correlations =>
                 diagnosis.report.available /\ diagnosis.report.ops[snapshot.suspect] > 0
       /\ request.tool = "capture" /\ ~request.discover => snapshot.suspect = diagnosis.suspect
=============================================================================
