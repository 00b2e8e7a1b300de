------------------------------ MODULE Observation ------------------------------
(***************************************************************************)
(* The snapshot of observe: one section of evidence after another, the     *)
(* list of those that are not there, the quality of the whole, and the     *)
(* correlations between them; and how a bundle applies the VM-attributed   *)
(* latency of its own window to a snapshot that was taken without it.      *)
(***************************************************************************)
EXTENDS Verdicts

Missing == {"unavailable", "partial", "disabled", "not_configured", "unsupported", "error"}
BaseSections == {"host_status", "vm_status", "qemu_evidence", "storage_topology"}

Section(name, state) == [section |-> name, state |-> state]
Blank == [sections |-> <<>>, unavailable |-> <<>>]

addSection(s, name, state) ==
  [s EXCEPT !.sections = Append(@, Section(name, state)),
            !.unavailable = IF state \in Missing THEN Append(@, Section(name, state)) ELSE @]

\* Mutant: the earlier section stays.
NotRemoved(s, name) == s

removeEvidenceSection(s, name) ==
  LET others == {q \in Range(s.sections) : q.section # name}
  IN [s EXCEPT !.sections = Keep(@, others), !.unavailable = Keep(@, others)]

mergeOptionalResult(s, partial) ==
  [s EXCEPT !.sections = @ \o partial.sections, !.unavailable = @ \o partial.unavailable]

\* What a collector answered: an error, or a report with its availability.
Availability == {"failed", "absent", "gaps", "whole"}

stateForAvailability(answer) ==
  CASE answer = "failed" -> "error"
    [] answer = "absent" -> "unavailable"
    [] answer = "gaps" -> "partial"
    [] answer = "whole" -> "measured"

StateOf(s, name) == (CHOOSE q \in Range(s.sections) : q.section = name).state

\* The base is what can be had on every host; an optional section only makes
\* the whole partial if it was collected in part or failed.
finalizeQuality(s) ==
  LET base == {q.state : q \in {r \in Range(s.sections) : r.section \in BaseSections}}
      all == {q.state : q \in Range(s.sections)}
  IN CASE base \cap {"measured", "derived", "partial"} = {} -> "unavailable"
       [] base \cap {"unavailable", "error"} # {} \/ all \cap {"partial", "error"} # {} -> "partial"
       [] OTHER -> "measured"

-----------------------------------------------------------------------------
(* collectTargetOptionals: each of the three collectors runs if it is      *)
(* configured, asked for and allowed.                                      *)
Optional(s, name, refusal, answer) ==
  addSection(s, name, IF refusal # "" THEN refusal ELSE stateForAvailability(answer))

GuestRefusal(request) == IF request.guest /\ request.includeGuest THEN "" ELSE "disabled"

ConfiguredRefusal(request, configured, included) ==
  CASE ~configured -> "not_configured"
    [] configured /\ ~(included /\ request.guest) -> "disabled"
    [] OTHER -> ""

\* The database collector is not stopped by a disabled guest collection.
DatabaseRefusal(configured, included) ==
  CASE ~configured -> "not_configured"
    [] configured /\ ~included -> "disabled"
    [] OTHER -> ""

\* What the sections of the victim and of the suspect are called.
OfVictim == [guest |-> "victim_guest_status", service |-> "victim_service_status", db |-> "victim_db_status"]
OfSuspect == [guest |-> "suspect_guest_status", service |-> "suspect_service_status", db |-> "suspect_db_status"]

collectTargetOptionals(called, name, request, answer) ==
  LET configured == name \in request.configured
      guest == Optional(Blank, called.guest, GuestRefusal(request), answer)
      service == Optional(guest, called.service,
                          ConfiguredRefusal(request, configured, request.includeServices), answer)
  IN Optional(service, called.db, DatabaseRefusal(configured, request.includeDB), answer)

-----------------------------------------------------------------------------
(* The sections that are derived from the window.                          *)
allRunningPlan == Sorted({name \in Names : isRunning(name) /\ hasQEMUPID(name)})

sanitizeQEMU(q, S) ==
  LET pair == q.victims \cup ({q.suspect} \ {None})
  IN [available |-> \E name \in pair : S[name].available,
      pressure |-> q.pressure \/ q.callPressure,
      dominant |-> q.dominant \/ q.callDominant]

buildStorage(victim, suspect, disks) ==
  [available |-> disks[victim] # {} /\ (suspect # None => disks[suspect] # {}),
   shared |-> suspect # None /\ sharesPhysicalDisk(disks[victim], disks[suspect])]

\* A report counts if the collection was available, attributed something, and
\* says of which quality it is.
ProjectedAttribution(report, victim, suspect) ==
  LET available == /\ report.available /\ report.attributed > 0
                   /\ report.quality \in {"available", "degraded"}
  IN [available |-> available,
      state |-> CASE available /\ report.quality = "available" -> "measured"
                  [] available /\ report.quality = "degraded" -> "partial"
                  [] OTHER -> "unavailable",
      suspectOps |-> IF available /\ suspect # None THEN report.ops[suspect] ELSE 0]

NotProjected == [available |-> FALSE, state |-> "disabled", suspectOps |-> 0]

ApplyEBPFToSnapshot(s, report, victim, suspect) ==
  addSection(removeEvidenceSection(removeEvidenceSection(s, "ebpf_latency"), "ebpf_vm_attribution"),
             "ebpf_vm_attribution",
             ProjectedAttribution(report, victim, suspect).state)

\* The correlations of a snapshot that say something about the suspect; the
\* one that rests on the attribution is replaced with it.
upsertVMAttributionCorrelations(correlations, suspect, attribution) ==
  (correlations \ {"suspect_vm_attributed_io_observed"})
    \cup (IF suspect # None /\ attribution.available /\ attribution.suspectOps > 0
          THEN {"suspect_vm_attributed_io_observed"} ELSE {})

buildCorrelations(suspect, storage, qemu, attribution) ==
  upsertVMAttributionCorrelations(
    {c \in {"victim_and_suspect_share_physical_disk", "suspect_qemu_write_pressure_high"} :
       /\ suspect # None
       /\ CASE c = "victim_and_suspect_share_physical_disk" -> storage.shared
            [] c = "suspect_qemu_write_pressure_high" -> qemu.pressure /\ qemu.dominant},
    suspect, attribution)

-----------------------------------------------------------------------------
\* observe.Collect, after the window: host is the answer of the host
\* collector, answers those of the optional collectors.
Observe(request, explicit, S, disks, host, answer, report) ==
  LET victim == request.victim
      discover == request.discover
      running == Range(allRunningPlan)
      found == IF discover /\ Discoverable(victim)
               THEN selectCandidate(victim, CandidateTargets(victim, disks), S) ELSE None
      suspect == IF discover THEN found ELSE explicit
      q == finalizeSummary({victim}, suspect, S)
      qemu == sanitizeQEMU(q, S)
      storage == buildStorage(victim, suspect, disks)
      s1 == addSection(Blank, "host_status", stateForAvailability(host))
      s2 == addSection(s1, "vm_status", IF \E name \in running : ~S[name].available THEN "partial" ELSE "measured")
      s3 == addSection(s2, "discovery", CASE ~discover -> "disabled"
                                          [] discover /\ ~Discoverable(victim) -> "error"
                                          [] discover /\ Discoverable(victim) -> "derived")
      s4 == addSection(s3, "qemu_evidence", IF qemu.available THEN "measured" ELSE "unavailable")
      s5 == addSection(s4, "storage_topology", IF storage.available THEN "derived" ELSE "unavailable")
      s6 == mergeOptionalResult(s5, collectTargetOptionals(OfVictim, victim, request, answer))
      s7 == IF suspect = None THEN s6
            ELSE mergeOptionalResult(s6, collectTargetOptionals(OfSuspect, suspect, request, answer))
      s8 == CASE report.given -> ApplyEBPFToSnapshot(s7, report, victim, suspect)
              [] ~report.given /\ request.ebpf -> addSection(s7, "ebpf_vm_attribution", "unsupported")
              [] ~report.given /\ ~request.ebpf -> addSection(s7, "ebpf_vm_attribution", "disabled")
      attribution == IF report.given THEN ProjectedAttribution(report, victim, suspect) ELSE NotProjected
  IN [suspect |-> suspect, evidence |-> s8, quality |-> finalizeQuality(s8),
      correlations |-> buildCorrelations(suspect, storage, qemu, attribution)]

\* What a bundle holds if there is no snapshot.
NewUnavailableSnapshot(suspect) ==
  [suspect |-> suspect, evidence |-> addSection(Blank, "observe_snapshot", "error"),
   quality |-> "unavailable", correlations |-> {}]

\* writeObserveSnapshot: the report of the bundle's own window is applied,
\* whether or not it was before.  MarshalJSON refuses only snapshots with privacy
\* flags or query text, which no collector sets, so that what is written then is
\* left out.
SnapshotOfBundle(snapshot, request, report) ==
  IF ~request.ebpf THEN snapshot
  ELSE LET evidence == ApplyEBPFToSnapshot(snapshot.evidence, report, request.victim, snapshot.suspect)
           attribution == ProjectedAttribution(report, request.victim, snapshot.suspect)
       IN [snapshot EXCEPT !.evidence = evidence, !.quality = finalizeQuality(evidence),
                           !.correlations = upsertVMAttributionCorrelations(@, snapshot.suspect, attribution)]
=============================================================================
