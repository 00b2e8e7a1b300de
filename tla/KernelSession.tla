---------------------------- MODULE KernelSession ----------------------------
(***************************************************************************)
(* One typed-BTF collection: runVMBlockKernelSource drives a session of    *)
(* the Cilium source through preflight, prepare, start, collect, stop,     *)
(* stats and the deferred close, any of which may fail, while the context  *)
(* may be cancelled at any moment; CollectVMBlockLatencyReportWithKernel-  *)
(* Source then turns the joined errors into the report.                    *)
(*                                                                         *)
(* One action is one call that leaves the process (a load, an attach, a    *)
(* close, a map read) with every outcome it can have.  An error is kept as *)
(* its primary status and whether a cleanup error was joined to it: no run *)
(* of this code joins two primary errors.  Closing a link or an object may *)
(* fail, but not for want of permission: close(2) does not report it.      *)
(***************************************************************************)

VARIABLES
  ctxDone,       \* the context was cancelled
  step,          \* the call that is made next
  issueLink,     \* what became of the two links: session.issueLink ...
  completeLink,  \* ... and session.completeLink are nil unless "open"
  objects,       \* the programs and maps of the embedded object
  failure,       \* the status of the primary stage error, if any
  cleanup,       \* the releases whose cleanup_failed stage was joined to it
  stats,         \* session.stats
  report         \* its availability status and its ebpf_cleanup section

links == <<issueLink, completeLink>>
errors == <<failure, cleanup>>
vars == <<ctxDone, step, links, objects, errors, stats, report>>

Steps == {"preflight", "prepare", "attach_issue", "attach_complete", "rollback",
          "collect", "stop_issue", "stop_complete", "read", "close", "aggregate", "done"}

\* What each stage can report, in the order of vmBlockCollectorError where it
\* matters: a verifier rejection and a denied permission come first.
PreflightFailures == {"unavailable", "permission_denied"}
LoadFailures == {"object_load_failed", "verifier_rejected", "permission_denied"}
AttachFailures == {"attach_failed", "typed_tracepoint_missing", "permission_denied"}
ReadFailures == {"map_read_failed", "map_layout_mismatch", "permission_denied"}
Failures ==
  PreflightFailures \cup LoadFailures \cup AttachFailures \cup ReadFailures
    \cup {"cancelled", "invalid_options"}

LinkStates == {"nil", "open", "closed", "failed"}
Releases == {"issue_link", "complete_link", "objects"}
Reports ==
  [status : Failures \cup {"pending", "available", "cleanup_failed"},
   cleanup_section : SUBSET Releases]
NoReport == [status |-> "pending", cleanup_section |-> {}]

TypeOK ==
  /\ ctxDone \in BOOLEAN
  /\ step \in Steps
  /\ issueLink \in LinkStates
  /\ completeLink \in LinkStates
  /\ objects \in {"none", "loaded", "closed", "failed"}
  /\ failure \in Failures \cup {"none"}
  /\ cleanup \subseteq Releases
  /\ stats \in {"unread", "partial", "full"}
  /\ report \in Reports

Init ==
  /\ ctxDone = FALSE
  /\ step = "preflight"
  /\ issueLink = "nil"
  /\ completeLink = "nil"
  /\ objects = "none"
  /\ failure = "none"
  /\ cleanup = {}
  /\ stats = "unread"
  /\ report = NoReport

-----------------------------------------------------------------------------
(* The stages before the programs run.                                     *)

Fail(status, next) ==
  /\ failure' = status
  /\ step' = next
  /\ UNCHANGED cleanup

Proceed(next) ==
  /\ step' = next
  /\ UNCHANGED errors

\* A release that failed is joined to the error as a cleanup_failed stage.
Failed(release, outcome) == IF outcome = "failed" THEN {release} ELSE {}

\* Options and mappings are validated, then the source runs its preflight.
Preflight ==
  /\ step = "preflight"
  /\ \/ Proceed("prepare")
     \/ \E status \in PreflightFailures \cup {"invalid_options"} : Fail(status, "aggregate")
  /\ UNCHANGED <<ctxDone, links, objects, stats, report>>

\* A failed load leaves no session, hence nothing to close.
Prepare ==
  /\ step = "prepare"
  /\ \/ Proceed("attach_issue") /\ objects' = "loaded"
     \/ \E status \in LoadFailures : Fail(status, "aggregate") /\ UNCHANGED objects
  /\ UNCHANGED <<ctxDone, links, stats, report>>

StartIssue ==
  /\ step = "attach_issue"
  /\ \/ Proceed("attach_complete") /\ issueLink' = "open"
     \/ \E status \in AttachFailures : Fail(status, "close") /\ UNCHANGED issueLink
  /\ UNCHANGED <<ctxDone, completeLink, objects, stats, report>>

StartComplete ==
  /\ step = "attach_complete"
  /\ \/ Proceed("collect") /\ completeLink' = "open"
     \/ \E status \in AttachFailures : Fail(status, "rollback") /\ UNCHANGED completeLink
  /\ UNCHANGED <<ctxDone, issueLink, objects, stats, report>>

\* Start closes the issue link itself when the second attach failed.
RollBack ==
  /\ step = "rollback"
  /\ step' = "close"
  /\ issueLink' \in {"closed", "failed"}
  /\ cleanup' = cleanup \cup Failed("issue_link", issueLink')
  /\ UNCHANGED <<ctxDone, completeLink, objects, failure, stats, report>>

-----------------------------------------------------------------------------
(* Collect, Stop and ReadStats.                                            *)

\* Mutant: the maps are read while the hooks are attached.
CollectBeforeStop ==
  /\ step = "collect"
  /\ \/ ctxDone /\ Fail("cancelled", "stop_issue")
     \/ Proceed("read")
  /\ UNCHANGED <<ctxDone, links, objects, stats, report>>

\* The window ends with its timer, or early with the context.  Either way Stop
\* runs next: called by Collect, or by runVMBlockKernelSource after it.
Collect ==
  /\ step = "collect"
  /\ \/ ctxDone /\ Fail("cancelled", "stop_issue")
     \/ Proceed("stop_issue")
  /\ UNCHANGED <<ctxDone, links, objects, stats, report>>

\* Mutant: Stop returns the first error without closing the second link.
StopIssueGivesUp ==
  /\ step = "stop_issue"
  /\ issueLink' \in {"closed", "failed"}
  /\ step' = IF issueLink' = "failed" THEN "close" ELSE "stop_complete"
  /\ cleanup' = cleanup \cup Failed("issue_link", issueLink')
  /\ UNCHANGED <<ctxDone, completeLink, objects, failure, stats, report>>

\* Stop detaches the issue hook first and the completion hook in any case.
StopIssue ==
  /\ step = "stop_issue"
  /\ step' = "stop_complete"
  /\ issueLink' \in {"closed", "failed"}
  /\ cleanup' = cleanup \cup Failed("issue_link", issueLink')
  /\ UNCHANGED <<ctxDone, completeLink, objects, failure, stats, report>>

\* Mutant: Collect ignores the error of Stop and reads the maps.
StopCompleteReadsAnyway ==
  /\ step = "stop_complete"
  /\ completeLink' \in {"closed", "failed"}
  /\ cleanup' = cleanup \cup Failed("complete_link", completeLink')
  /\ step' = IF failure = "none" THEN "read" ELSE "close"
  /\ UNCHANGED <<ctxDone, issueLink, objects, failure, stats, report>>

\* The maps are read only after a whole window and a clean Stop.
StopComplete ==
  /\ step = "stop_complete"
  /\ completeLink' \in {"closed", "failed"}
  /\ cleanup' = cleanup \cup Failed("complete_link", completeLink')
  /\ step' = IF failure = "none" /\ cleanup' = {} THEN "read" ELSE "close"
  /\ UNCHANGED <<ctxDone, issueLink, objects, failure, stats, report>>

\* A failed read keeps what was read before it, perhaps nothing, in host mode.
ReadStats ==
  /\ step = "read"
  /\ \/ Proceed("close") /\ stats' = "full"
     \/ \E status \in ReadFailures : Fail(status, "close") /\ stats' = "partial"
  /\ UNCHANGED <<ctxDone, links, objects, report>>

-----------------------------------------------------------------------------
(* The deferred Close and the report.                                      *)

\* Mutant: the error of the deferred Close is dropped.
CloseUnheard ==
  /\ step = "close"
  /\ step' = "aggregate"
  /\ objects' \in {"closed", "failed"}
  /\ UNCHANGED <<ctxDone, links, errors, stats, report>>

\* Stop has run, or no link is open and it does nothing; the objects are closed.
Close ==
  /\ step = "close"
  /\ step' = "aggregate"
  /\ objects' \in {"closed", "failed"}
  /\ cleanup' = cleanup \cup Failed("objects", objects')
  /\ UNCHANGED <<ctxDone, links, failure, stats, report>>

\* Mutant: a collection with full statistics is available despite an error.
AggregateByStats ==
  /\ step = "aggregate"
  /\ step' = "done"
  /\ report' =
       [status |-> IF failure # "none" THEN failure
                   ELSE IF stats = "full" THEN "available" ELSE "cleanup_failed",
        cleanup_section |-> cleanup]
  /\ UNCHANGED <<ctxDone, links, objects, errors, stats>>

\* Any error makes the report unavailable; a primary error names its status.
Aggregate ==
  /\ step = "aggregate"
  /\ step' = "done"
  /\ report' =
       [status |-> IF failure # "none" THEN failure
                   ELSE IF cleanup # {} THEN "cleanup_failed" ELSE "available",
        cleanup_section |-> cleanup]
  /\ UNCHANGED <<ctxDone, links, objects, errors, stats>>

\* The operator or a parent cancels the context.
Cancel ==
  /\ ~ctxDone
  /\ step # "done"
  /\ ctxDone' = TRUE
  /\ UNCHANGED <<step, links, objects, errors, stats, report>>

Terminated == step = "done" /\ UNCHANGED vars

Advance ==
  \/ Preflight \/ Prepare \/ StartIssue \/ StartComplete \/ RollBack
  \/ Collect \/ StopIssue \/ StopComplete \/ ReadStats \/ Close \/ Aggregate

Next == Advance \/ Cancel \/ Terminated

\* Every call returns: the timer of Collect bounds the only wait.
Safety == Init /\ [][Next]_vars
Spec == Safety /\ WF_vars(Advance)

-----------------------------------------------------------------------------
(* Properties.                                                             *)

\* However the collection ended, Stop, the rollback and Close together left no
\* link open and no object loaded, and a release that failed is in the report.
NothingLeaksSilently ==
  step = "done" =>
    /\ issueLink # "open" /\ completeLink # "open" /\ objects # "loaded"
    /\ issueLink = "failed" => "issue_link" \in report.cleanup_section
    /\ completeLink = "failed" => "complete_link" \in report.cleanup_section
    /\ objects = "failed" => "objects" \in report.cleanup_section

\* An available report was measured over a whole window and read completely,
\* and left neither hook nor object behind; no other report claims statistics.
AvailableIsComplete ==
  step = "done" =>
    (report.status = "available" <=>
      /\ stats = "full" /\ issueLink = "closed" /\ completeLink = "closed"
      /\ objects = "closed")

\* Hooks do not outlive the collection that attached them.
HooksAreDetached ==
  /\ (issueLink = "open") ~> (issueLink # "open")
  /\ (completeLink = "open") ~> (completeLink # "open")

-----------------------------------------------------------------------------
(* The inductive invariant, in parts.                                      *)

\* Which links are open is settled by the call that comes next.
LinksFollowStep ==
  /\ step \in {"preflight", "prepare", "attach_issue"} =>
       issueLink = "nil" /\ completeLink = "nil"
  /\ step \in {"attach_complete", "rollback"} => issueLink = "open" /\ completeLink = "nil"
  /\ step \in {"collect", "stop_issue"} => issueLink = "open" /\ completeLink = "open"
  /\ step = "stop_complete" => issueLink \in {"closed", "failed"} /\ completeLink = "open"
  /\ step = "read" => issueLink = "closed" /\ completeLink = "closed"
  /\ step \in {"close", "aggregate", "done"} =>
       issueLink # "open" /\ completeLink # "open" /\ (issueLink = "nil" => completeLink = "nil")

ObjectsFollowStep ==
  /\ step \in {"preflight", "prepare"} => objects = "none"
  /\ step \notin {"preflight", "prepare", "aggregate", "done"} => objects = "loaded"
  /\ step \in {"aggregate", "done"} => objects # "loaded"

\* Exactly the failed releases are joined to the error.
CleanupIsFailedRelease ==
  /\ "issue_link" \in cleanup <=> issueLink = "failed"
  /\ "complete_link" \in cleanup <=> completeLink = "failed"
  /\ "objects" \in cleanup <=> objects = "failed"

\* Statistics are read last, and only after both links were closed.
StatsAreFrozen ==
  stats # "unread" =>
    /\ step \in {"close", "aggregate", "done"}
    /\ issueLink = "closed" /\ completeLink = "closed"
    /\ (stats = "full") <=> (failure = "none")

\* Only a cancelled window is stopped with an error; a collection that stops
\* short of reading the statistics has a reason to.
FailureFollowsStep ==
  /\ step \in {"preflight", "prepare", "attach_issue", "attach_complete", "collect", "read"} =>
       failure = "none"
  /\ step = "rollback" => failure # "none"
  /\ step \in {"close", "aggregate", "done"} =>
       \/ failure # "none"
       \/ issueLink = "failed" \/ completeLink = "failed"
       \/ stats = "full"
  /\ (step \in {"aggregate", "done"} /\ failure = "none") => objects # "none"

ReportFollowsErrors ==
  step = "done" =>
    /\ report.status = "available" <=> (failure = "none" /\ cleanup = {})
    /\ report.cleanup_section = cleanup

\* The conjunction that every call keeps.
Inv ==
  /\ TypeOK
  /\ LinksFollowStep
  /\ ObjectsFollowStep
  /\ CleanupIsFailedRelease
  /\ StatsAreFrozen
  /\ FailureFollowsStep
  /\ ReportFollowsErrors

-----------------------------------------------------------------------------
(* The promise about the hooks that this component implements.             *)

hook(link) ==
  CASE link = "nil" -> "unattached"
    [] link = "open" -> "attached"
    [] link = "closed" -> "detached"
    [] link = "failed" -> "unknown"

Window == INSTANCE HookWindow WITH
  issueHook <- hook(issueLink),
  completeHook <- hook(completeLink),
  maps <- IF stats = "unread" THEN "unread" ELSE "read"

\* The session implements the observation window: one attach and one detach of
\* each hook, in order, and no read of a map that a program may still update.
ImplementsWindow == Window!WindowSpec

=============================================================================
