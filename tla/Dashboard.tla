------------------------------ MODULE Dashboard ------------------------------
(***************************************************************************)
(* The interactive monitor: the event loop of top.RunInteractive, the      *)
(* goroutine it starts for each collection (liveTopSource.Collect, with    *)
(* the status, host and eBPF latency goroutines Collect starts), and the   *)
(* goroutine of an embedded workflow.                                      *)
(*                                                                         *)
(* One action is one arm of the loop's select, or one step of a goroutine. *)
(* A blocking receive (finishCollection, finishWorkflow) is an action of   *)
(* its own, because every other goroutine runs while the loop is blocked.  *)
(* What the frames show is abstracted: rendering succeeds or fails.        *)
(***************************************************************************)
EXTENDS Naturals

CONSTANTS
  Collections,         \* identities of Collect calls; one is free again when
                       \* the call and every goroutine it started have ended
  NoCollection,        \* resultChannel = nil
  Application,         \* Options.Application (RunWorkflow is set with it)
  Iterations,          \* Options.Iterations, 0 for unbounded
  IncludeEBPFLatency,  \* Options.IncludeEBPFLatency
  UIRefresh            \* whether Options.UIRefresh > 0

ASSUME DashboardAssumption ==
  /\ NoCollection \notin Collections
  /\ Application \in BOOLEAN
  /\ Iterations \in Nat
  /\ IncludeEBPFLatency \in BOOLEAN
  /\ UIRefresh \in BOOLEAN

VARIABLES
  ctxDone,       \* the context of runTop was cancelled by a signal
  loop,          \* where the event loop stands
  joins,         \* what it still waits for: finishCollection, finishWorkflow
  outcome,       \* what RunInteractive returns
  inputOpen,     \* actions # nil
  panel,         \* state.panel
  viewed,        \* a view was built, so a frame is drawn even in plain mode
  iteration,     \* completed collections (counted only up to Iterations)
  timer,         \* timerChannel # nil
  resultChannel, \* the collection whose answer the loop waits for
  cancelled,     \* collections whose context was cancelled by the loop
  collector,     \* where each Collect call stands
  sampler,       \* its status and host goroutines
  latency,       \* its eBPF latency goroutine
  workflow,      \* the workflow goroutine; "none" iff workflowResultChannel = nil
  workflowCancelled,
  detail         \* state.workflowDetail and what became of saving it

loopVars == <<loop, joins, outcome>>
collectVars == <<resultChannel, cancelled, collector, sampler, latency>>
workflowVars == <<workflow, workflowCancelled, detail>>
vars == <<ctxDone, loopVars, inputOpen, panel, viewed, iteration, timer,
          collectVars, workflowVars>>

MonitorPanels ==
  {"overview", "details", "events"} \cup (IF Application THEN {"workflows"} ELSE {})
Output == "workflow_output"
Samplers == {"status", "host"}
Answers == {"snapshot", "error", "canceled"}  \* Collect returned: its result is
                                              \* in the buffered channel
SamplerStates == {"off", "running", "sent"}
LatencyStates == {"off", "running", "attached", "sent"}

-----------------------------------------------------------------------------
(* Goroutines of one collection.                                           *)

\* The collection context is a child of the loop's context.
Done(c) == ctxDone \/ c \in cancelled

\* Mutant: hostDone starts as false also without a host goroutine.
AwaitedWithoutNilHost(c) ==
  {s \in Samplers : sampler[<<c, s>>] # "off"}
    \cup (IF latency[c] # "off" THEN {"latency"} ELSE {}) \cup {"host"}

\* Results Collect has not received yet: its select has an arm for each.
Awaited(c) ==
  {s \in Samplers : sampler[<<c, s>>] # "off"}
    \cup (IF latency[c] # "off" THEN {"latency"} ELSE {})

\* Nothing of an earlier use of this identity runs any more.
Free(c) ==
  /\ collector[c] \in {"idle"} \cup Answers
  /\ \A s \in Samplers : sampler[<<c, s>>] # "running"
  /\ latency[c] \notin {"running", "attached"}

\* The context is checked and the inventory loaded before anything is started.
CollectFailsEarly(c) ==
  /\ collector[c] = "begin"
  /\ \E answer \in {"error", "canceled"} :
       /\ answer = "canceled" => Done(c)
       /\ collector' = [collector EXCEPT ![c] = answer]
  /\ UNCHANGED <<ctxDone, loopVars, inputOpen, panel, viewed, iteration, timer,
                 resultChannel, cancelled, sampler, latency, workflowVars>>

\* Host sampling needs valid options, eBPF a mapping of the VMs to cgroups.
CollectStarts(c) ==
  /\ collector[c] = "begin"
  /\ collector' = [collector EXCEPT ![c] = "select"]
  /\ \E host \in BOOLEAN, prepared \in BOOLEAN :
       /\ prepared => IncludeEBPFLatency
       /\ sampler' = [sampler EXCEPT ![<<c, "status">>] = "running",
                                     ![<<c, "host">>] = IF host THEN "running" ELSE "off"]
       /\ latency' = [latency EXCEPT ![c] = IF prepared THEN "running" ELSE "off"]
  /\ UNCHANGED <<ctxDone, loopVars, inputOpen, panel, viewed, iteration, timer,
                 resultChannel, cancelled, workflowVars>>

\* The samplers are given no context: they run for the whole window.
SamplerReports(c, s) ==
  /\ sampler[<<c, s>>] = "running"
  /\ sampler' = [sampler EXCEPT ![<<c, s>>] = "sent"]
  /\ UNCHANGED <<ctxDone, loopVars, inputOpen, panel, viewed, iteration, timer,
                 resultChannel, cancelled, collector, latency, workflowVars>>

LatencyAttaches(c) ==
  /\ latency[c] = "running"
  /\ latency' = [latency EXCEPT ![c] = "attached"]
  /\ UNCHANGED <<ctxDone, loopVars, inputOpen, panel, viewed, iteration, timer,
                 resultChannel, cancelled, collector, sampler, workflowVars>>

\* The report is sent after the links are detached, or when none was attached.
LatencyReports(c) ==
  /\ latency[c] \in {"running", "attached"}
  /\ latency' = [latency EXCEPT ![c] = "sent"]
  /\ UNCHANGED <<ctxDone, loopVars, inputOpen, panel, viewed, iteration, timer,
                 resultChannel, cancelled, collector, sampler, workflowVars>>

\* One arm of Collect's select; after the last one it returns the snapshot.
CollectReceives(c) ==
  /\ collector[c] = "select"
  /\ \/ \E s \in Samplers :
          /\ sampler[<<c, s>>] = "sent"
          /\ sampler' = [sampler EXCEPT ![<<c, s>>] = "off"]
          /\ collector' = [collector EXCEPT ![c] =
                             IF Awaited(c) = {s} THEN "snapshot" ELSE "select"]
          /\ UNCHANGED latency
     \/ /\ latency[c] = "sent"
        /\ latency' = [latency EXCEPT ![c] = "off"]
        /\ collector' = [collector EXCEPT ![c] =
                           IF Awaited(c) = {"latency"} THEN "snapshot" ELSE "select"]
        /\ UNCHANGED sampler
  /\ UNCHANGED <<ctxDone, loopVars, inputOpen, panel, viewed, iteration, timer,
                 resultChannel, cancelled, workflowVars>>

\* Mutant: a cancelled Collect does not wait for its eBPF goroutine.
CollectCancelsAtOnce(c) ==
  /\ collector[c] = "select"
  /\ Done(c)
  /\ collector' = [collector EXCEPT ![c] = "canceled"]
  /\ UNCHANGED <<ctxDone, loopVars, inputOpen, panel, viewed, iteration, timer,
                 resultChannel, cancelled, sampler, latency, workflowVars>>

\* The arm of a done context: only the eBPF goroutine is waited for.
CollectCancels(c) ==
  /\ collector[c] = "select"
  /\ Done(c)
  /\ collector' = [collector EXCEPT ![c] =
                     IF latency[c] # "off" THEN "join" ELSE "canceled"]
  /\ UNCHANGED <<ctxDone, loopVars, inputOpen, panel, viewed, iteration, timer,
                 resultChannel, cancelled, sampler, latency, workflowVars>>

CollectJoinsLatency(c) ==
  /\ collector[c] = "join"
  /\ latency[c] = "sent"
  /\ latency' = [latency EXCEPT ![c] = "off"]
  /\ collector' = [collector EXCEPT ![c] = "canceled"]
  /\ UNCHANGED <<ctxDone, loopVars, inputOpen, panel, viewed, iteration, timer,
                 resultChannel, cancelled, sampler, workflowVars>>

Collect(c) ==
  \/ CollectFailsEarly(c) \/ CollectStarts(c)
  \/ CollectReceives(c) \/ CollectCancels(c) \/ CollectJoinsLatency(c)

-----------------------------------------------------------------------------
(* The embedded workflow.  Most workflows ignore their context, and each   *)
(* may attach probes of its own any number of times before it returns.     *)

WorkflowAttaches ==
  /\ workflow = "running"
  /\ workflow' = "probing"
  /\ UNCHANGED <<ctxDone, loopVars, inputOpen, panel, viewed, iteration, timer,
                 collectVars, workflowCancelled, detail>>

WorkflowDetaches ==
  /\ workflow = "probing"
  /\ workflow' = "running"
  /\ UNCHANGED <<ctxDone, loopVars, inputOpen, panel, viewed, iteration, timer,
                 collectVars, workflowCancelled, detail>>

WorkflowReturns ==
  /\ workflow = "running"
  /\ workflow' = "returned"
  /\ UNCHANGED <<ctxDone, loopVars, inputOpen, panel, viewed, iteration, timer,
                 collectVars, workflowCancelled, detail>>

-----------------------------------------------------------------------------
(* Pieces of the event loop.                                               *)

\* startCollection: a fresh context, a fresh channel, a fresh goroutine.
startCollection(c) ==
  /\ Free(c)
  /\ resultChannel' = c
  /\ cancelled' = cancelled \ {c}
  /\ collector' = [x \in Collections |->
                     CASE x = c -> "begin"
                       [] x = resultChannel -> "idle"
                       [] OTHER -> collector[x]]
  /\ sampler' = [x \in Collections \X Samplers |->
                     IF x[1] = c THEN "off" ELSE sampler[x]]
  /\ latency' = [latency EXCEPT ![c] = "off"]

\* The answer is taken from the channel, which is then forgotten.
forgetCollection ==
  /\ resultChannel' = NoCollection
  /\ cancelled' = cancelled \ {resultChannel}
  /\ collector' = [x \in Collections |->
                     IF x = resultChannel THEN "idle" ELSE collector[x]]
  /\ UNCHANGED <<sampler, latency>>

\* A frame is drawn, and may fail, unless plain mode has nothing to show yet.
render(hasView) == {TRUE} \cup (IF Application \/ hasView THEN {FALSE} ELSE {})

Stay == UNCHANGED loopVars

\* The loop leaves: it still finishes `pending`, then returns `result`.
Leave(pending, result) ==
  /\ loop' = "leaving"
  /\ joins' = pending
  /\ outcome' = result

\* The step's last call is render; a failure leaves with an error.
StayOrFail(hasView, pending) ==
  \E ok \in render(hasView) : IF ok THEN Stay ELSE Leave(pending, "error")

\* Mutant: an off-by-one in the bound of the iterations.
LastIterationTooLate(count) == Iterations > 0 /\ count > Iterations

LastIteration(count) == Iterations > 0 /\ count >= Iterations

\* Mutant: the fields of the last workflow are kept.
keepOutput == UNCHANGED detail

\* The request, output, error and detail of the last workflow are cleared.
dropOutput == detail' = "none"

-----------------------------------------------------------------------------
(* The arms of the select.                                                 *)

\* Mutant: the workflow is not finished.
ContextDoneForgetsWorkflow ==
  /\ loop = "select"
  /\ ctxDone
  /\ Leave({"collection"}, "clean")
  /\ timer' = FALSE
  /\ UNCHANGED <<ctxDone, inputOpen, panel, viewed, iteration, collectVars, workflowVars>>

ContextDone ==
  /\ loop = "select"
  /\ ctxDone
  /\ Leave({"collection", "workflow"}, "clean")
  /\ timer' = FALSE
  /\ UNCHANGED <<ctxDone, inputOpen, panel, viewed, iteration, collectVars, workflowVars>>

InputCloses ==
  /\ loop = "select"
  /\ inputOpen
  /\ inputOpen' = FALSE
  /\ UNCHANGED <<ctxDone, loopVars, panel, viewed, iteration, timer,
                 collectVars, workflowVars>>

KeyQuit ==
  /\ loop = "select"
  /\ inputOpen
  /\ Leave({"collection", "workflow"}, "clean")
  /\ timer' = FALSE
  /\ UNCHANGED <<ctxDone, inputOpen, panel, viewed, iteration, collectVars, workflowVars>>

\* Scrolling and help while workflow output is shown.
KeyOnOutput ==
  /\ loop = "select"
  /\ inputOpen
  /\ panel = Output
  /\ StayOrFail(viewed, {"collection", "workflow"})
  /\ UNCHANGED <<ctxDone, inputOpen, panel, viewed, iteration, timer,
                 collectVars, workflowVars>>

\* Back from a finished workflow: its output is dropped, monitoring resumes.
KeyBackToMonitor ==
  /\ loop = "select"
  /\ inputOpen
  /\ panel = Output
  /\ workflow = "none"
  /\ panel' = "workflows"
  /\ dropOutput
  /\ IF resultChannel = NoCollection
     THEN \E c \in Collections : startCollection(c)
     ELSE UNCHANGED collectVars
  /\ StayOrFail(viewed, {"collection", "workflow"})
  /\ UNCHANGED <<ctxDone, inputOpen, viewed, iteration, timer,
                 workflow, workflowCancelled>>

KeySaveDetail ==
  /\ loop = "select"
  /\ inputOpen
  /\ panel = Output
  /\ workflow = "none"
  /\ detail # "none"
  /\ detail' \in {"saved", "save_error"}
  /\ StayOrFail(viewed, {"collection", "workflow"})
  /\ UNCHANGED <<ctxDone, inputOpen, panel, viewed, iteration, timer,
                 collectVars, workflow, workflowCancelled>>

\* Mutant: the timer stays armed.
KeyLaunchKeepsTimer ==
  /\ loop = "select"
  /\ inputOpen
  /\ panel = "workflows"
  /\ loop' = "launching"
  /\ joins' = {"collection"}
  /\ UNCHANGED <<ctxDone, outcome, inputOpen, panel, viewed, iteration, timer,
                 collectVars, workflowVars>>

\* Enter on an available workflow: first the live collection is finished.
KeyLaunch ==
  /\ loop = "select"
  /\ inputOpen
  /\ panel = "workflows"
  /\ timer' = FALSE
  /\ loop' = "launching"
  /\ joins' = {"collection"}
  /\ UNCHANGED <<ctxDone, outcome, inputOpen, panel, viewed, iteration,
                 collectVars, workflowVars>>

\* Every other key outside the output panel: selection, sorting, panels.
KeyOnMonitor ==
  /\ loop = "select"
  /\ inputOpen
  /\ panel # Output
  /\ panel' \in MonitorPanels
  /\ StayOrFail(viewed, {"collection"})
  /\ UNCHANGED <<ctxDone, inputOpen, viewed, iteration, timer, collectVars, workflowVars>>

\* Mutant: a refresh also starts a collection while one is in flight.
KeyRefreshInFlight ==
  /\ loop = "select"
  /\ inputOpen
  /\ panel # Output
  /\ timer' = FALSE
  /\ \E c \in Collections : startCollection(c)
  /\ StayOrFail(viewed, {"collection"})
  /\ UNCHANGED <<ctxDone, inputOpen, panel, viewed, iteration, workflowVars>>

\* A refresh is ignored while a collection is in flight.
KeyRefresh ==
  /\ loop = "select"
  /\ inputOpen
  /\ panel # Output
  /\ resultChannel = NoCollection
  /\ timer' = FALSE
  /\ \E c \in Collections : startCollection(c)
  /\ StayOrFail(viewed, {"collection"})
  /\ UNCHANGED <<ctxDone, inputOpen, panel, viewed, iteration, workflowVars>>

\* The collection failed: a cancelled one ends the application cleanly.
ReceiveFailure ==
  /\ loop = "select"
  /\ resultChannel # NoCollection
  /\ collector[resultChannel] \in {"error", "canceled"}
  /\ forgetCollection
  /\ Leave({}, IF ctxDone \/ collector[resultChannel] = "canceled"
               THEN "clean" ELSE "error")
  /\ UNCHANGED <<ctxDone, inputOpen, panel, viewed, iteration, timer, workflowVars>>

\* A snapshot: the last one ends a bounded run; otherwise the next collection
\* starts at once when the window overran Every, or the timer is armed.  Building
\* the view and drawing it may fail; then the loop leaves with an error.
ReceiveSnapshot ==
  /\ loop = "select"
  /\ resultChannel # NoCollection
  /\ collector[resultChannel] = "snapshot"
  /\ viewed' = TRUE
  /\ iteration' = IF Iterations = 0 THEN 0 ELSE iteration + 1
  /\ \/ /\ LastIteration(iteration')
        /\ forgetCollection
        /\ \E result \in {"clean", "error"} : Leave({}, result)
        /\ UNCHANGED timer
     \/ /\ ~ LastIteration(iteration')
        /\ \E c \in Collections : startCollection(c)
        /\ StayOrFail(TRUE, {"collection"})
        /\ UNCHANGED timer
     \/ /\ ~ LastIteration(iteration')
        /\ forgetCollection
        /\ \/ Stay /\ timer' = TRUE
           \/ Leave({}, "error") /\ UNCHANGED timer
  /\ UNCHANGED <<ctxDone, inputOpen, panel, workflowVars>>

ReceiveWorkflowResult ==
  /\ loop = "select"
  /\ workflow = "returned"
  /\ workflow' = "none"
  /\ workflowCancelled' = FALSE
  /\ detail' \in {"none", "offered"}
  /\ StayOrFail(viewed, {})
  /\ UNCHANGED <<ctxDone, inputOpen, panel, viewed, iteration, timer, collectVars>>

TimerFires ==
  /\ loop = "select"
  /\ timer
  /\ timer' = FALSE
  /\ \E c \in Collections : startCollection(c)
  /\ StayOrFail(viewed, {"collection"})
  /\ UNCHANGED <<ctxDone, inputOpen, panel, viewed, iteration, workflowVars>>

\* A failed tick finishes the collection but not the workflow.
UITick ==
  /\ loop = "select"
  /\ UIRefresh
  /\ StayOrFail(viewed, {"collection"})
  /\ UNCHANGED <<ctxDone, inputOpen, panel, viewed, iteration, timer,
                 collectVars, workflowVars>>

-----------------------------------------------------------------------------
(* The blocking calls, in the order of the code: finishCollection, then    *)
(* finishWorkflow, then the return or the launch.                          *)

Blocked == loop \in {"leaving", "launching"}

CancelCollection ==
  /\ Blocked
  /\ "collection" \in joins
  /\ resultChannel # NoCollection
  /\ resultChannel \notin cancelled
  /\ cancelled' = cancelled \cup {resultChannel}
  /\ UNCHANGED <<ctxDone, loopVars, inputOpen, panel, viewed, iteration, timer,
                 resultChannel, collector, sampler, latency, workflowVars>>

\* Mutant: the collection is cancelled but not waited for.
JoinCollectionAtOnce ==
  /\ Blocked
  /\ "collection" \in joins
  /\ joins' = joins \ {"collection"}
  /\ \/ resultChannel = NoCollection /\ UNCHANGED collectVars
     \/ resultChannel \in cancelled /\ forgetCollection
  /\ UNCHANGED <<ctxDone, loop, outcome, inputOpen, panel, viewed, iteration, timer,
                 workflowVars>>

\* Whatever the collector answers is thrown away.
JoinCollection ==
  /\ Blocked
  /\ "collection" \in joins
  /\ joins' = joins \ {"collection"}
  /\ \/ resultChannel = NoCollection /\ UNCHANGED collectVars
     \/ /\ resultChannel \in cancelled
        /\ collector[resultChannel] \in Answers
        /\ forgetCollection
  /\ UNCHANGED <<ctxDone, loop, outcome, inputOpen, panel, viewed, iteration, timer,
                 workflowVars>>

CancelWorkflow ==
  /\ Blocked
  /\ joins = {"workflow"}
  /\ workflow # "none"
  /\ ~workflowCancelled
  /\ workflowCancelled' = TRUE
  /\ UNCHANGED <<ctxDone, loopVars, inputOpen, panel, viewed, iteration, timer,
                 collectVars, workflow, detail>>

\* Mutant: the loop receives from a nil workflow channel.
JoinWorkflowFromNil ==
  /\ Blocked
  /\ joins = {"workflow"}
  /\ joins' = {}
  /\ workflowCancelled
  /\ workflow = "returned"
  /\ workflow' = "none"
  /\ workflowCancelled' = FALSE
  /\ UNCHANGED <<ctxDone, loop, outcome, inputOpen, panel, viewed, iteration, timer,
                 collectVars, detail>>

JoinWorkflow ==
  /\ Blocked
  /\ joins = {"workflow"}
  /\ joins' = {}
  /\ \/ workflow = "none" /\ UNCHANGED <<workflow, workflowCancelled>>
     \/ /\ workflowCancelled
        /\ workflow = "returned"
        /\ workflow' = "none"
        /\ workflowCancelled' = FALSE
  /\ UNCHANGED <<ctxDone, loop, outcome, inputOpen, panel, viewed, iteration, timer,
                 collectVars, detail>>

LaunchWorkflow ==
  /\ loop = "launching"
  /\ joins = {}
  /\ panel' = Output
  /\ workflow' = "running"
  /\ workflowCancelled' = FALSE
  /\ dropOutput
  /\ \E ok \in render(viewed) :
       IF ok THEN loop' = "select" /\ UNCHANGED <<joins, outcome>>
             ELSE Leave({"workflow"}, "error")
  /\ UNCHANGED <<ctxDone, inputOpen, viewed, iteration, timer, collectVars>>

Return ==
  /\ loop = "leaving"
  /\ joins = {}
  /\ loop' = "returned"
  /\ UNCHANGED <<ctxDone, joins, outcome, inputOpen, panel, viewed, iteration, timer,
                 collectVars, workflowVars>>

-----------------------------------------------------------------------------

\* The process receives SIGINT or SIGTERM.
Signal ==
  /\ ~ctxDone
  /\ loop # "returned"
  /\ ctxDone' = TRUE
  /\ UNCHANGED <<loopVars, inputOpen, panel, viewed, iteration, timer,
                 collectVars, workflowVars>>

\* RunInteractive has returned and every goroutine has ended.
Terminated ==
  /\ loop = "returned"
  /\ \A c \in Collections : Free(c)
  /\ workflow \in {"none", "returned"}
  /\ UNCHANGED vars

\* The first collection is started before the first frame is drawn; a failed
\* first frame of the application leaves at once.
Init ==
  /\ ctxDone = FALSE
  /\ \/ loop = "select" /\ joins = {} /\ outcome = "none"
     \/ Application /\ loop = "leaving" /\ joins = {"collection"} /\ outcome = "error"
  /\ inputOpen = TRUE
  /\ panel = "overview"
  /\ viewed = FALSE
  /\ iteration = 0
  /\ timer = FALSE
  /\ resultChannel \in Collections
  /\ cancelled = {}
  /\ collector = [c \in Collections |-> IF c = resultChannel THEN "begin" ELSE "idle"]
  /\ sampler = [x \in Collections \X Samplers |-> "off"]
  /\ latency = [c \in Collections |-> "off"]
  /\ workflow = "none"
  /\ workflowCancelled = FALSE
  /\ detail = "none"

Key ==
  \/ KeyQuit \/ KeyOnOutput \/ KeyBackToMonitor \/ KeySaveDetail
  \/ KeyLaunch \/ KeyOnMonitor \/ KeyRefresh \/ InputCloses

Receive == ReceiveFailure \/ ReceiveSnapshot \/ ReceiveWorkflowResult

Join ==
  \/ CancelCollection \/ JoinCollection \/ CancelWorkflow \/ JoinWorkflow
  \/ LaunchWorkflow \/ Return

Goroutine ==
  \/ \E c \in Collections :
       \/ Collect(c) \/ LatencyAttaches(c) \/ LatencyReports(c)
       \/ \E s \in Samplers : SamplerReports(c, s)
  \/ WorkflowAttaches \/ WorkflowDetaches \/ WorkflowReturns

Next ==
  \/ Signal \/ ContextDone \/ Key \/ Receive \/ TimerFires \/ UITick
  \/ Join \/ Goroutine \/ Terminated

\* Every goroutine is scheduled; measurements and workflows are bounded, so
\* they end.  The select picks at random among its ready arms, so an arm that
\* is ready again and again is taken.
Fairness ==
  /\ WF_vars(Join)
  /\ SF_vars(ContextDone)
  /\ SF_vars(Receive)
  /\ SF_vars(TimerFires)
  /\ \A c \in Collections :
       /\ WF_vars(Collect(c))
       /\ WF_vars(LatencyReports(c))
       /\ \A s \in Samplers : WF_vars(SamplerReports(c, s))
  /\ WF_vars(WorkflowDetaches)
  /\ SF_vars(WorkflowReturns)

Safety == Init /\ [][Next]_vars
Spec == Safety /\ Fairness

-----------------------------------------------------------------------------
(* Properties.                                                             *)

\* Every variable stays in its type; iteration never passes Iterations.
TypeOK ==
  /\ ctxDone \in BOOLEAN
  /\ loop \in {"select", "leaving", "launching", "returned"}
  /\ joins \subseteq {"collection", "workflow"}
  /\ outcome \in {"none", "clean", "error"}
  /\ inputOpen \in BOOLEAN
  /\ panel \in MonitorPanels \cup {Output}
  /\ viewed \in BOOLEAN
  /\ iteration \in 0 .. Iterations
  /\ timer \in BOOLEAN
  /\ resultChannel \in Collections \cup {NoCollection}
  /\ cancelled \subseteq Collections
  /\ collector \in [Collections -> {"idle", "begin", "select", "join"} \cup Answers]
  /\ sampler \in [Collections \X Samplers -> SamplerStates]
  /\ latency \in [Collections -> LatencyStates]
  /\ workflow \in {"none", "running", "probing", "returned"}
  /\ workflowCancelled \in BOOLEAN
  /\ detail \in {"none", "offered", "saved", "save_error"}

\* Whenever the loop waits in its select, exactly one thing will move it on by
\* itself: a collection in flight, the armed timer, or (while the timer and the
\* collection rest) the workflow panel.  So monitoring neither stalls nor runs
\* two collections at once, whatever keys, ticks and answers interleave.
OneActivity ==
  loop = "select" =>
    /\ (panel = Output) => (resultChannel = NoCollection /\ ~timer)
    /\ (panel # Output) => (resultChannel # NoCollection <=> ~timer)

\* While a workflow goroutine exists, no eBPF goroutine of the live collector
\* is loading or attached (README.md:195): the two never measure at once.
ProbeExclusion ==
  workflow # "none" =>
    \A c \in Collections : latency[c] \notin {"running", "attached"}

\* When RunInteractive has returned, no Collect call and no live eBPF link is
\* left; a workflow is left running only by a return with an error.
NothingLeftBehind ==
  loop = "returned" =>
    /\ \A c \in Collections : collector[c] = "idle" /\ latency[c] \notin {"running", "attached"}
    /\ outcome = "clean" => workflow = "none"

\* The detail that `s` would save is the one of the workflow on screen: none
\* survives the launch of another workflow or the way back to the monitor.
DetailIsCurrent ==
  detail # "none" => (panel = Output /\ workflow = "none")

\* A bounded run has left its select once the last iteration was shown.
StopsAfterIterations ==
  (Iterations > 0 /\ iteration = Iterations) => loop \in {"leaving", "returned"}

\* A signal ends the application, also while a workflow runs or is launched.
SignalEndsTheLoop == ctxDone ~> (loop = "returned")

\* finishCollection and finishWorkflow never block for good.
JoinsEnd == Blocked ~> ~Blocked

\* Every Collect call that started its samplers returns, and its answer leaves
\* the channel: it is shown, or thrown away by a loop that finishes it.
CollectionsAreAnswered ==
  \A c \in Collections :
    (collector[c] \in {"select", "join"} \cup Answers) ~> (collector[c] \in {"idle", "begin"})

-----------------------------------------------------------------------------
(* The inductive invariant, in parts.                                      *)

\* Nothing is joined while the loop waits in its select or has returned.
JoinsOnlyWhenBlocked == loop \in {"select", "returned"} => joins = {}

\* The output panel excludes collection and timer; a workflow excludes every
\* other panel, and the detail of an earlier one.
OutputExcludesMonitor ==
  /\ panel = Output => (Application /\ resultChannel = NoCollection /\ ~timer)
  /\ workflow # "none" => panel = Output
  /\ DetailIsCurrent

\* Only the collection whose answer the loop awaits runs, and only while it
\* runs does it have an eBPF goroutine.
OnlyAwaitedRuns ==
  \A c \in Collections :
    /\ collector[c] # "idle" => resultChannel = c
    /\ latency[c] # "off" => collector[c] \in {"select", "join"}

\* A workflow is launched from its panel, after the collection was finished.
LaunchIsReady ==
  loop = "launching" =>
    /\ panel = "workflows" /\ workflow = "none" /\ ~timer
    /\ joins \subseteq {"collection"}
    /\ joins = {} => resultChannel = NoCollection

\* A loop that leaves without finishing a goroutine has none of that kind,
\* except for the workflow that a failed screen leaves behind.
LeavingIsComplete ==
  loop \in {"leaving", "returned"} =>
    /\ "collection" \notin joins => resultChannel = NoCollection
    /\ (outcome = "clean" /\ "workflow" \notin joins) => workflow = "none"

\* The conjunction that every step of the loop and of its goroutines keeps.
Inv ==
  /\ TypeOK
  /\ JoinsOnlyWhenBlocked
  /\ OneActivity
  /\ OutputExcludesMonitor
  /\ OnlyAwaitedRuns
  /\ LaunchIsReady
  /\ LeavingIsComplete
  /\ StopsAfterIterations

-----------------------------------------------------------------------------
(* The promise about the probes that this component implements.            *)

Attached == \E c \in Collections : latency[c] = "attached"

Promise == INSTANCE Monitor WITH
  mode <- IF loop = "returned"
          THEN IF workflow = "none" THEN "stopped" ELSE "abandoned"
          ELSE IF workflow # "none" THEN "working"
          ELSE IF panel = Output THEN "reviewing" ELSE "monitoring",
  probes <- IF Attached THEN "collector"
            ELSE IF workflow = "probing" THEN "workflow" ELSE "none"

\* The loop, the collectors and the workflow together implement Monitor: the
\* probes change hands only after they were detached.
ProbesChangeHandsDetached == Promise!Spec

\* "Solis pauses the live collector ... before an embedded workflow starts"
\* (README.md:195): no goroutine of a live collection samples meanwhile.
LiveCollectorPaused ==
  workflow \in {"running", "probing"} =>
    \A c \in Collections, s \in Samplers : sampler[<<c, s>>] # "running"

=============================================================================
