------------------------------- MODULE Session -------------------------------
(***************************************************************************)
(* One run of the program with what happens in two of its stages: the      *)
(* dashboard that top opens on a terminal, as module DashboardView has it, *)
(* and the collectors of ebpf block-latency and ebpf block-count, as       *)
(* module LegacyTracing has them.                                          *)
(***************************************************************************)
EXTENDS Commands, DashboardView, LegacyTracing

CONSTANT Explored   \* bound of this model: the command lines whose stages are looked into

ASSUME SessionAssumption == Explored \subseteq CommandLines

sessionVars == <<vars, screen, tracing>>

-----------------------------------------------------------------------------
Stage == IF phase = "run" /\ todo # <<>> /\ given \in Explored THEN Head(todo) ELSE "none"
Watching == Stage = "loop" /\ "raw" \in terminal
Probing == Stage = "probe" /\ command.name \in {<<"ebpf", "block-latency">>, <<"ebpf", "block-count">>}

Sort(r) == IF Text(r, "--sort") = "" THEN "pressure" ELSE Text(r, "--sort")

SessionInit == Init /\ ViewInit /\ TracingInit

\* The screen and the collector of a stage last as long as the stage.
Starts == Run /\ Opens(Sort(command'.options), "--application" \in command'.options.on) /\ UNCHANGED tracing
Left ==
  /\ IF Watching THEN Opens("name", FALSE) ELSE UNCHANGED screen
  /\ IF Probing THEN Forget ELSE UNCHANGED tracing
Performs == Perform /\ (Probing => step = "returned" /\ ~failure) /\ Left
Fails == Fail /\ (Probing => step = "returned" /\ failure) /\ Left
Ends == ((\E works \in BOOLEAN : Undo(works)) \/ End \/ Ended) /\ UNCHANGED <<screen, tracing>>

Shows ==
  /\ Watching
  /\ \/ KeyPressed
     \/ \E world \in Worlds : Received(world, EBPF(command.options))
  /\ UNCHANGED <<vars, tracing>>

Traces ==
  /\ Probing
  /\ \/ Begin(IF command.name[2] = "block-latency" THEN "latency" ELSE "count")
     \/ TracingNext
  /\ UNCHANGED <<vars, screen>>

SessionNext == Starts \/ Performs \/ Fails \/ Ends \/ Shows \/ Traces

SessionSpec == SessionInit /\ [][SessionNext]_sessionVars
-----------------------------------------------------------------------------
\* A collector works during its stage only.
CollectorIsOfItsStage == step # "idle" => Probing

\* What was switched on will be switched off, or was given up with an error.
TerminalIsDeferred ==
  /\ phase = "start" => terminal = {}
  /\ failed \/ /\ "raw" \in terminal => \E i \in DOMAIN deferred : deferred[i] = "cook"
               /\ "screen" \in terminal => \E i \in DOMAIN deferred : deferred[i] = "unscreen"

Undoings == {"cook", "unscreen", "close", "summary"}

\* The inductive invariant of a run.
SessionInv ==
  /\ phase \in {"start", "run", "ended"} /\ failed \in BOOLEAN
  /\ terminal \subseteq {"raw", "screen"} /\ deferred \in Seq(Undoings)
  /\ TracingInv
  /\ CollectorIsOfItsStage
  /\ TerminalIsDeferred
  /\ phase = "ended" => deferred = <<>> \/ failed \/ terminal = {}

\* A process leaves nothing behind: whichever step of an acquisition fails,
\* its descriptors are closed and its programs detached, and the terminal is
\* as it was before, unless an undo failed, which is reported.
ProcessLeavesClean ==
  phase = "ended" => open = {} /\ attached = {} /\ (terminal # {} => failed)

\* The newest event about a subject of some kinds, if it is still listed.
NewestEvents(kinds, subject) ==
  {events[i] : i \in {j \in DOMAIN events : /\ events[j].kind \in kinds /\ events[j].subject = subject
                                            /\ \A l \in (j + 1)..Len(events) :
                                                 events[l].kind \notin kinds \/ events[l].subject # subject}}

\* The events end in what the screen shows.  Following the list, an operator
\* who knows nothing else ends up with the VMs on the screen, with their state
\* and pressure, with the state of the attribution and with the dominant VM,
\* whatever the bounded list has dropped, and whether a VM went and came back
\* or a collection failed in part.
VisibleEndsInTheView(name) ==
  \A e \in NewestEvents({"visible", "invisible"}, name) : (e.kind = "visible") = (name \in DOMAIN view.rows)

StateEndsInTheView(name) ==
  \A e \in NewestEvents({"state", "visible", "invisible"}, name) :
    e.kind = "state" => name \in DOMAIN view.rows /\ e.to = safeVMState(view.rows[name].state)

PressureEndsInTheView(name) ==
  \A e \in NewestEvents({"pressure", "state", "visible", "invisible"}, name) :
    e.kind = "pressure" => name \in DOMAIN view.rows /\ e.to = safeEventState(view.rows[name].pressure)

DominantEvents == {i \in DOMAIN events : events[i].kind = "dominant"}

EventsEndInTheView ==
  tracker.initialized =>
    /\ \A name \in DOMAIN Disk : VisibleEndsInTheView(name) /\ StateEndsInTheView(name) /\ PressureEndsInTheView(name)
    /\ NewestEvents({"attribution"}, "eBPF") \subseteq {AttributionEvent(view.attribution)}
    /\ \A dominant \in {dominantAttributedVM(view.rows, view.attribution)} \ {Nobody} :
         \A i \in DominantEvents : (\A j \in DominantEvents : j <= i) => events[i].subject = dominant

\* Every workflow that the dashboard offers for a VM is accepted by its
\* parser, is about that VM, and ends by itself: it is no loop without a
\* limit.  The fairness of Dashboard rests on this.
LaunchIsBounded(workflow, vm, root) ==
  \A launched \in {topLaunchArgs(workflow, vm, root)} : \A r \in {Parse(launched.args)} :
    /\ launched.ok /\ r.ok
    /\ workflow \in VMWorkflows => Text(r, "--victim") = vm
    /\ "loop" \in ToSet(runStages(Name(launched.args), r)) => Given(r, "--iterations", 0) > 0

Roots == {OutputRoot} \cup {Files[path].settings.root : path \in DOMAIN Files}
BoundedFor ==
  [vm \in DOMAIN Disk |->
     \A workflow \in VMWorkflows \cup HostWorkflows : \A root \in Roots \ {""} : LaunchIsBounded(workflow, vm, root)]

\* The selection stays on a VM that is on the screen, whatever the order of
\* the rows, the keys and the collections, so that a workflow can be launched
\* for it, and is about it and bounded.
LaunchesAreBounded ==
  view.order # <<>> => state.selected \in DOMAIN view.rows /\ BoundedFor[state.selected]
=============================================================================
