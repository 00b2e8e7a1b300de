-------------------------- MODULE DashboardProofs --------------------------
(***************************************************************************)
(* For every set of collection identities and every choice of the options: *)
(* Inv is an inductive invariant of Dashboard, the safety properties       *)
(* follow from it, and Dashboard implements Monitor.                       *)
(***************************************************************************)
EXTENDS Dashboard, TLAPS

USE DashboardAssumption

LEMMA InitInv == Init => Inv
<1> SUFFICES ASSUME Init PROVE Inv
  OBVIOUS
<1> USE DEF Init
<1>1. TypeOK
  <2>1. sampler \in [Collections \X Samplers -> SamplerStates]
    BY DEF SamplerStates
  <2>2. latency \in [Collections -> LatencyStates]
    BY DEF LatencyStates
  <2>3. collector \in [Collections -> {"idle", "begin", "select", "join"} \cup Answers]
    OBVIOUS
  <2>4. panel \in MonitorPanels \cup {Output} /\ iteration \in 0 .. Iterations
    BY DEF MonitorPanels
  <2> QED BY <2>1, <2>2, <2>3, <2>4 DEF TypeOK
<1>2. JoinsOnlyWhenBlocked /\ OneActivity /\ OutputExcludesMonitor
  BY DEF JoinsOnlyWhenBlocked, OneActivity, OutputExcludesMonitor, DetailIsCurrent, Output
<1>3. OnlyAwaitedRuns
  BY DEF OnlyAwaitedRuns
<1>4. LaunchIsReady /\ LeavingIsComplete /\ StopsAfterIterations
  BY DEF LaunchIsReady, LeavingIsComplete, StopsAfterIterations
<1> QED BY <1>1, <1>2, <1>3, <1>4 DEF Inv

\* A new collection keeps the types and is the only one that runs, provided
\* the loop awaits no other collection or has just taken its answer.
LEMMA StartIsAlone ==
  ASSUME TypeOK, OnlyAwaitedRuns,
         NEW c \in Collections, startCollection(c),
         resultChannel # NoCollection => collector[resultChannel] \in Answers
  PROVE  /\ resultChannel' \in Collections
         /\ cancelled' \subseteq Collections
         /\ collector' \in [Collections -> {"idle", "begin", "select", "join"} \cup Answers]
         /\ sampler' \in [Collections \X Samplers -> SamplerStates]
         /\ latency' \in [Collections -> LatencyStates]
         /\ OnlyAwaitedRuns'
         /\ Attached' = Attached
<1>1. sampler' \in [Collections \X Samplers -> SamplerStates]
  BY DEF startCollection, TypeOK, SamplerStates
<1>2. collector' \in [Collections -> {"idle", "begin", "select", "join"} \cup Answers]
  BY DEF startCollection, TypeOK
<1>3. OnlyAwaitedRuns'
  <2> SUFFICES ASSUME NEW x \in Collections
               PROVE  /\ collector'[x] # "idle" => resultChannel' = x
                      /\ latency'[x] # "off" => collector'[x] \in {"select", "join"}
    BY DEF OnlyAwaitedRuns
  <2>1. CASE x = c
    BY <2>1 DEF startCollection, TypeOK, LatencyStates
  <2>2. CASE x # c
    <3>1. collector'[x] = "idle"
      BY <2>2 DEF startCollection, OnlyAwaitedRuns
    <3>2. latency'[x] = latency[x] /\ latency[x] = "off"
      BY <2>2 DEF startCollection, OnlyAwaitedRuns, TypeOK, Answers
    <3> QED BY <3>1, <3>2
  <2> QED BY <2>1, <2>2
<1>4. Attached' = Attached
  BY DEF Attached, startCollection, Free, TypeOK
<1> QED BY <1>1, <1>2, <1>3, <1>4 DEF startCollection, TypeOK, LatencyStates

\* Forgetting an answered collection leaves none running.
LEMMA ForgetLeavesNone ==
  ASSUME TypeOK, OnlyAwaitedRuns, forgetCollection,
         resultChannel \in Collections, collector[resultChannel] \in Answers
  PROVE  /\ resultChannel' = NoCollection
         /\ cancelled' \subseteq Collections
         /\ collector' \in [Collections -> {"idle", "begin", "select", "join"} \cup Answers]
         /\ OnlyAwaitedRuns'
         /\ UNCHANGED <<sampler, latency>>
<1>1. \A x \in Collections : collector'[x] = "idle"
  BY DEF forgetCollection, OnlyAwaitedRuns
<1>2. \A x \in Collections : latency[x] = "off"
  BY DEF OnlyAwaitedRuns, Answers
<1> QED BY <1>1, <1>2 DEF forgetCollection, TypeOK, OnlyAwaitedRuns


LEMMA StepInv == Inv /\ [Next]_vars => Inv'
<1> SUFFICES ASSUME Inv, [Next]_vars PROVE Inv'
  OBVIOUS
<1> USE DEF Inv, TypeOK, JoinsOnlyWhenBlocked, OneActivity, OutputExcludesMonitor,
            DetailIsCurrent, LaunchIsReady, LeavingIsComplete, StopsAfterIterations,
            Output, MonitorPanels, loopVars, collectVars, workflowVars, dropOutput, LastIteration
<1>1. ASSUME NEW c \in Collections, CollectFailsEarly(c) PROVE Inv'
  BY <1>1 DEF CollectFailsEarly, OnlyAwaitedRuns, Answers, LatencyStates, SamplerStates, Awaited, Samplers
<1>2. ASSUME NEW c \in Collections, CollectStarts(c) PROVE Inv'
  BY <1>2 DEF CollectStarts, OnlyAwaitedRuns, Answers, LatencyStates, SamplerStates, Awaited, Samplers
<1>3. ASSUME NEW c \in Collections, NEW s \in Samplers, SamplerReports(c, s) PROVE Inv'
  BY <1>3 DEF SamplerReports, OnlyAwaitedRuns, Answers, LatencyStates, SamplerStates, Awaited, Samplers
<1>4. ASSUME NEW c \in Collections, LatencyAttaches(c) PROVE Inv'
  BY <1>4 DEF LatencyAttaches, OnlyAwaitedRuns, Answers, LatencyStates, SamplerStates, Awaited, Samplers
<1>5. ASSUME NEW c \in Collections, LatencyReports(c) PROVE Inv'
  BY <1>5 DEF LatencyReports, OnlyAwaitedRuns, Answers, LatencyStates, SamplerStates, Awaited, Samplers
<1>6. ASSUME NEW c \in Collections, CollectReceives(c) PROVE Inv'
  <2> USE <1>6 DEF CollectReceives
  <2>1. CASE \E s \in Samplers :
               /\ sampler[<<c, s>>] = "sent"
               /\ sampler' = [sampler EXCEPT ![<<c, s>>] = "off"]
               /\ collector' = [collector EXCEPT ![c] =
                                  IF Awaited(c) = {s} THEN "snapshot" ELSE "select"]
               /\ UNCHANGED latency
    <3>1. PICK s \in Samplers :
               /\ sampler' = [sampler EXCEPT ![<<c, s>>] = "off"]
               /\ collector' = [collector EXCEPT ![c] =
                                  IF Awaited(c) = {s} THEN "snapshot" ELSE "select"]
               /\ UNCHANGED latency
      BY <2>1
    <3>2. s # "latency"
      BY DEF Samplers
    <3>3. Awaited(c) = {s} => latency[c] = "off"
      BY <3>2 DEF Awaited
    <3>4. OnlyAwaitedRuns'
      BY <3>1, <3>3 DEF OnlyAwaitedRuns
    <3> QED BY <3>1, <3>4 DEF SamplerStates, Answers
  <2>2. CASE /\ latency' = [latency EXCEPT ![c] = "off"]
             /\ collector' = [collector EXCEPT ![c] =
                                IF Awaited(c) = {"latency"} THEN "snapshot" ELSE "select"]
             /\ UNCHANGED sampler
    <3>1. OnlyAwaitedRuns'
      BY <2>2 DEF OnlyAwaitedRuns
    <3> QED BY <2>2, <3>1 DEF LatencyStates, Answers
  <2> QED BY <2>1, <2>2
<1>7. ASSUME NEW c \in Collections, CollectCancels(c) PROVE Inv'
  BY <1>7 DEF CollectCancels, OnlyAwaitedRuns, Answers, LatencyStates, SamplerStates, Awaited, Samplers
<1>8. ASSUME NEW c \in Collections, CollectJoinsLatency(c) PROVE Inv'
  BY <1>8 DEF CollectJoinsLatency, OnlyAwaitedRuns, Answers, LatencyStates, SamplerStates, Awaited, Samplers
<1>9. CASE WorkflowAttaches
  BY <1>9 DEF WorkflowAttaches, Leave, StayOrFail, Stay, render, Blocked, OnlyAwaitedRuns
<1>10. CASE WorkflowDetaches
  BY <1>10 DEF WorkflowDetaches, Leave, StayOrFail, Stay, render, Blocked, OnlyAwaitedRuns
<1>11. CASE WorkflowReturns
  BY <1>11 DEF WorkflowReturns, Leave, StayOrFail, Stay, render, Blocked, OnlyAwaitedRuns
<1>12. CASE ContextDone
  BY <1>12 DEF ContextDone, Leave, StayOrFail, Stay, render, Blocked, OnlyAwaitedRuns
<1>13. CASE InputCloses
  BY <1>13 DEF InputCloses, Leave, StayOrFail, Stay, render, Blocked, OnlyAwaitedRuns
<1>14. CASE KeyQuit
  BY <1>14 DEF KeyQuit, Leave, StayOrFail, Stay, render, Blocked, OnlyAwaitedRuns
<1>15. CASE KeyOnOutput
  BY <1>15 DEF KeyOnOutput, Leave, StayOrFail, Stay, render, Blocked, OnlyAwaitedRuns
<1>16. CASE KeyBackToMonitor
  <2>1. resultChannel = NoCollection
    BY <1>16 DEF KeyBackToMonitor
  <2>2. PICK c \in Collections : startCollection(c)
    BY <2>1, <1>16 DEF KeyBackToMonitor
  <2>3. /\ resultChannel' \in Collections
        /\ cancelled' \subseteq Collections
        /\ collector' \in [Collections -> {"idle", "begin", "select", "join"} \cup Answers]
        /\ sampler' \in [Collections \X Samplers -> SamplerStates]
        /\ latency' \in [Collections -> LatencyStates]
        /\ OnlyAwaitedRuns'
    BY <2>1, <2>2, StartIsAlone
  <2>4. CASE Stay
    BY <2>3, <2>4, <1>16 DEF KeyBackToMonitor, Stay
  <2>5. CASE Leave({"collection", "workflow"}, "error")
    BY <2>3, <2>5, <1>16 DEF KeyBackToMonitor, Leave
  <2> QED BY <2>4, <2>5, <1>16 DEF KeyBackToMonitor, StayOrFail
<1>17. CASE KeySaveDetail
  BY <1>17 DEF KeySaveDetail, Leave, StayOrFail, Stay, render, Blocked, OnlyAwaitedRuns
<1>18. CASE KeyLaunch
  BY <1>18 DEF KeyLaunch, Leave, StayOrFail, Stay, render, Blocked, OnlyAwaitedRuns
<1>19. CASE KeyOnMonitor
  BY <1>19 DEF KeyOnMonitor, Leave, StayOrFail, Stay, render, Blocked, OnlyAwaitedRuns
<1>20. CASE KeyRefresh
  BY <1>20, StartIsAlone, ForgetLeavesNone DEF KeyRefresh, Leave, StayOrFail, Stay, render, Blocked
<1>21. CASE ReceiveFailure
  BY <1>21, ForgetLeavesNone DEF ReceiveFailure, Leave, StayOrFail, Stay, render, Blocked
<1>22. CASE ReceiveSnapshot
  <2> DEFINE last == LastIteration(iteration')
  <2>1. resultChannel \in Collections /\ collector[resultChannel] \in Answers
    BY <1>22 DEF ReceiveSnapshot, Answers
  <2>2. panel # Output /\ workflow = "none"
    BY <2>1
  <2>3. iteration' \in 0 .. Iterations /\ (Iterations > 0 /\ ~last => iteration' # Iterations)
    BY <1>22 DEF ReceiveSnapshot
  <2>4. CASE /\ ~last
             /\ \E c \in Collections : startCollection(c)
             /\ StayOrFail(TRUE, {"collection"})
             /\ UNCHANGED timer
    <3>1. /\ resultChannel' \in Collections
          /\ cancelled' \subseteq Collections
          /\ collector' \in [Collections -> {"idle", "begin", "select", "join"} \cup Answers]
          /\ sampler' \in [Collections \X Samplers -> SamplerStates]
          /\ latency' \in [Collections -> LatencyStates]
          /\ OnlyAwaitedRuns'
      BY <2>1, <2>4, StartIsAlone
    <3>2. CASE Stay
      BY <2>2, <2>3, <2>4, <3>1, <3>2, <1>22 DEF ReceiveSnapshot, Stay
    <3>3. CASE Leave({"collection"}, "error")
      BY <2>2, <2>3, <2>4, <3>1, <3>3, <1>22 DEF ReceiveSnapshot, Leave
    <3> QED BY <2>4, <3>2, <3>3 DEF StayOrFail
  <2>5. CASE ~last /\ forgetCollection
    <3>1. /\ resultChannel' = NoCollection
          /\ cancelled' \subseteq Collections
          /\ collector' \in [Collections -> {"idle", "begin", "select", "join"} \cup Answers]
          /\ OnlyAwaitedRuns'
          /\ UNCHANGED <<sampler, latency>>
      BY <2>1, <2>5, ForgetLeavesNone
    <3>2. \/ Stay /\ timer'
          \/ Leave({}, "error") /\ UNCHANGED timer
      BY <2>5, <3>1, <1>22 DEF ReceiveSnapshot, startCollection
    <3>3. CASE Stay /\ timer'
      BY <2>2, <2>3, <2>5, <3>1, <3>3, <1>22 DEF ReceiveSnapshot, Stay
    <3>4. CASE Leave({}, "error") /\ UNCHANGED timer
      BY <2>2, <2>3, <2>5, <3>1, <3>4, <1>22 DEF ReceiveSnapshot, Leave
    <3> QED BY <3>2, <3>3, <3>4
  <2>6. CASE /\ last /\ forgetCollection /\ UNCHANGED timer
             /\ \E result \in {"clean", "error"} : Leave({}, result)
    <3>1. /\ resultChannel' = NoCollection
          /\ cancelled' \subseteq Collections
          /\ collector' \in [Collections -> {"idle", "begin", "select", "join"} \cup Answers]
          /\ OnlyAwaitedRuns'
          /\ UNCHANGED <<sampler, latency>>
      BY <2>1, <2>6, ForgetLeavesNone
    <3>2. PICK result \in {"clean", "error"} : Leave({}, result)
      BY <2>6
    <3>3. loop' = "leaving" /\ joins' = {} /\ outcome' \in {"clean", "error"}
      BY <3>2 DEF Leave
    <3>4. UNCHANGED <<ctxDone, inputOpen, panel, timer, workflow, workflowCancelled, detail>>
          /\ viewed' = TRUE
      BY <2>6, <1>22 DEF ReceiveSnapshot
    <3>5. TypeOK'
      BY <2>3, <3>1, <3>3, <3>4
    <3>6. OutputExcludesMonitor' /\ LeavingIsComplete'
      BY <2>2, <3>1, <3>3, <3>4
    <3> QED BY <3>1, <3>3, <3>5, <3>6
  <2>7. CASE last
    BY <2>6, <2>7, <1>22 DEF ReceiveSnapshot
  <2>8. CASE ~last
    <3>1. CASE forgetCollection
      BY <2>5, <2>8, <3>1
    <3>2. CASE ~forgetCollection
      BY <2>4, <2>8, <3>2, <1>22 DEF ReceiveSnapshot
    <3> QED BY <3>1, <3>2
  <2> QED BY <2>7, <2>8
<1>23. CASE ReceiveWorkflowResult
  BY <1>23 DEF ReceiveWorkflowResult, Leave, StayOrFail, Stay, render, Blocked, OnlyAwaitedRuns
<1>24. CASE TimerFires
  BY <1>24, StartIsAlone, ForgetLeavesNone DEF TimerFires, Leave, StayOrFail, Stay, render, Blocked
<1>25. CASE UITick
  <2>1. OnlyAwaitedRuns'
    BY <1>25 DEF UITick, OnlyAwaitedRuns
  <2>2. CASE Stay
    BY <2>1, <2>2, <1>25 DEF UITick, Stay
  <2>3. CASE Leave({"collection"}, "error")
    BY <2>1, <2>3, <1>25 DEF UITick, Leave
  <2> QED BY <2>2, <2>3, <1>25 DEF UITick, StayOrFail
<1>26. CASE CancelCollection
  BY <1>26 DEF CancelCollection, Leave, StayOrFail, Stay, render, Blocked, OnlyAwaitedRuns
<1>27. CASE JoinCollection
  <2>1. /\ resultChannel' = NoCollection
        /\ cancelled' \subseteq Collections
        /\ collector' \in [Collections -> {"idle", "begin", "select", "join"} \cup Answers]
        /\ OnlyAwaitedRuns'
        /\ UNCHANGED <<sampler, latency>>
    <3>1. CASE resultChannel = NoCollection /\ UNCHANGED collectVars
      BY <3>1 DEF OnlyAwaitedRuns
    <3>2. CASE forgetCollection /\ resultChannel \in cancelled
                 /\ collector[resultChannel] \in Answers
      BY <3>2, ForgetLeavesNone
    <3> QED BY <3>1, <3>2, <1>27 DEF JoinCollection
  <2> QED BY <2>1, <1>27 DEF JoinCollection, Blocked
<1>28. CASE CancelWorkflow
  BY <1>28 DEF CancelWorkflow, Leave, StayOrFail, Stay, render, Blocked, OnlyAwaitedRuns
<1>29. CASE JoinWorkflow
  BY <1>29 DEF JoinWorkflow, Leave, StayOrFail, Stay, render, Blocked, OnlyAwaitedRuns
<1>30. CASE LaunchWorkflow
  BY <1>30 DEF LaunchWorkflow, Leave, StayOrFail, Stay, render, Blocked, OnlyAwaitedRuns
<1>31. CASE Return
  BY <1>31 DEF Return, Leave, StayOrFail, Stay, render, Blocked, OnlyAwaitedRuns
<1>32. CASE Signal
  BY <1>32 DEF Signal, Leave, StayOrFail, Stay, render, Blocked, OnlyAwaitedRuns
<1>33. CASE UNCHANGED vars
  BY <1>33 DEF vars, OnlyAwaitedRuns
<1> QED
  BY <1>1, <1>2, <1>3, <1>4, <1>5, <1>6, <1>7, <1>8, <1>9, <1>10, <1>11, <1>12, <1>13, <1>14, <1>15, <1>16, <1>17, <1>18, <1>19, <1>20, <1>21, <1>22, <1>23, <1>24, <1>25, <1>26, <1>27, <1>28, <1>29, <1>30, <1>31, <1>32, <1>33 DEF Next, Key, Receive, Join, Goroutine, Collect, Terminated

-----------------------------------------------------------------------------

\* Every behaviour of the event loop, with any interleaving of its goroutines,
\* stays in the inductive invariant: types, iteration bound and the parts above.
THEOREM Invariance == Safety => []Inv
  BY InitInv, StepInv, PTL DEF Safety

\* The types of all variables, and that iteration never passes Iterations.
THEOREM TypeCorrect == Safety => []TypeOK
<1>1. Inv => TypeOK
  BY DEF Inv
<1> QED BY <1>1, Invariance, PTL

\* The loop never stalls and never runs two activities: in its select exactly
\* one of collection, timer and workflow panel is current.
THEOREM ActivityIsUnique == Safety => []OneActivity
<1>1. Inv => OneActivity
  BY DEF Inv
<1> QED BY <1>1, Invariance, PTL

LEMMA ExclusionFromInv == Inv => ProbeExclusion
  BY DEF Inv, OutputExcludesMonitor, OnlyAwaitedRuns, ProbeExclusion, TypeOK

\* The live collector and an embedded workflow never hold probes together.
THEOREM ProbesAreExclusive == Safety => []ProbeExclusion
  BY ExclusionFromInv, Invariance, PTL

\* No Collect call and no live eBPF link survives RunInteractive, and a clean
\* return leaves no workflow running.
THEOREM ReturnIsClean == Safety => []NothingLeftBehind
<1>1. Inv => NothingLeftBehind
  BY DEF Inv, NothingLeftBehind, TypeOK, JoinsOnlyWhenBlocked, LeavingIsComplete, OnlyAwaitedRuns
<1> QED BY <1>1, Invariance, PTL

\* The detail offered for saving belongs to the workflow on screen.
THEOREM DetailStaysCurrent == Safety => []DetailIsCurrent
<1>1. Inv => DetailIsCurrent
  BY DEF Inv, OutputExcludesMonitor
<1> QED BY <1>1, Invariance, PTL

\* A bounded run leaves its select with its last iteration.
THEOREM IterationsBound == Safety => []StopsAfterIterations
<1>1. Inv => StopsAfterIterations
  BY DEF Inv
<1> QED BY <1>1, Invariance, PTL

-----------------------------------------------------------------------------
(* Dashboard implements Monitor.                                           *)

\* Without an awaited collection there is no live link, and with a workflow
\* there is no awaited collection.
LEMMA NoLinkUnlessAwaited ==
  ASSUME Inv
  PROVE  /\ resultChannel = NoCollection => ~Attached
         /\ panel = Output => ~Attached
         /\ workflow # "none" => panel = Output /\ ~Attached
         /\ \A c \in Collections : latency[c] # "off" =>
              /\ resultChannel = c /\ loop # "returned"
              /\ panel # Output /\ workflow = "none"
<1>1. \A c \in Collections : latency[c] # "off" => resultChannel = c
  BY DEF Inv, OnlyAwaitedRuns
<1>2. loop = "returned" => resultChannel = NoCollection
  BY DEF Inv, JoinsOnlyWhenBlocked, LeavingIsComplete
<1>3. resultChannel = NoCollection => ~Attached
  BY <1>1 DEF Attached
<1> QED BY <1>1, <1>2, <1>3 DEF Inv, OutputExcludesMonitor

LEMMA InitPromise == Init => Promise!Init
  BY DEF Init, Promise!Init, Attached, Output

LEMMA StepPromise == Inv /\ Inv' /\ [Next]_vars => [Promise!Next]_Promise!vars
<1> SUFFICES ASSUME Inv, Inv', [Next]_vars PROVE [Promise!Next]_Promise!vars
  OBVIOUS
<1> DEFINE same == /\ (loop = "returned") <=> (loop' = "returned")
                   /\ (panel = Output) <=> (panel' = Output)
                   /\ workflow' = workflow
                   /\ Attached' = Attached
<1> USE NoLinkUnlessAwaited DEF loopVars, collectVars, workflowVars
<1>0. same => UNCHANGED Promise!vars
  BY DEF Promise!vars
<1> HIDE DEF same
<1>t. TypeOK /\ OnlyAwaitedRuns /\ LaunchIsReady
  BY DEF Inv
<1>1. ASSUME NEW c \in Collections, CollectFailsEarly(c) PROVE same
  BY <1>1 DEF same, Attached, CollectFailsEarly
<1>2. ASSUME NEW c \in Collections, NEW s \in Samplers, SamplerReports(c, s) PROVE same
  BY <1>2 DEF same, Attached, SamplerReports
<1>3. ASSUME NEW c \in Collections, CollectCancels(c) PROVE same
  BY <1>3 DEF same, Attached, CollectCancels
<1>4. ASSUME NEW c \in Collections, CollectStarts(c) PROVE same
  BY <1>t, <1>4 DEF same, Attached, TypeOK, OnlyAwaitedRuns, CollectStarts
<1>5. ASSUME NEW c \in Collections, CollectReceives(c) PROVE same
  BY <1>t, <1>5 DEF same, Attached, TypeOK, OnlyAwaitedRuns, CollectReceives
<1>6. ASSUME NEW c \in Collections, CollectJoinsLatency(c) PROVE same
  BY <1>t, <1>6 DEF same, Attached, TypeOK, OnlyAwaitedRuns, CollectJoinsLatency
<1>7. ASSUME NEW c \in Collections, LatencyAttaches(c) PROVE Promise!CollectorAttach
  <2>1. ~Attached /\ Attached'
    BY <1>t, <1>7 DEF Attached, LatencyAttaches, TypeOK
  <2> QED BY <2>1, <1>t, <1>7 DEF LatencyAttaches, Promise!CollectorAttach, TypeOK
<1>8. ASSUME NEW c \in Collections, LatencyReports(c) PROVE same \/ Promise!CollectorDetach
  <2>1. CASE latency[c] = "running"
    BY <2>1, <1>t, <1>8 DEF same, Attached, LatencyReports, TypeOK
  <2>2. CASE latency[c] = "attached"
    <3>1. Attached /\ ~Attached'
      BY <2>2, <1>t, <1>8 DEF Attached, LatencyReports, TypeOK
    <3> QED BY <2>2, <3>1, <1>8 DEF LatencyReports, Promise!CollectorDetach
  <2> QED BY <2>1, <2>2, <1>8 DEF LatencyReports
<1>9. CASE WorkflowAttaches
  BY <1>9 DEF WorkflowAttaches, Attached, Promise!Next, Promise!WorkflowAttach
<1>10. CASE WorkflowDetaches
  BY <1>10 DEF WorkflowDetaches, Attached, Promise!Next, Promise!WorkflowDetach
<1>11. CASE WorkflowReturns
  BY <1>11 DEF WorkflowReturns, Attached, Promise!vars
<1>12. CASE ContextDone
  BY <1>0, <1>12 DEF same, Attached, ContextDone, Leave, StayOrFail, Stay
<1>13. CASE InputCloses
  BY <1>0, <1>13 DEF same, Attached, InputCloses, Leave, StayOrFail, Stay
<1>14. CASE KeyQuit
  BY <1>0, <1>14 DEF same, Attached, KeyQuit, Leave, StayOrFail, Stay
<1>15. CASE KeyOnOutput
  BY <1>0, <1>15 DEF same, Attached, KeyOnOutput, Leave, StayOrFail, Stay
<1>16. CASE KeySaveDetail
  BY <1>0, <1>16 DEF same, Attached, KeySaveDetail, Leave, StayOrFail, Stay
<1>17. CASE KeyLaunch
  BY <1>0, <1>17 DEF same, Attached, KeyLaunch, Leave, StayOrFail, Stay
<1>18. CASE UITick
  BY <1>0, <1>18 DEF same, Attached, UITick, Leave, StayOrFail, Stay
<1>19. CASE CancelCollection
  BY <1>0, <1>19 DEF same, Attached, CancelCollection, Leave, StayOrFail, Stay
<1>20. CASE CancelWorkflow
  BY <1>0, <1>20 DEF same, Attached, CancelWorkflow, Leave, StayOrFail, Stay
<1>21. CASE Signal
  BY <1>0, <1>21 DEF same, Attached, Signal, Leave, StayOrFail, Stay
<1>22. CASE KeyOnMonitor
  BY <1>0, <1>22 DEF same, Attached, KeyOnMonitor, Leave, StayOrFail, Stay, MonitorPanels, Output
<1>23. CASE KeyRefresh
  <2>0. resultChannel = NoCollection /\ \E c \in Collections : startCollection(c)
    BY <1>23 DEF KeyRefresh, Inv, OneActivity
  <2>1. Attached' = Attached
    BY <1>t, <2>0, StartIsAlone
  <2> QED BY <2>1, <1>0, <1>23 DEF same, KeyRefresh, Leave, StayOrFail, Stay
<1>24. CASE TimerFires
  <2>0. resultChannel = NoCollection /\ \E c \in Collections : startCollection(c)
    BY <1>24 DEF TimerFires, Inv, OneActivity
  <2>1. Attached' = Attached
    BY <1>t, <2>0, StartIsAlone
  <2> QED BY <2>1, <1>0, <1>24 DEF same, TimerFires, Leave, StayOrFail, Stay
<1>25. CASE KeyBackToMonitor
  <2>0. resultChannel = NoCollection /\ panel = Output
    BY <1>25 DEF KeyBackToMonitor, Inv, OutputExcludesMonitor
  <2>1. \E c \in Collections : startCollection(c)
    BY <2>0, <1>25 DEF KeyBackToMonitor
  <2>2. ~Attached
    BY <2>0
  <2>3. Attached' = Attached
    BY <2>0, <2>1, <1>t, StartIsAlone
  <2> QED BY <2>2, <2>3, <1>25 DEF KeyBackToMonitor, Leave, StayOrFail, Stay, Output, Promise!Next, Promise!Resume
<1>26. CASE ReceiveFailure
  BY <1>0, <1>26 DEF same, Attached, ReceiveFailure, forgetCollection, Leave
<1>27. CASE ReceiveSnapshot
  <2>1. Attached' = Attached
    <3>1. CASE forgetCollection
      BY <3>1 DEF Attached, forgetCollection
    <3>2. CASE \E c \in Collections : startCollection(c)
      BY <3>2, <1>t, <1>27, StartIsAlone DEF ReceiveSnapshot, Answers
    <3> QED BY <3>1, <3>2, <1>27 DEF ReceiveSnapshot
  <2>2. loop = "select" /\ loop' # "returned" /\ UNCHANGED <<panel, workflow>>
    BY <1>27 DEF ReceiveSnapshot, Leave, StayOrFail, Stay
  <2> QED BY <2>1, <2>2, <1>0 DEF same
<1>28. CASE ReceiveWorkflowResult
  BY <1>28 DEF ReceiveWorkflowResult, Attached, Leave, StayOrFail, Stay, Promise!Next, Promise!Complete
<1>29. CASE JoinCollection
  BY <1>0, <1>29 DEF same, Attached, JoinCollection, forgetCollection
<1>30. CASE JoinWorkflow
  <2>1. CASE workflow = "none"
    BY <2>1, <1>0, <1>30 DEF same, Attached, JoinWorkflow
  <2>2. CASE workflow # "none"
    BY <2>2, <1>30 DEF JoinWorkflow, Blocked, Attached, Promise!Next, Promise!Complete
  <2> QED BY <2>1, <2>2
<1>31. CASE LaunchWorkflow
  BY <1>t, <1>31 DEF LaunchIsReady, LaunchWorkflow, Leave, Attached, Output, Promise!Next, Promise!Launch
<1>32. CASE Return
  <2>1. ~Attached /\ ~Attached'
    BY <1>32 DEF Return, Attached, Inv, LeavingIsComplete
  <2> QED BY <2>1, <1>32 DEF Return, Promise!Next, Promise!Stop, Promise!Abandon
<1>33. CASE UNCHANGED vars
  BY <1>0, <1>33 DEF same, Attached, vars
<1> QED
  BY <1>0, <1>1, <1>2, <1>3, <1>4, <1>5, <1>6, <1>7, <1>8, <1>9, <1>10, <1>11, <1>12, <1>13, <1>14, <1>15, <1>16, <1>17, <1>18, <1>19, <1>20, <1>21, <1>22, <1>23, <1>24, <1>25, <1>26, <1>27, <1>28, <1>29, <1>30, <1>31, <1>32, <1>33
  DEF Next, Key, Receive, Join, Goroutine, Collect, Terminated, Promise!Next

\* The event loop and its goroutines implement the promise of Monitor about
\* the probes (the property ProbesChangeHandsDetached).
THEOREM ImplementsMonitor == Safety => ProbesChangeHandsDetached
<1>1. Safety => []Inv
  BY Invariance
<1> QED
  BY <1>1, InitPromise, StepPromise, PTL DEF Safety, ProbesChangeHandsDetached, Promise!Spec

=============================================================================
