-------------------------- MODULE RefreshLoopProofs --------------------------
(***************************************************************************)
(* Proofs about RefreshLoop, for every period, cooldown and resolution and *)
(* every behaviour of the two clocks.                                      *)
(***************************************************************************)
EXTENDS RefreshLoop, FiniteSetTheorems, TLAPS

USE RefreshLoopAssumption

\* Times a second apart are in different seconds.
LEMMA SecondsDiffer ==
  ASSUME NEW a \in Int, NEW b \in Int, NEW s \in Nat \ {0}, b + s <= a
  PROVE  a \div s # b \div s
<1>1. a = s * (a \div s) + (a % s) /\ b = s * (b \div s) + (b % s)
  OBVIOUS
<1>2. a % s \in 0 .. s - 1 /\ b % s \in 0 .. s - 1
  OBVIOUS
<1> QED BY <1>1, <1>2

\* The cooldown is a number.
LEMMA CooldownType ==
  ASSUME options \in Options
  PROVE  options.cooldown \in Nat
<1>1. options \in [command : Commands, limit : Limits, ebpf : BOOLEAN, cooldown : Cooldowns \cup {0}]
  BY DEF Options
<1>2. options.cooldown \in Cooldowns \cup {0}
  BY <1>1
<1>3. Cooldowns \cup {0} \subseteq Nat
  BY RefreshLoopAssumption
<1> QED
  BY <1>2, <1>3

\* Every step keeps the types.
LEMMA TypeStep ==
  ASSUME TypeOK, [Next]_vars
  PROVE  TypeOK'
<1> USE DEF TypeOK, Points, Collecting, clocks, iteration, tally, captured, Go, Leave
<1>1. CASE Tick
  BY <1>1 DEF Tick
<1>2. CASE StepWallClock
  BY <1>2 DEF StepWallClock
<1>3. CASE Signal
  BY <1>3 DEF Signal
<1>4. ASSUME NEW g \in Latency \cup Observers, Answers(g) PROVE TypeOK'
  BY <1>4 DEF Answers
<1>5. CASE Open
  BY <1>5 DEF Open
<1>6. CASE Check
  BY <1>6 DEF Check
<1>7. CASE Collect
  BY <1>7 DEF Collect, Failure, Spawned, command, Options, Commands, Latency, Observers
<1>8. CASE CollectEnds
  BY <1>8 DEF CollectEnds, Failure
<1>9. CASE Recheck
  BY <1>9 DEF Recheck
<1>10. CASE CountIteration
  BY <1>10 DEF CountIteration
<1>11. CASE WriteIteration
  BY <1>11 DEF WriteIteration
<1>12. CASE WriteLine
  BY <1>12 DEF WriteLine
<1>13. CASE Judge
  BY <1>13 DEF Judge
<1>14. CASE BeginCapture
  BY <1>14 DEF BeginCapture, wall, Observers
<1>15. CASE Suppress
  BY <1>15 DEF Suppress, wall
<1>16. CASE SnapshotEnds
  BY <1>16 DEF SnapshotEnds
<1>17. CASE WriteBundle
  BY <1>17 DEF WriteBundle
<1>18. CASE BundleFails
  BY <1>18 DEF BundleFails
<1>19. CASE Bound
  BY <1>19 DEF Bound, NextStart
<1>20. CASE Wait
  BY <1>20 DEF Wait
<1>21. CASE Summarise
  BY <1>21 DEF Summarise
<1>22. CASE Returned
  BY <1>22 DEF Returned, vars
<1>23. CASE UNCHANGED vars
  BY <1>23 DEF vars
<1> QED
  BY <1>1, <1>2, <1>3, <1>4, <1>5, <1>6, <1>7, <1>8, <1>9, <1>10, <1>11, <1>12,
     <1>13, <1>14, <1>15, <1>16, <1>17, <1>18, <1>19, <1>20, <1>21, <1>22, <1>23 DEF Next, Loop

\* Every step leaves no goroutine outside the two collections.
LEMMA JoinedStep ==
  ASSUME JoinedOutsideCollections, [Next]_vars
  PROVE  JoinedOutsideCollections'
<1> USE DEF JoinedOutsideCollections, clocks, iteration, tally, captured, Go, Leave
<1>1. CASE Tick
  BY <1>1 DEF Tick
<1>2. CASE StepWallClock
  BY <1>2 DEF StepWallClock
<1>3. CASE Signal
  BY <1>3 DEF Signal
<1>4. ASSUME NEW g \in Latency \cup Observers, Answers(g) PROVE JoinedOutsideCollections'
  BY <1>4 DEF Answers
<1>5. CASE Open
  BY <1>5 DEF Open
<1>6. CASE Check
  BY <1>6 DEF Check
<1>7. CASE Collect
  BY <1>7 DEF Collect
<1>8. CASE CollectEnds
  BY <1>8 DEF CollectEnds
<1>9. CASE Recheck
  BY <1>9 DEF Recheck
<1>10. CASE CountIteration
  BY <1>10 DEF CountIteration
<1>11. CASE WriteIteration
  BY <1>11 DEF WriteIteration
<1>12. CASE WriteLine
  BY <1>12 DEF WriteLine
<1>13. CASE Judge
  BY <1>13 DEF Judge
<1>14. CASE BeginCapture
  BY <1>14 DEF BeginCapture
<1>15. CASE Suppress
  BY <1>15 DEF Suppress
<1>16. CASE SnapshotEnds
  BY <1>16 DEF SnapshotEnds
<1>17. CASE WriteBundle
  BY <1>17 DEF WriteBundle
<1>18. CASE BundleFails
  BY <1>18 DEF BundleFails
<1>19. CASE Bound
  BY <1>19 DEF Bound
<1>20. CASE Wait
  BY <1>20 DEF Wait
<1>21. CASE Summarise
  BY <1>21 DEF Summarise
<1>22. CASE Returned
  BY <1>22 DEF Returned, vars
<1>23. CASE UNCHANGED vars
  BY <1>23 DEF vars
<1> QED
  BY <1>1, <1>2, <1>3, <1>4, <1>5, <1>6, <1>7, <1>8, <1>9, <1>10, <1>11, <1>12,
     <1>13, <1>14, <1>15, <1>16, <1>17, <1>18, <1>19, <1>20, <1>21, <1>22, <1>23 DEF Next, Loop

\* Every step keeps the schedule.
LEMMA ScheduleStep ==
  ASSUME TypeOK, DueIsScheduled, StartedWhenDue, NeverAheadOfSchedule, [Next]_vars
  PROVE  (DueIsScheduled /\ StartedWhenDue /\ NeverAheadOfSchedule)'
<1> USE DEF TypeOK, DueIsScheduled, StartedWhenDue, NeverAheadOfSchedule, Counted, Ended,
           command, clocks, iteration, tally, captured, Go, Leave
<1>1. CASE Tick
  BY <1>1 DEF Tick
<1>2. CASE StepWallClock
  BY <1>2 DEF StepWallClock
<1>3. CASE Signal
  BY <1>3 DEF Signal
<1>4. ASSUME NEW g \in Latency \cup Observers, Answers(g) PROVE (DueIsScheduled /\ StartedWhenDue /\ NeverAheadOfSchedule)'
  BY <1>4 DEF Answers
<1>5. CASE Open
  BY <1>5 DEF Open
<1>6. CASE Check
  BY <1>6 DEF Check
<1>7. CASE Collect
  BY <1>7 DEF Collect
<1>8. CASE CollectEnds
  BY <1>8 DEF CollectEnds
<1>9. CASE Recheck
  BY <1>9 DEF Recheck
<1>10. CASE CountIteration
  <2>1. CASE pc' = "summary"
    BY <1>10, <2>1 DEF CountIteration
  <2>2. CASE pc' = "write" /\ pc = "report" /\ count' = count + 1
    <3>1. Every * (count + 1) = Every * count + Every
      BY DEF TypeOK
    <3>2. Every * count <= due
      BY <2>2
    <3>3. Every * count' <= now' + Every
      BY <1>10, <2>2, <3>1, <3>2 DEF CountIteration
    <3>4. DueIsScheduled' /\ StartedWhenDue'
      BY <1>10, <2>2 DEF CountIteration
    <3> QED
      BY <3>3, <3>4
  <2> QED
    BY <1>10, <2>1, <2>2 DEF CountIteration
<1>11. CASE WriteIteration
  BY <1>11 DEF WriteIteration
<1>12. CASE WriteLine
  <2>1. CASE pc' = "summary"
    BY <1>12, <2>1 DEF WriteLine
  <2>2. CASE pc' = "bound" /\ pc = "report" /\ count' = count + 1
    <3>1. Every * (count + 1) = Every * count + Every
      BY DEF TypeOK
    <3>2. Every * count <= due
      BY <2>2
    <3>3. Every * count' <= now' + Every
      BY <1>12, <2>2, <3>1, <3>2 DEF WriteLine
    <3>4. DueIsScheduled' /\ StartedWhenDue'
      BY <1>12, <2>2 DEF WriteLine
    <3> QED
      BY <3>3, <3>4
  <2> QED
    BY <1>12, <2>1, <2>2 DEF WriteLine
<1>13. CASE Judge
  BY <1>13 DEF Judge
<1>14. CASE BeginCapture
  BY <1>14 DEF BeginCapture
<1>15. CASE Suppress
  BY <1>15 DEF Suppress
<1>16. CASE SnapshotEnds
  BY <1>16 DEF SnapshotEnds
<1>17. CASE WriteBundle
  BY <1>17 DEF WriteBundle
<1>18. CASE BundleFails
  BY <1>18 DEF BundleFails
<1>19. CASE Bound
  BY <1>19 DEF Bound, NextStart
<1>20. CASE Wait
  BY <1>20 DEF Wait
<1>21. CASE Summarise
  BY <1>21 DEF Summarise
<1>22. CASE Returned
  BY <1>22 DEF Returned, vars
<1>23. CASE UNCHANGED vars
  BY <1>23 DEF vars
<1> QED
  BY <1>1, <1>2, <1>3, <1>4, <1>5, <1>6, <1>7, <1>8, <1>9, <1>10, <1>11, <1>12,
     <1>13, <1>14, <1>15, <1>16, <1>17, <1>18, <1>19, <1>20, <1>21, <1>22, <1>23 DEF Next, Loop

\* Every step keeps the cooldown.
LEMMA CaptureStep ==
  ASSUME TypeOK, LastIsTheLastBundle, CooldownIsKept, SuppressionIsExplained, [Next]_vars
  PROVE  (LastIsTheLastBundle /\ CooldownIsKept /\ SuppressionIsExplained)'
<1> USE DEF TypeOK, LastIsTheLastBundle, CooldownIsKept, SuppressionIsExplained, CaptureAllowed,
           cooldown, captureOnAlert, Ended, clocks, iteration, tally, captured, Go, Leave
<1>a. options.cooldown \in Nat
  BY CooldownType
<1> USE <1>a
<1>1. CASE Tick
  BY <1>1 DEF Tick
<1>2. CASE StepWallClock
  BY <1>2 DEF StepWallClock
<1>3. CASE Signal
  BY <1>3 DEF Signal
<1>4. ASSUME NEW g \in Latency \cup Observers, Answers(g) PROVE (LastIsTheLastBundle /\ CooldownIsKept /\ SuppressionIsExplained)'
  BY <1>4 DEF Answers
<1>5. CASE Open
  BY <1>5 DEF Open
<1>6. CASE Check
  BY <1>6 DEF Check
<1>7. CASE Collect
  BY <1>7 DEF Collect, Failure
<1>8. CASE CollectEnds
  BY <1>8 DEF CollectEnds, Failure
<1>9. CASE Recheck
  BY <1>9 DEF Recheck
<1>10. CASE CountIteration
  BY <1>10 DEF CountIteration
<1>11. CASE WriteIteration
  BY <1>11 DEF WriteIteration
<1>12. CASE WriteLine
  BY <1>12 DEF WriteLine
<1>13. CASE Judge
  BY <1>13 DEF Judge
<1>14. CASE BeginCapture
  BY <1>14 DEF BeginCapture, wall
<1>15. CASE Suppress
  BY <1>15 DEF Suppress, wall
<1>16. CASE SnapshotEnds
  BY <1>16 DEF SnapshotEnds
<1>17. CASE WriteBundle
  BY <1>17 DEF WriteBundle
<1>18. CASE BundleFails
  <2>1. pc = "bundle" /\ pc' = "summary" /\ UNCHANGED <<options, captureTime, lastCapture, suppressed>>
    BY <1>18 DEF BundleFails
  <2>2. CASE NameTaken /\ result' = "collision" /\ UNCHANGED bundles
    <3>1. PICK b \in bundles : b \div Second = captureTime \div Second
      BY <2>2 DEF NameTaken
    <3>2. captureTime >= b + cooldown /\ b \in Int /\ captureTime \in Int
      BY <2>1, <3>1
    <3>3. ~(cooldown >= Second)
      BY <3>1, <3>2, SecondsDiffer
    <3> QED
      BY <2>1, <2>2, <3>3
  <2>3. CASE result' = "error" /\ UNCHANGED bundles
    BY <2>1, <2>3
  <2>4. CASE result' = "error" /\ bundles' = bundles \cup {captureTime}
    <3>1. \A b \in bundles : b + cooldown <= captureTime
      BY <2>1
    <3> QED
      BY <2>1, <2>4, <3>1
  <2> QED
    BY <1>18, <2>2, <2>3, <2>4 DEF BundleFails
<1>19. CASE Bound
  BY <1>19 DEF Bound
<1>20. CASE Wait
  BY <1>20 DEF Wait
<1>21. CASE Summarise
  BY <1>21 DEF Summarise
<1>22. CASE Returned
  BY <1>22 DEF Returned, vars
<1>23. CASE UNCHANGED vars
  BY <1>23 DEF vars
<1> QED
  BY <1>1, <1>2, <1>3, <1>4, <1>5, <1>6, <1>7, <1>8, <1>9, <1>10, <1>11, <1>12,
     <1>13, <1>14, <1>15, <1>16, <1>17, <1>18, <1>19, <1>20, <1>21, <1>22, <1>23 DEF Next, Loop

\* Every step keeps what a signal found.
LEMMA SignalStep ==
  ASSUME TypeOK, SignalIsHeard, InterruptedWorkIsDiscarded, [Next]_vars
  PROVE  (SignalIsHeard /\ InterruptedWorkIsDiscarded)'
<1> USE DEF TypeOK, SignalIsHeard, InterruptedWorkIsDiscarded, clocks, iteration, tally,
           captured, Go, Leave
<1>1. CASE Tick
  BY <1>1 DEF Tick
<1>2. CASE StepWallClock
  BY <1>2 DEF StepWallClock
<1>3. CASE Signal
  BY <1>3 DEF Signal
<1>4. ASSUME NEW g \in Latency \cup Observers, Answers(g) PROVE (SignalIsHeard /\ InterruptedWorkIsDiscarded)'
  BY <1>4 DEF Answers
<1>5. CASE Open
  BY <1>5 DEF Open
<1>6. CASE Check
  BY <1>6 DEF Check
<1>7. CASE Collect
  BY <1>7 DEF Collect
<1>8. CASE CollectEnds
  BY <1>8 DEF CollectEnds
<1>9. CASE Recheck
  BY <1>9 DEF Recheck
<1>10. CASE CountIteration
  BY <1>10 DEF CountIteration
<1>11. CASE WriteIteration
  BY <1>11 DEF WriteIteration
<1>12. CASE WriteLine
  BY <1>12 DEF WriteLine
<1>13. CASE Judge
  BY <1>13 DEF Judge
<1>14. CASE BeginCapture
  BY <1>14 DEF BeginCapture
<1>15. CASE Suppress
  BY <1>15 DEF Suppress
<1>16. CASE SnapshotEnds
  BY <1>16 DEF SnapshotEnds
<1>17. CASE WriteBundle
  BY <1>17 DEF WriteBundle
<1>18. CASE BundleFails
  BY <1>18 DEF BundleFails
<1>19. CASE Bound
  BY <1>19 DEF Bound
<1>20. CASE Wait
  BY <1>20 DEF Wait
<1>21. CASE Summarise
  BY <1>21 DEF Summarise
<1>22. CASE Returned
  BY <1>22 DEF Returned, vars
<1>23. CASE UNCHANGED vars
  BY <1>23 DEF vars
<1> QED
  BY <1>1, <1>2, <1>3, <1>4, <1>5, <1>6, <1>7, <1>8, <1>9, <1>10, <1>11, <1>12,
     <1>13, <1>14, <1>15, <1>16, <1>17, <1>18, <1>19, <1>20, <1>21, <1>22, <1>23 DEF Next, Loop

\* Every step keeps the counters and the bundles in step.
LEMMA TallyStep ==
  ASSUME TypeOK, TallyIsKept, SummaryIsTrue, [Next]_vars
  PROVE  (TallyIsKept /\ SummaryIsTrue)'
<1> USE DEF TypeOK, TallyIsKept, SummaryIsTrue, Ended, command, clocks, iteration, tally,
           captured, Go, Leave
<1>a. Cardinality(bundles) \in Nat
  BY FS_CardinalityType
<1>b. ASSUME ~NameTaken
      PROVE  /\ IsFiniteSet(bundles \cup {captureTime})
             /\ Cardinality(bundles \cup {captureTime}) = Cardinality(bundles) + 1
  <2>1. captureTime \notin bundles
    BY <1>b DEF NameTaken
  <2> QED
    BY <2>1, FS_AddElement
<1> USE <1>a
<1>1. CASE Tick
  BY <1>1 DEF Tick
<1>2. CASE StepWallClock
  BY <1>2 DEF StepWallClock
<1>3. CASE Signal
  BY <1>3 DEF Signal
<1>4. ASSUME NEW g \in Latency \cup Observers, Answers(g) PROVE (TallyIsKept /\ SummaryIsTrue)'
  BY <1>4 DEF Answers
<1>5. CASE Open
  BY <1>5 DEF Open
<1>6. CASE Check
  BY <1>6 DEF Check
<1>7. CASE Collect
  BY <1>7 DEF Collect, Failure
<1>8. CASE CollectEnds
  BY <1>8 DEF CollectEnds, Failure
<1>9. CASE Recheck
  BY <1>9 DEF Recheck
<1>10. CASE CountIteration
  BY <1>10 DEF CountIteration
<1>11. CASE WriteIteration
  BY <1>11 DEF WriteIteration
<1>12. CASE WriteLine
  BY <1>12 DEF WriteLine
<1>13. CASE Judge
  BY <1>13 DEF Judge
<1>14. CASE BeginCapture
  BY <1>14 DEF BeginCapture
<1>15. CASE Suppress
  BY <1>15 DEF Suppress
<1>16. CASE SnapshotEnds
  BY <1>16 DEF SnapshotEnds
<1>17. CASE WriteBundle
  BY <1>17, <1>b DEF WriteBundle
<1>18. CASE BundleFails
  BY <1>18, <1>b DEF BundleFails
<1>19. CASE Bound
  BY <1>19 DEF Bound
<1>20. CASE Wait
  BY <1>20 DEF Wait
<1>21. CASE Summarise
  BY <1>21 DEF Summarise
<1>22. CASE Returned
  BY <1>22 DEF Returned, vars
<1>23. CASE UNCHANGED vars
  BY <1>23 DEF vars
<1> QED
  BY <1>1, <1>2, <1>3, <1>4, <1>5, <1>6, <1>7, <1>8, <1>9, <1>10, <1>11, <1>12,
     <1>13, <1>14, <1>15, <1>16, <1>17, <1>18, <1>19, <1>20, <1>21, <1>22, <1>23 DEF Next, Loop

\* All of it holds at first.
LEMMA Initially ==
  Init => /\ Inv /\ NeverAheadOfSchedule
          /\ CooldownIsKept /\ SuppressionIsExplained /\ InterruptedWorkIsDiscarded /\ SummaryIsTrue
<1> SUFFICES ASSUME Init
             PROVE  /\ Inv /\ NeverAheadOfSchedule
                    /\ CooldownIsKept /\ SuppressionIsExplained /\ InterruptedWorkIsDiscarded /\ SummaryIsTrue
  OBVIOUS
<1> USE DEF Init
<1>1. TypeOK
  <2>1. atSignal \in [at : Points \cup {"nowhere"}, count : Nat]
    BY DEF NotYet
  <2>2. pc \in Points /\ offset \in Int
    BY DEF Points, Collecting
  <2>3. /\ started \in Nat /\ due \in Nat /\ count \in Nat /\ lines \in Nat /\ saved \in Nat
        /\ alerts \in Nat /\ captures \in Nat /\ now \in Nat /\ captureTime \in Int
    OBVIOUS
  <2>4. /\ options \in Options /\ signalled \in BOOLEAN /\ running \subseteq Latency \cup Observers
        /\ bundles \subseteq Int /\ suppressed \subseteq Int /\ lastCapture \in Int \cup {Never}
    OBVIOUS
  <2>5. result \in {"none", "nil", "error", "collision"}
    OBVIOUS
  <2> QED
    BY <2>1, <2>2, <2>3, <2>4, <2>5 DEF TypeOK
<1>2. Every * 0 = 0
  OBVIOUS
<1>3. DueIsScheduled /\ StartedWhenDue /\ NeverAheadOfSchedule
  BY <1>2 DEF DueIsScheduled, StartedWhenDue, NeverAheadOfSchedule, Counted
<1>4. LastIsTheLastBundle /\ CooldownIsKept /\ SuppressionIsExplained
  BY DEF LastIsTheLastBundle, CooldownIsKept, SuppressionIsExplained
<1>5. JoinedOutsideCollections /\ SignalIsHeard /\ InterruptedWorkIsDiscarded
  BY DEF JoinedOutsideCollections, SignalIsHeard, InterruptedWorkIsDiscarded
<1>6. TallyIsKept /\ SummaryIsTrue
  BY FS_EmptySet DEF TallyIsKept, SummaryIsTrue, Ended, command
<1> QED
  BY <1>1, <1>3, <1>4, <1>5, <1>6 DEF Inv

\* The invariant of the four loops, with the safety it carries.
THEOREM Invariance ==
  Spec => [](/\ Inv /\ NeverAheadOfSchedule
             /\ CooldownIsKept /\ SuppressionIsExplained /\ InterruptedWorkIsDiscarded /\ SummaryIsTrue)
<1> DEFINE All == /\ Inv /\ NeverAheadOfSchedule
                  /\ CooldownIsKept /\ SuppressionIsExplained /\ InterruptedWorkIsDiscarded /\ SummaryIsTrue
<1>1. Init => All
  BY Initially
<1>2. All /\ [Next]_vars => All'
  BY TypeStep, JoinedStep, ScheduleStep, CaptureStep, SignalStep, TallyStep DEF Inv
<1> QED
  BY <1>1, <1>2, PTL DEF Spec

\* However late collections end, catching up never overtakes the schedule of
\* runNoisyNeighborWatch, observe.Watch, runStatusWatch and top.Run.
THEOREM PaceIsKept == Spec => []NeverAheadOfSchedule
BY Invariance, PTL

\* CaptureAllowed and a wall clock stepped at will: the bundles of a watch are a
\* cooldown apart, and with a cooldown of a second or more none of them is in
\* the way of another.
THEOREM CooldownHolds == Spec => []CooldownIsKept
BY Invariance, PTL

\* An alert is suppressed only after a bundle that was published.
THEOREM SuppressionsFollowBundles == Spec => []SuppressionIsExplained
BY Invariance, PTL

\* The second look at the context keeps a cancelled collection out of the report.
THEOREM SignalsDiscardWork == Spec => []InterruptedWorkIsDiscarded
BY Invariance, PTL

\* The final line of each command says what was written, alerted and captured,
\* but for the one thing whose failure ended the loop.
THEOREM SummaryHolds == Spec => []SummaryIsTrue
BY Invariance, PTL

=============================================================================
