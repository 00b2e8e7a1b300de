----------------------------- MODULE RefreshLoop -----------------------------
(***************************************************************************)
(* The four loops that collect, report and wait: watch noisy-neighbor,     *)
(* observe watch, status --watch and plain top.  They have one shape: look *)
(* at the context, collect, look again, report, and wait for the next      *)
(* start; they differ in what they collect, when they count an iteration   *)
(* and from where the next start is measured.  The noisy-neighbor watch    *)
(* also raises alerts and writes capture bundles, with a cooldown.         *)
(*                                                                         *)
(* Time passes anywhere.  Starts are measured by the monotonic clock, the  *)
(* cooldown and the names of bundles by the wall clock, since UTC() strips *)
(* the monotonic reading; the wall clock may be stepped at any moment.     *)
(* What is collected is abstracted to success or failure; Collect of the   *)
(* live source of top is in Dashboard, a bundle being written is in        *)
(* CaptureBundle.                                                          *)
(***************************************************************************)
EXTENDS Integers, FiniteSets

CONSTANTS
  Every,     \* --every, in ticks of the clock
  Cooldowns, \* what --cooldown may be
  Second,    \* the resolution of the time in the name of a bundle
  Limits,    \* what --iterations may be, 0 for no limit
  Offsets,   \* by how much the wall clock may be off
  MaxTime,   \* bound: the last tick
  Never      \* the zero time

ASSUME RefreshLoopAssumption ==
  /\ Every \in Nat \ {0} /\ Cooldowns \subseteq Nat \ {0} /\ Second \in Nat \ {0}
  /\ Limits \subseteq Nat /\ Offsets \subseteq Int /\ MaxTime \in Nat
  /\ Never \notin Int

VARIABLES
  options,      \* the command and its flags
  pc,           \* where its loop is
  now,          \* the monotonic clock, 0 when the loop begins
  offset,       \* the wall clock less the monotonic clock
  signalled,    \* whether the context is done
  atSignal,     \* where the loop was and what it had counted at that moment
  started,      \* when the last collection began
  due,          \* nextStart
  running,      \* the collecting goroutines that have not answered
  count,        \* iterations in the final summary
  lines,        \* iterations written to the terminal
  saved,        \* iterations written to the output file (observe)
  alerts,       \* alerts in the final summary
  captures,     \* captures in the final summary
  captureTime,  \* of the capture being made
  lastCapture,  \* wall time of the last capture, or Never
  bundles,      \* the wall times in the names of the published bundles
  suppressed,   \* the wall times of the alerts without a capture
  result        \* of the command

clocks == <<now, offset>>
iteration == <<started, due, running>>
tally == <<count, lines, saved, alerts, captures>>
captured == <<captureTime, lastCapture, bundles, suppressed>>
vars == <<options, pc, clocks, signalled, atSignal, iteration, tally, captured, result>>

Commands == {"noisy", "observe", "status", "top"}
\* A cooldown of 0 stands for no --capture-on-alert.
Options ==
  {o \in [command : Commands, limit : Limits, ebpf : BOOLEAN, cooldown : Cooldowns \cup {0}] :
     o.command # "noisy" => ~o.ebpf /\ o.cooldown = 0}
command == options.command
cooldown == options.cooldown
captureOnAlert == cooldown > 0

NotYet == [at |-> "nowhere", count |-> 0]
wall == now + offset

Latency == {"legacy", "vm"}
Observers == {"host", "qemu", "victim", "suspect"}

Collecting == {"open", "check", "collect", "collecting", "recheck"}
Points == Collecting \cup
  {"report", "write", "judge", "alert", "snapshot", "bundle", "bound", "wait", "summary", "returned"}

Init ==
  /\ options \in Options
  /\ pc = "open"
  /\ now = 0 /\ offset \in Offsets
  /\ signalled = FALSE /\ atSignal = NotYet
  /\ started = 0 /\ due = 0 /\ running = {}
  /\ count = 0 /\ lines = 0 /\ saved = 0 /\ alerts = 0 /\ captures = 0
  /\ captureTime = 0 /\ lastCapture = Never /\ bundles = {} /\ suppressed = {}
  /\ result = "none"

-----------------------------------------------------------------------------
(* The environment. *)

Tick ==
  /\ pc \notin {"open", "returned"} /\ now < MaxTime
  /\ now' = now + 1
  /\ UNCHANGED <<options, pc, offset, signalled, atSignal, iteration, tally, captured, result>>

StepWallClock ==
  /\ pc # "returned"
  /\ offset' \in Offsets \ {offset}
  /\ UNCHANGED <<options, pc, now, signalled, atSignal, iteration, tally, captured, result>>

Signal ==
  /\ pc \notin {"summary", "returned"} /\ ~signalled
  /\ signalled' = TRUE
  /\ atSignal' = [at |-> pc, count |-> count]
  /\ UNCHANGED <<options, pc, clocks, iteration, tally, captured, result>>

\* A collecting goroutine puts its answer into its channel, which has room.
Answers(g) ==
  /\ g \in running
  /\ running' = running \ {g}
  /\ UNCHANGED <<options, pc, clocks, signalled, atSignal, started, due, tally, captured, result>>

-----------------------------------------------------------------------------
(* The loop.  Go moves it on, Leave returns from it. *)

Go(from, to) ==
  /\ pc = from /\ pc' = to
  /\ UNCHANGED <<options, clocks, signalled, atSignal, result>>

Leave(from, with) ==
  /\ pc = from /\ pc' = "summary"
  /\ result' = with
  /\ UNCHANGED <<options, clocks, signalled, atSignal>>

\* The header or the output file; without the file there is not even a summary.
Open ==
  /\ \/ Go("open", "check")
     \/ Leave("open", "error") /\ command = "noisy"
     \/ /\ command = "observe"
        /\ pc = "open" /\ pc' = "returned" /\ result' = "error"
        /\ UNCHANGED <<options, clocks, signalled, atSignal>>
  /\ UNCHANGED <<iteration, tally, captured>>

Check ==
  /\ IF signalled THEN Leave("check", "nil") ELSE Go("check", "collect")
  /\ UNCHANGED <<iteration, tally, captured>>

\* The goroutines of a collection: both latency collectors with eBPF (a
\* mapping error is an answer without a goroutine), those of observe.Collect.
Spawned ==
  CASE command = "noisy" -> IF options.ebpf THEN {Latency, {"legacy"}} ELSE {{}}
    [] command = "observe" -> {Observers, Observers \ {"suspect"}}
    [] OTHER -> {{}}

\* Plain top takes an error of a cancelled collection for its end.
Failure == IF command = "top" /\ signalled THEN "nil" ELSE "error"

\* Configuration, inventory and targets are resolved before anything is spawned.
Collect ==
  /\ started' = now
  /\ \/ Go("collect", "collecting") /\ running' \in Spawned
     \/ Leave("collect", Failure) /\ UNCHANGED running
  /\ UNCHANGED <<due, tally, captured>>

\* Mutant: an error of the samplers is returned before the latency is joined.
CollectEndsUnjoined ==
  /\ \/ Go("collecting", "recheck") /\ running = {}
     \/ Leave("collecting", Failure)
  /\ UNCHANGED <<iteration, tally, captured>>

\* Every channel is received from before the samplers' error is looked at.
CollectEnds ==
  /\ running = {}
  /\ \/ Go("collecting", "recheck")
     \/ Leave("collecting", Failure)
  /\ UNCHANGED <<iteration, tally, captured>>

\* Mutant: the context is looked at before a collection only.
RecheckNothing ==
  /\ Go("recheck", "report")
  /\ UNCHANGED <<iteration, tally, captured>>

Recheck ==
  /\ IF signalled THEN Leave("recheck", "nil") ELSE Go("recheck", "report")
  /\ UNCHANGED <<iteration, tally, captured>>

\* Three of the loops count an iteration and then write it; sorting or
\* building the view may fail before.
CountIteration ==
  /\ command # "observe"
  /\ \/ Go("report", "write") /\ count' = count + 1
     \/ Leave("report", "error") /\ command \in {"status", "top"} /\ UNCHANGED count
  /\ UNCHANGED <<lines, saved, alerts, captures, iteration, captured>>

WriteIteration ==
  /\ \/ /\ Go("write", IF command = "noisy" THEN "judge" ELSE "bound")
        /\ lines' = lines + 1
     \/ Leave("write", "error") /\ UNCHANGED lines
  /\ UNCHANGED <<count, saved, alerts, captures, iteration, captured>>

\* Mutant: the line is counted before it is written.
WriteLineCountedFirst ==
  /\ command = "observe"
  /\ \/ Go("report", "bound") /\ lines' = lines + 1 /\ saved' = saved + 1
     \/ Leave("report", "error") /\ lines' \in {lines, lines + 1} /\ UNCHANGED saved
  /\ count' = count + 1
  /\ UNCHANGED <<alerts, captures, iteration, captured>>

\* Observe writes the line to the terminal, then to its file, then counts it.
WriteLine ==
  /\ command = "observe"
  /\ \/ /\ Go("report", "bound")
        /\ lines' = lines + 1 /\ saved' = saved + 1 /\ count' = count + 1
     \/ /\ Leave("report", "error")
        /\ lines' \in {lines, lines + 1}
        /\ UNCHANGED <<saved, count>>
  /\ UNCHANGED <<alerts, captures, iteration, captured>>

-----------------------------------------------------------------------------
(* Alerts and captures of the noisy-neighbor watch. *)

Judge ==
  /\ \/ Go("judge", "bound") /\ UNCHANGED alerts
     \/ Go("judge", "alert") /\ alerts' = alerts + 1
     \/ Leave("judge", "error") /\ alerts' = alerts + 1
  /\ UNCHANGED <<count, lines, saved, captures, iteration, captured>>

\* Mutant: far from the last capture in either direction is far enough.
CaptureAllowedByDistance(t, last) ==
  last # Never => (t - last >= cooldown \/ last - t >= cooldown)

CaptureAllowed(t, last) == last # Never => t >= last + cooldown

BeginCapture ==
  /\ captureOnAlert /\ CaptureAllowed(wall, lastCapture)
  /\ Go("alert", "snapshot")
  /\ captureTime' = wall
  /\ running' \in {Observers, Observers \ {"suspect"}}
  /\ UNCHANGED <<started, due, tally, lastCapture, bundles, suppressed>>

\* Mutant: the cooldown begins anew with every alert.
SuppressAndRestart ==
  /\ ~(captureOnAlert /\ CaptureAllowed(wall, lastCapture))
  /\ \/ Go("alert", "bound")
     \/ Leave("alert", "error") /\ captureOnAlert
  /\ suppressed' = IF captureOnAlert THEN suppressed \cup {wall} ELSE suppressed
  /\ lastCapture' = IF captureOnAlert THEN wall ELSE lastCapture
  /\ UNCHANGED <<iteration, tally, captureTime, bundles>>

Suppress ==
  /\ ~(captureOnAlert /\ CaptureAllowed(wall, lastCapture))
  /\ \/ Go("alert", "bound")
     \/ Leave("alert", "error") /\ captureOnAlert
  /\ suppressed' = IF captureOnAlert THEN suppressed \cup {wall} ELSE suppressed
  /\ UNCHANGED <<iteration, tally, captureTime, lastCapture, bundles>>

\* The observation of a capture ends with all its goroutines; its error is kept
\* in the bundle.
SnapshotEnds ==
  /\ running = {}
  /\ Go("snapshot", "bundle")
  /\ UNCHANGED <<iteration, tally, captured>>

\* A bundle of this watch has the name already; all have the same VMs in it.
NameTaken == \E b \in bundles : b \div Second = captureTime \div Second

\* The published bundle is remembered and counted; listing its files may fail.
WriteBundle ==
  /\ ~NameTaken
  /\ Go("bundle", "bound") \/ Leave("bundle", "error")
  /\ bundles' = bundles \cup {captureTime}
  /\ lastCapture' = captureTime
  /\ captures' = captures + 1
  /\ UNCHANGED <<captureTime, suppressed, count, lines, saved, alerts, iteration>>

\* An error of Write ends the watch, whether the bundle was renamed before it or not.
BundleFails ==
  /\ \/ Leave("bundle", "collision") /\ NameTaken /\ UNCHANGED bundles
     \/ Leave("bundle", "error") /\ UNCHANGED bundles
     \/ Leave("bundle", "error") /\ ~NameTaken /\ bundles' = bundles \cup {captureTime}
  /\ UNCHANGED <<captureTime, lastCapture, suppressed, tally, iteration>>

-----------------------------------------------------------------------------
(* The next iteration. *)

LastIteration == options.limit > 0 /\ count >= options.limit

\* Mutant: the next start is not moved on.
NextStartForgotten == due

\* Mutant: the next start is a period from now.
NextStartFromNow == now + Every

\* Plain top waits from the start of its collection, the others keep a schedule.
NextStart == IF command = "top" THEN started + Every ELSE due + Every

\* The noisy-neighbor watch writes one more line first.
Bound ==
  /\ \/ LastIteration /\ Leave("bound", "nil") /\ UNCHANGED due
     \/ ~LastIteration /\ Go("bound", "wait") /\ due' = NextStart
     \/ command = "noisy" /\ Leave("bound", "error") /\ UNCHANGED due
  /\ UNCHANGED <<started, running, tally, captured>>

\* A start that is past is not waited for; select takes either ready case.
Wait ==
  /\ \/ Go("wait", "check") /\ now >= due
     \/ Leave("wait", "nil") /\ signalled
  /\ UNCHANGED <<iteration, tally, captured>>

\* The final summary is written whatever ended the loop.
Summarise ==
  /\ pc = "summary" /\ pc' = "returned"
  /\ \/ UNCHANGED result
     \/ command # "top" /\ result' = IF result = "nil" THEN "error" ELSE result
  /\ UNCHANGED <<options, clocks, signalled, atSignal, iteration, tally, captured>>

Returned == pc = "returned" /\ UNCHANGED vars

Loop ==
  \/ Open \/ Check \/ Collect \/ CollectEnds \/ Recheck \/ CountIteration \/ WriteIteration
  \/ WriteLine \/ Judge \/ BeginCapture \/ Suppress \/ SnapshotEnds \/ WriteBundle
  \/ BundleFails \/ Bound \/ Wait \/ Summarise

Next ==
  \/ Tick \/ StepWallClock \/ Signal
  \/ \E g \in Latency \cup Observers : Answers(g)
  \/ Loop
  \/ Returned

Spec == Init /\ [][Next]_vars

-----------------------------------------------------------------------------
(* Properties. *)

TypeOK ==
  /\ options \in Options /\ pc \in Points
  /\ now \in Nat /\ offset \in Int
  /\ signalled \in BOOLEAN /\ atSignal \in [at : Points \cup {"nowhere"}, count : Nat]
  /\ started \in Nat /\ due \in Nat /\ running \subseteq Latency \cup Observers
  /\ count \in Nat /\ lines \in Nat /\ saved \in Nat /\ alerts \in Nat /\ captures \in Nat
  /\ captureTime \in Int /\ lastCapture \in Int \cup {Never}
  /\ bundles \subseteq Int /\ suppressed \subseteq Int
  /\ result \in {"none", "nil", "error", "collision"}

Ended == pc \in {"summary", "returned"}

\* The iteration under way has been counted.
Counted == pc \in {"write", "judge", "alert", "snapshot", "bundle", "bound"}

\* No goroutine of a collection outlives it.
JoinedOutsideCollections == pc \notin {"collecting", "snapshot"} => running = {}

\* The scheduled loops know the start of an iteration from its number; plain
\* top only falls behind that schedule.
DueIsScheduled ==
  ~Ended => LET rounds == IF Counted THEN count - 1 ELSE count
            IN  IF command = "top" THEN due >= Every * rounds ELSE due = Every * rounds

\* Nothing starts early, and the next start is at most a period away.
StartedWhenDue ==
  /\ pc \in {"open", "check", "collect"} => due <= now
  /\ pc \in {"collecting", "recheck", "report"} \/ Counted => due <= started /\ started <= now
  /\ due <= now + Every

\* A loop that is about to report does not know of the signal yet.
SignalIsHeard ==
  signalled /\ pc = "report" => atSignal.at = "report" /\ count = atSignal.count

LastIsTheLastBundle ==
  /\ ~Ended => \A b \in bundles :
                  lastCapture # Never /\ (b = lastCapture \/ b + cooldown <= lastCapture)
  /\ lastCapture # Never => lastCapture \in bundles
  /\ pc \in {"snapshot", "bundle"} => CaptureAllowed(captureTime, lastCapture)

\* While the loop runs, its counters differ by what is under way: an iteration
\* that is counted and not yet written, an alert that is not yet raised or
\* captured.
TallyIsKept ==
  /\ IsFiniteSet(bundles)
  /\ ~Ended =>
       /\ captures = Cardinality(bundles) /\ captures <= alerts /\ alerts <= lines
       /\ IF command = "observe" THEN lines = count /\ saved = count
          ELSE lines = (IF pc = "write" THEN count - 1 ELSE count)
       /\ pc \in {"write", "judge", "alert", "snapshot", "bundle"} => command # "observe"
       /\ pc = "judge" => alerts < lines
       /\ pc \in {"alert", "snapshot", "bundle"} => captures < alerts

Inv ==
  /\ TypeOK
  /\ JoinedOutsideCollections
  /\ DueIsScheduled
  /\ StartedWhenDue
  /\ SignalIsHeard
  /\ LastIsTheLastBundle
  /\ TallyIsKept

\* However late collections end, the loop catches up without ever having
\* reported more iterations than periods of --every have begun.
NeverAheadOfSchedule == Every * count <= now + Every

\* What a signal finds unfinished is thrown away: a collection that runs when the
\* context is cancelled, and whose guest evidence is therefore cut short, is not
\* counted or written, and no later one is.
InterruptedWorkIsDiscarded ==
  signalled => IF atSignal.at = "report"
                 THEN atSignal.count <= count /\ count <= atSignal.count + 1
                 ELSE count = atSignal.count

\* Whatever the wall clock does, bundles of one watch are a cooldown apart by
\* their names, so a watch is not ended by a bundle of its own.
CooldownIsKept ==
  /\ \A a, b \in bundles : a # b => a + cooldown <= b \/ b + cooldown <= a
  /\ cooldown >= Second => result # "collision"

\* An alert goes without a capture only for a published bundle that is younger
\* than the cooldown (or seems to come later), never for an earlier alert.
SuppressionIsExplained ==
  \A t \in suppressed : \E b \in bundles : t < b + cooldown

\* The final summary is what was written: exactly when the loop ends well, and
\* else but for the iteration or the bundle that failed.
SummaryIsTrue ==
  Ended =>
    /\ result = "nil" => lines = count /\ captures = Cardinality(bundles)
    /\ IF command = "observe"
         THEN count = saved /\ lines \in {count, count + 1}
         ELSE lines \in {count, count - 1}
    /\ Cardinality(bundles) \in {captures, captures + 1}
    /\ captures <= alerts /\ alerts <= lines

=============================================================================
