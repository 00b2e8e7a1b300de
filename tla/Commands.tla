------------------------------- MODULE Commands -------------------------------
(***************************************************************************)
(* One run of the program: the arguments are rewritten, parsed and         *)
(* dispatched, and the command performs its stages one after another, each *)
(* of which may fail and so end the command.  A stage stands for one call  *)
(* of another package; what a probe or a sampler does in it is in the      *)
(* modules about those.  Loops (watch, top) are one stage here.            *)
(***************************************************************************)
EXTENDS Settings, FiniteSets

CONSTANTS CommandLines,   \* the command lines considered: a verb and its option groups
          Interactive     \* whether standard input and output are terminals

\* An option alone, or an option and the word that follows it.
OptionGroups ==
  {g \in Seq(Tokens) : /\ Len(g) \in {1, 2} /\ ~IsWord(g[1])
                       /\ Len(g) = 2 => g[1].form = "bare" /\ IsWord(g[2])}

\* The verb is the words before the options, with the name of a VM for inspect.
ASSUME CommandsAssumption ==
  /\ Interactive \in BOOLEAN
  /\ \A c \in CommandLines :
       /\ c.verb \in Seq(Tokens) /\ c.options \in Seq(OptionGroups)
       /\ c.options # <<>> => /\ c.verb # <<>> /\ \A i \in DOMAIN c.verb : IsWord(c.verb[i])
                              /\ c.verb[1].text = "inspect" => Len(c.verb) > 1

VARIABLES given,      \* the command line of the process
          command,    \* the name of the command that was dispatched, its options and settings
          phase,      \* "start", "run" or "ended"
          todo,       \* the stages that are left
          deferred,   \* the stages that run also after a failure
          done,       \* the stages that were performed
          failed,     \* whether an error is returned
          terminal    \* the modes that are switched on

Verb(args) == IF args = <<>> THEN "" ELSE args[1].text
line == given.verb \o FlattenSeq(given.options)

vars == <<given, command, phase, todo, deferred, done, failed, terminal>>

-----------------------------------------------------------------------------
If(condition, stages) == IF condition THEN stages ELSE <<>>

PlanStages == <<"inventory", "resolve">>
TargetStages == <<"inventory", "select", "cgroups">>
EBPF(r) == "--include-ebpf-latency" \in r.on
Discovers(r) == "--discover-suspects" \in r.on

\* With --report-dir the incident is explained before the window if the
\* suspect is named, and after it if it has to be found first.
EvidenceStages(r) ==
  LET report == Text(r, "--report-dir") # "" IN
  If(report, <<"load">>) \o If(report /\ ~Discovers(r), <<"explain">>) \o PlanStages
    \o If(EBPF(r), <<"probe">>) \o <<"sample", "diagnose">> \o If(report /\ Discovers(r), <<"explain">>)

runTracePlan == PlanStages \o <<"write">>
runStorageCommand(command2) == PlanStages \o <<"sample">> \o (IF command2 = "watch" THEN <<"loop">> ELSE <<"write">>)
runQEMUIOWatch == PlanStages \o <<"loop">>
runQEMUIOSummary == PlanStages \o <<"sample", "write">>

runNoisyNeighborDiagnosis(r) ==
  EvidenceStages(r) \o If({"--output", "--output-dir"} \cap r.seen # {}, <<"save">>) \o <<"write">>
runCaptureCommand(r) == EvidenceStages(r) \o <<"save", "write">>

runEBPFCommand(name, r) ==
  CASE name \in {"doctor", "block-watch"} -> <<"write">>
    [] name = "block-events" -> <<"formats", "probe">>
    [] name = "block-count" -> <<"probe", "write">>
    [] name = "block-latency" -> If(Text(r, "--victim") # "", PlanStages \o <<"single">>) \o <<"probe", "write">>
runEBPFVMBlockLatency(r) == TargetStages \o <<"probe">> \o If("--output" \in r.seen, <<"save">>) \o <<"write">>
runVMStorageStats(r) == TargetStages \o <<"sample">> \o If("--output" \in r.seen, <<"save">>) \o <<"write">>

runInspect == <<"inventory", "find", "write">>
runInventory == <<"inventory", "write">>
runExperimentSummary == <<"load", "write">>
runIncidentExplanation == <<"load", "explain", "write">>
runHostStatus == <<"settings", "sample", "write">>

\* The three guest commands find their VM, make a runner and a target, ask
\* the guest, and write what it said.
loadGuestTarget == <<"enabled", "inventory", "validate", "find">>
loadDatabaseTarget == <<"inventory", "validate", "find", "database">>
Ask == <<"runner", "target", "guest", "write">>
runGuestStatus == loadGuestTarget \o Ask
runServiceStatus == loadGuestTarget \o <<"services">> \o Ask
runDBStatus == loadDatabaseTarget \o Ask

runObserveSnapshot == <<"inventory", "validate", "resolve", "observe", "write">>
runObserveWatch(r) == If("--output-dir" \in r.seen, <<"open">>) \o <<"loop">>
runStatus(r) == IF "--watch" \in r.on THEN <<"loop">> ELSE <<"inventory", "sample", "sort", "write">>

\* The dispatch of the arguments that were accepted.
runStages(name, r) ==
  CASE name \in {<<"version">>, <<"doctor">>} -> <<"write">>
    [] name = <<"ebpf", "vm-block-latency">> -> runEBPFVMBlockLatency(r)
    [] name[1] = "ebpf" /\ name[2] # "vm-block-latency" -> runEBPFCommand(name[2], r)
    [] name = <<"vm">> -> runVMStorageStats(r)
    [] name = <<"inventory">> -> runInventory
    [] name = <<"inspect">> -> runInspect
    [] name = <<"host">> -> runHostStatus
    [] name = <<"guest">> -> runGuestStatus
    [] name = <<"service">> -> runServiceStatus
    [] name = <<"db">> -> runDBStatus
    [] name = <<"observe", "snapshot">> -> runObserveSnapshot
    [] name = <<"observe", "watch">> -> runObserveWatch(r)
    [] name = <<"status">> -> runStatus(r)
    [] name = <<"trace">> -> runTracePlan
    [] name[1] = "storage" -> runStorageCommand(name[2])
    [] name = <<"qemu", "io-watch">> -> runQEMUIOWatch
    [] name = <<"qemu", "io-summary">> -> runQEMUIOSummary
    [] name = <<"diagnose">> -> runNoisyNeighborDiagnosis(r)
    [] name = <<"capture">> -> runCaptureCommand(r)
    [] name = <<"experiment">> -> runExperimentSummary
    [] name = <<"incidents">> -> runIncidentExplanation
    [] name = <<"watch">> -> <<"header", "loop">>

\* The monitor is interactive without a limit of iterations, with a screen
\* that may be cleared and on a terminal.
runTop(r) ==
  IF Interactive /\ "--iterations" \notin r.seen /\ Clear(r)
  THEN <<"raw">> \o If("--application" \in r.on, <<"screen">>) \o <<"loop">>
  ELSE <<"loop">>

Stages(name, r) == IF name = <<"top">> THEN runTop(r) ELSE runStages(name, r)

\* The summary of a watch is written whatever its loop returned.
Summaries(name, r) ==
  If(name \in {<<"watch">>, <<"observe", "watch">>} \/ (name = <<"status">> /\ "--watch" \in r.on), <<"summary">>)

-----------------------------------------------------------------------------
Init ==
  /\ given \in CommandLines
  /\ command = [name |-> <<>>, options |-> Nothing, settings |-> DevelopmentDefaults]
  /\ phase = "start" /\ todo = <<>> /\ deferred = <<>> /\ done = {} /\ failed = FALSE /\ terminal = {}

\* The settings are resolved first, then the rest is rewritten.
Read(arguments) ==
  LET runtime == Resolve(arguments)
      rewritten == IF runtime.ok THEN Arguments(runtime.args, Interactive, runtime.settings.root) ELSE Unreadable
  IN [ok |-> rewritten.ok, help |-> rewritten.help, args |-> rewritten.args, settings |-> runtime.settings]

Run ==
  /\ phase = "start"
  /\ \E rewritten \in {Read(line)} : \E r \in {Parse(rewritten.args)} :
       \/ /\ ~rewritten.ok \/ (~rewritten.help /\ ~r.ok)
          /\ phase' = "ended" /\ failed' = TRUE
          /\ UNCHANGED <<command, todo, deferred>>
       \/ /\ rewritten.ok /\ rewritten.help
          /\ phase' = "ended"
          /\ UNCHANGED <<command, failed, todo, deferred>>
       \/ /\ rewritten.ok /\ ~rewritten.help /\ r.ok
          /\ phase' = "run"
          /\ command' = [name |-> Name(rewritten.args), options |-> r, settings |-> rewritten.settings]
          /\ todo' = Stages(Name(rewritten.args), r)
          /\ deferred' = Summaries(Name(rewritten.args), r)
          /\ UNCHANGED failed
  /\ UNCHANGED <<given, done, terminal>>

\* What a stage leaves to be undone, before what was left by earlier ones.
DeferredScreenOnly(stage) == IF stage = "screen" THEN <<"unscreen">> ELSE <<>>

Deferred(stage) ==
  CASE stage = "raw" -> <<"cook">>
    [] stage = "screen" -> <<"unscreen">>
    [] stage = "open" -> <<"close">>
    [] OTHER -> <<>>

Switched(stage) == IF stage \in {"raw", "screen"} THEN terminal \cup {stage} ELSE terminal

\* A database is asked over ssh, with settings of its own.
DatabaseReachable(guest) ==
  guest.timeout = "good" /\ guest.transport = "ssh" /\ guest.user # "" /\ guest.hosts # ""

\* The stage that selects the VMs to measure fails if there are none, and
\* those before a guest is asked fail unless the settings provide for it.
Selected(stage) ==
  LET configured == EffectiveObservability(command.settings)
      guest == configured.guest
      Of(entries) == SelectSeq(entries, LAMBDA entry : entry.vm = Text(command.options, "--vm"))
  IN
  /\ stage = "enabled" => guest.enabled
  /\ stage = "validate" => ValidateWithInventory(command.settings, {vm.name : vm \in Inventory})
  /\ stage = "services" => Of(configured.services) # <<>>
  /\ stage = "database" => Len(Of(configured.databases)) = 1 /\ DatabaseReachable(guest)
  /\ stage = "select" =>
    IF command.name = <<"vm">> THEN selectVMStorageStatsTargets(command.options).ok
    ELSE selectVMBlockLatencyTargets(command.options).ok

Perform ==
  /\ phase = "run" /\ todo # <<>> /\ Selected(Head(todo))
  /\ done' = done \cup {Head(todo)}
  /\ todo' = Tail(todo)
  /\ deferred' = Deferred(Head(todo)) \o deferred
  /\ terminal' = Switched(Head(todo))
  /\ UNCHANGED <<given, command, phase, failed>>

\* A stage fails, and the rest is given up.  The summary is only written by a
\* watch that had opened its output.
Fail ==
  /\ phase = "run" /\ todo # <<>>
  /\ failed' = TRUE
  /\ todo' = <<>>
  /\ deferred' = IF Head(todo) = "open" THEN <<>> ELSE deferred
  /\ UNCHANGED <<given, command, phase, done, terminal>>

\* A deferred stage may fail as well; the ones after it are still performed.
Undo(works) ==
  /\ phase = "run" /\ todo = <<>> /\ deferred # <<>>
  /\ deferred' = Tail(deferred)
  /\ failed' = (failed \/ ~works)
  /\ done' = IF works THEN done \cup {Head(deferred)} ELSE done
  /\ terminal' = CASE works /\ Head(deferred) = "cook" -> terminal \ {"raw"}
                   [] works /\ Head(deferred) = "unscreen" -> terminal \ {"screen"}
                   [] OTHER -> terminal
  /\ UNCHANGED <<given, command, phase, todo>>

End ==
  /\ phase = "run" /\ todo = <<>> /\ deferred = <<>>
  /\ phase' = "ended"
  /\ UNCHANGED <<given, command, todo, deferred, done, failed, terminal>>

Ended == phase = "ended" /\ UNCHANGED vars

-----------------------------------------------------------------------------
\* Type invariant.
TypeOK ==
  /\ given \in CommandLines /\ phase \in {"start", "run", "ended"} /\ failed \in BOOLEAN
  /\ terminal \subseteq {"raw", "screen"}

NamesVictim == \E i \in 1..(Len(line) - 1) : line[i] = Option("--victim") /\ line[i + 1].text # ""

\* Probes are attached only for a command line that was accepted as a whole,
\* after the VMs it names were found, and never against an explicit
\* --include-ebpf-latency=false, also when the command line was expanded.  The
\* guest, service and db status commands ask a guest only under settings that
\* say how to reach one, and, but for its database, that enable it; what observe
\* asks of a guest is part of its collection, which is one stage.
ProbesAreAskedFor ==
  /\ "probe" \in done =>
    /\ OptionEquals("--include-ebpf-latency", "false") \notin ToSet(line)
    /\ Verb(line) \in {"investigate", "bundle"} \/ NamesVictim => {"resolve", "select"} \cap done # {}
  /\ "guest" \in done =>
    \A inForce \in {Resolve(line).settings} :
      /\ inForce.observability /\ inForce.guest.transport = "ssh" /\ inForce.guest.hosts # ""
      /\ command.name # <<"db">> => inForce.guest.enabled

Swapped(options, i) == [options EXCEPT ![i] = options[i + 1], ![i + 1] = options[i]]

\* The order of the options does not matter: swapping two neighbours changes
\* neither whether the command line is accepted nor what it means.  (Two
\* empty texts are not told from one by the parsers that notice a repetition
\* by the value; they are left out.)
NoEmptyText == \A g \in ToSet(given.options) : Word("") \notin ToSet(g)

Meaning(arguments) ==
  {[ok |-> a.ok, help |-> a.help, options |-> IF a.ok /\ ~a.help THEN Parse(a.args) ELSE Nothing,
    settings |-> IF a.ok THEN a.settings ELSE DevelopmentDefaults] : a \in {Read(arguments)}}

OptionOrderIsImmaterial ==
  phase = "start" /\ NoEmptyText =>
    \A i \in 1..(Len(given.options) - 1) :
      \A swapped \in {given.verb \o FlattenSeq(Swapped(given.options, i))} : Meaning(swapped) = Meaning(line)

ShortCommands == {Word("monitor"), Word("investigate"), Word("bundle")}

\* The long command, with what it needs.
Direct(args, root) ==
  LET suspect == IF Len(args) > 2 /\ IsWord(args[3]) THEN "--suspect" ELSE "--discover-suspects"
      target(long) == Words(<<long, "noisy-neighbor">>) \o <<Option("--victim"), args[2], Option(suspect)>>
                        \o SubSeq(args, 3, Len(args))
  IN CASE args[1] = Word("monitor") -> <<Word("top")>> \o Tail(args)
       [] args[1] = Word("investigate") -> target("diagnose")
       [] args[1] = Word("bundle") -> target("capture") \o Default(args, "--output-dir", <<Word(root)>>)

\* monitor, investigate and bundle only fill in what the operator left open:
\* an option that is given keeps its value, and a command line that the long
\* command accepts is accepted.  (--application is what makes a monitor of
\* top; monitor itself is not given it.)
ExpansionKeepsChoices ==
  phase = "start" /\ NoEmptyText /\ line # <<>> /\ line[1] \in ShortCommands =>
    \A runtime \in {x \in {Resolve(line)} : x.ok} :
    \A expanded \in {x \in {expandOperatorCommand(runtime.args, runtime.settings.root)} : x.ok} :
    \A r \in {Parse(expanded.args)} :
      /\ r.ok => \A g \in {options \in ToSet(given.options) : ~Is(options[1], "--config")} :
                  IF Len(g) = 2 THEN r.value[g[1].option] = g[2]
                  ELSE booleanFlag(g[1], g[1].option).value = (g[1].option \in r.on)
      /\ \A direct \in {Direct(runtime.args, runtime.settings.root)} :
           Parse(direct).ok /\ ~hasOption(line, "--application") => r.ok
=============================================================================
