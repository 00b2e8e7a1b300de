----------------------------- MODULE CommandLine -----------------------------
(***************************************************************************)
(* The command line of Solis: from the arguments of the process to the     *)
(* options of one command.  Every parser of the program is one loop over   *)
(* its arguments with a set of options it has seen; they differ in the     *)
(* options they know and in what they ask of them together, which is what  *)
(* the definitions below keep.  An error is only told from a success.      *)
(*                                                                         *)
(* An argument is a word, with what time.ParseDuration and strconv.Atoi    *)
(* make of it (0: refused or not positive), or an option, alone or with    *)
(* an equals sign and a value that is a boolean or not.  Time is counted   *)
(* in tenths of a second.                                                  *)
(***************************************************************************)
EXTENDS Integers, Sequences, SequencesExt

CONSTANT Inventory,   \* the VMs: records with name, running, pid (known or not)
         OutputRoot   \* capture_output_root of the built-in settings
ASSUME InventoryAssumption ==
  /\ \A vm \in Inventory : vm.name # "" /\ vm.running \in BOOLEAN /\ vm.pid \in BOOLEAN
  /\ OutputRoot # ""

Word(text) == [option |-> "", form |-> "bare", text |-> text, duration |-> 0, number |-> 0]
Duration(text, d) == [Word(text) EXCEPT !.duration = d]
Number(text, n) == [Word(text) EXCEPT !.number = n]
Option(name) == [Word("") EXCEPT !.option = name]
OptionEquals(name, form) == [Option(name) EXCEPT !.form = form]

\* What an argument can be: an option has no text of its own, a word has no
\* equals sign, and an empty one is no duration and no number.
Tokens ==
  {t \in [option : STRING, form : {"bare", "true", "false", "bad"}, text : STRING, duration : Nat, number : Nat] :
     /\ t.option # "" => t.text = ""
     /\ t.option = "" => t.form = "bare"
     /\ t.text = "" => t.duration = 0 /\ t.number = 0}

IsWord(t) == t.option = ""
Is(t, name) == t.option = name
Words(texts) == [i \in DOMAIN texts |-> Word(texts[i])]
StartsWith(args, texts) == Len(args) >= Len(texts) /\ SubSeq(args, 1, Len(texts)) = Words(texts)

booleanFlagByName(t, name) == [matched |-> Is(t, name), ok |-> TRUE, value |-> TRUE]

\* A token is one of the boolean option name: alone it is true, after the
\* equals sign stands its value; anything else there is an error ("bad").
booleanFlag(t, name) ==
  [matched |-> Is(t, name), ok |-> t.form # "bad", value |-> t.form \in {"bare", "true"}]

-----------------------------------------------------------------------------
(* One parser: its boolean options, its options with a value (durations,   *)
(* counts and texts), which texts may not be empty, and the options whose  *)
(* repetition it notices only by the value that is already there.          *)
Grammar(booleans, durations, counts, texts) ==
  [booleans |-> booleans, durations |-> durations, counts |-> counts, texts |-> texts,
   filled |-> {}, byValue |-> {}]

Valued(g) == g.durations \cup g.counts \cup g.texts

Nothing == [ok |-> TRUE, pending |-> "", seen |-> {}, on |-> {}, value |-> [o \in {} |-> Word("")]]
Refused == [Nothing EXCEPT !.ok = FALSE]

LastOneWins(g, s, name) == FALSE

Repeated(g, s, name) ==
  IF name \in g.byValue THEN name \in s.seen /\ s.value[name].text # "" ELSE name \in s.seen

setKnownBooleanOption(s, t) ==
  IF booleanFlag(t, t.option).ok /\ t.option \notin s.seen
  THEN [s EXCEPT !.seen = @ \cup {t.option},
                 !.on = IF booleanFlag(t, t.option).value THEN @ \cup {t.option} ELSE @]
  ELSE Refused

AcceptsValue(g, name, t) ==
  /\ name \in g.durations => t.duration > 0
  /\ name \in g.counts => t.number > 0
  /\ name \in g.filled => t.text # ""

setValue(g, s, t) ==
  IF IsWord(t) /\ AcceptsValue(g, s.pending, t)
  THEN [s EXCEPT !.pending = "", !.seen = @ \cup {s.pending},
                 !.value = [o \in DOMAIN @ \cup {s.pending} |-> IF o = s.pending THEN t ELSE @[o]]]
  ELSE Refused

parseArgument(g, s, t) ==
  CASE ~s.ok -> s
    [] s.ok /\ s.pending # "" -> setValue(g, s, t)
    [] s.ok /\ s.pending = "" /\ t.option \in g.booleans -> setKnownBooleanOption(s, t)
    [] /\ s.ok /\ s.pending = "" /\ t.option \in Valued(g) \ g.booleans
       /\ t.form = "bare" /\ ~Repeated(g, s, t.option) ->
         [s EXCEPT !.pending = t.option]
    [] OTHER -> Refused

parseOptions(g, args) ==
  LET after[i \in 0..Len(args)] == IF i = 0 THEN Nothing ELSE parseArgument(g, after[i - 1], args[i])
      end == after[Len(args)]
  IN IF end.ok /\ end.pending = "" THEN end ELSE Refused

\* What the options of a successful parse say.
Text(r, name) == IF name \in DOMAIN r.value THEN r.value[name].text ELSE ""
Given(r, name, default) ==
  IF name \in DOMAIN r.value THEN r.value[name].duration + r.value[name].number ELSE default
Require(r, condition) == IF condition THEN r ELSE Refused
OneSuspect(r) == ~(Text(r, "--suspect") # "" /\ "--discover-suspects" \in r.on)
IntervalFits(r, duration, interval) == Given(r, "--interval", interval) <= Given(r, "--duration", duration)

-----------------------------------------------------------------------------
Includes == {"--include-guest", "--include-services", "--include-db", "--include-ebpf-latency"}

ValidObservation(r) ==
  /\ Text(r, "--victim") # ""
  /\ "--json" \in r.on
  /\ OneSuspect(r)
  /\ IntervalFits(r, 100, 20)

parseObserveSnapshotArgs(args) ==
  LET r == parseOptions(Grammar({"--json", "--discover-suspects"} \cup Includes, {"--duration", "--interval"},
                                {}, {"--victim", "--suspect"}), SubSeq(args, 3, Len(args)))
  IN Require(r, r.ok /\ StartsWith(args, <<"observe", "snapshot">>) /\ ValidObservation(r))

parseObserveWatchArgs(args) ==
  LET g == Grammar({"--json", "--discover-suspects"} \cup Includes, {"--duration", "--interval", "--every"},
                   {"--iterations"}, {"--victim", "--suspect", "--output-dir"})
      r == parseOptions([g EXCEPT !.filled = {"--output-dir"}], SubSeq(args, 3, Len(args)))
  IN Require(r, r.ok /\ StartsWith(args, <<"observe", "watch">>) /\ ValidObservation(r))

parseHostStatusArgs(args) ==
  Require(Nothing, /\ Len(args) = 3 /\ StartsWith(args, <<"host", "status">>)
                   /\ LET json == booleanFlag(args[3], "--json") IN json.matched /\ json.ok /\ json.value)

parseVMJSONStatusArgs(args, command) ==
  LET g == [Grammar({"--json"}, {}, {}, {"--vm"}) EXCEPT !.filled = {"--vm"}]
      r == parseOptions(g, SubSeq(args, 3, Len(args)))
  IN Require(r, r.ok /\ Len(args) = 5 /\ StartsWith(args, <<command, "status">>) /\ r.seen = {"--vm", "--json"}
                     /\ "--json" \in r.on)

\* --clear and --no-clear are booleans of one field; both together are refused.
ClearOptions == {"--clear", "--no-clear"}
Clear(r) == IF "--clear" \in r.seen THEN "--clear" \in r.on ELSE "--no-clear" \notin r.on

ValidSort(r, fields) == "--sort" \in r.seen => Text(r, "--sort") \in fields
StatusSortFields == {"name", "tenant", "role", "pressure", "write", "syscw"}
TopSortFields == {"name", "pressure", "write", "ops", "latency"}

parseStatusArgs(args) ==
  LET r == parseOptions(Grammar({"--json", "--watch"} \cup ClearOptions, {"--duration", "--interval", "--every"},
                                {"--iterations"}, {"--sort"}), SubSeq(args, 2, Len(args)))
      watched == {"--every", "--iterations"} \cup ClearOptions
  IN Require(r, /\ r.ok /\ StartsWith(args, <<"status">>)
                /\ ValidSort(r, StatusSortFields)
                /\ IntervalFits(r, 30, 10)
                /\ ~({"--watch", "--json"} \subseteq r.on)
                /\ ~(ClearOptions \subseteq r.seen)
                /\ "--watch" \notin r.on => r.seen \cap watched = {})

parseTopArgs(args) ==
  LET r == parseOptions(Grammar({"--include-ebpf-latency", "--application"} \cup ClearOptions,
                                {"--duration", "--interval", "--every", "--ui-refresh"}, {"--iterations"}, {"--sort"}),
                        SubSeq(args, 2, Len(args)))
  IN Require(r, /\ r.ok /\ StartsWith(args, <<"top">>)
                /\ ValidSort(r, TopSortFields)
                /\ Given(r, "--ui-refresh", 1) >= 1
                /\ IntervalFits(r, 30, 10)
                /\ ~(ClearOptions \subseteq r.seen))

-----------------------------------------------------------------------------
parseEBPFBlockWatchArgs(args) ==
  LET r == parseOptions(Grammar({}, {"--duration"}, {}, {}), SubSeq(args, 3, Len(args)))
  IN Require(r, r.ok /\ StartsWith(args, <<"ebpf", "block-watch">>))

parseRequiredEBPFDuration(args, command) ==
  LET r == parseOptions(Grammar({}, {"--duration"}, {}, {}), SubSeq(args, 3, Len(args)))
  IN Require(r, r.ok /\ StartsWith(args, <<"ebpf", command>>) /\ "--duration" \in r.seen)

parseEBPFBlockLatencyArgs(args) ==
  LET r == parseOptions(Grammar({}, {"--duration"}, {}, {"--victim", "--suspect"}), SubSeq(args, 3, Len(args)))
  IN Require(r, r.ok /\ StartsWith(args, <<"ebpf", "block-latency">>) /\ "--duration" \in r.seen
                     /\ (Text(r, "--victim") = "") = (Text(r, "--suspect") = ""))

parseEBPFVMBlockLatencyArgs(args) ==
  LET g == Grammar({"--json", "--all-vms"}, {"--duration", "--interval"}, {},
                   {"--device", "--victim", "--suspect", "--output"})
      r == parseOptions([g EXCEPT !.filled = g.texts], SubSeq(args, 3, Len(args)))
  IN Require(r, /\ r.ok /\ StartsWith(args, <<"ebpf", "vm-block-latency">>)
                /\ "--json" \in r.on
                /\ IntervalFits(r, 100, 10)
                /\ "--all-vms" \in r.on => {"--victim", "--suspect"} \cap r.seen = {}
                /\ Text(r, "--device") \notin {"/", ".", ".."})

parseVMStorageStatsArgs(args) ==
  LET g == Grammar({"--json", "--all-vms"}, {"--duration", "--interval"}, {}, {"--victim", "--suspect", "--output"})
      r == parseOptions([g EXCEPT !.filled = g.texts], SubSeq(args, 3, Len(args)))
  IN Require(r, /\ r.ok /\ StartsWith(args, <<"vm", "storage-stats">>)
                /\ "--json" \in r.on
                /\ IntervalFits(r, 100, 10)
                /\ "--all-vms" \in r.on => {"--victim", "--suspect"} \cap r.seen = {}
                /\ "--suspect" \in r.seen => "--victim" \in r.seen)

parseVictimSuspectOptions(args, start) ==
  LET g == Grammar({}, {}, {}, {"--victim", "--suspect"})
      r == parseOptions([g EXCEPT !.byValue = g.texts], SubSeq(args, start, Len(args)))
  IN Require(r, r.ok /\ Text(r, "--victim") # "" /\ Text(r, "--suspect") # "")

parseIncidentExplainArgs(args) ==
  LET r == parseVictimSuspectOptions(args, 4)
  IN Require(r, r.ok /\ Len(args) >= 3 /\ args[2] = Word("explain") /\ IsWord(args[3]))

\* The parser of diagnose, capture, storage watch and qemu: the options that
\* the command does not allow are unknown to it.
parseTimedTargetOptions(args, duration, interval, allowReportDirectory, allowOutput, allowEBPFLatency, allowDiscovery, allowJSON) ==
  LET booleans == (IF allowDiscovery THEN {"--discover-suspects"} ELSE {})
                    \cup (IF allowEBPFLatency THEN {"--include-ebpf-latency"} ELSE {})
                    \cup (IF allowJSON THEN {"--json"} ELSE {})
      texts == {"--victim", "--suspect"} \cup (IF allowReportDirectory THEN {"--report-dir"} ELSE {})
                 \cup (IF allowOutput THEN {"--output", "--output-dir"} ELSE {})
      g == [Grammar(booleans, {"--duration", "--interval"}, {}, texts)
              EXCEPT !.byValue = {"--victim", "--suspect", "--report-dir"}]
      r == parseOptions(g, SubSeq(args, 3, Len(args)))
  IN Require(r, /\ r.ok
                /\ Text(r, "--victim") # ""
                /\ OneSuspect(r)
                /\ Text(r, "--suspect") # "" \/ "--discover-suspects" \in r.on
                /\ ~({"--output", "--output-dir"} \subseteq r.seen)
                /\ IntervalFits(r, duration, interval))

parseTimedWatchOptions(args) == parseTimedTargetOptions(args, 300, 50, FALSE, FALSE, FALSE, FALSE, FALSE)

IsNoisyNeighbor(args) == Len(args) >= 2 /\ args[2] = Word("noisy-neighbor")

parseDiagnoseNoisyNeighborArgs(args) ==
  LET r == parseTimedTargetOptions(args, 100, 20, TRUE, TRUE, TRUE, TRUE, TRUE)
  IN Require(r, r.ok /\ IsNoisyNeighbor(args))

parseCaptureNoisyNeighborArgs(args) ==
  LET r == parseTimedTargetOptions(args, 100, 20, TRUE, TRUE, TRUE, TRUE, FALSE)
  IN Require(r, /\ r.ok /\ IsNoisyNeighbor(args)
                /\ Text(r, "--output") = "" /\ Text(r, "--output-dir") # "")

parseWatchNoisyNeighborArgs(args) ==
  LET g == Grammar({"--discover-suspects", "--include-ebpf-latency", "--capture-on-alert", "--verbose"},
                   {"--window", "--every", "--cooldown"}, {"--iterations"}, {"--victim", "--suspect", "--output-dir"})
      r == parseOptions([g EXCEPT !.filled = {"--output-dir"}], SubSeq(args, 3, Len(args)))
  IN Require(r, /\ r.ok /\ IsNoisyNeighbor(args)
                /\ Text(r, "--victim") # ""
                /\ OneSuspect(r)
                /\ Text(r, "--suspect") # "" \/ "--discover-suspects" \in r.on)

-----------------------------------------------------------------------------
(* What happens to the arguments before they reach a parser.               *)
Rewritten(args) == [ok |-> TRUE, args |-> args, help |-> FALSE]
Unreadable == [ok |-> FALSE, args |-> <<>>, help |-> FALSE]

\* A leading --json is moved to the end of the arguments.
relocateLeadingGlobalJSON(args) ==
  IF args = <<>> \/ ~Is(args[1], "--json") THEN Rewritten(args)
  ELSE LET json == booleanFlag(args[1], "--json")
           twice == Len(args) > 1 /\ Is(args[2], "--json")
       IN IF json.ok /\ ~twice
          THEN Rewritten(Append(Tail(args), OptionEquals("--json", IF json.value THEN "true" ELSE "false")))
          ELSE Unreadable

stripHelpFlags(args) ==
  LET help == {i \in DOMAIN args : Is(args[i], "--help")} IN
  IF help = {} THEN Rewritten(args)
  ELSE LET i == CHOOSE i \in help : TRUE
       IN IF help = {i} /\ args[i].form # "bad"
          THEN [ok |-> TRUE, help |-> booleanFlag(args[i], "--help").value,
                args |-> SubSeq(args, 1, i - 1) \o SubSeq(args, i + 1, Len(args))]
          ELSE Unreadable

hasOption(args, name) == \E i \in DOMAIN args : Is(args[i], name)

DefaultAlways(args, name, value) == <<Option(name)>> \o value

Default(args, name, value) == IF hasOption(args, name) THEN <<>> ELSE <<Option(name)>> \o value

\* investigate and bundle: a victim, perhaps a suspect, and options.
expandTargetOperatorCommand(args, command, defaultOutputDirectory) ==
  LET named == Len(args) >= 3 /\ IsWord(args[3])
      remainder == SubSeq(args, IF named THEN 4 ELSE 3, Len(args))
      suspect == IF named THEN <<Option("--suspect"), args[3]>> ELSE <<Option("--discover-suspects")>>
  IN IF Len(args) < 2 \/ ~IsWord(args[2]) \/ args[2].text = "" \/ (named /\ args[3].text = "") THEN Unreadable
     ELSE Rewritten(<<Word(command), Word("noisy-neighbor"), Option("--victim"), args[2]>> \o suspect
                      \o Default(remainder, "--include-ebpf-latency", <<>>)
                      \o (IF command = "capture"
                          THEN Default(remainder, "--output-dir", <<Word(defaultOutputDirectory)>>) ELSE <<>>)
                      \o remainder)

expandOperatorCommand(args, root) ==
  CASE args[1] = Word("monitor") ->
         LET base == <<Word("top")>> \o Tail(args) \o <<Option("--application")>>
         IN Rewritten(base \o Default(base, "--duration", <<Duration("5s", 50)>>)
                           \o Default(base, "--every", <<Duration("7s", 70)>>)
                           \o Default(base, "--ui-refresh", <<Duration("200ms", 2)>>)
                           \o Default(base, "--include-ebpf-latency", <<>>))
    [] args[1] = Word("investigate") -> expandTargetOperatorCommand(args, "diagnose", "")
    [] args[1] = Word("bundle") -> expandTargetOperatorCommand(args, "capture", root)
    [] OTHER -> Rewritten(args)

-----------------------------------------------------------------------------
(* The command that the arguments name, and its parser.                    *)
TwoWordCommands ==
  {<<"ebpf", "doctor">>, <<"ebpf", "block-watch">>, <<"ebpf", "block-events">>, <<"ebpf", "block-count">>,
   <<"ebpf", "block-latency">>, <<"ebpf", "vm-block-latency">>, <<"observe", "snapshot">>, <<"observe", "watch">>,
   <<"storage", "snapshot">>, <<"storage", "watch">>, <<"qemu", "io-watch">>, <<"qemu", "io-summary">>}

Name(args) ==
  IF args = <<>> THEN <<>>
  ELSE IF Len(args) >= 2 /\ <<args[1].text, args[2].text>> \in TwoWordCommands
  THEN <<args[1].text, args[2].text>> ELSE <<args[1].text>>

Bare(args, usage) == Require(Nothing, usage)

Parse(args) ==
  LET name == Name(args) IN
  CASE args = <<>> -> Refused
    [] name = <<"version">> -> Bare(args, Len(args) = 1 \/ (Len(args) = 2 /\ Is(args[2], "--json") /\ args[2].form # "bad"))
    [] name = <<"doctor">> -> Bare(args, Len(args) = 1 \/ args = <<Word("doctor"), Option("--lab")>>)
    [] name = <<"ebpf", "doctor">> -> Bare(args, Len(args) = 2)
    [] name = <<"ebpf", "block-watch">> -> parseEBPFBlockWatchArgs(args)
    [] name \in {<<"ebpf", "block-events">>, <<"ebpf", "block-count">>} -> parseRequiredEBPFDuration(args, name[2])
    [] name = <<"ebpf", "block-latency">> -> parseEBPFBlockLatencyArgs(args)
    [] name = <<"ebpf", "vm-block-latency">> -> parseEBPFVMBlockLatencyArgs(args)
    [] name = <<"inventory">> -> Nothing
    [] name = <<"host">> -> parseHostStatusArgs(args)
    [] name \in {<<"guest">>, <<"service">>, <<"db">>} -> parseVMJSONStatusArgs(args, name[1])
    [] name = <<"observe", "snapshot">> -> parseObserveSnapshotArgs(args)
    [] name = <<"observe", "watch">> -> parseObserveWatchArgs(args)
    [] name = <<"status">> -> parseStatusArgs(args)
    [] name = <<"top">> -> parseTopArgs(args)
    [] name = <<"trace">> -> Require(parseVictimSuspectOptions(args, 3), Len(args) >= 2 /\ args[2] = Word("plan"))
    [] name = <<"storage", "snapshot">> -> parseVictimSuspectOptions(args, 3)
    [] name \in {<<"storage", "watch">>, <<"qemu", "io-watch">>, <<"qemu", "io-summary">>} -> parseTimedWatchOptions(args)
    [] name = <<"vm">> -> parseVMStorageStatsArgs(args)
    [] name = <<"diagnose">> -> parseDiagnoseNoisyNeighborArgs(args)
    [] name = <<"capture">> -> parseCaptureNoisyNeighborArgs(args)
    [] name = <<"watch">> -> parseWatchNoisyNeighborArgs(args)
    [] name = <<"experiment">> -> Bare(args, Len(args) = 3 /\ args[2] = Word("summarize"))
    [] name = <<"incidents">> -> parseIncidentExplainArgs(args)
    [] name = <<"inspect">> -> Bare(args, /\ Len(args) \in {2, 3} /\ args[2] # Option("--verbose")
                                         /\ Len(args) = 3 => args[3] = Option("--verbose"))
    [] OTHER -> Refused

\* The arguments as the command sees them; without any, monitor is run if
\* standard input and output are terminals, and else the usage is printed.
Arguments(args, interactive, root) ==
  LET relocated == relocateLeadingGlobalJSON(args)
      stripped == stripHelpFlags(relocated.args)
      given == IF stripped.args = <<>> /\ interactive THEN <<Word("monitor")>> ELSE stripped.args
  IN IF ~relocated.ok \/ ~stripped.ok THEN Unreadable
     ELSE IF stripped.help \/ given = <<>> THEN [stripped EXCEPT !.help = TRUE]
     ELSE expandOperatorCommand(given, root)

-----------------------------------------------------------------------------
(* The arguments that the dashboard composes for a workflow and a VM.      *)
VMWorkflows == {"investigate", "bundle", "watch", "observe"}
HostWorkflows == {"doctor", "ebpf_doctor", "inventory", "status", "version"}

NoLimit == <<>>

watchLimit == <<Option("--iterations"), Number("3", 3)>>

topLaunchArgs(workflow, vm, root) ==
  LET victim == <<Option("--victim"), Word(vm), Option("--discover-suspects"), Option("--include-ebpf-latency")>>
      noisy(command) == Words(<<command, "noisy-neighbor">>) \o victim
  IN CASE workflow \in VMWorkflows /\ vm = "" -> Unreadable
       [] workflow = "investigate" -> Rewritten(noisy("diagnose"))
       [] workflow = "bundle" -> Rewritten(noisy("capture") \o <<Option("--output-dir"), Word(root)>>)
       [] workflow = "watch" ->
            Rewritten(noisy("watch") \o <<Option("--window"), Duration("5s", 50), Option("--every"), Duration("7s", 70)>> \o watchLimit)
       [] workflow = "observe" -> Rewritten(Words(<<"observe", "snapshot">>) \o victim \o <<Option("--json")>>)
       [] workflow = "ebpf_doctor" -> Rewritten(Words(<<"ebpf", "doctor">>))
       [] OTHER -> Rewritten(<<Word(workflow)>>)

-----------------------------------------------------------------------------
(* The VMs that a command measures: those it names, or all that run.       *)
NoTargets == [ok |-> FALSE, vms |-> {}]
Targets(vms) == [ok |-> TRUE, vms |-> vms]
Requested(r) == {Text(r, "--victim"), Text(r, "--suspect")} \ {""}
Named(names) == {vm \in Inventory : vm.name \in names}

selectRequested(names) ==
  IF \A name \in names : Named({name}) # {} THEN Targets(Named(names)) ELSE NoTargets

selectVMStorageStatsTargets(r) ==
  LET running == {vm \in Inventory : vm.running}
  IN CASE Requested(r) # {} -> selectRequested(Requested(r))
       [] running = {} -> NoTargets
       [] OTHER -> Targets(running)

selectVMBlockLatencyTargets(r) ==
  IF Requested(r) # {} THEN selectRequested(Requested(r))
  ELSE Targets({vm \in Inventory : vm.running /\ vm.pid})
=============================================================================
