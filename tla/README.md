# A TLA+ model of Solis

Solis is a command-line observability tool for a KVM host. It samples VMs, QEMU
processes, storage and the host, measures block latency with BPF programs,
attributes it to VMs by cgroup, and shows the result in reports, in a watch
loop and in an interactive dashboard that can launch workflows.

This directory holds its verification project: TLA+ modules translated from the
Go and C sources, TLC configurations that check them on small instances, and
theorems checked by TLAPS. `PROJECT.json` maps every definition to the lines it
stands for, lists the hazards of the code and names the run, the mutant and the
theorem for each property.

Read in this order. The probes: `HookWindow` and `KernelSession` (how they are
attached and released), `BlockLatency` (what they measure). The loop: `Monitor`
and `Dashboard` (who may hold the probes, and the event loop that decides it),
`RefreshLoop` (the loops without a screen). The results: `Publication`,
`PrivateFile` and `CaptureBundle` (how they are stored). The process:
`CommandLine`, `Settings`, `Commands` and `Session` (from arguments to an exit
code). The identities: `CgroupMapping`, then `VMStorage`. The judgement:
`Sampling`, `Verdicts`, `Observation` and `EvidenceWindow`.

## Inventory

All paths are below `src/internal/`.

| Part | State it keeps | Operations | What makes it correct |
|---|---|---|---|
| `top/interactive.go`: the interactive loop | the panel, the collection in flight, the timer, the workflow and its detail, the iteration | one arm of a `select` per event; `startCollection`, `finishCollection`, `finishWorkflow`, `render` | one activity at a time; no probe shared with a workflow; nothing left behind; a signal always ends it |
| `cli/cli.go`: `liveTopSource.Collect` | three result channels and three flags | start the status, host and eBPF goroutines, gather their answers, or give up with the context | it answers exactly once, and never while its eBPF goroutine runs |
| `cmd/solis/main.go`, `cli/cli.go`: the command line | options, the settings in force, what the stages of a command deferred | rewrite shorthands, parse, dispatch, load settings, perform, undo | a probe runs only if it was asked for; whatever stage fails, its undos run; the terminal is given back |
| `config` | none | option, environment or installed file; parse, default, validate | precedence; an invalid file stops the command before it does anything |
| `ebpf/vm_kernel_source.go`, `vm_kernel_cilium.go`: a typed-BTF session | two links, the loaded objects, the once-only stop and close errors, the statistics | preflight, prepare, start, collect, stop, stats, close | whatever fails, everything is released or reported; maps are read after the hooks are detached |
| `ebpf/bpf/vm_block_latency.bpf.c`: the BPF programs | `request_starts`, per-CPU counters, host, device and cgroup aggregates | `on_block_rq_issue`, `on_block_rq_complete` | a completion meets its own issue; what is lost is counted |
| `ebpf/vm_latency_aggregate.go`: the report | histograms and totals per VM, device and operation | record the kernel statistics, finish, classify errors | attributed and unattributed operations add up; an incomplete window is not available |
| `ebpf/vm_cgroup.go` | none | resolve the cgroup of each VM from its PID, `/proc` and the cgroup tree | a mapping is of one process, one scope and one inode |
| `ebpf/vm_attribution_preflight.go`, `vm_btf_capability.go`, `doctor.go` | none | probe the kernel and its BTF | what is missing is named before anything is attached |
| `ebpf/latency.go`, `count.go` | descriptors of perf events, programs and maps; an LRU map of starts | the legacy host-wide latency and counts | every descriptor is closed; a latency is of one request |
| `top/model.go`, `events.go`, `history.go`, `keys.go`, `terminal_linux.go` | the view, bounded event and history lists, the selection, the terminal mode | build a view, note changes, read keys, restore the terminal | events lead to what is shown, lists stay bounded, the terminal is restored |
| `watch`, `observe/watch.go`, `cli.go` watch loops | alerts, the last capture, the schedule | collect, diagnose, alert, capture with a cooldown | no capture within the cooldown, none suppressed outside it; the schedule catches up |
| `cli.go`: evidence collection | latency goroutines beside the QEMU sampling | start, sample, join, diagnose | every goroutine is joined, also on an error; the verdict rests on what was measured |
| `capture`, `output` | a hidden temporary directory or file | write, sync, check the destination, rename, sync | a published bundle or file is complete; nothing is overwritten unless asked for |
| `qemuio` | the samples of a window | sample, subtract, sum up | a delta never spans two processes or a failed sample; averages weigh intervals |
| `diagnose`, `discovery`, `traceplan` | none | score, classify, rank, resolve targets | verdicts name their evidence; the tools agree on the suspect |
| `observe` | none | gather sections, correlate, apply VM latency | the missing list, the quality and the confidence fit the sections |
| `storagevm` | two samples of three sources per VM | sample, compare identities, subtract | a difference is of one disk, one process, one cgroup |
| `status`, `hostmetrics`, `storage`, `hoststorage`, `inventory` | none | read `/proc`, `/sys` and libvirt | one failing source does not fail the others |
| `guest`, `servicehealth`, `dbstats` | none | SSH or guest agent commands with timeouts | a late or failing transport is reported, not guessed |
| `doctor`, `experiment`, `incident`, `observability`, `version` | none | parse, check, format | stable formats |
| `src/lab`, `src/scripts`, `src/build`, `src/docs` | | laboratory, releases, assets | outside the program |

**How the parts interact.**  `main` gives the arguments to `Run`, which
rewrites shorthands, finds the command's parser and dispatches. `runTop` builds
a `liveTopSource` and calls `RunInteractive`, which runs one `Collect` after
another in a goroutine and receives its answer from a channel of capacity one.
`Collect` starts a goroutine each for status, host and eBPF latency. The eBPF
goroutine runs a whole typed-BTF session: load, attach, wait, detach, read,
close. Between attach and detach the kernel runs the programs for every request
of the host. A workflow chosen by the operator runs in a goroutine of its own,
through the same `Run` with the same terminal, and may run typed-BTF sessions
of its own, so the loop finishes the live collection first. A diagnosis samples
the QEMU processes while latency goroutines measure; `watch` and `capture` run
diagnoses; `observe` runs one beside its other sections.

**What is hard.**  Keys, ticks, answers, the timer and signals interleave in
the loop; joins block it while every other goroutine runs; the samplers have no
context and outlive a cancelled `Collect`; any call of a session may fail, and
its releases too; requests are in flight when the hooks are attached and
detached, and their addresses are reused; both BPF maps are bounded. QEMU
processes end, and PIDs, scopes and inodes are reused, between any two reads of
`/proc`; a sample fails, a disk is remapped or an answer is late while the
others go on, and the verdict must rest on what is left. Each of these is a
hazard in `PROJECT.json`, at its line.

## Modules

| Module | Models | Role |
|---|---|---|
| `Monitor` | who holds the probes | abstract specification |
| `Dashboard` | `RunInteractive`, `Collect`, the workflow goroutine | implements `Monitor` |
| `HookWindow` | the observation window | abstract specification |
| `KernelSession` | `runVMBlockKernelSource`, the Cilium session, error to report | implements `HookWindow` |
| `BlockLatency` | both BPF programs, block layer, report totals | composed with `HookWindow` |
| `Attribution` | the rows, coverage and quality of a VM latency report | operators for the judgement |
| `Publication` | what a destination holds, for readers and after a power loss | abstract specification |
| `PrivateFile` | `WritePrivateAtomicFile` on Linux | implements `Publication`, with replacement |
| `CaptureBundle` | `capture.Write`, `writeBundle`, the manifest | implements `Publication`, without replacement |
| `RefreshLoop` | the loops of `watch noisy-neighbor`, `observe watch`, `status --watch`, plain `top` | one module, by command |
| `CommandLine` | from arguments to options | operators: one grammar for all parsers |
| `Settings` | option, environment and installed file; validation | operators |
| `Commands` | `Run`: rewrite, parse, dispatch, the stages of each command and their undos | the process |
| `DashboardView` | the view, its events, history, keys and selection | composed into `Session` |
| `LegacyTracing` | the perf and raw-tracepoint collectors with their programs | composed into `Session` |
| `Session` | `Commands` with a screen in its stage `loop` and probes in its stage `probe` | composition |
| `CgroupMapping` | `BuildVMCgroupMappings` on a changing host | used by `VMStorage` |
| `VMStorage` | `vm storage-stats`: two samples of three sources | composition with `CgroupMapping` |
| `Sampling` | the QEMU I/O window and its summary | used by `EvidenceWindow` |
| `Verdicts` | diagnosis, discovery, dominance, veto, traceplan, watch score | operators |
| `Observation` | the sections and correlations of a snapshot | operators |
| `EvidenceWindow` | request, window, verdict; a capture, an observation | composition of the four above |
| `DashboardProofs`, `BlockLatencyProofs`, `RefreshLoopProofs`, `VMStorageProofs` | | theorems of one module each |
| `PublicationProofs` | | theorems of `PrivateFile` and `CaptureBundle` |
| `CommandProofs`, `SessionProofs` | | theorems of `Session`: of its command line, and of the rest |
| `EvidenceProofs` | | theorems of `KernelSession` and `EvidenceWindow` |
| `MCDashboard`, `MCBlockLatency`, `MCRefreshLoop`, `MCCommands`, `MCVMStorage`, `MCEvidence` | | symmetry and values for TLC |

### Dashboard

One action is one arm of the `select`, with everything it does up to the next
wait, or one step of a goroutine. `loop` is where the loop stands: in its
`select`, `leaving` (it still joins what is in `joins`, then returns
`outcome`), `launching` (it joins the collection before a workflow),
`returned`. The blocking receives of `finishCollection` and `finishWorkflow`
are actions of their own (`CancelCollection`, `JoinCollection`,
`CancelWorkflow`, `JoinWorkflow`), because everything else runs meanwhile.
`resultChannel` is the collection whose answer the loop waits for,
`collector[c]` the program counter of that `Collect`, `sampler` and `latency`
its goroutines: a goroutine that has `sent` has put its answer into its
buffered channel and ended.

* Identities of `Collect` are a finite set; one is reused when the call and all
  its goroutines have ended (`Free`). With two identities an abandoned
  collection may still sample while the next one is in flight.
* `render` succeeds or fails. In plain mode nothing is drawn before a view
  exists, so it cannot fail then.
* `viewed`, `iteration`, `timer`, `panel` and `detail` are the parts of the
  state that decide control. Selection, panels and events are in
  `DashboardView`; keys come here in any order, there from a reader that parses
  them.
* A failed tick or a failed frame of a workflow result does not finish the
  workflow in the code, nor in the model: `NothingLeftBehind` allows a running
  workflow only with the outcome `error`.
* `SIGINT` and `SIGTERM` cancel the context at any time. The end of the process
  itself is not modelled.

### KernelSession and HookWindow

One action is one call that leaves the process, with all its outcomes. `step`
is the call that comes next. A joined Go error is kept as its primary status
(`failure`) and the releases whose `cleanup_failed` stage was joined to it
(`cleanup`); `Aggregate` makes the report's status and `ebpf_cleanup` section
from them. `stopOnce` and `closeOnce` are why Stop and Close appear once each.

* Preflight failures other than permission are one status, as are the load
  errors that differ only in their text; `cancelled` also stands for an expired
  deadline.
* close(2) does not report a permission error. `vmBlockCollectorError` prefers
  a permission error anywhere in the joined error; without that assumption a
  failed release could name the status (see the hazards).
* `HookWindow` says what the rest of the system relies on: issue before
  completion, each attached and detached at most once, no map read before both
  are detached. A hook whose detach failed is `unknown`.

### BlockLatency

A request is its address. `Issue`, `Complete` and the completion of a part are
the block layer (external: a request is issued, perhaps requeued and issued
again, perhaps completed in parts, and completes), and run the programs of the
hooks that are attached; a hook in state `unknown` may or may not run.
`MaxIssues` and `MaxParts` bound a behaviour; time is counted in issues.
`request_starts`, `cgroup_stats` and `counters` are the maps at their
configured size; `Report` is what `ReadStats`, `recordKernelStats` and `finish`
make of them in VM attribution mode. `armed`, `observed` and `mispaired` are
history variables for the properties. `Attribution` has the shape of that
report that diagnoses and observations read.

* The completion of the first part takes the entry, so the later parts find
  none and count as missed starts: `ReportAccountsForAll` has them as
  incomplete.
* A run of a program is one action: a detach waits for a running program, and
  the programs of one address do not run concurrently. The per-CPU counters are
  one counter, so increments lost to interrupts are not modelled.
* `missing_bio` is folded into `missing_blkcg`. A null request, null per-CPU
  values, the device map and the split of aggregates by device and operation
  are left out; so are histograms and their quantiles, and counts near 2^64,
  where merging saturates.
* The event-source adapter (`consume`, `issue`, `complete`) feeds the
  aggregator in tests only, and is not modelled.

### Publication, PrivateFile and CaptureBundle

`Publication` states the promise about a destination: it holds nothing or one
whole version, a version appears in one step, and `survivors` are the versions
that may be there after a loss of power. `PrivateFile` and `CaptureBundle` are
the two ways the code publishes, call by call. `step[w]` (of `PrivateFile`
`call[w]`) is the call that process `w` makes next, and `Writers` (`Savers`) are
both the processes and the versions they write. Every call may fail, `Kill`
(`KillSave`) stops a process between two calls, and `PowerLoss` (`LosePower`)
stops all of them and keeps only what was synced; what it may leave is in
`survivors` (`remains`).

* A file that was not synced may lose its content, a directory that was not
  synced its last entries and renames. A rename is atomic for readers.
* `PrivateFile`: the destination is absent, a regular file or another entry,
  which both checks refuse (`rejectUnsafeOutputTargetAt`). No other program
  changes its kind, which the code can only observe, not prevent.
  An error after the rename (the sync or the close of the directory) is
  reported although the new file is in place; the model has this outcome.
* `CaptureBundle`: a bundle's artifacts are a sequence that depends on three
  inputs; `written` and `durable` count its files, and a power loss keeps a
  prefix of them. The files' text is left out, except for the names that
  `metadata.txt` refers to. A directory is renamed only over nothing: Go
  refuses an existing directory, the kernel a full one.
* `writeBundle` syncs the hidden directory but not the directory above it, so a
  bundle whose capture was reported may be gone after a loss of power, as a
  whole. `Publication` allows that (`Persist` is not taken), and no document
  promises more; of `WritePrivateAtomicFile` `SavedIsDurable` shows more, and
  also that an entry that is no regular file is never replaced.

### RefreshLoop

Four functions have the same loop: look at the context, collect, look again,
report, wait for the next start. `pc` is the place in it; `options` holds the
command and its flags. They differ, and the model keeps the differences, in
what they spawn (`Spawned`), in when they count (`observe` after its line is in
both outputs, the others before writing), in the next start (plain `top`: a
period after its collection began, the others: a schedule that is caught up
without waits after an overrun) and in what an error of a cancelled collection
is (plain `top` takes it for the end). Only the noisy-neighbor watch judges,
raises alerts and captures.

* `now` is the monotonic clock, by which starts are measured. `captureTime`
  went through `UTC()`, which strips the monotonic reading, so the cooldown and
  the name of a bundle follow `wall`, and `StepWallClock` moves it both ways.
* A collection and the observation within a capture join all the goroutines
  they spawned before their outcome is looked at. Neither kind of sampler heeds
  the context, so a signal waits for the end of the window; the guest
  collectors of `observe` do heed it, which is why the second look at the
  context matters.
* `bundles` are the names of published bundles by their time. All captures are
  assumed to be of the same pair of VMs, which makes collisions likelier. An
  error of `capture.Write` ends the watch, with or without the bundle in place
  (see `CaptureBundle`), and so does a bundle of another program.
* A cooldown of 0 stands for a watch without `--capture-on-alert`. Verdicts are
  arbitrary here, and computed in `EvidenceWindow`. `Collect` of plain `top` is
  opaque here; it is in `Dashboard`.

### CommandLine, Settings, Commands and Session

`CommandLine` has one grammar for the parsers of `cli.go`: a loop over the
arguments with the options seen so far, refused when they repeat, lack a value
or do not fit together. What differs from command to command is which options
it knows and what it asks of them together. It also has the rewriting of
shorthands and the resolution of the VMs that are named. `Settings` says which
of option, environment and installed file is used, and what of a file is
accepted. `Commands` runs the process: `Run` rewrites, parses and dispatches,
which yields the stages `todo`; each is performed (`Perform`) or fails
(`Fail`); `deferred` are the undos that the stages registered, and `Undo` runs
them, last first, before `End`.

`Session` refines two stages. In `loop` the terminal is raw and `DashboardView`
is the screen: a world (what a collection finds) becomes a view, a view its
events and history, and the bytes of the keyboard become keys. In `probe`
`LegacyTracing` acquires its descriptors one after another, each with a
deferred close, enables them, and lets the kernel run its programs on a bounded
number of requests.

* Usage texts, and the writing of what a command collected, are left out; a
  stage that writes may fail like any other.
* `Explored` names the command lines whose inside is looked into; the others
  run their stages only.
* `db status` does not look at `guest.enabled` of the file, in the code and so
  in the model.
* In a file, the scan for forbidden keys is one outcome (`safe`), and paths are
  names: how a relative path is resolved is left out.
* A history keeps how many samples it has; the trends drawn from it are text.
  The index of the workflow list is left out. A VM that is first seen under
  pressure has no event for it, and `EventsEndInTheView` says nothing of it.
* A perf event runs its program only once it is enabled (external), and the
  completion event is enabled before the issue event. A raw tracepoint runs
  from its open. Counts are atomic additions in the program, so the per-CPU sum
  is exact. `BlockCountResult` is the reported count, in no property.

### CgroupMapping and VMStorage

A host has processes with a start time and a place in a machine's scope, and
scopes with an inode. `Host` ends one, with some or all of its scope's cgroups,
or starts another with a PID that is free, between any two reads of the mapper;
`MaxChanges` bounds it. The mapper reads, in the code's order, the name, the
cgroup file, the start time and the cgroup tree, then the first three again,
and at last the inodes, one path after another (`ReadInode`); it keeps a mapping
or the reason why there is none (`ConcludeTree`).
`VMStorage` takes a mapping, then two samples of the block statistics of
libvirt, the I/O counters of the process and `io.stat` of the cgroup, and
subtracts what has the same identity in both.

* What a mapping promises is that it is of one process at one moment. That the
  process is the VM's own rests on the inventory's being fresh.
* What was identified may end before its last read; a read that fails is a
  state of its source, never a zero.
* The walk through the scope is one action: every place the model keeps lies
  between the scope and the path, and is looked up in any case.
* The contexts are `Background`, so the wait between the samples is never
  cancelled.

### Sampling, Verdicts, Observation and EvidenceWindow

`Sampling` has the owners of the PIDs, the readings of each sample and the
intervals between them; `truth` is what the processes really did, for the
properties. `Verdicts` are the pure operators that make a verdict of summaries,
disks and latency: pressure, dominance, candidates and their classes, the
selection, the confidence, the veto by VM-attributed latency, the watch score.
`Observation` makes the sections of a snapshot, its missing list, its quality
and its correlations, and applies VM latency to it. `EvidenceWindow` joins
them: a request resolves its targets and the disks and opens a window, in which
reads fail, processes end and their PIDs are reused; at its end there is some
latency report, and the disks of a discovery are mapped anew. A capture has two
windows, one of a diagnosis and one of an observation, which may find another
suspect.

* Counters are rebased when a window opens, since only differences are used;
  `MaxOwners` bounds the reuse of a PID.
* Bytes and system calls stand for the four counters that are compared.
* The guest, service and database sections of a snapshot are present, partial
  or not; what they print is left out.
* `MarshalJSON` refuses a snapshot with privacy flags or query text. No
  collector sets any, so what `writeObserveSnapshot` would write in place of a
  refused snapshot is left out.

## Runs

Between them the passing runs take every action of the modules. `PROJECT.json`
names for each property a plausible bug in the code that violates it.

| Run | Instance | Shows |
|---|---|---|
| `application` | application mode, 2 collections, eBPF, ticks | `OneActivity`, `ProbeExclusion`, `NothingLeftBehind`, `DetailIsCurrent`, and that `Dashboard` implements `Monitor` (`ProbesChangeHandsDetached`) |
| `liveness` | the same with 1 collection, under fairness | `SignalEndsTheLoop`, `JoinsEnd`, `CollectionsAreAnswered` |
| `paused` | as `application` | violated: `LiveCollectorPaused`, as samplers of a cancelled collection run beside a workflow |
| `session` | every outcome of every call | complete and reported release (`NothingLeaksSilently`), `AvailableIsComplete`, refinement of `HookWindow`, detach under fairness (`HooksAreDetached`) |
| `correlation` | 2 addresses, a VM and a host cgroup, maps of one entry, 3 issues, 1 part | `AttributionIsOwn`, `StaleEntriesPredateTheWindow`, `ProgramRunsBalance`, `ReportAccountsForAll` |
| `pairing` | the same with maps of two entries | violated: `LatencyIsIssueToCompletion`, as a completion is paired with the entry of another request |
| `private_file` | 2 processes, any entry at the destination | `SavedIsDurable`, refinement of `Publication` (`ImplementsReplacement`) |
| `bundle` | 2 captures of one destination, each with any of the 6 inputs | `BundleAnswersItsMetadata`, `SuccessIsTheBundle`, refinement of `Publication` |
| `watch` | four commands, limits 0 and 2, cooldowns 1 and 3, period 2, clock to 5, wall clock off by 0 or -3 | `NeverAheadOfSchedule`, `InterruptedWorkIsDiscarded`, `CooldownIsKept`, `SuppressionIsExplained`, `SummaryIsTrue` |
| `commands` | every verb with the options it needs and up to two more groups; four command lines explored inside | what runs was asked for (`ProbesAreAskedFor`, `OptionOrderIsImmaterial`, `ExpansionKeepsChoices`, `LaunchesAreBounded`), everything is given back (`ProcessLeavesClean`), events lead to the view (`EventsEndInTheView`), legacy latencies are of one request (`LatencyIsOwn`) |
| `identity` | one running VM and one shut off, a PID that is reused, 2 scopes, 2 changes | `MappingIsOfOneProcess`, `EvidenceIsOfOneSource` |
| `evidence` | 3 VMs, 9 requests, failing reads, a stale PID, remapped disks, every kind of latency report | `SummaryIsMeasured`, `AlertIsEvidenced`, `SelectionAgreesWithVerdict`, `ToolsAgree`, `SnapshotIsConsistent` |

**Bounds.**  Two collections are enough for one abandoned and one current, and
`OnlyAwaitedRuns` (proved) says no more than one is awaited. The liveness run
needs only one, since a collection that is no longer awaited does not block the
loop. The session has no parameter: its run is exhaustive. For the correlation
two addresses and one entry let a map be full with another request in flight;
three issues allow a stale entry, its reuse and a requeue or a lost issue; one
part before the whole is enough for a completion without an entry. Two writers
of a destination let each call of one fall between any two of the other; a
third adds no new pair. The clock of `watch` has room for an overrun of two
periods that is caught up, three captures with the wall clock stepped back and
forth between them, and a cooldown both shorter and longer than a period and
than the second that names a bundle; with the shorter one, bundles do collide.
`commands` puts the second option group after the first and before it, which is
what order can change, and takes it from the groups that interact; of its four
files one is plain, one has a guest, one has it disabled and a database of a VM
that is gone, and one has the same service twice. Six worlds let a VM appear,
change and vanish with either kind of pressure, and four events overflow with
two collections. Two sectors, one start entry and three requests let a start be
evicted, a sector be reused and two requests share one. `identity` has two
changes, each between any two reads: a process that ends and another that takes
its PID, in its scope or the other; a second VM adds only the interference of
names, for which the one that is shut off is there. `evidence` has the least
number of VMs with a suspect, a victim and a bystander, and disks shared by
all, by two or by none. The theorems hold for all values.

**Deadlock** is checked in all runs but `correlation` and `pairing`, whose
behaviours stop at `MaxIssues`, a bound of the model. Everywhere else the only
halt is that everything has returned, which is a step of its own.

**Fairness.**  Goroutines run (`WF` on their steps). Samplers and windows are
timed, so they answer (`WF` on `SamplerReports` and `LatencyReports`). A
workflow is a bounded command: it detaches what it attached and returns (`SF`
on its return, as it may probe again and again). Go's `select` picks at random
among ready arms, so an arm that is ready again and again is taken: `SF` on the
arms for the context, the answers and the timer. Nothing is assumed of keys,
ticks and signals. A session needs `WF` on its next call only; each returns,
because the one wait has a timer.

**Findings.**  Both are documented more strongly than the code behaves.
`paused`: `README.md:195` says the live collector is paused before a workflow
starts; its links are detached (`ProbeExclusion`), but the status and host
goroutines have no context and sample on. `pairing`: `README.md:306-307` says a
completion is correlated with the same request. The window is opened and closed
issue hook first. A request that completes between the two attaches leaves its
entry behind, and a request that reuses its address after the issue hook was
detached and completes before the completion hook is, is taken for it. While
the issue hook is attached this cannot happen (`AttributionIsOwn`).

## Proofs

All theorems are proved for every value of the constants, from the named
assumptions of the modules, which only say what constants are (booleans,
naturals, finite sets, distinct values, values outside a set, and of a world
that the status of its probe is a known one and its counts are naturals).

* `DashboardProofs`. `OneActivity` is not inductive by itself. `Inv` adds that
  only the awaited collection runs and only a running one has an eBPF goroutine
  (`OnlyAwaitedRuns`: so `JoinCollection` really ends the probes), that a
  launch is prepared (`LaunchIsReady`), that the output panel excludes
  collection and timer, and that a loop that leaves without a join has nothing
  to join (`LeavingIsComplete`). `StartIsAlone` and `ForgetLeavesNone` are the
  two lemmas on starting and forgetting a collection that all arms use. The
  safety invariants follow, and `ImplementsMonitor` maps every step to a step
  of `Monitor` or a stutter: `LaunchWorkflow` needs that no link is attached,
  which is `OnlyAwaitedRuns` with no awaited collection.
* `EvidenceProofs`, of `KernelSession`. `Inv` says for each call what is open,
  loaded, read and reported before it. `ReleaseIsComplete`,
  `AvailabilityIsEarned` and `ImplementsHookWindow` follow.
* `EvidenceProofs`, of `EvidenceWindow`. `EvidenceInv` is inductive and has
  three parts. `SamplingInv`: what was really transferred by a process that
  keeps its PID is the sum over the successful samples (`TruthIsSummed`), which
  one more reading keeps only because a good reading shows the counters that
  the process still has (`ReadingsAreCounters`); `SummaryIsMeasured` follows
  from the sums by arithmetic on rates. `DiagnosisInv`: the diagnosis is the
  one that the request's command makes of this window's summaries, for some
  experiment, report and disks, of targets that were resolved (`Judged`);
  `AlertIsEvidenced`, `SelectionAgreesWithVerdict` and `ToolsAgree` then say
  something of every diagnosis that `Verdicts` can make, for any number of
  VMs, any rates and any thresholds: a dominant suspect is ahead of every
  other by the order of fractions (`AtLeastTotal`, `AtLeastTransitive`), and
  who is first is well defined (`FirstIs`). `SnapshotInv`: a snapshot's
  sections are distinct, complete for their names, and missing as its list
  says (`EvidenceIs`, with a lemma for each operation on sections), which
  `SnapshotIsConsistent` needs.
* `BlockLatencyProofs`. `Inv` joins the typing of the maps, the order of the
  window, `AttributionIsOwn` (every entry met while issues are seen is the
  request's own: an issue overwrites what it finds),
  `StaleEntriesPredateTheWindow` and the balance of the counters. The lemmas
  `IssueCases`/`CompleteCases` separate runs from missed events.
  `ReportAccountsForAll` needs a second invariant, `Accounts`: what was
  observed is in a map or in a counter (`ObservedAreCounted`), the aggregates
  count no operation that the host does not, and what they leave out, or will
  for an entry in `Unownable`, has its counter (`OperationsAreCounted`), and
  nothing runs once both hooks are detached (`ReportIsOfTheMaps`). The
  operations of all cgroups are a sum, which would take induction over data;
  the model counts numbered pairs of a cgroup and a number instead, so the sum
  is a cardinality.
* `PublicationProofs`, of `PrivateFile`. `FileInv` follows a save through its
  calls: content is synced before the rename (`RenamedIsSynced`), so no
  survivor is torn; a save whose directory is not yet synced has some writer's
  version at the destination, so that sync leaves no older survivor
  (the first half of `SavedIsDurable`); and an entry of another kind stops every
  save at its first check (`OtherIsKept`), so none replaces it (the second half).
* `PublicationProofs`, of `CaptureBundle`. `FilesFollowStep` says how many
  files are there before each call; `SurvivorIsWhole` and `SurvivorIsPublished`
  relate the destination to the capture that renamed. That a second success is
  impossible needs that a published bundle is missing only after a power loss,
  which ended every other capture. `ArtifactsAnswer` shows for every input that
  the artifacts include the names `metadata.txt` gives; it rests on the two
  lemmas about concatenation.
* `RefreshLoopProofs`. `Inv` fixes the next start by the number of the
  iteration (`DueIsScheduled`) and says that nothing starts early, from which
  the pace follows; a bundle is the last one or a cooldown older
  (`LastIsTheLastBundle`), so all are apart, and `SecondsDiffer` makes their
  names differ; and a loop that reports after a signal was reporting when it
  came (`SignalIsHeard`). The summary's counts are those of the verdicts given
  (`TallyIsKept`, by lemma `TallyStep` on one more iteration). One lemma for
  each of these groups, one step for each action.
* `SessionProofs`, of a run. `SessionInv` says that what is open or attached is
  covered by the deferrals, that descriptors were acquired in their order, that
  a changed terminal has its undo deferred (`ProcessLeavesClean` follows when
  no deferral is left), and that, while completions are seen, a start is of a
  request in flight at its sector, unless requests share the sector
  (`LatencyIsOwn`).
* `CommandProofs`. `ProbesAreAskedFor` compares what was typed with what is
  done, across the rewriting, the parser and the dispatch. The parser's loop is
  unfolded into its states (`ParseUnfolded`): an accepted option with the value
  false was seen and stays off (`GivenFalse`), and one with a text keeps it,
  since it cannot be given again (`GivenValue`). Every step of the rewriting
  keeps the options that are not global, and the words behind them
  (`ConfigKeeps`, `RelocateKeeps`, `StripKeeps`, `ExpandKeeps`, joined in
  `ReadKeeps`). So a command that always probes is refused with
  `--include-ebpf-latency=false`, and one that probes on request was not asked
  to (`ProbesAsAsked`). `LaunchOrder` says of the stages of every accepted
  command that VMs are found before the probe and the settings looked at before
  the guest is asked, and `AskedInv` is the invariant of a run that carries
  this from the plan to what was performed. It rests on `CommandsAssumption` (a
  command line is a command and groups of options; a token is a word or an
  option, and an option has no other text) and `SettingsAssumption` (the
  settings of a file have their type).
* `CommandProofs`, of the order of options. `OptionsCommute` is about two
  command lines, so it has no invariant but the typing of what was typed. The
  parser is a function on the rest of the line; `After` is the same reading as
  steps of one argument, for which reading a part and then the next is reading
  both (`AfterBoth`, by `AppendInduction`). A line of option groups is `Turned`
  when two neighbouring groups are exchanged. Two groups of different options
  leave the parser in the same state in either order (`Exchange`), and two of
  the same option are refused in either order, because an option cannot be
  repeated. What the rewriting does before the parser is shown to keep two
  lines turned: it takes `--config` and `--help` out of both, stops at the same
  word, and puts the same defaults behind both. So the two lines are parsed to
  the same settings or both refused, and what is done is a function of that.
* `SessionProofs`, of the short commands. `ChoicesAreKept` compares the parse of
  a line with that of its expansion, for lines of any length. An option group
  of the line is `Held` by the arguments that are left when `--config` is taken
  out (`ConfigHeld`) and stands `Within` those the expansion writes
  (`TargetExpands`, `MonitorExpands`); a parser that accepts them has read it
  as it is given, since it takes no option twice (`GroupSaid`). For the
  converse, a default is put between arguments that lack its option: they are
  read alike, and the default is added to what is read (`PutBetween`). What
  `diagnose` and `capture` ask of their options together does not depend on the
  latency (`LikeAccepted`), and `top` accepts the defaults of `monitor` wherever
  it accepts the rest, as its duration only grows (`TopPut`).
* `SessionProofs`, of the launched workflows. `ShownInv` says of the dashboard
  that its rows are VMs of the inventory, that their order and the marked row
  are theirs, and that the sort field is a known one whenever a key is taken;
  the order holds because sorting by counting gives each row a place of its
  own. What a key launches is then one of four command lines about an existing
  VM, each is read by the parser of its command (`ShownInvariance`), and its
  window is one of those the launcher writes.
* `SessionProofs`, of the events. `EventsInv` says that the tracker keeps what
  the screen shows and that the list ends in it (`EndsIn`). An added event is
  the newest of its kinds about its subject, or the newest is the one it was
  before and none was added (`NewestAdded`, `DominantAdded`), also when the
  list drops its oldest. `NextSays` reads an event between two views, and
  `SameVM`, `SameState`, `SamePressure`, `SameEvent` and `SameDominant` say
  what the lack of one means. Two facts about collections are needed: the
  state of a row decides whether it runs, and its pressure when it does not,
  because pressures are compared of running VMs only (`CollectedRows`); and
  whether the attribution is available follows from its collector and its
  quality, because only these are compared (`CollectedAttribution`).
* `VMStorageProofs`. The invariant has parts for the host, each mapper, the
  cgroup tree, the samples and the phase. Start times and inodes only grow, so
  what is equal at two reads was not replaced between them (`NoOlder`,
  `Confirmed`), and a process read again with the same start is the same life.
  `StepKnown` carries what was read over any change of the host.

**Data.**  Sums, averages and filters are functions on a set or along a
sequence, and what they compute for every input is proved without the
library's induction theorems, whose operator parameters no installed prover
instantiates. `SetInduction` is induction with a set for the predicate, and
follows from the pigeonhole principle; `SetRecursion` and `IntervalRecursion`
say that a function defined one element or one number at a time exists, so that
the `CHOOSE` in its definition has the value it is named for (`SumUnfolded`,
`KeepUnfolded`).

**Only model-checked:** `SignalEndsTheLoop`, `JoinsEnd`,
`CollectionsAreAnswered` and `HooksAreDetached`, the four that rest on
fairness, for which the prover has no support. Every other property of a
passing run is proved.

**Only proved:** `IterationsBound` (`top/interactive.go:334`; the command line
always asks for an unbounded loop, only tests bound it) and the join of the
latency goroutines after a failed sampler (`cli/cli.go:2144`,
`JoinedOutsideCollections` in the invariant of `RefreshLoop`).

## Not modelled

* Rendering and formats, usage texts and parsers of `/proc`, `/sys`, libvirt
  and tool output: text, with no state. Of a report, the model has what later
  decisions read.
* Inside a guest transport: a fixed list of commands, one after another, each
  with its timeout and its part of the answer; the gates before it are
  modelled.
* Histograms and quantiles, saturating counters near 2^64, and increments of
  the per-CPU counters that an interrupt may lose (a hazard without a
  property; it needs a model of the instructions the compiler emits).
* What a PID means to the sampler of package `qemuio` once another process has
  it (the other hazard without a property): the sampler cannot know, and
  `SummaryIsMeasured` speaks of the VMs whose PID stayed with its process.
* `hoststorage`, the differences of `/proc/diskstats`, and the CPU and memory
  figures of `hostmetrics`: they are shown and enter no verdict.
* Laboratory, build and release scripts.

## Plan

What is left, by what it would add: histogram quantiles against a reference
definition; counters shared with interrupts; the state of guest, service and
database sections from their transports.
