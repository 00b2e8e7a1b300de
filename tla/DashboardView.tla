---------------------------- MODULE DashboardView ----------------------------
(***************************************************************************)
(* What the monitor shows: a collection becomes a view of every VM, two    *)
(* views become events, and keys move the selection, the order and the     *)
(* panel.  When collections start and end is in module Dashboard, how a    *)
(* frame is drawn is left out.                                             *)
(*                                                                         *)
(* A world is what a collection finds: of every VM [state, pid, activity,  *)
(* latency], the state of those the inventory does not list being          *)
(* "absent"; whether the status is collected; the disks the host report    *)
(* has rates of, and the maps of the kernel as in module Attribution, or   *)
(* one of UnpreparedStates.  Numbers are abstracted to their order.        *)
(***************************************************************************)
EXTENDS Attribution, Sequences, SequencesExt

CONSTANTS VMNames,            \* the names of VMs, sorted
          Disk,               \* the physical disk of every VM
          maxMonitorEvents,   \* how many events are kept
          maxSamples,         \* how many samples of a VM are kept
          Typed,              \* what is typed: sequences of bytes
          Worlds              \* what collections find

\* Why the collection of the kernel is not begun.
UnpreparedStates == {"mapping_error", "target_selection_error"}

ASSUME ViewAssumption ==
  /\ \A i, j \in DOMAIN VMNames : VMNames[i] = VMNames[j] => i = j
  /\ DOMAIN Disk = {VMNames[i] : i \in DOMAIN VMNames} /\ "" \notin DOMAIN Disk
  /\ VMNames \in Seq(DOMAIN Disk) /\ maxMonitorEvents \in Nat \ {0} /\ maxSamples \in Nat \ {0}
  /\ \A world \in Worlds :
       /\ world.kernel.status \in UnpreparedStates \cup {"failed", "host", "attributed"}
       /\ world.kernel.operations \in [DOMAIN world.kernel.operations -> Nat]
       /\ \A name \in DOMAIN Disk : world.vms[name].latency \in Nat

VARIABLES view,        \* the rows, their order, and what is shown of the host
          tracker,     \* the view the next events are derived from
          events,      \* the newest events, in order
          history,     \* of every VM its newest samples
          state        \* [sort, panel, selected, help, application]: the interactive state

screen == <<view, tracker, events, history, state>>

Rank(name) == CHOOSE i \in DOMAIN VMNames : VMNames[i] = name
Newest(seq, n) == SubSeq(seq, IF Len(seq) > n THEN Len(seq) - n + 1 ELSE 1, Len(seq))
Empty == [name \in {} |-> ""]

-----------------------------------------------------------------------------
(* The collection.                                                         *)
Listed(world) == {name \in DOMAIN Disk : world.vms[name].state # "absent"}
Sampled(world) == {name \in Listed(world) : world.vms[name].state = "running" /\ world.vms[name].pid}

\* What the I/O of a QEMU process is called; counters that are not readable
\* make a low pressure that is not available.
ClassifyPressure(activity) ==
  CASE activity \in {"bytes", "calls"} -> "high"
    [] activity \in {"some", "unreadable"} -> "low"
    [] activity = "none" -> "idle"

StatusReport(world) ==
  [name \in Sampled(world) |->
     [state |-> world.vms[name].state, pressure |-> ClassifyPressure(world.vms[name].activity),
      available |-> world.vms[name].activity # "unreadable", written |-> world.vms[name].activity, disk |-> Disk[name]]]

NoReport == [given |-> FALSE, available |-> FALSE, status |-> "", quality |-> "", enabled |-> FALSE, ops |-> Empty]

Mappings(world) == [name \in Sampled(world) |-> {name}]

Report(world) ==
  IF world.kernel.status \in UnpreparedStates THEN NoReport
  ELSE LET report == CollectVMBlockLatencyReport(world.kernel, Mappings(world))
       IN [given |-> TRUE, available |-> report.available,
           status |-> IF report.available THEN "available" ELSE "permission_denied",
           quality |-> report.quality, enabled |-> world.kernel.status = "attributed", ops |-> report.ops]

Collect(world, requested) ==
  [inventory |-> [name \in Listed(world) |-> world.vms[name]],
   statusAvailable |-> world.status,
   status |-> IF world.status THEN StatusReport(world) ELSE Empty,
   rates |-> world.rates,
   requested |-> requested,
   report |-> IF requested THEN Report(world) ELSE NoReport,
   unprepared |-> IF requested /\ world.kernel.status \in UnpreparedStates THEN world.kernel.status ELSE ""]

-----------------------------------------------------------------------------
(* BuildView: the rows are those of the inventory, overlaid by the status  *)
(* and then by the report.                                                 *)
NotRunning == {"shut off", "shutoff", "stopped", "paused", "pmsuspended", "crashed", "blocked"}
normalizedVMState(s) == IF s = "running" \/ s \in NotRunning THEN s ELSE "unknown"

stateForVMState(s) ==
  CASE normalizedVMState(s) = "running" -> "not_requested"
    [] normalizedVMState(s) = "unknown" -> "unavailable"
    [] OTHER -> "not_running"

VMRow == [state |-> "", running |-> FALSE, pressure |-> "", writeAvailable |-> FALSE, written |-> "none",
          attributed |-> FALSE, ops |-> 0, latency |-> 0, attribution |-> ""]

InventoryRow(vm) ==
  [VMRow EXCEPT !.state = normalizedVMState(vm.state), !.running = normalizedVMState(vm.state) = "running",
                !.pressure = IF normalizedVMState(vm.state) \in {"running", "unknown"} THEN "unavailable" ELSE "not_running",
                !.attribution = stateForVMState(vm.state)]

StatusRow(row, status) ==
  [row EXCEPT !.state = status.state, !.running = normalizedVMState(status.state) = "running",
              !.pressure = IF status.available THEN status.pressure ELSE "unavailable",
              !.writeAvailable = status.available, !.written = status.written, !.attribution = "not_requested"]

\* Why there is no report; also what a VM is said to be that is not in it.
Unprepared(snapshot) == IF snapshot.unprepared = "" THEN "unavailable" ELSE snapshot.unprepared

RequestedRow(row, snapshot) ==
  IF snapshot.requested /\ row.running THEN [row EXCEPT !.attribution = Unprepared(snapshot)] ELSE row

AttributedRow(row, report, attribution, name, latency) ==
  IF attribution.available
  THEN [row EXCEPT !.attributed = TRUE, !.ops = report.ops[name], !.latency = latency,
                   !.attribution = IF report.ops[name] > 0 THEN report.quality ELSE "no_attributed_events"]
  ELSE [row EXCEPT !.attribution = report.quality]

AttributionView(snapshot) ==
  LET report == snapshot.report
  IN [requested |-> snapshot.requested,
      collector |-> report.given /\ report.available,
      available |-> report.given /\ report.available /\ report.enabled /\ report.quality \in {"available", "degraded"},
      status |-> CASE ~snapshot.requested -> "not_requested"
                   [] snapshot.requested /\ ~report.given -> Unprepared(snapshot)
                   [] OTHER -> report.status,
      quality |-> IF report.given THEN report.quality ELSE "unavailable"]

Rows(snapshot) ==
  LET attribution == AttributionView(snapshot)
      Listing(name) == IF name \in DOMAIN snapshot.inventory THEN InventoryRow(snapshot.inventory[name]) ELSE VMRow
      Measured(name) == IF name \in DOMAIN snapshot.status THEN StatusRow(Listing(name), snapshot.status[name]) ELSE Listing(name)
      Asked(name) == RequestedRow(Measured(name), snapshot)
  IN [name \in DOMAIN snapshot.inventory \cup DOMAIN snapshot.status |->
        IF name \in DOMAIN snapshot.report.ops
        THEN AttributedRow(Asked(name), snapshot.report, attribution, name, snapshot.inventory[name].latency)
        ELSE Asked(name)]

VMCounts(rows) ==
  LET Are(states) == Cardinality({name \in DOMAIN rows : normalizedVMState(rows[name].state) \in states})
  IN [total |-> Cardinality(DOMAIN rows), running |-> Are({"running"}), unknown |-> Are({"unknown"}),
      notRunning |-> Are(NotRunning)]

statusEvidenceState(snapshot) ==
  LET measured == {name \in DOMAIN snapshot.status : snapshot.status[name].available}
  IN CASE ~snapshot.statusAvailable -> "collection_error"
       [] snapshot.statusAvailable /\ DOMAIN snapshot.status = {} -> "no_eligible_vms"
       [] snapshot.statusAvailable /\ DOMAIN snapshot.status # {} /\ measured = DOMAIN snapshot.status -> "available"
       [] snapshot.statusAvailable /\ measured # {} /\ measured # DOMAIN snapshot.status -> "partial"
       [] OTHER -> "unavailable"

\* The disks of the VMs that were sampled, and whether their rates are known.
buildStorageViews(snapshot) ==
  [disk \in {snapshot.status[name].disk : name \in DOMAIN snapshot.status} |-> disk \in snapshot.rates]

-----------------------------------------------------------------------------
(* The order of the rows.                                                  *)
SortFields == {"name", "pressure", "write", "ops", "latency"}

pressureRank(pressure) ==
  CASE pressure = "high" -> 0 [] pressure = "low" -> 1 [] pressure = "idle" -> 2 [] OTHER -> 3

Missing(available) == IF available THEN 0 ELSE 1
Written(row) ==
  CASE row.written = "bytes" -> 2 [] row.written \in {"some", "calls"} -> 1 [] OTHER -> 0

SortKey(field, name, row) ==
  LET operations == <<Missing(row.attributed), -row.ops>>
      writes == <<Missing(row.writeAvailable), -Written(row)>>
  IN CASE field = "pressure" -> <<pressureRank(row.pressure)>> \o operations \o writes \o <<Rank(name)>>
       [] field = "write" -> writes \o <<Rank(name)>>
       [] field = "ops" -> operations \o <<Rank(name)>>
       [] field = "latency" -> <<Missing(row.attributed), -row.latency, Rank(name)>>
       [] field = "name" -> <<Rank(name)>>

Precedes(k, l) == \E i \in DOMAIN k : k[i] < l[i] /\ \A j \in 1..(i - 1) : k[j] = l[j]

\* The rows in this order: before the row i there are i - 1 others.
sortRows(rows, field) ==
  LET Before(name) == {other \in DOMAIN rows : Precedes(SortKey(field, other, rows[other]), SortKey(field, name, rows[name]))}
  IN [i \in 1..Cardinality(DOMAIN rows) |-> CHOOSE name \in DOMAIN rows : Cardinality(Before(name)) = i - 1]

BuildView(snapshot, field) ==
  LET rows == Rows(snapshot)
  IN [rows |-> rows, order |-> sortRows(rows, field), counts |-> VMCounts(rows),
      attribution |-> AttributionView(snapshot), status |-> statusEvidenceState(snapshot),
      storage |-> buildStorageViews(snapshot)]

-----------------------------------------------------------------------------
(* The events.                                                             *)
SafeStates == {"available", "degraded", "unavailable", "not_requested", "no_attributed_events", "permission_denied",
               "object_unavailable", "collector_error", "collection_error", "idle", "low", "high", "partial",
               "no_eligible_vms"}
safeVMState(s) == normalizedVMState(s)
safeEventState(s) == IF s \in SafeStates THEN s ELSE "unknown"

Event(kind, subject, to) == [kind |-> kind, subject |-> subject, to |-> to]
When(condition, event) == IF condition THEN <<event>> ELSE <<>>
Nobody == ""

dominantAttributedVM(rows, attribution) ==
  LET busy == {name \in DOMAIN rows : rows[name].attributed /\ rows[name].ops > 0}
  IN IF ~attribution.available \/ busy = {} THEN Nobody
     ELSE CHOOSE name \in busy : \A other \in busy \ {name} :
            \/ rows[name].ops > rows[other].ops
            \/ rows[name].ops = rows[other].ops /\ Rank(name) < Rank(other)

attributionState(a) == <<a.requested, a.collector, safeEventState(a.quality), safeEventState(a.status)>>

\* What the event of the attribution says.
AttributionEvent(a) ==
  Event("attribution", "eBPF",
        CASE ~a.requested -> <<"not requested">>
          [] a.requested /\ ~a.collector -> <<"collector is unavailable", safeEventState(a.status)>>
          [] a.requested /\ a.collector /\ a.available -> <<"is", safeEventState(a.quality)>>
          [] OTHER -> <<"is unavailable", safeEventState(a.quality)>>)

\* What is told of the VMs, in the order of their names.
InOrder(told) == FlattenSeq([i \in DOMAIN VMNames |-> told[VMNames[i]]])

HighEvents(rows, name) ==
  When(name \in DOMAIN rows /\ rows[name].pressure = "high", Event("pressure", name, "high"))

FirstEvents(rows, attribution) ==
  LET dominant == dominantAttributedVM(rows, attribution)
  IN <<Event("window", "host", "")>> \o InOrder([name \in DOMAIN Disk |-> HighEvents(rows, name)])
       \o <<AttributionEvent(attribution)>> \o When(dominant # Nobody, Event("dominant", dominant, ""))

RowEvents(before, after, name) ==
  IF name \notin DOMAIN after THEN <<>>
  ELSE IF name \notin DOMAIN before THEN <<Event("visible", name, "")>>
  ELSE When(before[name].state # after[name].state, Event("state", name, safeVMState(after[name].state)))
         \o When(/\ before[name].running /\ after[name].running
                 /\ before[name].pressure # after[name].pressure,
                 Event("pressure", name, safeEventState(after[name].pressure)))

GoneEvents(before, after, name) == When(name \in DOMAIN before \ DOMAIN after, Event("invisible", name, ""))

NextEvents(before, rows, attribution) ==
  LET dominant == dominantAttributedVM(rows, attribution)
  IN InOrder([name \in DOMAIN Disk |-> RowEvents(before.rows, rows, name)])
       \o InOrder([name \in DOMAIN Disk |-> GoneEvents(before.rows, rows, name)])
       \o When(attributionState(before.attribution) # attributionState(attribution), AttributionEvent(attribution))
       \o When(dominant \notin {Nobody, dominantAttributedVM(before.rows, before.attribution)}, Event("dominant", dominant, ""))

\* Mutant: a full list takes no new events.
addUntilFull(added) == SubSeq(events \o added, 1, IF Len(events \o added) > maxMonitorEvents THEN maxMonitorEvents ELSE Len(events \o added))

add(added) == Newest(events \o added, maxMonitorEvents)

Update(rows, attribution) ==
  /\ tracker' = [initialized |-> TRUE, rows |-> rows, attribution |-> attribution]
  /\ events' = add(IF tracker.initialized THEN NextEvents(tracker, rows, attribution) ELSE FirstEvents(rows, attribution))

\* vmHistoryTracker: a VM that is not shown keeps the samples it had.
Sample(row) == [pressure |-> row.pressure, ops |-> row.ops, attribution |-> row.attribution]

UpdateHistory(rows) ==
  history' = [name \in DOMAIN history |->
                IF name \in DOMAIN rows THEN Newest(Append(history[name], Sample(rows[name])), maxSamples) ELSE history[name]]

-----------------------------------------------------------------------------
(* The keys.                                                               *)
KeyBytes ==
  [quit |-> {"q", "Q", "^C"}, up |-> {"k", "K"}, down |-> {"j", "J"}, name |-> {"n", "N"}, pressure |-> {"p", "P"},
   write |-> {"w", "W"}, ops |-> {"o", "O"}, latency |-> {"l", "L"}, refresh |-> {"r", "R"}, help |-> {"?", "h", "H"},
   next |-> {"\t"}, open |-> {"\r", "\n"}, back |-> {"b", "B"}, overview |-> {"1"}, details |-> {"2"}, events |-> {"3"},
   workflows |-> {"4"}, save |-> {"s", "S"}]

keyForByte(byte) ==
  IF \E key \in DOMAIN KeyBytes : byte \in KeyBytes[key] THEN CHOOSE key \in DOMAIN KeyBytes : byte \in KeyBytes[key]
  ELSE "none"

\* The two bytes after an escape; the second is only read after a bracket.
readEscapeAction(bytes) ==
  CASE bytes = <<"[", "A">> -> "up" [] bytes = <<"[", "B">> -> "down" [] bytes = <<"[", "C">> -> "next"
    [] bytes \in {<<"[", "D">>, <<"[", "Z">>} -> "previous" [] OTHER -> "none"

readKeyActions(bytes) ==
  LET taken(i) == IF bytes[i] # "esc" THEN 1 ELSE IF i < Len(bytes) /\ bytes[i + 1] = "[" THEN 3 ELSE 2
      from[i \in 1..(Len(bytes) + 3)] ==
        IF i > Len(bytes) THEN <<>>
        ELSE <<IF bytes[i] = "esc" THEN readEscapeAction(SubSeq(bytes, i + 1, IF i + 2 > Len(bytes) THEN Len(bytes) ELSE i + 2)) ELSE keyForByte(bytes[i])>>
               \o from[i + taken(i)]
  IN SelectSeq(from[1], LAMBDA action : action # "none")

\* Mutant: a marked row is never looked for again.
selectOnce(order, selected) == IF order # <<>> /\ selected = Nobody THEN order[1] ELSE selected

\* The row that is marked is kept by its name; if it went, the first is marked.
retainedSelection(order, selected) ==
  CASE order = <<>> -> Nobody
    [] order # <<>> /\ selected \in ToSet(order) -> selected
    [] OTHER -> order[1]

moveSelection(order, selected, delta) ==
  LET index == IF selected \in ToSet(order) THEN CHOOSE i \in DOMAIN order : order[i] = selected ELSE 1
  IN IF order = <<>> THEN Nobody ELSE order[((index - 1 + delta) % Len(order)) + 1]

Panels(application) == <<"overview", "details", "events">> \o (IF application THEN <<"workflows">> ELSE <<>>)

movePanel(current, delta, application) ==
  LET panels == Panels(application)
      index == IF current \in ToSet(panels) THEN CHOOSE i \in DOMAIN panels : panels[i] = current ELSE 1
  IN panels[((index - 1 + delta) % Len(panels)) + 1]

Opened(panel, action) ==
  CASE action = "open" -> IF panel = "workflows" THEN panel ELSE "details"
    [] action \in {"back", "overview"} -> "overview"
    [] action \in {"details", "events"} -> action
    [] action = "workflows" -> IF state.application THEN action ELSE panel
    [] action = "next" -> movePanel(panel, 1, state.application)
    [] action = "previous" -> movePanel(panel, -1, state.application)

applyInteractiveAction(action) ==
  \/ /\ action \in SortFields
     /\ LET order == sortRows(view.rows, action)
        IN /\ view' = [view EXCEPT !.order = order]
           /\ state' = [state EXCEPT !.sort = action, !.selected = retainedSelection(order, state.selected)]
  \/ /\ action \in {"up", "down"} /\ state.panel # "workflows"
     /\ state' = [state EXCEPT !.selected = moveSelection(view.order, state.selected, IF action = "up" THEN -1 ELSE 1)]
     /\ UNCHANGED view
  \/ /\ action = "help"
     /\ state' = [state EXCEPT !.help = ~@]
     /\ UNCHANGED view
  \/ /\ action \in {"open", "back", "overview", "details", "events", "workflows", "next", "previous"}
     /\ state' = [state EXCEPT !.panel = Opened(@, action)]
     /\ UNCHANGED view

-----------------------------------------------------------------------------
NoView == [rows |-> Empty, order |-> <<>>]
NoTracker == [initialized |-> FALSE, rows |-> Empty, attribution |-> <<>>]
NoHistory == [name \in DOMAIN Disk |-> <<>>]
interactiveState(field, application) ==
  [sort |-> field, panel |-> "overview", selected |-> Nobody, help |-> FALSE, application |-> application]

ViewInit == view = NoView /\ tracker = NoTracker /\ events = <<>> /\ history = NoHistory /\ state = interactiveState("name", FALSE)

Opens(field, application) ==
  /\ view' = NoView /\ tracker' = NoTracker /\ events' = <<>> /\ history' = NoHistory
  /\ state' = interactiveState(field, application)

\* A collection was received.
Received(world, requested) ==
  \E next \in {BuildView(Collect(world, requested), state.sort)} :
    /\ view' = next
    /\ state' = [state EXCEPT !.selected = retainedSelection(next.order, @)]
    /\ Update(next.rows, next.attribution)
    /\ UpdateHistory(next.rows)

KeyPressed ==
  /\ \E bytes \in Typed : \E action \in ToSet(readKeyActions(bytes)) : applyInteractiveAction(action)
  /\ UNCHANGED <<tracker, events, history>>
=============================================================================
