------------------------------ MODULE MCCommands ------------------------------
(***************************************************************************)
(* Values for TLC: every verb with the options it needs, followed by up to *)
(* two further option groups, the second of them from a few.  The screen is*)
(* looked into for monitor and for top, the collectors for their commands. *)
(***************************************************************************)
EXTENDS Session

MCInventory == {[name |-> "a", running |-> TRUE, pid |-> TRUE], [name |-> "b", running |-> TRUE, pid |-> FALSE],
                [name |-> "c", running |-> FALSE, pid |-> FALSE]}

Valued1(name, t) == <<Option(name), t>>
Flag(name) == <<Option(name)>>
Victim == Valued1("--victim", Word("a"))
Suspect == Valued1("--suspect", Word("b"))
Json == Flag("--json")
Seconds(n) == Duration("seconds", 10 * n)

Verbs ==
  {<<Words(<<"diagnose", "noisy-neighbor">>), <<Victim>>>>,
   <<Words(<<"capture", "noisy-neighbor">>), <<Victim, Valued1("--output-dir", Word("d"))>>>>,
   <<Words(<<"watch", "noisy-neighbor">>), <<Victim, Suspect>>>>,
   <<Words(<<"observe", "snapshot">>), <<Victim, Json>>>>, <<Words(<<"observe", "watch">>), <<Victim, Json>>>>,
   <<Words(<<"vm", "storage-stats">>), <<Json>>>>, <<Words(<<"ebpf", "vm-block-latency">>), <<Json>>>>,
   <<Words(<<"ebpf", "block-latency">>), <<>>>>, <<Words(<<"ebpf", "block-watch">>), <<>>>>,
   <<Words(<<"ebpf", "block-count">>), <<>>>>, <<Words(<<"ebpf", "block-events">>), <<>>>>, <<Words(<<"ebpf", "doctor">>), <<>>>>,
   <<Words(<<"qemu", "io-summary">>), <<Victim>>>>, <<Words(<<"qemu", "io-watch">>), <<Victim, Suspect>>>>,
   <<Words(<<"storage", "watch">>), <<Victim, Suspect>>>>, <<Words(<<"storage", "snapshot">>), <<Victim>>>>,
   <<Words(<<"trace", "plan">>), <<Suspect>>>>, <<Words(<<"incidents", "explain", "r">>), <<Victim>>>>,
   <<Words(<<"experiment", "summarize", "r">>), <<>>>>, <<Words(<<"inspect", "a">>), <<>>>>, <<Words(<<"inventory">>), <<>>>>,
   <<Words(<<"guest", "status">>), <<Json, Valued1("--vm", Word("a"))>>>>, <<Words(<<"db", "status">>), <<Json, Valued1("--vm", Word("a"))>>>>, <<Words(<<"service", "status">>), <<Json, Valued1("--vm", Word("a"))>>>>,
   <<Words(<<"host", "status">>), <<>>>>, <<Words(<<"status">>), <<>>>>, <<Words(<<"top">>), <<>>>>,
   <<Words(<<"monitor">>), <<>>>>, <<Words(<<"investigate", "a">>), <<>>>>, <<Words(<<"bundle", "a">>), <<>>>>,
   <<Words(<<"version">>), <<>>>>, <<Words(<<"doctor">>), <<>>>>}

Groups ==
  {Valued1("--victim", Word("")), Victim, Suspect, Json, <<OptionEquals("--json", "false")>>, Flag("--discover-suspects"),
   Flag("--include-ebpf-latency"), <<OptionEquals("--include-ebpf-latency", "false")>>, Valued1("--duration", Seconds(4)),
   Valued1("--interval", Seconds(5)), Valued1("--every", Seconds(2)), Valued1("--iterations", Number("3", 3)),
   Valued1("--output", Word("f")), Valued1("--output-dir", Word("e")), Flag("--all-vms"), Valued1("--report-dir", Word("r")),
   Flag("--watch"), Flag("--clear"), Flag("--no-clear"), Valued1("--sort", Word("write")), Valued1("--vm", Word("a")),
   Valued1("--ui-refresh", Seconds(1)), Flag("--help"), Flag("--verbose"),
   Valued1("--config", Word("lab")), Valued1("--config", Word("stale")), Valued1("--config", Word("broken")), Flag("--config"), Flag("--duration"), <<OptionEquals("--json", "bad")>>}

Few == {Suspect, Flag("--discover-suspects"), <<OptionEquals("--include-ebpf-latency", "false")>>,
        Valued1("--every", Seconds(2)), Flag("--no-clear"), Flag("--watch")}
Extras == {<<>>} \cup {<<g>> : g \in Groups} \cup {<<g, h>> : g \in Groups, h \in Few}

MCCommandLines ==
  {[verb |-> v[1], options |-> v[2] \o extra] : v \in Verbs, extra \in Extras}
   \cup {[verb |-> <<>>, options |-> <<>>], [verb |-> <<Option("--json")>> \o Words(<<"version">>), options |-> <<>>],
         [verb |-> <<Option("--json"), Option("--json")>>, options |-> <<>>],
         [verb |-> Words(<<"investigate">>), options |-> <<>>],
         [verb |-> <<Word("inspect"), OptionEquals("--verbose", "true")>>, options |-> <<>>],
         [verb |-> Words(<<"bundle", "a", "b">>), options |-> <<>>]}
Guest == [enabled |-> TRUE, transport |-> "ssh", user |-> "good", timeout |-> "good", parallel |-> 2, hosts |-> "known"]
Service(id, vm) == [id |-> id, vm |-> vm, units |-> <<"u">>, checks |-> <<[name |-> "h", ok |-> TRUE]>>]
Database(vm) == [vm |-> vm, kind |-> "postgresql", name |-> "main", credential |-> ""]
Plain == [schema |-> "1", inventory |-> "good", root |-> "shared", uri |-> "good", thresholds |-> "good", observability |-> FALSE,
          host |-> [enabled |-> TRUE, interval |-> "good"], guest |-> [Guest EXCEPT !.enabled = FALSE], services |-> <<>>, databases |-> <<>>]
Lab == [Plain EXCEPT !.schema = "2", !.root = "captures", !.observability = TRUE, !.guest = Guest,
                     !.services = <<Service("", "a"), Service("s", "a")>>, !.databases = <<Database("a")>>]
File(settings) == [opens |-> TRUE, json |-> TRUE, safe |-> TRUE, single |-> TRUE, settings |-> settings]

\* What the environment names; a laboratory; one that only its database is
\* left of, of a VM that is gone; and one with the same service twice.
MCFiles ==
  [shared |-> File(Plain), lab |-> File(Lab),
   stale |-> File([Lab EXCEPT !.guest.enabled = FALSE, !.services = <<>>, !.databases = <<Database("z")>>]),
   broken |-> File([Lab EXCEPT !.services = <<Service("a", "b"), Service("", "a")>>])]

MCExplored ==
  {[verb |-> Words(<<"monitor">>), options |-> <<>>],
   [verb |-> Words(<<"top">>), options |-> <<Valued1("--sort", Word("write"))>>],
   [verb |-> Words(<<"ebpf", "block-latency">>), options |-> <<Valued1("--duration", Seconds(4))>>],
   [verb |-> Words(<<"ebpf", "block-count">>), options |-> <<Valued1("--duration", Seconds(4))>>]}

MCVMNames == <<"a", "b", "c">>
MCDisk == [a |-> "d1", b |-> "d1", c |-> "d2"]
VM(s, activity, latency) == [state |-> s, pid |-> s = "running", activity |-> activity, latency |-> latency]
Absent == VM("absent", "none", 0)
Kernel(status, a, b, host) ==
  [status |-> status, operations |-> [name \in {"a", "b"} |-> IF name = "a" THEN a ELSE b], host |-> host,
   lookupMiss |-> 0, incomplete |-> 0]
World(a, b, c, maps) == [vms |-> [a |-> a, b |-> b, c |-> c], status |-> TRUE, rates |-> {"d1"}, kernel |-> maps]

\* A noisy; b noisy while the attribution is degraded and a idles; a paused,
\* without a status and without cgroups; nothing; counters of a unreadable and
\* a failed collection; a tie.
MCWorlds ==
  {World(VM("running", "bytes", 2), VM("running", "some", 1), VM("shut off", "none", 0), Kernel("attributed", 3, 1, 4)),
   World(VM("running", "none", 1), VM("running", "calls", 2), Absent, Kernel("attributed", 2, 8, 12)),
   [World(VM("paused", "none", 0), VM("running", "some", 1), VM("running", "some", 1), Kernel("mapping_error", 0, 0, 0))
      EXCEPT !.status = FALSE, !.vms["b"].pid = FALSE],
   World(Absent, Absent, Absent, Kernel("host", 0, 0, 3)),
   World(VM("running", "unreadable", 1), Absent, VM("crashed", "none", 0), Kernel("failed", 1, 0, 1)),
   World(VM("running", "bytes", 1), VM("running", "calls", 1), VM("in shutdown", "none", 0), Kernel("attributed", 2, 2, 4))}

MCTyped == {<<"k">>, <<"esc", "[", "B">>, <<"p">>, <<"o">>, <<"?">>, <<"\t">>, <<"esc", "[", "Z", "4">>, <<"esc", "x", "b">>}
=============================================================================
