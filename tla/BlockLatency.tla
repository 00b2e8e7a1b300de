----------------------------- MODULE BlockLatency -----------------------------
(***************************************************************************)
(* The block layer, the two BPF programs that correlate the issue of a     *)
(* request with its completion, and the report made from their maps, under *)
(* an observation window (HookWindow) that opens and closes while requests *)
(* are in flight.                                                          *)
(*                                                                         *)
(* A request is known to the programs by its address only, and the block   *)
(* layer reuses addresses.  The programs run for one request at a time per *)
(* address, so each run is one action.  Time is counted in issues: what    *)
(* matters of a latency is from which issue it was measured.  Device and   *)
(* operation of an aggregate's key are abstracted to one of each.  A       *)
(* request may complete in parts: the completion program runs for each of  *)
(* them, and the first one consumes what the issue stored.                 *)
(***************************************************************************)
EXTENDS Naturals, FiniteSets, HookWindow

CONSTANTS
  Requests,        \* addresses of struct request
  Cgroups,         \* kernfs IDs of cgroups that own requests
  VMCgroups,       \* those of them that are validated mappings of a VM
  NoCgroup,        \* ownership that could not be read (no bio or blkcg)
  RequestEntries,  \* VM_BLOCK_REQUEST_MAX_ENTRIES
  CgroupEntries,   \* VM_BLOCK_CGROUP_DEVICE_MAX_ENTRIES
  MaxIssues,       \* bound of this model: issues in one behaviour
  MaxParts         \* bound of this model: parts of a request that complete before its end

ASSUME BlockLatencyAssumption ==
  /\ IsFiniteSet(Requests)
  /\ VMCgroups \subseteq Cgroups
  /\ IsFiniteSet(Cgroups)
  /\ NoCgroup \notin Cgroups
  /\ RequestEntries \in Nat
  /\ CgroupEntries \in Nat
  /\ MaxIssues \in Nat
  /\ MaxParts \in Nat

VARIABLES
  now,             \* issues so far
  inflight,        \* the requests between their issue and their completion
  request_starts,  \* map: address -> what the issue program stored
  cgroup_stats,    \* map: cgroup -> completed operations
  counters,        \* map: diagnostic counters
  armed,           \* history: when the completion hook was attached
  observed,        \* history: requests for which some program ran
  mispaired,       \* history: completions that met the entry of another request
  report           \* what userspace makes of the maps

blockVars == <<now, inflight, request_starts, cgroup_stats, counters,
              armed, observed, mispaired, report>>
vars == <<windowVars, blockVars>>

Counters ==
  {"issue_seen", "complete_seen", "duplicate_issue", "lookup_miss", "map_full",
   "device_unavailable", "missing_blkcg", "completed_latency_events"}

\* What the issue program can read from a request.
Metadata == [cgroup : Cgroups \cup {NoCgroup}, device : BOOLEAN]

EmptyMap == [x \in {} |-> 0]
NoReport == [attributed |-> 0, unmapped |-> 0, unattributed |-> 0, incomplete |-> 0]

\* A program that is not known to be detached may run.
Runs(hook) ==
  CASE hook = "attached" -> {TRUE}
    [] hook = "unknown" -> BOOLEAN
    [] OTHER -> {FALSE}

Bit(condition) == IF condition THEN 1 ELSE 0

-----------------------------------------------------------------------------
(* The programs.                                                           *)

\* Updating an entry succeeds in a full map; inserting one does not.
Full(p) ==
  /\ p \notin DOMAIN request_starts
  /\ Cardinality(DOMAIN request_starts) >= RequestEntries

\* Mutant: the entry of an address that was seen before is kept (BPF_NOEXIST).
StoreIfAbsent(p, value) ==
  IF p \in DOMAIN request_starts THEN request_starts
  ELSE [q \in DOMAIN request_starts \cup {p} |-> IF q = p THEN value ELSE request_starts[q]]

\* The entry at p is inserted or overwritten (BPF_ANY).
Store(p, value) ==
  [q \in DOMAIN request_starts \cup {p} |-> IF q = p THEN value ELSE request_starts[q]]

\* extract_cgroup_identity meets a missing link on the way to the cgroup.
Unowned(metadata) == metadata.cgroup = NoCgroup

\* An entry left at this address is overwritten and counted.
on_block_rq_issue(p, metadata) ==
  /\ counters' =
       [counters EXCEPT
          !["issue_seen"] = @ + 1,
          !["duplicate_issue"] = @ + Bit(p \in DOMAIN request_starts),
          !["device_unavailable"] = @ + Bit(~metadata.device),
          !["missing_blkcg"] = @ + Bit(Unowned(metadata)),
          !["map_full"] = @ + Bit(Full(p))]
  /\ request_starts' =
       IF Full(p) THEN request_starts
       ELSE Store(p, [timestamp |-> now', cgroup |-> metadata.cgroup, device |-> metadata.device])

\* The completed operation has an owner and a device to be aggregated under.
Owned(p) ==
  /\ p \in DOMAIN request_starts
  /\ request_starts[p].device
  /\ request_starts[p].cgroup # NoCgroup

\* The aggregate exists or can still be inserted.
HasRoom(c) == c \in DOMAIN cgroup_stats \/ Cardinality(DOMAIN cgroup_stats) < CgroupEntries

Observe(c) ==
  [x \in DOMAIN cgroup_stats \cup {c} |->
     (IF x \in DOMAIN cgroup_stats THEN cgroup_stats[x] ELSE 0) + Bit(x = c)]

\* Mutant: the entry is not deleted.
ConsumeNothing(p) == request_starts

Consume(p) == [q \in DOMAIN request_starts \ {p} |-> request_starts[q]]

\* The entry at this address is consumed: the host aggregate takes the latency,
\* and the aggregate of the owner too when device and owner are known.
on_block_rq_complete(p) ==
  LET found == p \in DOMAIN request_starts
      room == Owned(p) /\ HasRoom(request_starts[p].cgroup)
  IN
  /\ counters' =
       [counters EXCEPT
          !["complete_seen"] = @ + 1,
          !["lookup_miss"] = @ + Bit(~found),
          !["completed_latency_events"] = @ + Bit(found),
          !["map_full"] = @ + Bit(Owned(p) /\ ~room)]
  /\ cgroup_stats' = IF room THEN Observe(request_starts[p].cgroup) ELSE cgroup_stats
  /\ request_starts' = Consume(p)

-----------------------------------------------------------------------------
(* The block layer.                                                        *)

\* The entry at p was made at an issue of the request in flight at p.
Own(p) ==
  /\ p \in DOMAIN inflight
  /\ request_starts[p].timestamp >= inflight[p].issued
  /\ request_starts[p].cgroup = inflight[p].metadata.cgroup
  /\ request_starts[p].device = inflight[p].metadata.device

\* A request is issued, for the first time or again after a requeue.
Issue(p, metadata) ==
  /\ now < MaxIssues
  /\ p \in DOMAIN inflight => inflight[p].metadata = metadata
  /\ now' = now + 1
  /\ \E ran \in Runs(issueHook) :
       /\ IF ran THEN on_block_rq_issue(p, metadata)
                 ELSE UNCHANGED <<counters, request_starts>>
       /\ LET first == p \notin DOMAIN inflight
              before == ~first /\ inflight[p].observed
          IN
          /\ observed' = observed + Bit(ran /\ ~before)
          /\ inflight' =
               [q \in DOMAIN inflight \cup {p} |->
                  IF q # p THEN inflight[q]
                  ELSE [issued |-> IF first THEN now' ELSE inflight[p].issued,
                        metadata |-> metadata, observed |-> ran \/ before,
                        parts |-> IF first THEN 0 ELSE inflight[p].parts]]
  /\ UNCHANGED <<windowVars, cgroup_stats, armed, mispaired, report>>

\* A request completes, or a part of it does while the rest stays in flight:
\* the programs are told of both in the same way.
Complete(p, whole) ==
  /\ p \in DOMAIN inflight
  /\ whole \/ inflight[p].parts < MaxParts
  /\ \E ran \in Runs(completeHook) :
       /\ IF ran THEN on_block_rq_complete(p)
                 ELSE UNCHANGED <<counters, cgroup_stats, request_starts>>
       /\ observed' = observed + Bit(ran /\ ~inflight[p].observed)
       /\ mispaired' = mispaired + Bit(ran /\ p \in DOMAIN request_starts /\ ~Own(p))
       /\ inflight' =
            IF whole THEN [q \in DOMAIN inflight \ {p} |-> inflight[q]]
            ELSE [inflight EXCEPT ![p].parts = @ + 1, ![p].observed = @ \/ ran]
  /\ UNCHANGED <<windowVars, now, armed, report>>

-----------------------------------------------------------------------------
(* The window opens and closes; at its end the report is made.             *)

OpenOrClose ==
  /\ \/ AttachIssue /\ UNCHANGED armed
     \/ AttachComplete /\ armed' = now
     \/ DetachIssue /\ UNCHANGED armed
     \/ DetachComplete /\ UNCHANGED armed
  /\ UNCHANGED <<now, inflight, request_starts, cgroup_stats, counters, observed, mispaired, report>>

\* The operations that stats counts for the cgroups in S, numbered one by one.
Numbered(stats, S) == UNION {{c} \X (1 .. stats[c]) : c \in S}

\* How many operations there are of the cgroups in S: the sum of their counts.
Operations(S) == Cardinality(Numbered(cgroup_stats, S))

\* Mutant: requests still open at the end of the window are not counted.
IncompleteForgotten == 0

\* The entries left over when the maps are read.
Incomplete == Cardinality(DOMAIN request_starts)

\* Unattributed: measured for the host only, completed unmatched, or incomplete.
Unattributed(attributed, host) ==
  (IF host > attributed THEN host - attributed ELSE 0)
    + counters["lookup_miss"] + Incomplete

\* ReadStats, recordKernelStats and finish in VM attribution mode.
Report ==
  LET attributed == Operations(DOMAIN cgroup_stats \cap VMCgroups) IN
  [attributed |-> attributed,
   unmapped |-> Operations(DOMAIN cgroup_stats \ VMCgroups),
   unattributed |-> Unattributed(attributed, counters["completed_latency_events"]),
   incomplete |-> Incomplete]

MakeReport ==
  /\ ReadMaps
  /\ report' = Report
  /\ UNCHANGED <<now, inflight, request_starts, cgroup_stats, counters, armed, observed, mispaired>>

Init ==
  /\ WindowInit
  /\ now = 0
  /\ inflight = EmptyMap
  /\ request_starts = EmptyMap
  /\ cgroup_stats = EmptyMap
  /\ counters = [k \in Counters |-> 0]
  /\ armed = 0
  /\ observed = 0
  /\ mispaired = 0
  /\ report = NoReport

Next ==
  \/ \E p \in Requests : (\E whole \in BOOLEAN : Complete(p, whole)) \/ \E metadata \in Metadata : Issue(p, metadata)
  \/ OpenOrClose
  \/ MakeReport

Spec == Init /\ [][Next]_vars

-----------------------------------------------------------------------------
(* Properties.                                                             *)

TypeOK ==
  /\ WindowTypeOK
  /\ now \in 0 .. MaxIssues
  /\ DOMAIN inflight \subseteq Requests
  /\ \A p \in DOMAIN inflight :
       inflight[p] \in [issued : 1 .. now, metadata : Metadata, observed : BOOLEAN, parts : 0 .. MaxParts]
  /\ DOMAIN request_starts \subseteq Requests
  /\ \A p \in DOMAIN request_starts :
       request_starts[p] \in [timestamp : 1 .. now, cgroup : Cgroups \cup {NoCgroup}, device : BOOLEAN]
  /\ DOMAIN cgroup_stats \subseteq Cgroups
  /\ \A c \in DOMAIN cgroup_stats : cgroup_stats[c] \in Nat
  /\ counters \in [Counters -> Nat]
  /\ armed \in 0 .. now
  /\ observed \in Nat
  /\ mispaired \in Nat

\* As long as the issue hook is attached, no request in flight meets the entry
\* of another one that had its address: owner and start time are its own.
AttributionIsOwn ==
  issueHook = "attached" =>
    /\ mispaired = 0
    /\ \A p \in DOMAIN request_starts \cap DOMAIN inflight : Own(p)

\* An entry that no completion will match (its request completed unseen) is
\* older than the completion hook: the window itself leaves none behind.
StaleEntriesPredateTheWindow ==
  completeHook = "attached" =>
    \A p \in DOMAIN request_starts : Own(p) \/ request_starts[p].timestamp <= armed

\* Every run of a program is accounted for by one counter or one entry; only a
\* full map (whose counter the aggregates share) loses an issue.
ProgramRunsBalance ==
  LET kept == counters["completed_latency_events"] + counters["duplicate_issue"]
                + Cardinality(DOMAIN request_starts)
  IN
  /\ kept <= counters["issue_seen"]
  /\ counters["issue_seen"] <= kept + counters["map_full"]
  /\ counters["complete_seen"] =
       counters["completed_latency_events"] + counters["lookup_miss"]

\* The report leaves out no request that a program saw: each one is attributed,
\* unattributed, reissued or lost to a full map (README.md:314-317), except for
\* one that a completion took for another.
EveryRequestIsReported ==
  maps = "read" =>
    observed <= report.attributed + report.unattributed
                  + counters["duplicate_issue"] + counters["map_full"] + mispaired

\* ... and no completion is counted twice: attributed and unattributed
\* operations are the completions seen and the entries left over.
ReportBalances ==
  maps = "read" =>
    report.attributed + report.unattributed = counters["complete_seen"] + report.incomplete

\* A measured operation without a VM is explained by an explicit counter.
UnattributedIsExplained ==
  maps = "read" =>
    counters["completed_latency_events"] <=
      report.attributed + report.unmapped + counters["missing_blkcg"]
        + counters["device_unavailable"] + counters["map_full"]

\* The report accounts for everything: it leaves out no request, counts none
\* twice, and says why an operation has no VM.
ReportAccountsForAll == EveryRequestIsReported /\ ReportBalances /\ UnattributedIsExplained

\* The issue program stores nothing before it is attached.
NothingStoredBefore ==
  issueHook = "unattached" => DOMAIN request_starts = {} /\ mispaired = 0

\* An observed request is in the maps or in a counter, and an entry of a request
\* in flight was made by a run that observed it.
ObservedAreCounted ==
  /\ observed <= counters["completed_latency_events"] + counters["lookup_miss"]
                   + Cardinality(DOMAIN request_starts)
                   + counters["duplicate_issue"] + counters["map_full"] + mispaired
  /\ \A p \in DOMAIN request_starts \cap DOMAIN inflight : Own(p) => inflight[p].observed

MappedOperations == Numbered(cgroup_stats, DOMAIN cgroup_stats \cap VMCgroups)
UnmappedOperations == Numbered(cgroup_stats, DOMAIN cgroup_stats \ VMCgroups)

\* Entries whose operation will be measured for the host only.
Unownable == {p \in DOMAIN request_starts : ~Owned(p)}

\* The aggregates count no operation that the host does not, and what they leave
\* out, or will, has its counter.
OperationsAreCounted ==
  /\ IsFiniteSet(MappedOperations) /\ IsFiniteSet(UnmappedOperations)
  /\ LET measured == Cardinality(MappedOperations) + Cardinality(UnmappedOperations) IN
       /\ measured <= counters["completed_latency_events"]
       /\ counters["completed_latency_events"] + Cardinality(Unownable) <=
            measured + counters["missing_blkcg"] + counters["device_unavailable"] + counters["map_full"]

\* Nothing runs any more once the maps are read.
ReportIsOfTheMaps == maps = "read" => report = Report

Accounts == ObservedAreCounted /\ OperationsAreCounted /\ ReportIsOfTheMaps

\* The inductive invariant: what every step of the block layer, of the programs
\* and of the window keeps.
Inv ==
  /\ TypeOK
  /\ WindowOrder
  /\ NothingStoredBefore
  /\ AttributionIsOwn
  /\ StaleEntriesPredateTheWindow
  /\ ProgramRunsBalance

\* A completion is correlated with the issue of the same request, so that the
\* recorded latency is its own (README.md:306-307).
LatencyIsIssueToCompletion == mispaired = 0

=============================================================================
