---------------------------- MODULE LegacyTracing ----------------------------
(***************************************************************************)
(* ebpf block-latency and ebpf block-count: host-wide collectors on        *)
(* tracepoints.  The first keeps the start of every request under its      *)
(* device and sector in a map that evicts, the second counts issues and    *)
(* completions.  Both acquire descriptors one after another, and close     *)
(* what they hold in the reverse order whatever happens.                   *)
(*                                                                         *)
(* A request is [id, sector, shared]: shared if another one was in flight  *)
(* at its sector with it.  A latency is the pair of a request and of the   *)
(* request whose start it was measured from.                               *)
(***************************************************************************)
EXTENDS Integers, Sequences, FiniteSets

CONSTANTS Sectors,        \* device and sector of a request
          CPUs,           \* where completions are handled
          StartEntries,   \* the size of the map of starts
          MaxRequests     \* bound of this model: requests in one run

ASSUME TracingAssumption == StartEntries \in Nat \ {0} /\ MaxRequests \in Nat

VARIABLES tool,       \* "latency", "count" or "none"
          step,       \* what the collector does next
          open,       \* its descriptors
          deferrals,  \* the sets of descriptors whose closing is deferred, the last first
          attached,   \* the tracepoints whose program runs
          failure,    \* whether it returns an error
          flight,     \* the requests in flight
          issued,     \* how many requests were issued
          starts,     \* the map of starts: sector and request
          stats,      \* of every CPU the latencies measured
          counts,     \* the shared counters of issues and completions
          base        \* the counters when the window began

tracing == <<tool, step, open, deferrals, attached, failure, flight, issued, starts, stats, counts, base>>
collector == <<tool, step, open, deferrals, attached, failure, base>>
kernel == <<flight, issued, starts, stats, counts>>

LatencyDescriptors == <<"starts", "stats", "issue_program", "complete_program", "issue", "complete">>
CountDescriptors == <<"counters", "issue_program", "issue", "complete_program", "complete">>
Descriptors == [latency |-> LatencyDescriptors, count |-> CountDescriptors, none |-> <<>>]
Tracepoints == {"issue", "complete"}
Program(event) == IF event = "issue" THEN "issue_program" ELSE "complete_program"

TracingInit ==
  /\ tool = "none" /\ step = "idle" /\ open = {} /\ deferrals = <<>> /\ attached = {} /\ failure = FALSE
  /\ flight = {} /\ issued = 0 /\ starts = {} /\ stats = [cpu \in CPUs |-> {}]
  /\ counts = [issue |-> 0, complete |-> 0] /\ base = counts

-----------------------------------------------------------------------------
(* The collector.                                                          *)
Acquired == {i \in DOMAIN Descriptors[tool] : Descriptors[tool][i] \in open}
Wanted == Descriptors[tool][Cardinality(Acquired) + 1]
GiveUp == step' = "release" /\ failure' = TRUE

Begin(which) ==
  /\ step = "idle"
  /\ tool' = which /\ step' = "acquire"
  /\ UNCHANGED <<open, deferrals, attached, failure, base, kernel>>

\* The program of a counter is closed with its tracepoint, and so not deferred
\* before that is open.
Deferral(descriptor) ==
  CASE tool = "count" /\ descriptor \in {"issue_program", "complete_program"} -> <<>>
    [] tool = "count" /\ descriptor \in Tracepoints -> <<{descriptor, Program(descriptor)}>>
    [] OTHER -> <<{descriptor}>>

\* A raw tracepoint runs its program as soon as it is open; a perf event has
\* to be enabled.
Acquire ==
  /\ step = "acquire"
  /\ open' = open \cup {Wanted}
  /\ deferrals' = Deferral(Wanted) \o deferrals
  /\ attached' = IF tool = "count" /\ Wanted \in Tracepoints THEN attached \cup {Wanted} ELSE attached
  /\ step' = IF Wanted = "complete" THEN "prepare" ELSE "acquire"
  /\ UNCHANGED <<tool, failure, base, kernel>>

\* The first step stands also for what is prepared before it.  A counter that
\* cannot be attached closes its program itself.
AcquireFails ==
  /\ step = "acquire"
  /\ GiveUp
  /\ open' = IF tool = "count" /\ Wanted \in Tracepoints THEN open \ {Program(Wanted)} ELSE open
  /\ UNCHANGED <<tool, deferrals, attached, base, kernel>>

EnableOrderReversed == <<"issue", "complete">>

\* Completions are enabled first, so that no start is left by a request whose
\* completion was not seen.
EnableOrder == <<"complete", "issue">>

Enable ==
  /\ step = "prepare" /\ tool = "latency"
  /\ LET event == EnableOrder[Cardinality(attached) + 1]
     IN \/ /\ attached' = attached \cup {event}
           /\ step' = IF Cardinality(attached) = 1 THEN "window" ELSE step
           /\ UNCHANGED failure
        \/ GiveUp /\ UNCHANGED attached
  /\ UNCHANGED <<tool, open, deferrals, base, kernel>>

lookupCounter(event) == counts[event]

\* The two counters are read one after the other.
ReadInitialCount(event, next) ==
  /\ step = (IF event = "issue" THEN "prepare" ELSE "prepare_complete") /\ tool = "count"
  /\ \/ base' = [base EXCEPT ![event] = lookupCounter(event)] /\ step' = next /\ UNCHANGED failure
     \/ GiveUp /\ UNCHANGED base
  /\ UNCHANGED <<tool, open, deferrals, attached, kernel>>

detach(event) == open' = open \ {event} /\ attached' = attached \ {event}

\* The window is over: the issues are detached first.
WindowEnds ==
  /\ step = "window"
  /\ detach("issue")
  /\ step' = "detach"
  /\ UNCHANGED <<tool, deferrals, failure, base, kernel>>

DetachComplete ==
  /\ step = "detach"
  /\ detach("complete")
  /\ step' = "read"
  /\ UNCHANGED <<tool, deferrals, failure, base, kernel>>

ReadResult(works) ==
  /\ step = "read"
  /\ step' = "release" /\ failure' = ~works
  /\ UNCHANGED <<tool, open, deferrals, attached, base, kernel>>

\* What was deferred is closed, the last acquired first.
Release ==
  /\ step = "release" /\ deferrals # <<>>
  /\ open' = open \ Head(deferrals) /\ attached' = attached \ Head(deferrals)
  /\ deferrals' = Tail(deferrals)
  /\ UNCHANGED <<tool, step, failure, base, kernel>>

Returns ==
  /\ step = "release" /\ deferrals = <<>>
  /\ step' = "returned"
  /\ UNCHANGED <<tool, open, deferrals, attached, failure, base, kernel>>

-----------------------------------------------------------------------------
(* The block layer and the programs that run in it.                        *)
Neighbours(sector) == {r \in flight : r.sector = sector}
Shared(r) == [r EXCEPT !.shared = TRUE]

\* The counters are incremented atomically.
counterProgram(event) ==
  IF event \in attached /\ tool = "count" THEN [counts EXCEPT ![event] = @ + 1] ELSE counts

\* An insertion into a full map evicts some entry.
StoredAfter(entry) ==
  LET others == {e \in starts : e.sector # entry.sector}
  IN IF Cardinality(others) < StartEntries THEN {others \cup {entry}}
     ELSE {(others \ {evicted}) \cup {entry} : evicted \in others}

IssueRequest ==
  /\ issued < MaxRequests
  /\ issued' = issued + 1
  /\ \E sector \in Sectors :
       LET others == Neighbours(sector)
           request == [id |-> issued', sector |-> sector, shared |-> others # {}]
       IN /\ flight' = (flight \ others) \cup {Shared(r) : r \in others} \cup {request}
          /\ IF "issue" \in attached /\ tool = "latency"
             THEN starts' \in StoredAfter([sector |-> sector, id |-> issued'])
             ELSE UNCHANGED starts
          /\ counts' = counterProgram("issue")
  /\ UNCHANGED <<collector, stats>>

\* A completion without a start is not measured.
Found(r) == {e \in starts : e.sector = r.sector}
CompleteRequest ==
  /\ \E r \in flight : \E cpu \in CPUs :
       /\ flight' = flight \ {r}
       /\ IF "complete" \in attached /\ tool = "latency"
          THEN /\ starts' = starts \ Found(r)
               /\ stats' = [stats EXCEPT ![cpu] = @ \cup {[request |-> r, start |-> e.id] : e \in Found(r)}]
          ELSE UNCHANGED <<starts, stats>>
       /\ counts' = counterProgram("complete")
  /\ UNCHANGED <<collector, issued>>

TracingNext ==
  \/ Acquire \/ AcquireFails \/ Enable
  \/ ReadInitialCount("issue", "prepare_complete") \/ ReadInitialCount("complete", "window") \/ WindowEnds \/ DetachComplete
  \/ (\E works \in BOOLEAN : ReadResult(works)) \/ Release \/ Returns
  \/ (step \notin {"idle", "returned"} /\ (IssueRequest \/ CompleteRequest))

\* The process goes on, or ends: what it did not close stays.
Forget ==
  /\ tool' = "none" /\ step' = "idle" /\ deferrals' = <<>> /\ failure' = FALSE
  /\ flight' = {} /\ issued' = 0 /\ starts' = {} /\ stats' = [cpu \in CPUs |-> {}]
  /\ counts' = [issue |-> 0, complete |-> 0] /\ base' = counts'
  /\ UNCHANGED <<open, attached>>

-----------------------------------------------------------------------------
(* What is reported.                                                       *)
counterDelta(start, end) == IF end < start THEN 0 ELSE end - start
BlockCountResult == [event \in Tracepoints |-> counterDelta(base[event], lookupCounter(event))]
aggregateLatencyStats == UNION {stats[cpu] : cpu \in CPUs}

-----------------------------------------------------------------------------
(* What every step of the collector and of the block layer keeps.          *)
Names == UNION {{Descriptors[t][i] : i \in DOMAIN Descriptors[t]} : t \in DOMAIN Descriptors}
Covered == UNION {deferrals[i] : i \in DOMAIN deferrals}

TracingTypeOK ==
  /\ tool \in DOMAIN Descriptors
  /\ step \in {"idle", "acquire", "prepare", "prepare_complete", "window", "detach", "read", "release", "returned"}
  /\ attached \subseteq Tracepoints
  /\ deferrals \in Seq(SUBSET Names)
  /\ issued \in Nat
  /\ flight \subseteq [id : Nat, sector : Sectors, shared : BOOLEAN]
  /\ starts \subseteq [sector : Sectors, id : Nat]
  /\ stats = [cpu \in CPUs |-> stats[cpu]]

\* What was acquired so far are the first descriptors of the tool.
FirstDescriptors(which, n) == {Descriptors[which][i] : i \in 1..n}
AcquiredInOrder ==
  step = "acquire" => \E n \in 0..(Len(Descriptors[tool]) - 1) : open = FirstDescriptors(tool, n)

\* Of what is open, only the program of a counter that is being attached is
\* not deferred.
Undeferred ==
  IF step = "acquire" /\ tool = "count" /\ Wanted \in Tracepoints THEN {Program(Wanted)} ELSE {}

OpenIsDeferred ==
  /\ open \subseteq Covered \cup Undeferred
  /\ attached \subseteq Covered
  /\ step = "prepare" /\ tool = "latency" => Tracepoints \subseteq Covered
  /\ step \in {"idle", "returned"} => deferrals = <<>>

\* No issue is seen whose completion would not be.
CompletionsAreSeen ==
  tool = "latency" =>
    /\ "issue" \in attached => step = "window" /\ "complete" \in attached
    /\ step = "acquire" => attached = {}

NeighboursAreShared ==
  \A r1, r2 \in flight : r1.sector = r2.sector => r1 = r2 \/ (r1.shared /\ r2.shared)

\* A start is of a request in flight, for as long as completions are seen.
StartsAreInFlight ==
  /\ "complete" \in attached /\ tool = "latency" =>
       \A e \in starts : \E r \in flight : r.id = e.id /\ r.sector = e.sector
  /\ tool # "latency" \/ step = "idle" \/ (step \in {"acquire", "prepare"} /\ "complete" \notin attached) => starts = {}

\* A latency of block-latency is that of one request, from its own issue to
\* its own completion, unless two requests were in flight at its sector: no
\* completion meets the start of an earlier request, however the window began
\* and whatever the map of starts has evicted.
LatencyIsOwn ==
  \A latency \in aggregateLatencyStats : latency.start = latency.request.id \/ latency.request.shared

TracingInv ==
  /\ TracingTypeOK
  /\ AcquiredInOrder
  /\ OpenIsDeferred
  /\ CompletionsAreSeen
  /\ NeighboursAreShared
  /\ StartsAreInFlight
  /\ LatencyIsOwn
=============================================================================
