---------------------------- MODULE SessionProofs ----------------------------
(***************************************************************************)
(* Proofs about Session: whatever fails, a run of the program gives back   *)
(* its descriptors and the terminal; a latency of the legacy collector is  *)
(* that of one request, for any number of sectors, CPUs and entries; and   *)
(* the events of the dashboard end in what it shows, and the workflows it  *)
(* launches are bounded, for any collections and keys.                     *)
(***************************************************************************)
EXTENDS CommandProofs

Tools == {"latency", "count"}
CoveredBy(s) == UNION {s[i] : i \in DOMAIN s}

-----------------------------------------------------------------------------
(* The descriptors.                                                        *)

\* The descriptors of a tool are distinct, and the last is "complete".
LEMMA DescriptorFacts ==
  ASSUME NEW t \in Tools
  PROVE  /\ Len(Descriptors[t]) = 5 \/ Len(Descriptors[t]) = 6
         /\ DOMAIN Descriptors[t] = 1..Len(Descriptors[t])
         /\ \A i, j \in DOMAIN Descriptors[t] : Descriptors[t][i] = Descriptors[t][j] => i = j
         /\ Descriptors[t][Len(Descriptors[t])] = "complete"
         /\ \A i \in DOMAIN Descriptors[t] : Descriptors[t][i] \in Names
<1>1. CASE t = "latency"
  <2>1. Descriptors[t] = LatencyDescriptors
    BY <1>1 DEF Descriptors
  <2>2. Len(LatencyDescriptors) = 6 /\ DOMAIN LatencyDescriptors = 1..6
    BY DEF LatencyDescriptors
  <2>3. /\ LatencyDescriptors[1] = "starts" /\ LatencyDescriptors[2] = "stats" /\ LatencyDescriptors[3] = "issue_program"
        /\ LatencyDescriptors[4] = "complete_program" /\ LatencyDescriptors[5] = "issue" /\ LatencyDescriptors[6] = "complete"
    BY DEF LatencyDescriptors
  <2>4. \A i \in 1..6 : i = 1 \/ i = 2 \/ i = 3 \/ i = 4 \/ i = 5 \/ i = 6
    OBVIOUS
  <2>5. t \in DOMAIN Descriptors
    BY <1>1 DEF Descriptors
  <2>6. \A i, j \in 1..6 : LatencyDescriptors[i] = LatencyDescriptors[j] => i = j
    BY <2>3, <2>4
  <2>7. \A i \in DOMAIN Descriptors[t] : Descriptors[t][i] \in Names
    BY <2>5 DEF Names
  <2> QED
    BY <2>1, <2>2, <2>3, <2>6, <2>7
<1>2. CASE t = "count"
  <2>1. Descriptors[t] = CountDescriptors
    BY <1>2 DEF Descriptors
  <2>2. Len(CountDescriptors) = 5 /\ DOMAIN CountDescriptors = 1..5
    BY DEF CountDescriptors
  <2>3. /\ CountDescriptors[1] = "counters" /\ CountDescriptors[2] = "issue_program" /\ CountDescriptors[3] = "issue"
        /\ CountDescriptors[4] = "complete_program" /\ CountDescriptors[5] = "complete"
    BY DEF CountDescriptors
  <2>4. \A i \in 1..5 : i = 1 \/ i = 2 \/ i = 3 \/ i = 4 \/ i = 5
    OBVIOUS
  <2>5. t \in DOMAIN Descriptors
    BY <1>2 DEF Descriptors
  <2>6. \A i, j \in 1..5 : CountDescriptors[i] = CountDescriptors[j] => i = j
    BY <2>3, <2>4
  <2>7. \A i \in DOMAIN Descriptors[t] : Descriptors[t][i] \in Names
    BY <2>5 DEF Names
  <2> QED
    BY <2>1, <2>2, <2>3, <2>6, <2>7
<1> QED
  BY <1>1, <1>2 DEF Tools

AcquiredOf(t, o) == {i \in DOMAIN Descriptors[t] : Descriptors[t][i] \in o}

\* With the first n descriptors open, the next one is wanted.
LEMMA NextWanted ==
  ASSUME NEW t \in Tools, NEW n \in 0..(Len(Descriptors[t]) - 1)
  PROVE  Cardinality(AcquiredOf(t, FirstDescriptors(t, n))) = n
<1> DEFINE D == Descriptors[t]
<1>1. /\ DOMAIN D = 1..Len(D) /\ Len(D) \in Nat
      /\ \A i, j \in DOMAIN D : D[i] = D[j] => i = j
  BY DescriptorFacts
<1> HIDE DEF D
<1>2. n \in Nat /\ 1..n \subseteq DOMAIN D
  BY <1>1 DEF D
<1>3. {i \in DOMAIN D : D[i] \in {D[j] : j \in 1..n}} = 1..n
  BY <1>1, <1>2
<1>4. Cardinality(1..n) = n
  BY <1>2, FS_Interval
<1> QED
  BY <1>3, <1>4 DEF D, AcquiredOf, FirstDescriptors

LEMMA FirstGrows ==
  ASSUME NEW t, NEW n \in Nat
  PROVE  /\ FirstDescriptors(t, 0) = {}
         /\ FirstDescriptors(t, n + 1) = FirstDescriptors(t, n) \cup {Descriptors[t][n + 1]}
<1>1. 1..0 = {} /\ 1..(n + 1) = 1..n \cup {n + 1}
  OBVIOUS
<1> QED
  BY <1>1 DEF FirstDescriptors

\* What is deferred covers what was deferred before, and the new closing.
LEMMA CoveredPush ==
  ASSUME NEW s \in Seq(SUBSET Names), NEW x \in SUBSET Names
  PROVE  /\ <<x>> \o s \in Seq(SUBSET Names)
         /\ CoveredBy(<<x>> \o s) = x \cup CoveredBy(s)
<1>1. /\ <<x>> \o s \in Seq(SUBSET Names)
      /\ Len(<<x>> \o s) = Len(s) + 1 /\ (<<x>> \o s)[1] = x
      /\ \A i \in 1..Len(s) : (<<x>> \o s)[i + 1] = s[i]
  OBVIOUS
<1>2. DOMAIN (<<x>> \o s) = 1..(Len(s) + 1) /\ DOMAIN s = 1..Len(s) /\ Len(s) \in Nat
  BY <1>1
<1> DEFINE u == <<x>> \o s
<1> HIDE DEF u
<1>3. CoveredBy(u) \subseteq x \cup CoveredBy(s)
  <2> SUFFICES ASSUME NEW i \in DOMAIN u PROVE u[i] \subseteq x \cup CoveredBy(s)
    BY DEF CoveredBy
  <2>1. CASE i = 1
    BY <2>1, <1>1 DEF u
  <2>2. CASE i # 1
    <3>1. i - 1 \in DOMAIN s /\ u[i] = s[i - 1]
      BY <2>2, <1>1, <1>2 DEF u
    <3> QED
      BY <3>1 DEF CoveredBy
  <2> QED
    BY <2>1, <2>2
<1>4. x \cup CoveredBy(s) \subseteq CoveredBy(u)
  <2>1. x \subseteq CoveredBy(u)
    BY <1>1, <1>2 DEF CoveredBy, u
  <2>2. ASSUME NEW i \in DOMAIN s PROVE s[i] \subseteq CoveredBy(u)
    <3>1. i + 1 \in DOMAIN u /\ u[i + 1] = s[i]
      BY <1>1, <1>2 DEF u
    <3> QED
      BY <3>1 DEF CoveredBy
  <2> QED
    BY <2>1, <2>2 DEF CoveredBy
<1> QED
  BY <1>1, <1>3, <1>4 DEF u

\* What is closed first is no longer covered by the rest.
LEMMA CoveredPop ==
  ASSUME NEW s \in Seq(SUBSET Names), s # <<>>
  PROVE  /\ Tail(s) \in Seq(SUBSET Names)
         /\ CoveredBy(s) \subseteq Head(s) \cup CoveredBy(Tail(s))
<1>1. /\ Tail(s) \in Seq(SUBSET Names)
      /\ Len(Tail(s)) = Len(s) - 1 /\ Head(s) = s[1]
      /\ \A i \in 1..(Len(s) - 1) : Tail(s)[i] = s[i + 1]
  OBVIOUS
<1>2. DOMAIN Tail(s) = 1..(Len(s) - 1) /\ DOMAIN s = 1..Len(s) /\ Len(s) \in Nat
  BY <1>1
<1> SUFFICES ASSUME NEW i \in DOMAIN s PROVE s[i] \subseteq Head(s) \cup CoveredBy(Tail(s))
  BY <1>1 DEF CoveredBy
<1>3. CASE i = 1
  BY <1>3, <1>1
<1>4. CASE i # 1
  <2>1. i - 1 \in DOMAIN Tail(s) /\ Tail(s)[i - 1] = s[i]
    BY <1>4, <1>1, <1>2
  <2> QED
    BY <2>1 DEF CoveredBy
<1> QED
  BY <1>3, <1>4

LEMMA CoveredEmpty == CoveredBy(<<>>) = {}
BY DEF CoveredBy

-----------------------------------------------------------------------------
(* The steps of a collector.                                               *)

LEMMA TracingInitially == TracingInit => TracingInv
<1> SUFFICES ASSUME TracingInit PROVE TracingInv
  OBVIOUS
<1>1. TracingTypeOK
  BY DEF TracingInit, TracingTypeOK, Descriptors
<1>2. AcquiredInOrder /\ CompletionsAreSeen /\ NeighboursAreShared /\ StartsAreInFlight
  BY DEF TracingInit, AcquiredInOrder, CompletionsAreSeen, NeighboursAreShared, StartsAreInFlight
<1>3. OpenIsDeferred
  BY DEF TracingInit, OpenIsDeferred
<1>4. LatencyIsOwn
  BY DEF TracingInit, LatencyIsOwn, aggregateLatencyStats
<1> QED
  BY <1>1, <1>2, <1>3, <1>4 DEF TracingInv

\* A collector that has not begun or has returned holds nothing.
LEMMA HoldsNothing ==
  ASSUME TracingInv, step \in {"idle", "returned"}
  PROVE  open = {} /\ attached = {}
<1>1. deferrals = <<>>
  BY DEF TracingInv, OpenIsDeferred
<1>2. Covered = {}
  BY <1>1, CoveredEmpty DEF Covered, CoveredBy
<1> QED
  BY <1>2 DEF TracingInv, OpenIsDeferred, Undeferred

\* The kernel's part of the invariant only depends on the collector's tool,
\* its step and its tracepoints.
LEMMA KernelUnmoved ==
  ASSUME TracingInv, UNCHANGED <<kernel, tool>>, attached' \subseteq attached,
         step # "idle", step' \notin {"idle", "acquire", "prepare"}
  PROVE  NeighboursAreShared' /\ StartsAreInFlight' /\ LatencyIsOwn'
<1>1. NeighboursAreShared'
  BY DEF TracingInv, NeighboursAreShared, kernel
<1>2. StartsAreInFlight'
  BY DEF TracingInv, StartsAreInFlight, kernel
<1>3. LatencyIsOwn'
  BY DEF TracingInv, LatencyIsOwn, aggregateLatencyStats, kernel
<1> QED
  BY <1>1, <1>2, <1>3

LEMMA BeginKeeps ==
  ASSUME TracingInv, NEW which \in Tools, Begin(which)
  PROVE  TracingInv'
<1>1. open = {} /\ attached = {} /\ starts = {} /\ deferrals = <<>>
  BY HoldsNothing DEF Begin, TracingInv, StartsAreInFlight, OpenIsDeferred
<1>2. UNCHANGED <<open, deferrals, attached, failure, base, flight, issued, starts, stats, counts>>
  BY DEF Begin, kernel
<1>3. TracingTypeOK'
  BY <1>2 DEF TracingInv, TracingTypeOK, Begin, Tools, Descriptors
<1>4. AcquiredInOrder'
  <2>1. Len(Descriptors[which]) = 5 \/ Len(Descriptors[which]) = 6
    BY DescriptorFacts
  <2>2. 0 \in 0..(Len(Descriptors[which]) - 1)
    <3>1. \A m \in Nat : m > 0 => 0 \in 0..(m - 1)
      OBVIOUS
    <3> QED
      BY <2>1, <3>1
  <2>3. open' = FirstDescriptors(which, 0)
    BY <1>1, <1>2, FirstGrows
  <2> QED
    BY <2>2, <2>3 DEF AcquiredInOrder, Begin
<1>5. OpenIsDeferred'
  BY <1>1, <1>2 DEF OpenIsDeferred, Begin
<1>7. CompletionsAreSeen' /\ NeighboursAreShared' /\ StartsAreInFlight'
  BY <1>1, <1>2 DEF TracingInv, CompletionsAreSeen, NeighboursAreShared, StartsAreInFlight, Begin
<1>6. LatencyIsOwn'
  BY <1>2 DEF TracingInv, LatencyIsOwn, aggregateLatencyStats
<1> QED
  BY <1>3, <1>4, <1>5, <1>6, <1>7 DEF TracingInv

\* What Acquire opens: the next descriptor of one of the tools.
LEMMA Acquiring ==
  ASSUME TracingInv, step = "acquire"
  PROVE  /\ tool \in Tools
         /\ \E n \in 0..(Len(Descriptors[tool]) - 1) :
              /\ open = FirstDescriptors(tool, n)
              /\ Wanted = Descriptors[tool][n + 1]
<1>1. PICK n \in 0..(Len(Descriptors[tool]) - 1) : open = FirstDescriptors(tool, n)
  BY DEF TracingInv, AcquiredInOrder
<1>2. tool \in Tools
  <2>1. tool \in {"latency", "count", "none"}
    BY DEF TracingInv, TracingTypeOK, Descriptors
  <2>2. tool # "none"
    <3>1. Len(Descriptors["none"]) = 0
      BY DEF Descriptors
    <3> QED
      BY <3>1, <1>1
  <2> QED
    BY <2>1, <2>2 DEF Tools
<1>3. Cardinality(Acquired) = n
  <2>1. Acquired = AcquiredOf(tool, open)
    BY DEF Acquired, AcquiredOf
  <2> QED
    BY <2>1, <1>1, <1>2, NextWanted
<1> QED
  BY <1>1, <1>2, <1>3 DEF Wanted

\* What Deferral covers: the new descriptor, unless it is the program of a
\* counter, and with the tracepoint of a counter also its program.
LEMMA DeferralCovers ==
  ASSUME deferrals \in Seq(SUBSET Names), tool \in Tools, NEW d \in Names, deferrals' = Deferral(d) \o deferrals
  PROVE  /\ deferrals' \in Seq(SUBSET Names)
         /\ Covered' = Covered \cup
              (IF tool = "count" /\ d \in {"issue_program", "complete_program"} THEN {}
               ELSE IF tool = "count" /\ d \in Tracepoints THEN {d, Program(d)} ELSE {d})
<1> DEFINE x == IF tool = "count" /\ d \in Tracepoints THEN {d, Program(d)} ELSE {d}
<1>1. Program(d) \in Names
  <2>1. "latency" \in DOMAIN Descriptors /\ Descriptors["latency"] = LatencyDescriptors
    BY DEF Descriptors
  <2>2. /\ 3 \in DOMAIN LatencyDescriptors /\ LatencyDescriptors[3] = "issue_program"
        /\ 4 \in DOMAIN LatencyDescriptors /\ LatencyDescriptors[4] = "complete_program"
    BY DEF LatencyDescriptors
  <2> QED
    BY <2>1, <2>2 DEF Names, Program
<1>2. x \in SUBSET Names
  BY <1>1
<1>3. CASE tool = "count" /\ d \in {"issue_program", "complete_program"}
  <2>1. Deferral(d) = <<>>
    BY <1>3 DEF Deferral, Tracepoints
  <2>2. deferrals' = deferrals
    BY <2>1
  <2> QED
    BY <1>3, <2>2 DEF Covered
<1>4. CASE ~(tool = "count" /\ d \in {"issue_program", "complete_program"})
  <2>1. Deferral(d) = <<x>>
    BY <1>4 DEF Deferral, Tracepoints
  <2>2. deferrals' \in Seq(SUBSET Names) /\ CoveredBy(deferrals') = x \cup CoveredBy(deferrals)
    BY <1>2, <2>1, CoveredPush
  <2> QED
    BY <1>4, <2>2 DEF Covered, CoveredBy
<1> QED
  BY <1>3, <1>4

\* The descriptors that are acquired next to a counter's program.
LEMMA CounterOrder ==
  ASSUME NEW n \in 0..4
  PROVE  /\ CountDescriptors[n + 1] \in {"issue_program", "complete_program"} =>
              n + 1 \in 0..4 /\ CountDescriptors[n + 2] \in Tracepoints
                /\ Program(CountDescriptors[n + 2]) = CountDescriptors[n + 1]
         /\ CountDescriptors[n + 1] = "complete" <=> n = 4
<1>1. /\ CountDescriptors[1] = "counters" /\ CountDescriptors[2] = "issue_program" /\ CountDescriptors[3] = "issue"
      /\ CountDescriptors[4] = "complete_program" /\ CountDescriptors[5] = "complete"
  BY DEF CountDescriptors
<1>2. n = 0 \/ n = 1 \/ n = 2 \/ n = 3 \/ n = 4
  OBVIOUS
<1> QED
  BY <1>1, <1>2 DEF Program, Tracepoints

LEMMA AcquireKeeps ==
  ASSUME TracingInv, Acquire
  PROVE  TracingInv'
<1>1. PICK n \in 0..(Len(Descriptors[tool]) - 1) : open = FirstDescriptors(tool, n) /\ Wanted = Descriptors[tool][n + 1]
  BY Acquiring DEF Acquire
<1>2. tool \in Tools /\ tool' = tool
  BY Acquiring DEF Acquire
<1>3. /\ n \in Nat /\ n + 1 \in DOMAIN Descriptors[tool] /\ Wanted \in Names
      /\ Wanted = "complete" <=> n + 1 = Len(Descriptors[tool])
      /\ n + 1 < Len(Descriptors[tool]) => n + 1 \in 0..(Len(Descriptors[tool]) - 1)
  <2>1. /\ Len(Descriptors[tool]) = 5 \/ Len(Descriptors[tool]) = 6
        /\ DOMAIN Descriptors[tool] = 1..Len(Descriptors[tool])
        /\ \A i, j \in DOMAIN Descriptors[tool] : Descriptors[tool][i] = Descriptors[tool][j] => i = j
        /\ Descriptors[tool][Len(Descriptors[tool])] = "complete"
        /\ \A i \in DOMAIN Descriptors[tool] : Descriptors[tool][i] \in Names
    BY <1>2, DescriptorFacts
  <2>2. n \in Nat /\ n + 1 \in DOMAIN Descriptors[tool]
    BY <2>1
  <2> QED
    BY <1>1, <2>1, <2>2
<1>4. open' = FirstDescriptors(tool, n + 1)
  BY <1>1, <1>3, FirstGrows DEF Acquire
<1>5. /\ deferrals' \in Seq(SUBSET Names)
      /\ Covered' = Covered \cup
           (IF tool = "count" /\ Wanted \in {"issue_program", "complete_program"} THEN {}
            ELSE IF tool = "count" /\ Wanted \in Tracepoints THEN {Wanted, Program(Wanted)} ELSE {Wanted})
  BY <1>2, <1>3, DeferralCovers DEF Acquire, TracingInv, TracingTypeOK
<1>6. TracingTypeOK'
  BY <1>5 DEF TracingInv, TracingTypeOK, Acquire, kernel
<1>7. AcquiredInOrder'
  BY <1>2, <1>3, <1>4 DEF AcquiredInOrder, Acquire
<1>8. OpenIsDeferred'
  <2>1. open' = open \cup {Wanted} /\ open \subseteq Covered \cup Undeferred /\ attached \subseteq Covered
    BY DEF TracingInv, OpenIsDeferred, Acquire
  <2>2. attached' = IF tool = "count" /\ Wanted \in Tracepoints THEN attached \cup {Wanted} ELSE attached
    BY DEF Acquire
  <2>3. attached' \subseteq Covered'
    BY <1>5, <2>1, <2>2 DEF Tracepoints
  <2>4. open' \subseteq Covered' \cup Undeferred'
    <3>1. CASE tool = "latency"
      BY <1>5, <2>1, <3>1 DEF Undeferred
    <3>2. CASE tool = "count" /\ Wanted \in Tracepoints
      BY <1>5, <2>1, <3>2 DEF Undeferred, Tracepoints
    <3>3. CASE tool = "count" /\ Wanted \notin Tracepoints /\ Wanted \notin {"issue_program", "complete_program"}
      BY <1>5, <2>1, <3>3 DEF Undeferred
    <3>4. CASE tool = "count" /\ Wanted \in {"issue_program", "complete_program"}
      <4>1. Descriptors[tool] = CountDescriptors /\ Len(CountDescriptors) = 5
        BY <3>4 DEF Descriptors, CountDescriptors
      <4>2. n \in 0..4
        BY <4>1
      <4>3. /\ n + 1 \in 0..4 /\ CountDescriptors[n + 2] \in Tracepoints
            /\ Program(CountDescriptors[n + 2]) = Wanted
        BY <1>1, <3>4, <4>1, <4>2, CounterOrder
      <4>4. Cardinality(AcquiredOf(tool, open')) = n + 1
        <5>1. n + 1 \in 0..(Len(Descriptors[tool]) - 1)
          BY <4>1, <4>3
        <5>2. Cardinality(AcquiredOf(tool, FirstDescriptors(tool, n + 1))) = n + 1
          BY <1>2, <5>1, NextWanted
        <5> QED
          BY <1>4, <5>2
      <4>5. Acquired' = AcquiredOf(tool, open')
        BY <1>2 DEF Acquired, AcquiredOf
      <4>6. Wanted' = CountDescriptors[n + 2]
        <5>1. Wanted' = Descriptors[tool][(n + 1) + 1]
          BY <1>2, <4>4, <4>5 DEF Wanted
        <5> QED
          BY <5>1, <4>1, <1>3
      <4>7. step' = "acquire" /\ Undeferred = {}
        BY <3>4 DEF Acquire, Undeferred, Tracepoints
      <4>8. Undeferred' = {Wanted}
        BY <1>2, <3>4, <4>3, <4>6, <4>7 DEF Undeferred, Tracepoints
      <4> QED
        BY <1>5, <2>1, <3>4, <4>7, <4>8
    <3> QED
      BY <3>1, <3>2, <3>3, <3>4, <1>2 DEF Tools
  <2>5. step' = "prepare" /\ tool' = "latency" => Tracepoints \subseteq Covered'
    <3> SUFFICES ASSUME step' = "prepare", tool' = "latency" PROVE Tracepoints \subseteq Covered'
      OBVIOUS
    <3>1. Wanted = "complete" /\ tool = "latency"
      BY <1>2 DEF Acquire
    <3>2. Descriptors[tool] = LatencyDescriptors /\ Len(LatencyDescriptors) = 6 /\ LatencyDescriptors[5] = "issue"
      BY <3>1 DEF Descriptors, LatencyDescriptors
    <3>3. n = 5 /\ 5 \in 1..n
      BY <1>3, <3>1, <3>2
    <3>4. "issue" \in open
      BY <1>1, <3>2, <3>3 DEF FirstDescriptors
    <3>5. Undeferred = {}
      BY <3>1 DEF Undeferred
    <3> QED
      BY <1>5, <2>1, <3>1, <3>4, <3>5 DEF Tracepoints
  <2> QED
    BY <2>3, <2>4, <2>5 DEF OpenIsDeferred, Acquire
<1>9. CompletionsAreSeen' /\ NeighboursAreShared' /\ StartsAreInFlight'
  BY <1>2 DEF TracingInv, CompletionsAreSeen, NeighboursAreShared, StartsAreInFlight, Acquire, kernel, Tools
<1>10. LatencyIsOwn'
  BY DEF TracingInv, LatencyIsOwn, aggregateLatencyStats, Acquire, kernel
<1> QED
  BY <1>6, <1>7, <1>8, <1>9, <1>10 DEF TracingInv

LEMMA AcquireFailsKeeps ==
  ASSUME TracingInv, AcquireFails
  PROVE  TracingInv'
<1>1. step = "acquire" /\ step' = "release"
      /\ UNCHANGED <<tool, deferrals, attached, base, flight, issued, starts, stats, counts>>
  BY DEF AcquireFails, GiveUp, kernel
<1>2. TracingTypeOK' /\ AcquiredInOrder' /\ CompletionsAreSeen'
  BY <1>1 DEF TracingInv, TracingTypeOK, AcquiredInOrder, CompletionsAreSeen
<1>3. OpenIsDeferred'
  <2>1. Covered' = Covered
    BY <1>1 DEF Covered
  <2>2. open' \subseteq Covered
    BY <1>1 DEF TracingInv, OpenIsDeferred, Undeferred, AcquireFails
  <2> QED
    BY <1>1, <2>1, <2>2 DEF TracingInv, OpenIsDeferred
<1> QED
  BY <1>1, <1>2, <1>3, KernelUnmoved DEF TracingInv, kernel

LEMMA EnableKeeps ==
  ASSUME TracingInv, Enable
  PROVE  TracingInv'
<1>1. /\ step = "prepare" /\ tool = "latency" /\ step' \in {"prepare", "window", "release"}
      /\ UNCHANGED <<tool, open, deferrals, base, flight, issued, starts, stats, counts>>
  BY DEF Enable, GiveUp, kernel
<1>2. Covered' = Covered /\ open \subseteq Covered /\ Tracepoints \subseteq Covered
  BY <1>1 DEF Covered, TracingInv, OpenIsDeferred, Undeferred
<1>3. /\ attached = {} \/ attached = {"complete"}
      /\ attached = {} => Cardinality(attached) = 0
      /\ attached = {"complete"} => Cardinality(attached) = 1
  <2>1. attached \subseteq Tracepoints /\ "issue" \notin attached
    BY <1>1 DEF TracingInv, TracingTypeOK, CompletionsAreSeen
  <2>2. attached = {} \/ attached = {"complete"}
    BY <2>1 DEF Tracepoints
  <2>3. Cardinality({}) = 0 /\ Cardinality({"complete"}) = 1
    BY FS_EmptySet, FS_Singleton
  <2> QED
    BY <2>2, <2>3
<1>4. EnableOrder[1] = "complete" /\ EnableOrder[2] = "issue"
  BY DEF EnableOrder
<1>5. \/ step' = "release" /\ attached' = attached
      \/ attached = {} /\ attached' = {"complete"} /\ step' = "prepare"
      \/ attached = {"complete"} /\ attached' = Tracepoints /\ step' = "window"
  <2>1. CASE attached = {}
    BY <1>1, <1>3, <1>4, <2>1 DEF Enable, GiveUp
  <2>2. CASE attached = {"complete"}
    BY <1>1, <1>3, <1>4, <2>2 DEF Enable, GiveUp, Tracepoints
  <2> QED
    BY <1>3, <2>1, <2>2
<1>6. TracingTypeOK' /\ AcquiredInOrder' /\ CompletionsAreSeen'
  BY <1>1, <1>5 DEF TracingInv, TracingTypeOK, AcquiredInOrder, CompletionsAreSeen, Tracepoints
<1>7. OpenIsDeferred'
  BY <1>1, <1>2, <1>3, <1>5 DEF OpenIsDeferred, Tracepoints, Undeferred
<1>8. NeighboursAreShared' /\ StartsAreInFlight'
  BY <1>1, <1>5 DEF TracingInv, NeighboursAreShared, StartsAreInFlight
<1>9. LatencyIsOwn'
  BY <1>1 DEF TracingInv, LatencyIsOwn, aggregateLatencyStats
<1> QED
  BY <1>6, <1>7, <1>8, <1>9 DEF TracingInv

\* What only moves the step, within the window and before it.
LEMMA ReadInitialCountKeeps ==
  ASSUME TracingInv, NEW event, NEW next \in {"prepare_complete", "window"}, ReadInitialCount(event, next)
  PROVE  TracingInv'
<1>1. /\ step \in {"prepare", "prepare_complete"} /\ tool = "count" /\ step' \in {"prepare_complete", "window", "release"}
      /\ UNCHANGED <<tool, open, deferrals, attached, flight, issued, starts, stats, counts>>
  BY DEF ReadInitialCount, GiveUp, kernel
<1>2. TracingTypeOK' /\ AcquiredInOrder' /\ CompletionsAreSeen'
  BY <1>1 DEF TracingInv, TracingTypeOK, AcquiredInOrder, CompletionsAreSeen
<1>3. OpenIsDeferred'
  BY <1>1 DEF TracingInv, OpenIsDeferred, Covered, Undeferred
<1> QED
  BY <1>1, <1>2, <1>3, KernelUnmoved DEF TracingInv, kernel

LEMMA WindowKeeps ==
  ASSUME TracingInv, WindowEnds \/ DetachComplete
  PROVE  TracingInv'
<1>1. /\ step \in {"window", "detach"} /\ step' \in {"detach", "read"}
      /\ open' \subseteq open /\ attached' \subseteq attached
      /\ UNCHANGED <<tool, deferrals, flight, issued, starts, stats, counts>>
      /\ step = "window" => "issue" \notin attached'
  BY DEF WindowEnds, DetachComplete, detach, kernel
<1>2. TracingTypeOK' /\ AcquiredInOrder' /\ CompletionsAreSeen'
  BY <1>1 DEF TracingInv, TracingTypeOK, AcquiredInOrder, CompletionsAreSeen
<1>3. OpenIsDeferred'
  <2>1. Covered' = Covered /\ Undeferred = {}
    BY <1>1 DEF Covered, Undeferred
  <2> QED
    BY <1>1, <2>1 DEF TracingInv, OpenIsDeferred
<1> QED
  BY <1>1, <1>2, <1>3, KernelUnmoved DEF TracingInv, kernel

LEMMA ReadResultKeeps ==
  ASSUME TracingInv, NEW works \in BOOLEAN, ReadResult(works)
  PROVE  TracingInv'
<1>1. /\ step = "read" /\ step' = "release"
      /\ UNCHANGED <<tool, open, deferrals, attached, flight, issued, starts, stats, counts>>
  BY DEF ReadResult, kernel
<1>2. TracingTypeOK' /\ AcquiredInOrder' /\ CompletionsAreSeen'
  BY <1>1 DEF TracingInv, TracingTypeOK, AcquiredInOrder, CompletionsAreSeen
<1>3. OpenIsDeferred'
  BY <1>1 DEF TracingInv, OpenIsDeferred, Covered, Undeferred
<1> QED
  BY <1>1, <1>2, <1>3, KernelUnmoved DEF TracingInv, kernel

LEMMA ReleaseKeeps ==
  ASSUME TracingInv, Release
  PROVE  TracingInv'
<1>1. /\ step = "release" /\ deferrals # <<>> /\ deferrals' = Tail(deferrals)
      /\ open' = open \ Head(deferrals) /\ attached' = attached \ Head(deferrals)
      /\ UNCHANGED <<tool, step, flight, issued, starts, stats, counts>>
  BY DEF Release, kernel
<1>2. deferrals' \in Seq(SUBSET Names) /\ Covered \subseteq Head(deferrals) \cup Covered'
  <2>1. deferrals \in Seq(SUBSET Names)
    BY DEF TracingInv, TracingTypeOK
  <2>2. Tail(deferrals) \in Seq(SUBSET Names) /\ CoveredBy(deferrals) \subseteq Head(deferrals) \cup CoveredBy(Tail(deferrals))
    BY <1>1, <2>1, CoveredPop
  <2> QED
    BY <1>1, <2>2 DEF Covered, CoveredBy
<1>3. TracingTypeOK' /\ AcquiredInOrder' /\ CompletionsAreSeen'
  BY <1>1, <1>2 DEF TracingInv, TracingTypeOK, AcquiredInOrder, CompletionsAreSeen
<1>4. OpenIsDeferred'
  <2>1. Undeferred = {}
    BY <1>1 DEF Undeferred
  <2> QED
    BY <1>1, <1>2, <2>1 DEF TracingInv, OpenIsDeferred
<1> QED
  BY <1>1, <1>3, <1>4, KernelUnmoved DEF TracingInv, kernel

LEMMA ReturnsKeeps ==
  ASSUME TracingInv, Returns
  PROVE  TracingInv'
<1>1. /\ step = "release" /\ step' = "returned" /\ deferrals = <<>>
      /\ UNCHANGED <<tool, open, deferrals, attached, flight, issued, starts, stats, counts>>
  BY DEF Returns, kernel
<1>2. TracingTypeOK' /\ AcquiredInOrder' /\ CompletionsAreSeen'
  BY <1>1 DEF TracingInv, TracingTypeOK, AcquiredInOrder, CompletionsAreSeen
<1>3. OpenIsDeferred'
  BY <1>1 DEF TracingInv, OpenIsDeferred, Covered, Undeferred
<1> QED
  BY <1>1, <1>2, <1>3, KernelUnmoved DEF TracingInv, kernel

-----------------------------------------------------------------------------
(* The steps of the block layer.                                           *)

\* The collector's part of the invariant.
LEMMA CollectorUnmoved ==
  ASSUME TracingInv, UNCHANGED collector
  PROVE  AcquiredInOrder' /\ OpenIsDeferred' /\ CompletionsAreSeen'
<1>1. AcquiredInOrder' /\ CompletionsAreSeen'
  BY DEF TracingInv, AcquiredInOrder, CompletionsAreSeen, collector
<1>2. OpenIsDeferred'
  <2>1. Covered' = Covered
    BY DEF Covered, collector
  <2>2. Undeferred' = Undeferred
    BY DEF Undeferred, Wanted, Acquired, collector
  <2> QED
    BY <2>1, <2>2 DEF TracingInv, OpenIsDeferred, collector
<1> QED
  BY <1>1, <1>2

LEMMA IssueKeeps ==
  ASSUME TracingInv, step \notin {"idle", "returned"}, IssueRequest
  PROVE  TracingInv'
<1> DEFINE Requests == [id : Nat, sector : Sectors, shared : BOOLEAN]
<1>1. UNCHANGED collector /\ stats' = stats /\ issued \in Nat /\ issued' = issued + 1 /\ flight \subseteq Requests
  BY DEF IssueRequest, TracingInv, TracingTypeOK
<1>2. PICK sector \in Sectors :
        LET others == Neighbours(sector)
            request == [id |-> issued', sector |-> sector, shared |-> others # {}]
        IN /\ flight' = (flight \ others) \cup {Shared(r) : r \in others} \cup {request}
           /\ IF "issue" \in attached /\ tool = "latency"
              THEN starts' \in StoredAfter([sector |-> sector, id |-> issued'])
              ELSE UNCHANGED starts
  BY DEF IssueRequest
<1> DEFINE others == Neighbours(sector)
           request == [id |-> issued', sector |-> sector, shared |-> others # {}]
           entry == [sector |-> sector, id |-> issued']
<1>3. flight' = (flight \ others) \cup {Shared(r) : r \in others} \cup {request}
  BY <1>2
<1>4. \A r \in flight : Shared(r) \in Requests /\ Shared(r).id = r.id /\ Shared(r).sector = r.sector /\ Shared(r).shared
  BY <1>1 DEF Shared
<1>5. request \in Requests /\ request.sector = sector /\ request.id = issued' /\ request.shared = (others # {})
  <2>1. \A b \in BOOLEAN, n \in Nat :
          LET q == [id |-> n, sector |-> sector, shared |-> b]
          IN q \in Requests /\ q.sector = sector /\ q.id = n /\ q.shared = b
    OBVIOUS
  <2>2. issued' \in Nat /\ (others # {}) \in BOOLEAN
    BY <1>1
  <2> HIDE DEF others
  <2> QED
    BY <2>1, <2>2, Zenon
<1>6. \A r \in flight : r \in others <=> r.sector = sector
  BY DEF Neighbours
<1>7. others \subseteq flight
  BY DEF Neighbours
<1>8. starts' \subseteq starts \cup {entry}
  <2>1. \A s \in StoredAfter(entry) : s \subseteq starts \cup {entry}
    BY DEF StoredAfter
  <2> QED
    BY <1>2, <2>1
<1> HIDE DEF others, request
<1>9. TracingTypeOK'
  <2>1. flight' \subseteq Requests
    BY <1>1, <1>3, <1>4, <1>5, <1>7
  <2>2. entry \in [sector : Sectors, id : Nat]
    BY <1>1
  <2>3. starts' \subseteq [sector : Sectors, id : Nat]
    BY <1>8, <2>2 DEF TracingInv, TracingTypeOK
  <2> QED
    BY <1>1, <2>1, <2>3 DEF TracingInv, TracingTypeOK, collector
<1>10. NeighboursAreShared'
  <2> SUFFICES ASSUME NEW r1 \in flight', NEW r2 \in flight', r1.sector = r2.sector
               PROVE  r1 = r2 \/ (r1.shared /\ r2.shared)
    BY DEF NeighboursAreShared
  <2>1. CASE r1.sector = sector
    <3>1. \A r \in flight' : r.sector = sector => r = request \/ (r.shared /\ others # {})
      BY <1>3, <1>4, <1>5, <1>6, <1>7
    <3> QED
      BY <2>1, <3>1, <1>5
  <2>2. CASE r1.sector # sector
    <3>1. \A r \in flight' : r.sector # sector => r \in flight
      BY <1>3, <1>4, <1>5, <1>6, <1>7
    <3> QED
      BY <2>2, <3>1 DEF TracingInv, NeighboursAreShared
  <2> QED
    BY <2>1, <2>2
<1>11. StartsAreInFlight'
  <2>1. ASSUME "complete" \in attached, tool = "latency", NEW e \in starts'
        PROVE  \E r \in flight' : r.id = e.id /\ r.sector = e.sector
    <3>1. CASE e = entry
      BY <1>3, <1>5, <3>1
    <3>2. CASE e \in starts
      <4>1. PICK r \in flight : r.id = e.id /\ r.sector = e.sector
        BY <2>1, <3>2 DEF TracingInv, StartsAreInFlight
      <4>2. CASE r \in others
        BY <4>1, <4>2, <1>3, <1>4
      <4>3. CASE r \notin others
        BY <4>1, <4>3, <1>3
      <4> QED
        BY <4>2, <4>3
    <3> QED
      BY <1>8, <3>1, <3>2
  <2>2. ASSUME tool # "latency" \/ step = "idle" \/ (step \in {"acquire", "prepare"} /\ "complete" \notin attached)
        PROVE  starts' = {}
    <3>1. ~("issue" \in attached /\ tool = "latency")
      BY <2>2 DEF TracingInv, CompletionsAreSeen
    <3>2. starts' = starts
      BY <1>2, <3>1
    <3> QED
      BY <2>2, <3>2 DEF TracingInv, StartsAreInFlight
  <2> QED
    BY <1>1, <2>1, <2>2 DEF StartsAreInFlight, collector
<1>12. LatencyIsOwn'
  BY <1>1 DEF TracingInv, LatencyIsOwn, aggregateLatencyStats
<1> QED
  BY <1>1, <1>9, <1>10, <1>11, <1>12, CollectorUnmoved DEF TracingInv

LEMMA CompleteKeeps ==
  ASSUME TracingInv, step \notin {"idle", "returned"}, CompleteRequest
  PROVE  TracingInv'
<1>1. UNCHANGED collector /\ UNCHANGED issued
  BY DEF CompleteRequest
<1>2. PICK r \in flight, cpu \in CPUs :
        /\ flight' = flight \ {r}
        /\ IF "complete" \in attached /\ tool = "latency"
           THEN /\ starts' = starts \ Found(r)
                /\ stats' = [stats EXCEPT ![cpu] = @ \cup {[request |-> r, start |-> e.id] : e \in Found(r)}]
           ELSE UNCHANGED <<starts, stats>>
  BY DEF CompleteRequest
<1>3. flight' \subseteq flight /\ starts' \subseteq starts
  BY <1>2
<1>4. stats = [c \in CPUs |-> stats[c]]
  BY DEF TracingInv, TracingTypeOK
<1>5. stats' = [c \in CPUs |-> stats'[c]]
  BY <1>2, <1>4
<1>6. TracingTypeOK'
  BY <1>1, <1>3, <1>5 DEF TracingInv, TracingTypeOK, collector
<1>7. NeighboursAreShared'
  BY <1>3 DEF TracingInv, NeighboursAreShared
<1>8. StartsAreInFlight'
  <2>1. ASSUME "complete" \in attached, tool = "latency", NEW e \in starts'
        PROVE  \E q \in flight' : q.id = e.id /\ q.sector = e.sector
    <3>1. e \in starts /\ e.sector # r.sector
      BY <1>2, <2>1 DEF Found
    <3>2. PICK q \in flight : q.id = e.id /\ q.sector = e.sector
      BY <2>1, <3>1 DEF TracingInv, StartsAreInFlight
    <3> QED
      BY <1>2, <3>1, <3>2
  <2> QED
    BY <1>1, <1>3, <2>1 DEF TracingInv, StartsAreInFlight, collector
<1>9. LatencyIsOwn'
  <2> SUFFICES ASSUME NEW c \in CPUs, NEW latency \in stats'[c]
               PROVE  latency.start = latency.request.id \/ latency.request.shared
    BY DEF LatencyIsOwn, aggregateLatencyStats
  <2>1. CASE latency \in stats[c]
    BY <2>1 DEF TracingInv, LatencyIsOwn, aggregateLatencyStats
  <2>2. CASE latency \notin stats[c]
    <3>1. /\ "complete" \in attached /\ tool = "latency"
          /\ latency \in {[request |-> r, start |-> e.id] : e \in Found(r)}
      BY <1>2, <1>4, <2>2
    <3>2. PICK e \in starts : e.sector = r.sector /\ latency.request = r /\ latency.start = e.id
      BY <3>1 DEF Found
    <3>3. PICK q \in flight : q.id = e.id /\ q.sector = e.sector
      BY <3>1, <3>2 DEF TracingInv, StartsAreInFlight
    <3>4. q = r \/ r.shared
      BY <3>2, <3>3 DEF TracingInv, NeighboursAreShared
    <3> QED
      BY <3>2, <3>3, <3>4
  <2> QED
    BY <2>1, <2>2
<1> QED
  BY <1>1, <1>6, <1>7, <1>8, <1>9, CollectorUnmoved DEF TracingInv

LEMMA TracingKeeps ==
  ASSUME TracingInv, TracingNext
  PROVE  TracingInv'
<1>1. CASE ReadInitialCount("issue", "prepare_complete") \/ ReadInitialCount("complete", "window")
  BY <1>1, ReadInitialCountKeeps
<1>2. CASE Acquire
  BY <1>2, AcquireKeeps
<1>3. CASE AcquireFails
  BY <1>3, AcquireFailsKeeps
<1>4. CASE Enable
  BY <1>4, EnableKeeps
<1>5. CASE WindowEnds \/ DetachComplete
  BY <1>5, WindowKeeps
<1>6. CASE \E works \in BOOLEAN : ReadResult(works)
  BY <1>6, ReadResultKeeps
<1>7. CASE Release
  BY <1>7, ReleaseKeeps
<1>8. CASE Returns
  BY <1>8, ReturnsKeeps
<1>9. CASE step \notin {"idle", "returned"} /\ IssueRequest
  BY <1>9, IssueKeeps
<1>10. CASE step \notin {"idle", "returned"} /\ CompleteRequest
  BY <1>10, CompleteKeeps
<1> QED
  BY <1>1, <1>2, <1>3, <1>4, <1>5, <1>6, <1>7, <1>8, <1>9, <1>10 DEF TracingNext

-----------------------------------------------------------------------------
(* A run of the program.                                                   *)

LEMMA TracingStutters ==
  ASSUME TracingInv, UNCHANGED tracing
  PROVE  TracingInv'
<1>1. UNCHANGED <<tool, step, open, deferrals, attached, flight, issued, starts, stats>>
  BY DEF tracing
<1>2. TracingTypeOK' /\ AcquiredInOrder' /\ CompletionsAreSeen' /\ NeighboursAreShared' /\ StartsAreInFlight'
  BY <1>1 DEF TracingInv, TracingTypeOK, AcquiredInOrder, CompletionsAreSeen, NeighboursAreShared, StartsAreInFlight
<1>3. OpenIsDeferred'
  BY <1>1 DEF TracingInv, OpenIsDeferred, Covered, Undeferred, Wanted, Acquired
<1>4. LatencyIsOwn'
  BY <1>1 DEF TracingInv, LatencyIsOwn, aggregateLatencyStats
<1> QED
  BY <1>2, <1>3, <1>4 DEF TracingInv

\* A collector that has returned is forgotten, and has left nothing.
LEMMA ForgetKeeps ==
  ASSUME TracingInv, step \in {"idle", "returned"}, Forget
  PROVE  TracingInv' /\ step' = "idle"
<1>1. open' = {} /\ attached' = {} /\ deferrals' = <<>> /\ step' = "idle" /\ tool' = "none"
      /\ flight' = {} /\ issued' = 0 /\ starts' = {} /\ stats' = [cpu \in CPUs |-> {}]
  BY HoldsNothing DEF Forget
<1>2. TracingTypeOK'
  BY <1>1 DEF TracingTypeOK, Descriptors
<1>3. AcquiredInOrder' /\ CompletionsAreSeen' /\ NeighboursAreShared' /\ StartsAreInFlight'
  BY <1>1 DEF AcquiredInOrder, CompletionsAreSeen, NeighboursAreShared, StartsAreInFlight
<1>4. OpenIsDeferred'
  BY <1>1 DEF OpenIsDeferred
<1>5. LatencyIsOwn'
  BY <1>1 DEF LatencyIsOwn, aggregateLatencyStats
<1> QED
  BY <1>1, <1>2, <1>3, <1>4, <1>5 DEF TracingInv

LEMMA NothingDeferred == <<>> \in Seq(Undoings) /\ DOMAIN <<>> = {}
OBVIOUS

LEMMA SessionInitially == SessionInit => SessionInv
<1> SUFFICES ASSUME SessionInit PROVE SessionInv
  OBVIOUS
<1>1. TracingInv
  BY TracingInitially DEF SessionInit
<1>2. /\ phase = "start" /\ failed = FALSE /\ terminal = {} /\ deferred = <<>> /\ step = "idle"
  BY DEF SessionInit, Init, TracingInit
<1> QED
  BY <1>1, <1>2, NothingDeferred DEF SessionInv, CollectorIsOfItsStage, TerminalIsDeferred

LEMMA StartsKeeps ==
  ASSUME SessionInv, Starts
  PROVE  SessionInv'
<1>1. /\ phase = "start" /\ UNCHANGED <<terminal, tracing>>
      /\ phase' \in {"run", "ended"} /\ failed' \in BOOLEAN
  BY DEF Starts, Run, SessionInv
<1>2. deferred' \in Seq(Undoings)
  <2>1. \A condition : If(condition, <<"summary">>) = <<>> \/ If(condition, <<"summary">>) = <<"summary">>
    BY Zenon DEF If
  <2>2. <<"summary">> \in Seq(Undoings)
    BY DEF Undoings
  <2>3. \A name, r : Summaries(name, r) \in Seq(Undoings)
    <3> SUFFICES ASSUME NEW name, NEW r PROVE Summaries(name, r) \in Seq(Undoings)
      OBVIOUS
    <3>1. Summaries(name, r) = <<>> \/ Summaries(name, r) = <<"summary">>
      BY <2>1, Zenon DEF Summaries
    <3> QED
      BY <2>2, <3>1, NothingDeferred
  <2>4. deferred' = deferred \/ \E name, r : deferred' = Summaries(name, r)
    BY DEF Starts, Run
  <2> QED
    BY <2>3, <2>4 DEF SessionInv
<1>3. step = "idle"
  BY <1>1 DEF SessionInv, CollectorIsOfItsStage, Probing, Stage
<1>4. TracingInv' /\ step' = "idle" /\ terminal' = {}
  BY <1>1, <1>3, TracingStutters DEF SessionInv, TerminalIsDeferred, tracing
<1> QED
  BY <1>1, <1>2, <1>4 DEF SessionInv, CollectorIsOfItsStage, TerminalIsDeferred

\* Leaving a stage leaves no collector at work.
LEMMA LeftKeeps ==
  ASSUME SessionInv, Left, Probing => step = "returned"
  PROVE  TracingInv' /\ step' = "idle"
<1>1. CASE Probing
  BY <1>1, ForgetKeeps DEF Left, SessionInv
<1>2. CASE ~Probing
  <2>1. step = "idle" /\ UNCHANGED tracing
    BY <1>2 DEF Left, SessionInv, CollectorIsOfItsStage
  <2> QED
    BY <2>1, TracingStutters DEF SessionInv, tracing
<1> QED
  BY <1>1, <1>2

\* What a stage leaves to be undone is in front of what was left before.
LEMMA Pushed ==
  ASSUME NEW s \in Seq(Undoings), NEW x \in Undoings, NEW u, u = <<x>> \o s
  PROVE  /\ u \in Seq(Undoings)
         /\ 1 \in DOMAIN u /\ u[1] = x
         /\ \A i \in DOMAIN s : i + 1 \in DOMAIN u /\ u[i + 1] = s[i]
<1>1. /\ u \in Seq(Undoings) /\ Len(u) = Len(s) + 1 /\ Len(s) \in Nat
      /\ u[1] = x /\ \A i \in 1..Len(s) : u[i + 1] = s[i]
  OBVIOUS
<1>2. DOMAIN u = 1..(Len(s) + 1) /\ DOMAIN s = 1..Len(s)
  BY <1>1
<1> QED
  BY <1>1, <1>2

WillUndo(u, s, stage) ==
  /\ \A i \in DOMAIN s : \E j \in DOMAIN u : u[j] = s[i]
  /\ stage = "raw" => \E j \in DOMAIN u : u[j] = "cook"
  /\ stage = "screen" => \E j \in DOMAIN u : u[j] = "unscreen"

LEMMA DeferredKeeps ==
  ASSUME NEW s \in Seq(Undoings), NEW stage
  PROVE  /\ Deferred(stage) \o s \in Seq(Undoings)
         /\ WillUndo(Deferred(stage) \o s, s, stage)
<1> DEFINE u == Deferred(stage) \o s
<1>0. u = Deferred(stage) \o s
  OBVIOUS
<1> HIDE DEF u
<1> SUFFICES u \in Seq(Undoings) /\ WillUndo(u, s, stage)
  BY DEF u
<1> USE DEF WillUndo
<1>1. CASE stage = "raw"
  <2>1. u = <<"cook">> \o s /\ "cook" \in Undoings
    BY <1>0, <1>1 DEF Deferred, Undoings
  <2>2. /\ u \in Seq(Undoings) /\ 1 \in DOMAIN u /\ u[1] = "cook"
        /\ \A i \in DOMAIN s : i + 1 \in DOMAIN u /\ u[i + 1] = s[i]
    BY <2>1, Pushed
  <2> QED
    BY <1>1, <2>2
<1>2. CASE stage = "screen"
  <2>1. u = <<"unscreen">> \o s /\ "unscreen" \in Undoings
    BY <1>0, <1>2 DEF Deferred, Undoings
  <2>2. /\ u \in Seq(Undoings) /\ 1 \in DOMAIN u /\ u[1] = "unscreen"
        /\ \A i \in DOMAIN s : i + 1 \in DOMAIN u /\ u[i + 1] = s[i]
    BY <2>1, Pushed
  <2> QED
    BY <1>2, <2>2
<1>3. CASE stage = "open"
  <2>1. u = <<"close">> \o s /\ "close" \in Undoings
    BY <1>0, <1>3 DEF Deferred, Undoings
  <2>2. /\ u \in Seq(Undoings) /\ \A i \in DOMAIN s : i + 1 \in DOMAIN u /\ u[i + 1] = s[i]
    BY <2>1, Pushed
  <2> QED
    BY <1>3, <2>2
<1>4. CASE stage \notin {"raw", "screen", "open"}
  <2>1. Deferred(stage) = <<>>
    BY <1>4 DEF Deferred
  <2>2. u = s
    BY <1>0, <2>1
  <2> QED
    BY <1>4, <2>2
<1> QED
  BY <1>1, <1>2, <1>3, <1>4

LEMMA PerformsKeeps ==
  ASSUME SessionInv, Performs
  PROVE  SessionInv'
<1>1. /\ phase = "run" /\ UNCHANGED <<phase, failed>>
      /\ deferred' = Deferred(Head(todo)) \o deferred /\ terminal' = Switched(Head(todo))
  BY DEF Performs, Perform
<1>2. TracingInv' /\ step' = "idle"
  BY LeftKeeps DEF Performs
<1>3. deferred \in Seq(Undoings) /\ terminal \subseteq {"raw", "screen"}
  BY DEF SessionInv
<1>4. terminal' \subseteq {"raw", "screen"}
  BY <1>1, <1>3 DEF Switched
<1>5. TerminalIsDeferred'
  <2> SUFFICES ASSUME ~failed
               PROVE  /\ "raw" \in terminal' => \E i \in DOMAIN deferred' : deferred'[i] = "cook"
                      /\ "screen" \in terminal' => \E i \in DOMAIN deferred' : deferred'[i] = "unscreen"
    BY <1>1 DEF TerminalIsDeferred
  <2>1. /\ "raw" \in terminal => \E i \in DOMAIN deferred : deferred[i] = "cook"
        /\ "screen" \in terminal => \E i \in DOMAIN deferred : deferred[i] = "unscreen"
    BY DEF SessionInv, TerminalIsDeferred
  <2>2. WillUndo(deferred', deferred, Head(todo))
    BY <1>1, <1>3, DeferredKeeps
  <2>3. terminal' \subseteq terminal \cup {Head(todo)}
    BY <1>1 DEF Switched
  <2> QED
    BY <2>1, <2>2, <2>3 DEF WillUndo
<1> QED
  BY <1>1, <1>2, <1>3, <1>4, <1>5, DeferredKeeps DEF SessionInv, CollectorIsOfItsStage

LEMMA FailsKeeps ==
  ASSUME SessionInv, Fails
  PROVE  SessionInv'
<1>1. phase = "run" /\ failed' = TRUE /\ deferred' \in {<<>>, deferred} /\ UNCHANGED <<phase, terminal>>
  BY DEF Fails, Fail
<1>2. TracingInv' /\ step' = "idle"
  BY LeftKeeps DEF Fails
<1>3. deferred' \in Seq(Undoings)
  BY <1>1, NothingDeferred DEF SessionInv
<1> QED
  BY <1>1, <1>2, <1>3 DEF SessionInv, CollectorIsOfItsStage, TerminalIsDeferred

LEMMA UndoKeeps ==
  ASSUME SessionInv, NEW works \in BOOLEAN, Undo(works), UNCHANGED tracing
  PROVE  SessionInv'
<1>1. /\ phase = "run" /\ todo = <<>> /\ deferred # <<>>
      /\ deferred' = Tail(deferred) /\ failed' = (failed \/ ~works)
      /\ terminal' = CASE works /\ Head(deferred) = "cook" -> terminal \ {"raw"}
                       [] works /\ Head(deferred) = "unscreen" -> terminal \ {"screen"}
                       [] OTHER -> terminal
      /\ UNCHANGED phase
  BY DEF Undo
<1>2. deferred \in Seq(Undoings) /\ terminal \subseteq {"raw", "screen"} /\ failed \in BOOLEAN
  BY DEF SessionInv
<1>3. step = "idle"
  BY <1>1 DEF SessionInv, CollectorIsOfItsStage, Probing, Stage
<1>4. TracingInv' /\ step' = "idle"
  BY <1>3, TracingStutters DEF SessionInv, tracing
<1>5. /\ deferred' \in Seq(Undoings) /\ Head(deferred) = deferred[1]
      /\ \A i \in DOMAIN deferred : i # 1 => i - 1 \in DOMAIN deferred' /\ deferred'[i - 1] = deferred[i]
  BY <1>1, <1>2
<1>6. terminal' \subseteq terminal
  BY <1>1
<1>7. TerminalIsDeferred'
  <2> SUFFICES ASSUME ~failed, works
               PROVE  /\ "raw" \in terminal' => \E i \in DOMAIN deferred' : deferred'[i] = "cook"
                      /\ "screen" \in terminal' => \E i \in DOMAIN deferred' : deferred'[i] = "unscreen"
    BY <1>1 DEF TerminalIsDeferred
  <2>1. ASSUME "raw" \in terminal' PROVE \E i \in DOMAIN deferred' : deferred'[i] = "cook"
    <3>1. PICK i \in DOMAIN deferred : deferred[i] = "cook"
      BY <1>6, <2>1 DEF SessionInv, TerminalIsDeferred
    <3>2. Head(deferred) # "cook"
      BY <1>1, <2>1
    <3> QED
      BY <1>5, <3>1, <3>2
  <2>2. ASSUME "screen" \in terminal' PROVE \E i \in DOMAIN deferred' : deferred'[i] = "unscreen"
    <3>1. PICK i \in DOMAIN deferred : deferred[i] = "unscreen"
      BY <1>6, <2>2 DEF SessionInv, TerminalIsDeferred
    <3>2. Head(deferred) # "unscreen"
      BY <1>1, <2>2
    <3> QED
      BY <1>5, <3>1, <3>2
  <2> QED
    BY <2>1, <2>2
<1> QED
  BY <1>1, <1>2, <1>4, <1>5, <1>6, <1>7 DEF SessionInv, CollectorIsOfItsStage

LEMMA EndsKeeps ==
  ASSUME SessionInv, Ends
  PROVE  SessionInv'
<1>1. CASE \E works \in BOOLEAN : Undo(works)
  BY <1>1, UndoKeeps DEF Ends
<1>2. CASE End
  <2>1. /\ phase = "run" /\ todo = <<>> /\ deferred = <<>> /\ phase' = "ended"
        /\ UNCHANGED <<given, command, todo, deferred, done, failed, terminal, tracing>>
    BY <1>2 DEF End, Ends
  <2>2. step = "idle"
    BY <2>1 DEF SessionInv, CollectorIsOfItsStage, Probing, Stage
  <2>3. TracingInv' /\ step' = "idle"
    BY <2>1, <2>2, TracingStutters DEF SessionInv, tracing
  <2> QED
    BY <2>1, <2>3 DEF SessionInv, CollectorIsOfItsStage, TerminalIsDeferred
<1>3. CASE Ended
  <2>1. phase = "ended" /\ UNCHANGED <<vars, tracing>>
    BY <1>3 DEF Ended, Ends
  <2>2. step = "idle"
    BY <2>1 DEF SessionInv, CollectorIsOfItsStage, Probing, Stage
  <2>3. TracingInv' /\ step' = "idle"
    BY <2>1, <2>2, TracingStutters DEF SessionInv, tracing
  <2> QED
    BY <2>1, <2>3 DEF SessionInv, CollectorIsOfItsStage, TerminalIsDeferred, vars
<1> QED
  BY <1>1, <1>2, <1>3 DEF Ends

LEMMA TracesKeeps ==
  ASSUME SessionInv, Traces
  PROVE  SessionInv'
<1>1. Probing /\ UNCHANGED vars
  BY DEF Traces
<1>2. TracingInv'
  <2>1. CASE Begin(IF command.name[2] = "block-latency" THEN "latency" ELSE "count")
    BY <2>1, BeginKeeps DEF SessionInv, Tools
  <2>2. CASE TracingNext
    BY <2>2, TracingKeeps DEF SessionInv
  <2> QED
    BY <2>1, <2>2 DEF Traces
<1>3. Probing'
  BY <1>1 DEF Probing, Stage, vars
<1> QED
  BY <1>1, <1>2, <1>3 DEF SessionInv, CollectorIsOfItsStage, TerminalIsDeferred, vars

LEMMA UnmovedKeeps ==
  ASSUME SessionInv, UNCHANGED <<vars, tracing>>
  PROVE  SessionInv'
<1>1. TracingInv'
  BY TracingStutters DEF SessionInv
<1>2. CollectorIsOfItsStage'
  BY DEF SessionInv, CollectorIsOfItsStage, Probing, Stage, vars, tracing
<1> QED
  BY <1>1, <1>2 DEF SessionInv, TerminalIsDeferred, vars

\* The invariant of a run holds throughout.
THEOREM SessionInvariance == SessionSpec => []SessionInv
<1>1. SessionInit => SessionInv
  BY SessionInitially
<1>2. SessionInv /\ [SessionNext]_sessionVars => SessionInv'
  <2> SUFFICES ASSUME SessionInv, [SessionNext]_sessionVars PROVE SessionInv'
    OBVIOUS
  <2>1. CASE Starts
    BY <2>1, StartsKeeps
  <2>2. CASE Performs
    BY <2>2, PerformsKeeps
  <2>3. CASE Fails
    BY <2>3, FailsKeeps
  <2>4. CASE Ends
    BY <2>4, EndsKeeps
  <2>5. CASE Shows
    BY <2>5, UnmovedKeeps DEF Shows
  <2>6. CASE Traces
    BY <2>6, TracesKeeps
  <2>7. CASE UNCHANGED sessionVars
    BY <2>7, UnmovedKeeps DEF sessionVars
  <2> QED
    BY <2>1, <2>2, <2>3, <2>4, <2>5, <2>6, <2>7 DEF SessionNext
<1> QED
  BY <1>1, <1>2, PTL DEF SessionSpec

\* A process that has ended holds no descriptor and runs no program in the
\* kernel, and the terminal is as it was or the failure to restore it is
\* reported: whatever stage failed, and wherever in it (the deferred calls of
\* the collectors and of runTop).
THEOREM LeavesClean == SessionSpec => []ProcessLeavesClean
<1>1. SessionInv => ProcessLeavesClean
  <2> SUFFICES ASSUME SessionInv, phase = "ended" PROVE open = {} /\ attached = {} /\ (terminal # {} => failed)
    BY DEF ProcessLeavesClean
  <2>1. step = "idle"
    BY DEF SessionInv, CollectorIsOfItsStage, Probing, Stage
  <2>2. open = {} /\ attached = {}
    BY <2>1, HoldsNothing DEF SessionInv
  <2>3. terminal # {} => failed
    <3> SUFFICES ASSUME ~failed, deferred = <<>> PROVE terminal = {}
      BY DEF SessionInv
    <3>1. "raw" \notin terminal /\ "screen" \notin terminal
      BY NothingDeferred DEF SessionInv, TerminalIsDeferred
    <3> QED
      BY <3>1 DEF SessionInv
  <2> QED
    BY <2>2, <2>3
<1> QED
  BY <1>1, SessionInvariance, PTL

\* A latency of block-latency is that of one request unless two were in
\* flight at its sector, for maps and request counts of any size.
THEOREM LatencyIsOwned == SessionSpec => []LatencyIsOwn
<1>1. SessionInv => LatencyIsOwn
  BY DEF SessionInv, TracingInv
<1> QED
  BY <1>1, SessionInvariance, PTL

-----------------------------------------------------------------------------
(* Lists of events.                                                        *)

\* A sequence of anything, and what it tells.
IsSeq(F) == F \in Seq(ToSet(F))
Tells(F, e) == \E i \in 1..Len(F) : F[i] = e

\* A function of this domain is a sequence.
LEMMA SeqFrom ==
  ASSUME NEW T, NEW n \in Nat, NEW F \in [1..n -> T]
  PROVE  F \in Seq(T)
OBVIOUS

\* Every sequence is one of its elements.
LEMMA SeqIs ==
  ASSUME NEW T, NEW F, F \in Seq(T)
  PROVE  IsSeq(F)
<1>1. F \in [1..Len(F) -> T] /\ Len(F) \in Nat /\ DOMAIN F = 1..Len(F)
  OBVIOUS
<1>2. \A i \in 1..Len(F) : F[i] \in ToSet(F)
  BY <1>1, Zenon DEF ToSet
<1>3. F \in [1..Len(F) -> ToSet(F)]
  BY <1>1, <1>2, Zenon
<1> QED BY <1>1, <1>3, SeqFrom, Zenon DEF IsSeq

\* What the sequence has at its places.
LEMMA SeqHas ==
  ASSUME NEW F, IsSeq(F)
  PROVE  /\ Len(F) \in Nat /\ DOMAIN F = 1..Len(F)
         /\ \A i \in 1..Len(F) : F[i] \in ToSet(F)
<1> DEFINE T == ToSet(F)
<1>1. F \in Seq(T)
  BY DEF IsSeq
<1> HIDE DEF T
<1>2. Len(F) \in Nat /\ DOMAIN F = 1..Len(F) /\ \A i \in 1..Len(F) : F[i] \in T
  BY <1>1
<1> QED BY <1>2 DEF T

\* Two lists, one after the other.
LEMMA BothTell ==
  ASSUME NEW F, NEW G, IsSeq(F), IsSeq(G)
  PROVE  /\ IsSeq(F \o G)
         /\ \A e : Tells(F \o G, e) <=> Tells(F, e) \/ Tells(G, e)
<1> DEFINE T == ToSet(F) \cup ToSet(G)
           x == F \o G
<1>1. F \in Seq(T) /\ G \in Seq(T)
  <2>1. /\ F \in [1..Len(F) -> ToSet(F)] /\ Len(F) \in Nat
        /\ G \in [1..Len(G) -> ToSet(G)] /\ Len(G) \in Nat
    BY DEF IsSeq
  <2>2. F \in [1..Len(F) -> T] /\ G \in [1..Len(G) -> T]
    BY <2>1
  <2> HIDE DEF T
  <2> QED BY <2>1, <2>2, SeqFrom, Zenon
<1> HIDE DEF T
<1>2. /\ x \in Seq(T) /\ Len(x) = Len(F) + Len(G) /\ Len(F) \in Nat /\ Len(G) \in Nat
      /\ \A k \in 1..Len(F) : x[k] = F[k]
      /\ \A k \in 1..Len(G) : x[Len(F) + k] = G[k]
  BY <1>1
<1>3. IsSeq(x)
  BY <1>2, SeqIs, Zenon
<1> HIDE DEF x
<1>4. ASSUME NEW e, Tells(F, e) PROVE Tells(x, e)
  <2>1. PICK k \in 1..Len(F) : F[k] = e
    BY <1>4, Zenon DEF Tells
  <2>2. k \in 1..Len(x) /\ x[k] = e
    BY <1>2, <2>1
  <2> QED BY <2>2, Zenon DEF Tells
<1>5. ASSUME NEW e, Tells(G, e) PROVE Tells(x, e)
  <2>1. PICK k \in 1..Len(G) : G[k] = e
    BY <1>5, Zenon DEF Tells
  <2>2. Len(F) + k \in 1..Len(x) /\ x[Len(F) + k] = e
    BY <1>2, <2>1
  <2> QED BY <2>2, Zenon DEF Tells
<1>6. ASSUME NEW e, Tells(x, e) PROVE Tells(F, e) \/ Tells(G, e)
  <2>1. PICK k \in 1..Len(x) : x[k] = e
    BY <1>6, Zenon DEF Tells
  <2>2. CASE k <= Len(F)
    <3>1. k \in 1..Len(F) /\ F[k] = e
      BY <1>2, <2>1, <2>2
    <3> QED BY <3>1, Zenon DEF Tells
  <2>3. CASE ~(k <= Len(F))
    <3>1. k - Len(F) \in 1..Len(G) /\ Len(F) + (k - Len(F)) = k
      BY <1>2, <2>1, <2>3
    <3>2. G[k - Len(F)] = e
      BY <1>2, <2>1, <3>1
    <3> QED BY <3>1, <3>2, Zenon DEF Tells
  <2> QED BY <2>2, <2>3
<1> QED BY <1>3, <1>4, <1>5, <1>6, Zenon DEF x

\* An event that may be told, and none.
LEMMA WhenTells ==
  ASSUME NEW c, NEW x
  PROVE  /\ IsSeq(When(c, x))
         /\ \A e : Tells(When(c, x), e) <=> c /\ e = x
<1>1. CASE c
  <2>1. When(c, x) = <<x>>
    BY <1>1, Zenon DEF When
  <2>2. <<x>> \in Seq({x}) /\ Len(<<x>>) = 1 /\ <<x>>[1] = x
    OBVIOUS
  <2>3. IsSeq(<<x>>)
    BY <2>2, SeqIs, Zenon
  <2>4. \A e : Tells(<<x>>, e) <=> e = x
    BY <2>2 DEF Tells
  <2> QED BY <1>1, <2>1, <2>3, <2>4, Zenon
<1>2. CASE ~c
  <2>1. When(c, x) = <<>>
    BY <1>2, Zenon DEF When
  <2>2. <<>> \in Seq({x}) /\ Len(<<>>) = 0
    OBVIOUS
  <2>3. IsSeq(<<>>)
    BY <2>2, SeqIs, Zenon
  <2>4. \A e : ~Tells(<<>>, e)
    BY <2>2 DEF Tells
  <2> QED BY <1>2, <2>1, <2>3, <2>4, Zenon
<1> QED BY <1>1, <1>2, Zenon

\* Some lists, one after the other.
LEMMA AllTell ==
  ASSUME NEW S, IsSeq(S), \A i \in 1..Len(S) : IsSeq(S[i])
  PROVE  /\ IsSeq(FlattenSeq(S))
         /\ \A e : Tells(FlattenSeq(S), e) <=> \E i \in 1..Len(S) : Tells(S[i], e)
<1> DEFINE n == Len(S)
<1>1. n \in Nat
  BY SeqHas, Zenon
<1>2. CASE n = 0
  <2>1. FlattenSeq(S) = S
    BY <1>2, Zenon DEF FlattenSeq
  <2>2. \A e : ~Tells(S, e) /\ ~\E i \in 1..Len(S) : Tells(S[i], e)
    <3>1. \A i : i \notin 1..n
      BY <1>2
    <3> QED BY <3>1, Zenon DEF Tells
  <2> QED BY <2>1, <2>2, Zenon
<1>3. CASE n # 0
  <2> DEFINE body(f) == [i \in 1..Len(S) |-> IF i = 1 THEN S[i] ELSE f[i - 1] \o S[i]]
             flat == CHOOSE f : f = body(f)
             U == UNION {ToSet(S[i]) : i \in 1..n}
             rule == [p \in (1..(n - 1)) \X Seq(U) |-> p[2] \o S[p[1] + 1]]
  <2>1. \A i \in 1..n : S[i] \in Seq(U)
    <3> TAKE i \in 1..n
    <3>1. S[i] \in [1..Len(S[i]) -> ToSet(S[i])] /\ Len(S[i]) \in Nat
      BY DEF IsSeq
    <3>2. ToSet(S[i]) \subseteq U
      BY Zenon
    <3> HIDE DEF U
    <3>3. S[i] \in [1..Len(S[i]) -> U]
      BY <3>1, <3>2
    <3> QED BY <3>1, <3>3, SeqFrom, Zenon
  <2> HIDE DEF U
  <2>2. 1 \in 1..n /\ n - 1 \in Nat /\ \A k \in 1..(n - 1) : k + 1 \in 1..n
    BY <1>1, <1>3
  <2>3. rule \in [(1..(n - 1)) \X Seq(U) -> Seq(U)]
    <3>1. \A p \in (1..(n - 1)) \X Seq(U) : p[2] \o S[p[1] + 1] \in Seq(U)
      <4> TAKE p \in (1..(n - 1)) \X Seq(U)
      <4>1. p[2] \in Seq(U) /\ S[p[1] + 1] \in Seq(U)
        BY <2>1, <2>2
      <4> QED BY <4>1, Concatenated, Zenon
    <3> HIDE DEF n
    <3> QED BY <3>1, Zenon
  <2>4. PICK h \in [0..(n - 1) -> Seq(U)] : Follows(h, n - 1, S[1], rule)
    <3> HIDE DEF rule, n
    <3> QED BY <2>1, <2>2, <2>3, IntervalRecursion, Zenon
  <2> DEFINE f == [i \in 1..n |-> h[i - 1]]
  <2>5. f = body(f)
    <3>1. \A i \in 1..n : f[i] = IF i = 1 THEN S[i] ELSE f[i - 1] \o S[i]
      <4> TAKE i \in 1..n
      <4>1. CASE i = 1
        <5>1. f[1] = h[0] /\ h[0] = S[1]
          <6>1. h[0] = S[1]
            BY <2>4, Zenon DEF Follows
          <6>2. f[1] = h[1 - 1] /\ 1 - 1 = 0
            BY <2>2
          <6> QED BY <6>1, <6>2
        <5> HIDE DEF f
        <5> QED BY <4>1, <5>1
      <4>2. CASE i # 1
        <5>1. i - 1 \in 1..(n - 1) /\ i - 1 \in 1..n /\ (i - 1) - 1 \in 0..(n - 1) /\ (i - 1) + 1 = i
          BY <1>1, <4>2
        <5>2. f[i] = h[i - 1] /\ f[i - 1] = h[(i - 1) - 1]
          BY <5>1
        <5>3. h[i - 1] = rule[<<i - 1, h[(i - 1) - 1]>>]
          <6> HIDE DEF rule, f, n
          <6> QED BY <2>4, <5>1, Zenon DEF Follows
        <5>4. rule[<<i - 1, h[(i - 1) - 1]>>] = h[(i - 1) - 1] \o S[i]
          <6>1. h[(i - 1) - 1] \in Seq(U)
            BY <2>4, <5>1
          <6> HIDE DEF f, n
          <6> QED BY <5>1, <6>1
        <5> HIDE DEF f, rule
        <5> QED BY <4>2, <5>2, <5>3, <5>4
      <4> QED BY <4>1, <4>2
    <3>2. f = [i \in 1..n |-> f[i]]
      <4> HIDE DEF n
      <4> QED BY <2>4
    <3>3. body(f) = [i \in 1..n |-> body(f)[i]]
      <4> HIDE DEF f
      <4> QED BY Zenon
    <3>4. \A i \in 1..n : body(f)[i] = IF i = 1 THEN S[i] ELSE f[i - 1] \o S[i]
      <4> HIDE DEF f
      <4> QED BY Zenon
    <3> HIDE DEF f, body, n
    <3> QED BY <3>1, <3>2, <3>3, <3>4, ZenonT(60)
  <2> HIDE DEF f
  <2>6. flat = body(flat)
    <3> HIDE DEF body
    <3> QED BY <2>5, Zenon
  <2>7. FlattenSeq(S) = flat[n]
    <3>1. FlattenSeq(S) = flat[Len(S)]
      BY <1>3, Zenon DEF FlattenSeq
    <3> QED BY <3>1, Zenon
  <2> HIDE DEF flat
  <2>8. \A i \in 1..n : flat[i] = IF i = 1 THEN S[i] ELSE flat[i - 1] \o S[i]
    BY <2>6, Zenon
  <2> DEFINE Right(i) == /\ IsSeq(flat[i])
                         /\ \A e : Tells(flat[i], e) <=> \E j \in 1..i : Tells(S[j], e)
             Rights == {k \in Nat : k < n => Right(k + 1)}
  <2> HIDE DEF body, rule, n
  <2>9. 0 \in Rights
    <3>1. flat[1] = S[1]
      BY <2>2, <2>8
    <3>2. \A j : j \in 1..1 <=> j = 1
      OBVIOUS
    <3>3. Right(1)
      BY <2>2, <3>1, <3>2, Zenon DEF n
    <3> HIDE DEF Right
    <3> QED BY <3>3
  <2>10. \A k \in Nat : k \in Rights => k + 1 \in Rights
    <3> SUFFICES ASSUME NEW k \in Nat, k \in Rights, k + 1 < n PROVE Right((k + 1) + 1)
      <4>1. \A k \in Nat : k + 1 \in Nat
        OBVIOUS
      <4> HIDE DEF Right
      <4> QED BY <4>1, Zenon
    <3> DEFINE i == k + 1
    <3>1. /\ i \in Nat /\ i + 1 \in 1..n /\ i + 1 # 1 /\ (i + 1) - 1 = i
          /\ \A j : j \in 1..(i + 1) <=> j \in 1..i \/ j = i + 1
      BY <1>1
    <3>2. Right(i)
      <4>1. k < n
        BY <1>1
      <4> HIDE DEF Right
      <4> QED BY <4>1
    <3> HIDE DEF i
    <3>3. flat[i + 1] = flat[i] \o S[i + 1]
      BY <2>8, <3>1
    <3>4. IsSeq(S[i + 1]) /\ IsSeq(flat[i])
      BY <3>1, <3>2, Zenon DEF n
    <3>5. /\ IsSeq(flat[i + 1])
          /\ \A e : Tells(flat[i + 1], e) <=> Tells(flat[i], e) \/ Tells(S[i + 1], e)
      <4>1. /\ IsSeq(flat[i] \o S[i + 1])
            /\ \A e : Tells(flat[i] \o S[i + 1], e) <=> Tells(flat[i], e) \/ Tells(S[i + 1], e)
        BY <3>4, BothTell, Zenon
      <4> QED BY <3>3, <4>1, Zenon
    <3>6. \A e : (\E j \in 1..(i + 1) : Tells(S[j], e)) <=> (\E j \in 1..i : Tells(S[j], e)) \/ Tells(S[i + 1], e)
      BY <3>1, Zenon
    <3>7. Right(i + 1)
      BY <3>2, <3>5, <3>6, Zenon
    <3> HIDE DEF Right
    <3> QED BY <3>7 DEF i
  <2>11. \A k \in Nat : k \in Rights
    <3> HIDE DEF Rights
    <3> QED BY <2>9, <2>10, SetInduction, Zenon
  <2>12. Right(n)
    <3>1. n - 1 \in Nat /\ n - 1 < n /\ (n - 1) + 1 = n
      BY <1>1, <2>2
    <3>2. Right((n - 1) + 1)
      <4> HIDE DEF Right
      <4> QED BY <2>11, <3>1
    <3> HIDE DEF Right
    <3> QED BY <3>1, <3>2
  <2> QED BY <2>7, <2>12, Zenon DEF n
<1> QED BY <1>2, <1>3

\* The newest of some elements of a list.
LastOf(E, X) == {E[i] : i \in {j \in DOMAIN E : E[j] \in X /\ \A l \in (j + 1)..Len(E) : E[l] \notin X}}

\* A list to which others were added, and that dropped its oldest, ends in one
\* of the added, or as before.
LEMMA LastAdded ==
  ASSUME NEW E, NEW F, IsSeq(E), IsSeq(F), NEW n \in Nat \ {0}, NEW X,
         NEW e \in LastOf(Newest(E \o F, n), X)
  PROVE  /\ e \in X
         /\ Tells(F, e) \/ (e \in LastOf(E, X) /\ \A x \in X : ~Tells(F, x))
<1> DEFINE G == E \o F
           c == IF Len(G) > n THEN Len(G) - n ELSE 0
           H == Newest(G, n)
<1>1. /\ IsSeq(G) /\ Len(G) = Len(E) + Len(F) /\ Len(E) \in Nat /\ Len(F) \in Nat
      /\ \A k \in 1..Len(E) : G[k] = E[k]
      /\ \A k \in 1..Len(F) : G[Len(E) + k] = F[k]
  <2> DEFINE T == ToSet(E) \cup ToSet(F)
  <2>1. E \in Seq(T) /\ F \in Seq(T)
    <3>1. /\ E \in [1..Len(E) -> ToSet(E)] /\ Len(E) \in Nat
          /\ F \in [1..Len(F) -> ToSet(F)] /\ Len(F) \in Nat
      BY DEF IsSeq
    <3>2. E \in [1..Len(E) -> T] /\ F \in [1..Len(F) -> T]
      BY <3>1
    <3> HIDE DEF T
    <3> QED BY <3>1, <3>2, SeqFrom, Zenon
  <2> HIDE DEF T
  <2>2. IsSeq(G)
    BY BothTell, Zenon
  <2>3. /\ Len(E \o F) = Len(E) + Len(F) /\ Len(E) \in Nat /\ Len(F) \in Nat
        /\ \A k \in 1..Len(E) : (E \o F)[k] = E[k]
        /\ \A k \in 1..Len(F) : (E \o F)[Len(E) + k] = F[k]
    BY <2>1
  <2> QED BY <2>2, <2>3, Zenon
<1>2. c \in Nat /\ c <= Len(G) /\ c + 1 = IF Len(G) > n THEN Len(G) - n + 1 ELSE 1
  <2> HIDE DEF G
  <2> QED BY <1>1
<1>3. /\ H \in Seq(ToSet(G)) /\ Len(H) = Len(G) - c
      /\ \A i \in 1..Len(H) : H[i] = G[i + c]
  <2> HIDE DEF G, c
  <2>1. H = SubSeq(G, c + 1, Len(G))
    BY <1>2, Zenon DEF Newest
  <2>2. \A i \in (c + 1)..Len(G) : G[i] \in ToSet(G)
    <3>1. \A i \in 1..Len(G) : G[i] \in ToSet(G)
      BY <1>1, SeqHas, Zenon
    <3>2. Len(G) \in Nat
      BY <1>1, SeqHas, Zenon
    <3> QED BY <1>2, <3>1, <3>2
  <2>3. c + 1 \in Int /\ Len(G) \in Int
    BY <1>1, <1>2
  <2> HIDE DEF H
  <2>4. /\ H \in Seq(ToSet(G)) /\ Len(H) = IF c + 1 <= Len(G) THEN Len(G) - (c + 1) + 1 ELSE 0
        /\ \A i \in 1..(Len(G) - (c + 1) + 1) : H[i] = G[(c + 1) + i - 1]
    <3> DEFINE d == c + 1
               k == Len(G)
    <3>1. H = SubSeq(G, d, k) /\ d \in Int /\ k \in Int /\ \A i \in d..k : G[i] \in ToSet(G)
      BY <2>1, <2>2, <2>3, Zenon
    <3> HIDE DEF d, k
    <3>2. /\ H \in Seq(ToSet(G)) /\ Len(H) = IF d <= k THEN k - d + 1 ELSE 0
          /\ \A i \in 1..(k - d + 1) : H[i] = G[d + i - 1]
      <4>1. /\ SubSeq(G, d, k) \in Seq(ToSet(G))
            /\ Len(SubSeq(G, d, k)) = (IF d <= k THEN k - d + 1 ELSE 0)
            /\ \A i \in 1..(k - d + 1) : SubSeq(G, d, k)[i] = G[d + i - 1]
        BY <3>1, SubSeqProperties
      <4> QED BY <3>1, <4>1, Zenon
    <3> QED BY <3>2 DEF d, k
  <2>5. Len(H) = Len(G) - c
    BY <1>2, <2>3, <2>4
  <2>6. \A i \in 1..Len(H) : (c + 1) + i - 1 = i + c /\ i \in 1..(Len(G) - (c + 1) + 1)
    BY <1>2, <2>3, <2>5
  <2> QED BY <2>4, <2>5, <2>6
<1> HIDE DEF G, c, H
<1>4. PICK i \in DOMAIN H : H[i] = e /\ H[i] \in X /\ \A l \in (i + 1)..Len(H) : H[l] \notin X
  BY Zenon DEF LastOf, H, G
<1>5. i \in 1..Len(H) /\ Len(H) \in Nat /\ Len(G) \in Nat
  BY <1>1, <1>2, <1>3, <1>4
<1> DEFINE p == i + c
<1>6. p \in 1..Len(G) /\ G[p] = e /\ \A l \in (p + 1)..Len(G) : G[l] \notin X
  <2>1. p \in 1..Len(G) /\ G[p] = e
    BY <1>2, <1>3, <1>4, <1>5
  <2>2. ASSUME NEW l \in (p + 1)..Len(G) PROVE G[l] \notin X
    <3>1. l - c \in (i + 1)..Len(H) /\ l - c \in 1..Len(H) /\ (l - c) + c = l
      BY <1>2, <1>3, <1>5
    <3> QED BY <1>3, <1>4, <3>1
  <2> QED BY <2>1, <2>2
<1> HIDE DEF p
<1>7. e \in X
  BY <1>4
<1>8. CASE p > Len(E)
  <2>1. p - Len(E) \in 1..Len(F) /\ Len(E) + (p - Len(E)) = p
    BY <1>1, <1>6, <1>8
  <2>2. F[p - Len(E)] = e
    BY <1>1, <1>6, <2>1
  <2> QED BY <1>7, <2>1, <2>2, Zenon DEF Tells
<1>9. CASE ~(p > Len(E))
  <2>1. p \in 1..Len(E) /\ E[p] = e
    BY <1>1, <1>6, <1>9
  <2>2. \A l \in (p + 1)..Len(E) : E[l] \notin X
    <3> TAKE l \in (p + 1)..Len(E)
    <3>1. l \in (p + 1)..Len(G) /\ l \in 1..Len(E)
      BY <1>1, <2>1
    <3> QED BY <1>1, <1>6, <3>1
  <2>3. DOMAIN E = 1..Len(E)
    BY SeqHas, Zenon
  <2>4. e \in LastOf(E, X)
    BY <1>7, <2>1, <2>2, <2>3, Zenon DEF LastOf
  <2>5. ASSUME NEW x \in X, Tells(F, x) PROVE FALSE
    <3>1. PICK k \in 1..Len(F) : F[k] = x
      BY <2>5, Zenon DEF Tells
    <3>2. Len(E) + k \in (p + 1)..Len(G)
      BY <1>1, <2>1
    <3> QED BY <1>1, <1>6, <3>1, <3>2
  <2> QED BY <1>7, <2>4, <2>5, Zenon
<1> QED BY <1>8, <1>9

\* What the newest event about a subject is, of any list.
NewestIn(E, kinds, subject) ==
  {E[i] : i \in {j \in DOMAIN E : /\ E[j].kind \in kinds /\ E[j].subject = subject
                                  /\ \A l \in (j + 1)..Len(E) : E[l].kind \notin kinds \/ E[l].subject # subject}}

\* What a list ends in: of a VM, of the attribution, of the dominant VM.
VisibleEnds(E, rows, name) ==
  \A e \in NewestIn(E, {"visible", "invisible"}, name) : (e.kind = "visible") = (name \in DOMAIN rows)
StateEnds(E, rows, name) ==
  \A e \in NewestIn(E, {"state", "visible", "invisible"}, name) :
    e.kind = "state" => name \in DOMAIN rows /\ e.to = safeVMState(rows[name].state)
PressureEnds(E, rows, name) ==
  \A e \in NewestIn(E, {"pressure", "state", "visible", "invisible"}, name) :
    e.kind = "pressure" => name \in DOMAIN rows /\ e.to = safeEventState(rows[name].pressure)
AttributionEnds(E, attribution) == NewestIn(E, {"attribution"}, "eBPF") \subseteq {AttributionEvent(attribution)}
DominantIn(E) == {i \in DOMAIN E : E[i].kind = "dominant"}
DominantEnds(E, name) ==
  name # Nobody => \A i \in DominantIn(E) : (\A j \in DominantIn(E) : j <= i) => E[i].subject = name

EndsIn(E, rows, attribution) ==
  /\ \A name \in DOMAIN Disk : VisibleEnds(E, rows, name) /\ StateEnds(E, rows, name) /\ PressureEnds(E, rows, name)
  /\ AttributionEnds(E, attribution)
  /\ DominantEnds(E, dominantAttributedVM(rows, attribution))

\* The elements of what is left of two lists are theirs.
LEMMA NewestAre ==
  ASSUME NEW E, NEW F, IsSeq(E), IsSeq(F), NEW n \in Nat \ {0}
  PROVE  /\ IsSeq(Newest(E \o F, n))
         /\ \A i \in DOMAIN Newest(E \o F, n) : Newest(E \o F, n)[i] \in ToSet(E) \cup ToSet(F)
<1> DEFINE G == E \o F
           c == IF Len(G) > n THEN Len(G) - n + 1 ELSE 1
<1>1. IsSeq(G) /\ \A e : Tells(G, e) => Tells(E, e) \/ Tells(F, e)
  BY BothTell, Zenon
<1>2. /\ Len(G) \in Nat
      /\ \A i \in 1..Len(G) : G[i] \in ToSet(E) \cup ToSet(F)
  <2>1. Len(G) \in Nat
    BY <1>1, SeqHas, Zenon
  <2>2. DOMAIN E = 1..Len(E) /\ DOMAIN F = 1..Len(F)
    BY SeqHas, Zenon
  <2>3. ASSUME NEW i \in 1..Len(G) PROVE G[i] \in ToSet(E) \cup ToSet(F)
    <3> HIDE DEF G
    <3>1. Tells(G, G[i])
      BY Zenon DEF Tells
    <3>2. Tells(E, G[i]) \/ Tells(F, G[i])
      BY <1>1, <3>1, Zenon
    <3>3. G[i] \in ToSet(E) \/ G[i] \in ToSet(F)
      BY <2>2, <3>2, Zenon DEF Tells, ToSet
    <3> QED BY <3>3, Zenon
  <2> QED BY <2>1, <2>3, Zenon
<1>3. c \in Nat /\ c >= 1
  <2> HIDE DEF G
  <2> QED BY <1>2
<1> DEFINE k == Len(G)
           H == SubSeq(G, c, k)
           T == ToSet(E) \cup ToSet(F)
<1>4. c \in Int /\ k \in Int /\ \A i \in c..k : G[i] \in T
  <2> HIDE DEF G, c
  <2>1. \A i \in c..Len(G) : i \in 1..Len(G)
    BY <1>2, <1>3
  <2> QED BY <1>2, <1>3, <2>1
<1> HIDE DEF G, c, k, T
<1>5. H \in Seq(T)
  BY <1>4, SubSeqProperties
<1> HIDE DEF H
<1>6. IsSeq(H) /\ \A i \in DOMAIN H : H[i] \in T
  <2>1. \A i \in DOMAIN H : H[i] \in T
    BY <1>5
  <2> QED BY <1>5, <2>1, SeqIs, Zenon
<1>7. H = Newest(E \o F, n)
  BY Zenon DEF H, G, c, k, Newest
<1> QED BY <1>6, <1>7, Zenon DEF T

\* The event is one of those added, or it was the newest and none was added.
AddedOrKept(E, F, kinds, subject, e) ==
  \/ Tells(F, e)
  \/ e \in NewestIn(E, kinds, subject) /\ \A x : Tells(F, x) => x.kind \notin kinds \/ x.subject # subject

\* LastAdded, for the events of some kinds about a subject.
LEMMA NewestAdded ==
  ASSUME NEW E, NEW F, IsSeq(E), IsSeq(F), NEW n \in Nat \ {0}, NEW kinds, NEW subject,
         NEW e \in NewestIn(Newest(E \o F, n), kinds, subject)
  PROVE  e.kind \in kinds /\ e.subject = subject /\ AddedOrKept(E, F, kinds, subject, e)
<1> DEFINE X == {x \in ToSet(E) \cup ToSet(F) : x.kind \in kinds /\ x.subject = subject}
           H == Newest(E \o F, n)
<1>1. DOMAIN E = 1..Len(E) /\ DOMAIN F = 1..Len(F) /\ Len(E) \in Nat
  BY SeqHas, Zenon
<1>2. IsSeq(H) /\ \A i \in DOMAIN H : H[i] \in ToSet(E) \cup ToSet(F)
  BY NewestAre, Zenon
<1>3. Len(H) \in Nat /\ DOMAIN H = 1..Len(H)
  BY <1>2, SeqHas, Zenon
<1> HIDE DEF H
<1>4. PICK i \in DOMAIN H : /\ H[i] = e /\ H[i].kind \in kinds /\ H[i].subject = subject
                            /\ \A l \in (i + 1)..Len(H) : H[l].kind \notin kinds \/ H[l].subject # subject
  BY Zenon DEF NewestIn, H
<1>5. \A l \in (i + 1)..Len(H) : H[l] \notin X
  BY <1>4, Zenon
<1>6. H[i] \in X
  BY <1>2, <1>4, Zenon
<1>7. e \in LastOf(H, X)
  <2> HIDE DEF X
  <2> QED BY <1>4, <1>5, <1>6, Zenon DEF LastOf
<1>8. Tells(F, e) \/ (e \in LastOf(E, X) /\ \A x \in X : ~Tells(F, x))
  <2> HIDE DEF X
  <2> QED BY <1>7, LastAdded, Zenon DEF H
<1>9. ASSUME e \in LastOf(E, X), \A x \in X : ~Tells(F, x)
      PROVE  e \in NewestIn(E, kinds, subject) /\ \A x : Tells(F, x) => x.kind \notin kinds \/ x.subject # subject
  <2>1. PICK p \in DOMAIN E : E[p] = e /\ E[p] \in X /\ \A l \in (p + 1)..Len(E) : E[l] \notin X
    <3> HIDE DEF X
    <3> QED BY <1>9, Zenon DEF LastOf
  <2>2. \A l \in (p + 1)..Len(E) : E[l].kind \notin kinds \/ E[l].subject # subject
    <3> TAKE l \in (p + 1)..Len(E)
    <3>1. l \in DOMAIN E
      BY <1>1, <2>1
    <3>2. E[l] \in ToSet(E)
      BY <3>1, Zenon DEF ToSet
    <3> QED BY <2>1, <3>2, Zenon
  <2>3. E[p].kind \in kinds /\ E[p].subject = subject
    BY <2>1, Zenon
  <2>4. e \in NewestIn(E, kinds, subject)
    BY <2>1, <2>2, <2>3, Zenon DEF NewestIn
  <2>5. ASSUME NEW x, Tells(F, x) PROVE x.kind \notin kinds \/ x.subject # subject
    <3>1. x \in ToSet(F)
      BY <1>1, <2>5, Zenon DEF Tells, ToSet
    <3> QED BY <1>9, <2>5, <3>1, Zenon
  <2> QED BY <2>4, <2>5, Zenon
<1> QED BY <1>4, <1>8, <1>9, Zenon DEF AddedOrKept

\* LastAdded, for the dominant VM.
LEMMA DominantAdded ==
  ASSUME NEW E, NEW F, IsSeq(E), IsSeq(F), NEW n \in Nat \ {0}, NEW d, NEW b,
         \A x : Tells(F, x) /\ x.kind = "dominant" => x.subject = d,
         (\E x : Tells(F, x) /\ x.kind = "dominant") \/ (d = b /\ DominantEnds(E, b)) \/ d = Nobody
  PROVE  DominantEnds(Newest(E \o F, n), d)
<1> DEFINE X == {x \in ToSet(E) \cup ToSet(F) : x.kind = "dominant"}
           H == Newest(E \o F, n)
<1>1. DOMAIN E = 1..Len(E) /\ DOMAIN F = 1..Len(F) /\ Len(E) \in Nat
  BY SeqHas, Zenon
<1>2. IsSeq(H) /\ \A i \in DOMAIN H : H[i] \in ToSet(E) \cup ToSet(F)
  BY NewestAre, Zenon
<1>3. Len(H) \in Nat /\ DOMAIN H = 1..Len(H)
  BY <1>2, SeqHas, Zenon
<1> HIDE DEF H
<1> SUFFICES ASSUME d # Nobody, NEW i \in DominantIn(H), \A j \in DominantIn(H) : j <= i
             PROVE  H[i].subject = d
  BY Zenon DEF DominantEnds, H
<1>4. i \in DOMAIN H /\ H[i].kind = "dominant"
  BY Zenon DEF DominantIn
<1>5. H[i] \in X
  BY <1>2, <1>4, Zenon
<1>6. \A l \in (i + 1)..Len(H) : H[l] \notin X
  <2> SUFFICES ASSUME NEW l \in (i + 1)..Len(H), H[l].kind = "dominant" PROVE FALSE
    BY Zenon
  <2>1. l \in DOMAIN H /\ ~(l <= i)
    BY <1>3, <1>4
  <2>2. l \in DominantIn(H)
    BY <2>1, Zenon DEF DominantIn
  <2> QED BY <2>1, <2>2, Zenon
<1> DEFINE e == H[i]
<1>7. e \in LastOf(H, X)
  <2> HIDE DEF X
  <2> QED BY <1>4, <1>5, <1>6, Zenon DEF LastOf
<1>8. Tells(F, e) \/ (e \in LastOf(E, X) /\ \A x \in X : ~Tells(F, x))
  <2> HIDE DEF X, e
  <2> QED BY <1>7, LastAdded, Zenon DEF H
<1>9. CASE Tells(F, e)
  BY <1>4, <1>9, Zenon
<1>10. CASE e \in LastOf(E, X) /\ \A x \in X : ~Tells(F, x)
  <2>1. PICK p \in DOMAIN E : E[p] = e /\ E[p] \in X /\ \A l \in (p + 1)..Len(E) : E[l] \notin X
    <3> HIDE DEF X, e
    <3> QED BY <1>10, Zenon DEF LastOf
  <2>2. ~\E x : Tells(F, x) /\ x.kind = "dominant"
    <3> SUFFICES ASSUME NEW x, Tells(F, x), x.kind = "dominant" PROVE FALSE
      BY Zenon
    <3>1. x \in ToSet(F)
      BY <1>1, Zenon DEF Tells, ToSet
    <3> QED BY <1>10, <3>1, Zenon
  <2>3. d = b /\ DominantEnds(E, b)
    BY <2>2, Zenon
  <2>4. p \in DominantIn(E)
    BY <2>1, Zenon DEF DominantIn
  <2>5. \A j \in DominantIn(E) : j <= p
    <3> SUFFICES ASSUME NEW j \in DOMAIN E, E[j].kind = "dominant", ~(j <= p) PROVE FALSE
      BY Zenon DEF DominantIn
    <3>1. j \in (p + 1)..Len(E)
      BY <1>1, <2>1
    <3>2. E[j] \in X
      BY Zenon DEF ToSet
    <3> QED BY <2>1, <3>1, <3>2, Zenon
  <2>6. E[p].subject = b
    BY <2>3, <2>4, <2>5, Zenon DEF DominantEnds
  <2> QED BY <2>1, <2>3, <2>6, Zenon
<1> QED BY <1>8, <1>9, <1>10

-----------------------------------------------------------------------------
(* What the events tell.                                                   *)

\* What is told of the VMs, one after the other.
LEMMA TellsInOrder ==
  ASSUME NEW told, \A name \in DOMAIN Disk : IsSeq(told[name])
  PROVE  /\ IsSeq(InOrder(told))
         /\ \A e : Tells(InOrder(told), e) <=> \E name \in DOMAIN Disk : Tells(told[name], e)
<1> DEFINE S == [i \in DOMAIN VMNames |-> told[VMNames[i]]]
           T == {told[name] : name \in DOMAIN Disk}
           n == Len(VMNames)
<1>1. /\ n \in Nat /\ DOMAIN VMNames = 1..n
      /\ \A i \in 1..n : VMNames[i] \in DOMAIN Disk
      /\ \A name \in DOMAIN Disk : \E i \in 1..n : VMNames[i] = name
  <2>1. VMNames \in Seq(DOMAIN Disk) /\ DOMAIN Disk = {VMNames[i] : i \in DOMAIN VMNames}
    BY ViewAssumption, Zenon
  <2>2. n \in Nat /\ DOMAIN VMNames = 1..n
    BY <2>1
  <2> HIDE DEF n
  <2> QED BY <2>1, <2>2, Zenon
<1> HIDE DEF n
<1>2. S \in [1..n -> T]
  BY <1>1, Zenon
<1>3. S \in Seq(T)
  <2> HIDE DEF S, T
  <2> QED BY <1>1, <1>2, SeqFrom, Zenon
<1>4. Len(S) = n
  <2> HIDE DEF S, T
  <2> QED BY <1>1, <1>2, <1>3
<1>5. \A i \in 1..Len(S) : S[i] = told[VMNames[i]] /\ IsSeq(S[i])
  BY <1>1, <1>4, Zenon
<1>6. InOrder(told) = FlattenSeq(S)
  BY Zenon DEF InOrder
<1> HIDE DEF S, T
<1>7. /\ IsSeq(FlattenSeq(S))
      /\ \A e : Tells(FlattenSeq(S), e) <=> \E i \in 1..Len(S) : Tells(S[i], e)
  <2>1. IsSeq(S)
    BY <1>3, SeqIs, Zenon
  <2> QED BY <1>5, <2>1, AllTell, Zenon
<1>8. \A e : (\E i \in 1..Len(S) : Tells(S[i], e)) <=> \E name \in DOMAIN Disk : Tells(told[name], e)
  <2> TAKE e
  <2>1. ASSUME NEW i \in 1..Len(S), Tells(S[i], e) PROVE \E name \in DOMAIN Disk : Tells(told[name], e)
    BY <1>1, <1>4, <1>5, <2>1, Zenon
  <2>2. ASSUME NEW name \in DOMAIN Disk, Tells(told[name], e) PROVE \E i \in 1..Len(S) : Tells(S[i], e)
    <3>1. PICK i \in 1..n : VMNames[i] = name
      BY <1>1, Zenon
    <3> QED BY <1>4, <1>5, <2>2, <3>1, Zenon
  <2> QED BY <2>1, <2>2, Zenon
<1> QED BY <1>6, <1>7, <1>8, Zenon

\* What the events between two views tell of a VM, and of all that is shown.
TellsOfRow(before, after, name, e) ==
  /\ name \in DOMAIN after
  /\ \/ name \notin DOMAIN before /\ e = Event("visible", name, "")
     \/ /\ name \in DOMAIN before /\ before[name].state # after[name].state
        /\ e = Event("state", name, safeVMState(after[name].state))
     \/ /\ name \in DOMAIN before /\ before[name].running /\ after[name].running
        /\ before[name].pressure # after[name].pressure
        /\ e = Event("pressure", name, safeEventState(after[name].pressure))
TellsOfGone(before, after, name, e) == name \in DOMAIN before \ DOMAIN after /\ e = Event("invisible", name, "")
TellsOfHigh(rows, name, e) == name \in DOMAIN rows /\ rows[name].pressure = "high" /\ e = Event("pressure", name, "high")
TellsOfNext(before, rows, attribution, e) ==
  \/ \E name \in DOMAIN Disk : TellsOfRow(before.rows, rows, name, e) \/ TellsOfGone(before.rows, rows, name, e)
  \/ attributionState(before.attribution) # attributionState(attribution) /\ e = AttributionEvent(attribution)
  \/ /\ dominantAttributedVM(rows, attribution) \notin {Nobody, dominantAttributedVM(before.rows, before.attribution)}
     /\ e = Event("dominant", dominantAttributedVM(rows, attribution), "")
TellsOfFirst(rows, attribution, e) ==
  \/ e = Event("window", "host", "")
  \/ \E name \in DOMAIN Disk : TellsOfHigh(rows, name, e)
  \/ e = AttributionEvent(attribution)
  \/ dominantAttributedVM(rows, attribution) # Nobody /\ e = Event("dominant", dominantAttributedVM(rows, attribution), "")

LEMMA RowTells ==
  ASSUME NEW before, NEW after, NEW name
  PROVE  /\ IsSeq(RowEvents(before, after, name))
         /\ \A e : Tells(RowEvents(before, after, name), e) <=> TellsOfRow(before, after, name, e)
<1> DEFINE c == name \in DOMAIN after
           d == name \in DOMAIN before
           f == before[name].state # after[name].state
           g == before[name].running /\ after[name].running /\ before[name].pressure # after[name].pressure
           x == Event("visible", name, "")
           y == Event("state", name, safeVMState(after[name].state))
           z == Event("pressure", name, safeEventState(after[name].pressure))
           R == RowEvents(before, after, name)
<1>1. \A e : TellsOfRow(before, after, name, e) <=> c /\ ((~d /\ e = x) \/ (d /\ f /\ e = y) \/ (d /\ g /\ e = z))
  BY DEF TellsOfRow
<1>2. R = IF ~c THEN <<>> ELSE IF ~d THEN <<x>> ELSE When(f, y) \o When(g, z)
  BY Zenon DEF RowEvents
<1> HIDE DEF c, d, f, g, x, y, z, R
<1>3. CASE ~c
  <2>1. R = When(FALSE, x)
    BY <1>2, <1>3, Zenon DEF When
  <2>2. IsSeq(R) /\ \A e : Tells(R, e) <=> FALSE /\ e = x
    BY <2>1, WhenTells, Zenon
  <2>3. \A e : Tells(R, e) <=> TellsOfRow(before, after, name, e)
    <3> TAKE e
    <3> QED BY <1>1, <1>3, <2>2
  <2> QED BY <2>2, <2>3, Zenon DEF R
<1>4. CASE c /\ ~d
  <2>1. R = When(TRUE, x)
    BY <1>2, <1>4, Zenon DEF When
  <2>2. IsSeq(R) /\ \A e : Tells(R, e) <=> TRUE /\ e = x
    BY <2>1, WhenTells, Zenon
  <2>3. \A e : Tells(R, e) <=> TellsOfRow(before, after, name, e)
    <3> TAKE e
    <3> QED BY <1>1, <1>4, <2>2
  <2> QED BY <2>2, <2>3, Zenon DEF R
<1>5. CASE c /\ d
  <2>1. R = When(f, y) \o When(g, z)
    BY <1>2, <1>5, Zenon
  <2>2. IsSeq(When(f, y)) /\ \A e : Tells(When(f, y), e) <=> f /\ e = y
    BY WhenTells, Zenon
  <2>3. IsSeq(When(g, z)) /\ \A e : Tells(When(g, z), e) <=> g /\ e = z
    BY WhenTells, Zenon
  <2>4. IsSeq(R) /\ \A e : Tells(R, e) <=> Tells(When(f, y), e) \/ Tells(When(g, z), e)
    BY <2>1, <2>2, <2>3, BothTell, Zenon
  <2>5. \A e : Tells(R, e) <=> TellsOfRow(before, after, name, e)
    <3> TAKE e
    <3> QED BY <1>1, <1>5, <2>2, <2>3, <2>4
  <2> QED BY <2>4, <2>5, Zenon DEF R
<1> QED BY <1>3, <1>4, <1>5, Zenon

\* NextEvents, as a list.
LEMMA NextTells ==
  ASSUME NEW before, NEW rows, NEW attribution
  PROVE  /\ IsSeq(NextEvents(before, rows, attribution))
         /\ \A e : Tells(NextEvents(before, rows, attribution), e) <=> TellsOfNext(before, rows, attribution, e)
<1> DEFINE p == [name \in DOMAIN Disk |-> RowEvents(before.rows, rows, name)]
           q == [name \in DOMAIN Disk |-> GoneEvents(before.rows, rows, name)]
           d == dominantAttributedVM(rows, attribution)
           c == attributionState(before.attribution) # attributionState(attribution)
           f == d \notin {Nobody, dominantAttributedVM(before.rows, before.attribution)}
           x == AttributionEvent(attribution)
           y == Event("dominant", d, "")
           F == NextEvents(before, rows, attribution)
<1>1. F = ((InOrder(p) \o InOrder(q)) \o When(c, x)) \o When(f, y)
  BY Zenon DEF NextEvents
<1>2. \A e : TellsOfNext(before, rows, attribution, e) <=>
        \/ \E name \in DOMAIN Disk : TellsOfRow(before.rows, rows, name, e) \/ TellsOfGone(before.rows, rows, name, e)
        \/ c /\ e = x
        \/ f /\ e = y
  BY Zenon DEF TellsOfNext
<1>3. \A name \in DOMAIN Disk : IsSeq(p[name]) /\ \A e : Tells(p[name], e) <=> TellsOfRow(before.rows, rows, name, e)
  BY RowTells, Zenon
<1>4. \A name \in DOMAIN Disk : IsSeq(q[name]) /\ \A e : Tells(q[name], e) <=> TellsOfGone(before.rows, rows, name, e)
  <2> TAKE name \in DOMAIN Disk
  <2> DEFINE g == name \in DOMAIN before.rows \ DOMAIN rows
             z == Event("invisible", name, "")
  <2>1. q[name] = When(g, z) /\ \A e : TellsOfGone(before.rows, rows, name, e) <=> g /\ e = z
    BY Zenon DEF GoneEvents, TellsOfGone
  <2> HIDE DEF g, z, q
  <2>2. IsSeq(When(g, z)) /\ \A e : Tells(When(g, z), e) <=> g /\ e = z
    BY WhenTells, Zenon
  <2> QED BY <2>1, <2>2, Zenon
<1> HIDE DEF p, q, d, c, f, x, y, F
<1>5. IsSeq(InOrder(p)) /\ \A e : Tells(InOrder(p), e) <=> \E name \in DOMAIN Disk : Tells(p[name], e)
  BY <1>3, TellsInOrder, Zenon
<1>6. IsSeq(InOrder(q)) /\ \A e : Tells(InOrder(q), e) <=> \E name \in DOMAIN Disk : Tells(q[name], e)
  BY <1>4, TellsInOrder, Zenon
<1>7. IsSeq(When(c, x)) /\ \A e : Tells(When(c, x), e) <=> c /\ e = x
  BY WhenTells, Zenon
<1>8. IsSeq(When(f, y)) /\ \A e : Tells(When(f, y), e) <=> f /\ e = y
  BY WhenTells, Zenon
<1> DEFINE A == InOrder(p) \o InOrder(q)
           B == A \o When(c, x)
<1>9. IsSeq(A) /\ \A e : Tells(A, e) <=> Tells(InOrder(p), e) \/ Tells(InOrder(q), e)
  BY <1>5, <1>6, BothTell, Zenon
<1> HIDE DEF A
<1>10. IsSeq(B) /\ \A e : Tells(B, e) <=> Tells(A, e) \/ Tells(When(c, x), e)
  BY <1>7, <1>9, BothTell, Zenon
<1> HIDE DEF B
<1>11. IsSeq(F) /\ \A e : Tells(F, e) <=> Tells(B, e) \/ Tells(When(f, y), e)
  <2>1. F = B \o When(f, y)
    BY <1>1, Zenon DEF A, B
  <2> QED BY <1>8, <1>10, <2>1, BothTell, Zenon
<1>12. \A e : Tells(F, e) <=> TellsOfNext(before, rows, attribution, e)
  <2> TAKE e
  <2>1. Tells(InOrder(p), e) \/ Tells(InOrder(q), e) <=>
          \E name \in DOMAIN Disk : TellsOfRow(before.rows, rows, name, e) \/ TellsOfGone(before.rows, rows, name, e)
    BY <1>3, <1>4, <1>5, <1>6, Zenon
  <2> QED BY <1>2, <1>7, <1>8, <1>9, <1>10, <1>11, <2>1, Zenon
<1> QED BY <1>11, <1>12, Zenon DEF F

\* FirstEvents, as a list.
LEMMA FirstTells ==
  ASSUME NEW rows, NEW attribution
  PROVE  /\ IsSeq(FirstEvents(rows, attribution))
         /\ \A e : Tells(FirstEvents(rows, attribution), e) <=> TellsOfFirst(rows, attribution, e)
<1> DEFINE p == [name \in DOMAIN Disk |-> HighEvents(rows, name)]
           d == dominantAttributedVM(rows, attribution)
           w == Event("window", "host", "")
           f == d # Nobody
           x == AttributionEvent(attribution)
           y == Event("dominant", d, "")
           F == FirstEvents(rows, attribution)
<1>1. F = ((<<w>> \o InOrder(p)) \o <<x>>) \o When(f, y)
  BY Zenon DEF FirstEvents
<1>2. \A e : TellsOfFirst(rows, attribution, e) <=>
        e = w \/ (\E name \in DOMAIN Disk : TellsOfHigh(rows, name, e)) \/ e = x \/ (f /\ e = y)
  BY DEF TellsOfFirst
<1>3. \A name \in DOMAIN Disk : IsSeq(p[name]) /\ \A e : Tells(p[name], e) <=> TellsOfHigh(rows, name, e)
  <2> TAKE name \in DOMAIN Disk
  <2> DEFINE g == name \in DOMAIN rows /\ rows[name].pressure = "high"
             z == Event("pressure", name, "high")
  <2>1. p[name] = When(g, z) /\ \A e : TellsOfHigh(rows, name, e) <=> g /\ e = z
    BY Zenon DEF HighEvents, TellsOfHigh
  <2> HIDE DEF g, z, p
  <2>2. IsSeq(When(g, z)) /\ \A e : Tells(When(g, z), e) <=> g /\ e = z
    BY WhenTells, Zenon
  <2> QED BY <2>1, <2>2, Zenon
<1> HIDE DEF p, d, w, f, x, y, F
<1>4. IsSeq(InOrder(p)) /\ \A e : Tells(InOrder(p), e) <=> \E name \in DOMAIN Disk : Tells(p[name], e)
  BY <1>3, TellsInOrder, Zenon
<1>5. \A t : IsSeq(<<t>>) /\ \A e : Tells(<<t>>, e) <=> e = t
  <2> TAKE t
  <2>1. <<t>> = When(TRUE, t)
    BY Zenon DEF When
  <2>2. IsSeq(When(TRUE, t)) /\ \A e : Tells(When(TRUE, t), e) <=> TRUE /\ e = t
    BY WhenTells, Zenon
  <2> QED BY <2>1, <2>2, Zenon
<1>6. IsSeq(When(f, y)) /\ \A e : Tells(When(f, y), e) <=> f /\ e = y
  BY WhenTells, Zenon
<1> DEFINE A == <<w>> \o InOrder(p)
           B == A \o <<x>>
<1>7. IsSeq(A) /\ \A e : Tells(A, e) <=> e = w \/ Tells(InOrder(p), e)
  <2>1. IsSeq(<<w>>) /\ \A e : Tells(<<w>>, e) <=> e = w
    BY <1>5, Zenon
  <2>2. IsSeq(A) /\ \A e : Tells(A, e) <=> Tells(<<w>>, e) \/ Tells(InOrder(p), e)
    BY <1>4, <2>1, BothTell, Zenon
  <2> QED BY <2>1, <2>2, Zenon
<1> HIDE DEF A
<1>8. IsSeq(B) /\ \A e : Tells(B, e) <=> Tells(A, e) \/ e = x
  <2>1. IsSeq(<<x>>) /\ \A e : Tells(<<x>>, e) <=> e = x
    BY <1>5, Zenon
  <2>2. IsSeq(B) /\ \A e : Tells(B, e) <=> Tells(A, e) \/ Tells(<<x>>, e)
    BY <1>7, <2>1, BothTell, Zenon
  <2> QED BY <2>1, <2>2, Zenon
<1> HIDE DEF B
<1>9. IsSeq(F) /\ \A e : Tells(F, e) <=> Tells(B, e) \/ Tells(When(f, y), e)
  <2>1. F = B \o When(f, y)
    BY <1>1, Zenon DEF A, B
  <2> QED BY <1>6, <1>8, <2>1, BothTell, Zenon
<1>10. \A e : Tells(F, e) <=> TellsOfFirst(rows, attribution, e)
  <2> TAKE e
  <2>1. Tells(InOrder(p), e) <=> \E name \in DOMAIN Disk : TellsOfHigh(rows, name, e)
    BY <1>3, <1>4, Zenon
  <2> DEFINE high == \E name \in DOMAIN Disk : TellsOfHigh(rows, name, e)
  <2>2. TellsOfFirst(rows, attribution, e) <=> e = w \/ high \/ e = x \/ (f /\ e = y)
    BY <1>2, Zenon
  <2>3. Tells(InOrder(p), e) <=> high
    BY <2>1, Zenon
  <2> HIDE DEF high
  <2>4. Tells(F, e) <=> e = w \/ high \/ e = x \/ (f /\ e = y)
    BY <1>6, <1>7, <1>8, <1>9, <2>3, Zenon
  <2> QED BY <2>2, <2>4, Zenon
<1> QED BY <1>9, <1>10, Zenon DEF F

\* The subject of an event of the attribution.
LEMMA AttributionEventIs ==
  ASSUME NEW a
  PROVE  AttributionEvent(a).kind = "attribution" /\ AttributionEvent(a).subject = "eBPF"
<1>1. \E t : AttributionEvent(a) = Event("attribution", "eBPF", t)
  BY Zenon DEF AttributionEvent
<1>2. PICK t : AttributionEvent(a) = Event("attribution", "eBPF", t)
  BY <1>1
<1>3. Event("attribution", "eBPF", t).kind = "attribution" /\ Event("attribution", "eBPF", t).subject = "eBPF"
  BY DEF Event
<1> QED BY <1>2, <1>3, Zenon

\* What an event says, by its kind, where it says something.
Says(before, rows, attribution, e) ==
  /\ e.kind = "visible" => e.subject \notin DOMAIN before.rows /\ e.subject \in DOMAIN rows
  /\ e.kind = "invisible" => e.subject \in DOMAIN before.rows /\ e.subject \notin DOMAIN rows
  /\ e.kind = "state" => e.subject \in DOMAIN rows /\ e.to = safeVMState(rows[e.subject].state)
  /\ e.kind = "pressure" => e.subject \in DOMAIN rows /\ e.to = safeEventState(rows[e.subject].pressure)
  /\ e.kind = "attribution" => e = AttributionEvent(attribution)
  /\ e.kind = "dominant" => e.subject = dominantAttributedVM(rows, attribution)

LEMMA NextSays ==
  ASSUME NEW before, NEW rows, NEW attribution, NEW e, TellsOfNext(before, rows, attribution, e)
  PROVE  Says(before, rows, attribution, e)
<1>1. ASSUME NEW name \in DOMAIN Disk, TellsOfRow(before.rows, rows, name, e)
      PROVE  /\ e.subject = name /\ name \in DOMAIN rows
             /\ \/ e.kind = "visible" /\ name \notin DOMAIN before.rows
                \/ e.kind = "state" /\ e.to = safeVMState(rows[name].state)
                \/ e.kind = "pressure" /\ e.to = safeEventState(rows[name].pressure)
  <2>1. CASE name \notin DOMAIN before.rows /\ e = Event("visible", name, "")
    BY <1>1, <2>1 DEF TellsOfRow, Event
  <2>2. CASE e = Event("state", name, safeVMState(rows[name].state))
    <3>1. e.subject = name /\ e.kind = "state" /\ e.to = safeVMState(rows[name].state)
      BY <2>2 DEF Event
    <3> QED BY <1>1, <3>1, Zenon DEF TellsOfRow
  <2>3. CASE e = Event("pressure", name, safeEventState(rows[name].pressure))
    <3>1. e.subject = name /\ e.kind = "pressure" /\ e.to = safeEventState(rows[name].pressure)
      BY <2>3 DEF Event
    <3> QED BY <1>1, <3>1, Zenon DEF TellsOfRow
  <2> QED BY <1>1, <2>1, <2>2, <2>3, Zenon DEF TellsOfRow
<1>2. ASSUME NEW name \in DOMAIN Disk, TellsOfGone(before.rows, rows, name, e)
      PROVE  e.kind = "invisible" /\ e.subject = name /\ name \in DOMAIN before.rows /\ name \notin DOMAIN rows
  BY <1>2 DEF TellsOfGone, Event
<1>3. CASE \E name \in DOMAIN Disk : TellsOfRow(before.rows, rows, name, e)
  <2>1. PICK name \in DOMAIN Disk : TellsOfRow(before.rows, rows, name, e)
    BY <1>3
  <2>2. /\ e.subject = name /\ name \in DOMAIN rows
        /\ \/ e.kind = "visible" /\ name \notin DOMAIN before.rows
           \/ e.kind = "state" /\ e.to = safeVMState(rows[name].state)
           \/ e.kind = "pressure" /\ e.to = safeEventState(rows[name].pressure)
    BY <1>1, <2>1, Zenon
  <2> QED BY <2>2, Zenon DEF Says
<1>4. CASE \E name \in DOMAIN Disk : TellsOfGone(before.rows, rows, name, e)
  <2>1. PICK name \in DOMAIN Disk : TellsOfGone(before.rows, rows, name, e)
    BY <1>4
  <2>2. e.kind = "invisible" /\ e.subject = name /\ name \in DOMAIN before.rows /\ name \notin DOMAIN rows
    BY <1>2, <2>1, Zenon
  <2> QED BY <2>2, Zenon DEF Says
<1>5. CASE e = AttributionEvent(attribution)
  <2>1. e.kind = "attribution"
    BY <1>5, AttributionEventIs, Zenon
  <2> QED BY <1>5, <2>1, Zenon DEF Says
<1>6. CASE e = Event("dominant", dominantAttributedVM(rows, attribution), "")
  <2>1. e.kind = "dominant" /\ e.subject = dominantAttributedVM(rows, attribution)
    BY <1>6 DEF Event
  <2> QED BY <2>1, Zenon DEF Says
<1> QED BY <1>3, <1>4, <1>5, <1>6, Zenon DEF TellsOfNext

\* What the events between two views report of a subject.
Reports(before, rows, attribution, kind, subject) ==
  \E e : TellsOfNext(before, rows, attribution, e) /\ e.kind = kind /\ e.subject = subject

\* An event that is told of a VM is reported.
LEMMA VMReported ==
  ASSUME NEW before, NEW rows, NEW attribution, NEW name \in DOMAIN Disk, NEW kind, NEW to,
         LET e == Event(kind, name, to) IN TellsOfRow(before.rows, rows, name, e) \/ TellsOfGone(before.rows, rows, name, e)
  PROVE  Reports(before, rows, attribution, kind, name)
<1> DEFINE e == Event(kind, name, to)
<1>1. TellsOfNext(before, rows, attribution, e)
  BY Zenon DEF TellsOfNext
<1>2. e.kind = kind /\ e.subject = name
  BY DEF Event
<1> QED BY <1>1, <1>2, Zenon DEF Reports

\* A VM of which nothing is reported came and went as little as it changed.
LEMMA SameVM ==
  ASSUME NEW before, NEW rows, NEW attribution, NEW name \in DOMAIN Disk,
         ~Reports(before, rows, attribution, "visible", name), ~Reports(before, rows, attribution, "invisible", name)
  PROVE  (name \in DOMAIN rows) = (name \in DOMAIN before.rows)
<1>1. ASSUME name \in DOMAIN rows, name \notin DOMAIN before.rows PROVE FALSE
  <2>1. TellsOfRow(before.rows, rows, name, Event("visible", name, ""))
    BY <1>1, Zenon DEF TellsOfRow
  <2> QED BY <2>1, VMReported, Zenon
<1>2. ASSUME name \in DOMAIN before.rows, name \notin DOMAIN rows PROVE FALSE
  <2>1. TellsOfGone(before.rows, rows, name, Event("invisible", name, ""))
    BY <1>2, Zenon DEF TellsOfGone
  <2> QED BY <2>1, VMReported, Zenon
<1> QED BY <1>1, <1>2

LEMMA SameState ==
  ASSUME NEW before, NEW rows, NEW attribution, NEW name \in DOMAIN Disk, name \in DOMAIN before.rows,
         ~Reports(before, rows, attribution, "invisible", name), ~Reports(before, rows, attribution, "state", name)
  PROVE  name \in DOMAIN rows /\ rows[name].state = before.rows[name].state
<1>1. name \in DOMAIN rows
  <2> SUFFICES ASSUME name \notin DOMAIN rows PROVE FALSE
    OBVIOUS
  <2>1. TellsOfGone(before.rows, rows, name, Event("invisible", name, ""))
    BY Zenon DEF TellsOfGone
  <2> QED BY <2>1, VMReported, Zenon
<1>2. rows[name].state = before.rows[name].state
  <2> SUFFICES ASSUME before.rows[name].state # rows[name].state PROVE FALSE
    BY Zenon
  <2>1. TellsOfRow(before.rows, rows, name, Event("state", name, safeVMState(rows[name].state)))
    BY <1>1, Zenon DEF TellsOfRow
  <2> QED BY <2>1, VMReported, Zenon
<1> QED BY <1>1, <1>2

\* The state of a VM tells whether it runs, and the pressure of one that does not.
RowIs(row) ==
  /\ row.running = (normalizedVMState(row.state) = "running")
  /\ ~row.running => row.pressure = IF normalizedVMState(row.state) = "unknown" THEN "unavailable" ELSE "not_running"
RowsAre(rows) == \A name \in DOMAIN rows : RowIs(rows[name])

\* The attribution is available if its collector is and there is a quality.
AttributionIs(a) ==
  /\ a.quality \in {"available", "degraded", "unavailable"}
  /\ a.available = (a.collector /\ a.quality # "unavailable")

LEMMA SamePressure ==
  ASSUME NEW before, NEW rows, NEW attribution, NEW name \in DOMAIN Disk, name \in DOMAIN before.rows,
         ~Reports(before, rows, attribution, "invisible", name), ~Reports(before, rows, attribution, "state", name),
         ~Reports(before, rows, attribution, "pressure", name), RowsAre(before.rows), RowsAre(rows)
  PROVE  rows[name].pressure = before.rows[name].pressure
<1>1. name \in DOMAIN rows /\ rows[name].state = before.rows[name].state
  BY SameState, ZenonT(60)
<1>2. RowIs(before.rows[name]) /\ RowIs(rows[name])
  BY <1>1, Zenon DEF RowsAre
<1>3. rows[name].running = before.rows[name].running
  BY <1>1, <1>2, Zenon DEF RowIs
<1>4. CASE rows[name].running
  <2> SUFFICES ASSUME before.rows[name].pressure # rows[name].pressure PROVE FALSE
    BY Zenon
  <2>1. TellsOfRow(before.rows, rows, name, Event("pressure", name, safeEventState(rows[name].pressure)))
    BY <1>1, <1>3, <1>4, Zenon DEF TellsOfRow
  <2> QED BY <2>1, VMReported, Zenon
<1>5. CASE ~rows[name].running
  BY <1>1, <1>2, <1>3, <1>5, Zenon DEF RowIs
<1> QED BY <1>4, <1>5

\* What its event says is decided by the state that is compared.
LEMMA SameAttribution ==
  ASSUME NEW a, NEW b, AttributionIs(a), AttributionIs(b), attributionState(a) = attributionState(b)
  PROVE  AttributionEvent(a) = AttributionEvent(b)
<1>1. /\ a.requested = b.requested /\ a.collector = b.collector
      /\ safeEventState(a.quality) = safeEventState(b.quality) /\ safeEventState(a.status) = safeEventState(b.status)
  BY DEF attributionState
<1>2. safeEventState(a.quality) = a.quality /\ safeEventState(b.quality) = b.quality
  BY DEF AttributionIs, safeEventState, SafeStates
<1>3. a.quality = b.quality /\ a.available = b.available
  BY <1>1, <1>2, Zenon DEF AttributionIs
<1> QED BY <1>1, <1>3, Zenon DEF AttributionEvent

LEMMA SameEvent ==
  ASSUME NEW before, NEW rows, NEW attribution, ~Reports(before, rows, attribution, "attribution", "eBPF"),
         AttributionIs(before.attribution), AttributionIs(attribution)
  PROVE  AttributionEvent(attribution) = AttributionEvent(before.attribution)
<1>1. attributionState(before.attribution) = attributionState(attribution)
  <2> SUFFICES ASSUME attributionState(before.attribution) # attributionState(attribution) PROVE FALSE
    BY Zenon
  <2>1. TellsOfNext(before, rows, attribution, AttributionEvent(attribution))
    BY Zenon DEF TellsOfNext
  <2>2. AttributionEvent(attribution).kind = "attribution" /\ AttributionEvent(attribution).subject = "eBPF"
    BY AttributionEventIs, Zenon
  <2> QED BY <2>1, <2>2, Zenon DEF Reports
<1> QED BY <1>1, SameAttribution, Zenon

\* A dominant VM is new only if that is told.
LEMMA SameDominant ==
  ASSUME NEW before, NEW rows, NEW attribution, ~\E e : TellsOfNext(before, rows, attribution, e) /\ e.kind = "dominant"
  PROVE  dominantAttributedVM(rows, attribution) \in {Nobody, dominantAttributedVM(before.rows, before.attribution)}
<1> DEFINE d == dominantAttributedVM(rows, attribution)
           e == Event("dominant", d, "")
<1> SUFFICES ASSUME d \notin {Nobody, dominantAttributedVM(before.rows, before.attribution)} PROVE FALSE
  BY Zenon
<1>1. TellsOfNext(before, rows, attribution, e)
  BY Zenon DEF TellsOfNext
<1>2. e.kind = "dominant"
  BY DEF Event
<1> QED BY <1>1, <1>2, Zenon

\* The events between two views end in the second, if they ended in the first.
LEMMA EndsNext ==
  ASSUME NEW E, IsSeq(E), NEW before, NEW rows, NEW attribution, NEW n \in Nat \ {0},
         EndsIn(E, before.rows, before.attribution), RowsAre(before.rows), RowsAre(rows),
         AttributionIs(before.attribution), AttributionIs(attribution)
  PROVE  LET G == Newest(E \o NextEvents(before, rows, attribution), n)
         IN IsSeq(G) /\ EndsIn(G, rows, attribution)
<1> DEFINE F == NextEvents(before, rows, attribution)
           G == Newest(E \o F, n)
           Told(e) == TellsOfNext(before, rows, attribution, e)
           Reported(kind, subject) == Reports(before, rows, attribution, kind, subject)
<1>1. IsSeq(F) /\ \A e : Tells(F, e) <=> Told(e)
  BY NextTells, Zenon
<1>2. \A e : Told(e) => Says(before, rows, attribution, e)
  BY NextSays, Zenon
<1>3. \A kind, subject : Reported(kind, subject) <=> \E e : Told(e) /\ e.kind = kind /\ e.subject = subject
  BY Zenon DEF Reports
<1> HIDE DEF F
<1>4. IsSeq(G)
  BY <1>1, NewestAre, Zenon
<1>5. /\ \A name \in DOMAIN Disk : /\ VisibleEnds(E, before.rows, name) /\ StateEnds(E, before.rows, name)
                                   /\ PressureEnds(E, before.rows, name)
      /\ AttributionEnds(E, before.attribution)
      /\ DominantEnds(E, dominantAttributedVM(before.rows, before.attribution))
  BY Zenon DEF EndsIn
<1>6. DominantEnds(G, dominantAttributedVM(rows, attribution))
  <2> DEFINE d == dominantAttributedVM(rows, attribution)
             b == dominantAttributedVM(before.rows, before.attribution)
  <2>1. \A x : Tells(F, x) /\ x.kind = "dominant" => x.subject = d
    BY <1>1, <1>2, Zenon DEF Says
  <2>2. (\E x : Tells(F, x) /\ x.kind = "dominant") \/ d \in {Nobody, b}
    <3>1. (\E e : Told(e) /\ e.kind = "dominant") \/ d \in {Nobody, b}
      BY SameDominant, Zenon
    <3> QED BY <1>1, <3>1, Zenon
  <2>3. DominantEnds(E, b)
    BY <1>5, Zenon
  <2> HIDE DEF d, b
  <2>4. (\E x : Tells(F, x) /\ x.kind = "dominant") \/ (d = b /\ DominantEnds(E, b)) \/ d = Nobody
    BY <2>2, <2>3, Zenon
  <2>5. DominantEnds(Newest(E \o F, n), d)
    BY <1>1, <2>1, <2>4, DominantAdded, Zenon
  <2> QED BY <2>5, Zenon DEF d
<1>7. ASSUME NEW kinds, NEW subject, NEW e \in NewestIn(G, kinds, subject)
      PROVE  /\ e.kind \in kinds /\ e.subject = subject
             /\ \/ Says(before, rows, attribution, e)
                \/ e \in NewestIn(E, kinds, subject) /\ \A kind \in kinds : ~Reported(kind, subject)
  <2>1. e.kind \in kinds /\ e.subject = subject /\ AddedOrKept(E, F, kinds, subject, e)
    BY <1>1, NewestAdded, Zenon
  <2>2. CASE Tells(F, e)
    BY <1>1, <1>2, <2>1, <2>2, Zenon
  <2>3. CASE e \in NewestIn(E, kinds, subject) /\ \A x : Tells(F, x) => x.kind \notin kinds \/ x.subject # subject
    <3>1. ASSUME NEW kind \in kinds, Reported(kind, subject) PROVE FALSE
      <4>1. PICK x : Told(x) /\ x.kind = kind /\ x.subject = subject
        BY <1>3, <3>1, ZenonT(60)
      <4> QED BY <1>1, <2>3, <3>1, <4>1, Zenon
    <3> QED BY <2>1, <2>3, <3>1, Zenon
  <2> QED BY <2>1, <2>2, <2>3, Zenon DEF AddedOrKept
<1> HIDE DEF G
<1>8. AttributionEnds(G, attribution)
  <2> SUFFICES ASSUME NEW e \in NewestIn(G, {"attribution"}, "eBPF") PROVE e = AttributionEvent(attribution)
    BY Zenon DEF AttributionEnds
  <2>1. /\ e.kind = "attribution"
        /\ \/ Says(before, rows, attribution, e)
           \/ e \in NewestIn(E, {"attribution"}, "eBPF") /\ ~Reported("attribution", "eBPF")
    BY <1>7, Zenon
  <2>2. CASE e \in NewestIn(E, {"attribution"}, "eBPF") /\ ~Reported("attribution", "eBPF")
    <3>1. e = AttributionEvent(before.attribution)
      BY <1>5, <2>2, Zenon DEF AttributionEnds
    <3>2. AttributionEvent(attribution) = AttributionEvent(before.attribution)
      BY <2>2, SameEvent, Zenon
    <3> QED BY <3>1, <3>2, Zenon
  <2> QED BY <2>1, <2>2, Zenon DEF Says
<1>9. ASSUME NEW name \in DOMAIN Disk PROVE VisibleEnds(G, rows, name)
  <2> DEFINE K == {"visible", "invisible"}
  <2> SUFFICES ASSUME NEW e \in NewestIn(G, K, name) PROVE (e.kind = "visible") = (name \in DOMAIN rows)
    BY Zenon DEF VisibleEnds
  <2>1. /\ e.kind \in K /\ e.subject = name
        /\ \/ Says(before, rows, attribution, e)
           \/ e \in NewestIn(E, K, name) /\ \A kind \in K : ~Reported(kind, name)
    <3> HIDE DEF K
    <3> QED BY <1>7, Zenon
  <2>2. CASE Says(before, rows, attribution, e)
    <3>1. CASE e.kind = "visible"
      BY <2>1, <2>2, <3>1, Zenon DEF Says
    <3>2. CASE e.kind = "invisible"
      <4>1. e.kind # "visible" /\ name \notin DOMAIN rows
        BY <2>1, <2>2, <3>2, Zenon DEF Says
      <4> QED BY <4>1
    <3> QED BY <2>1, <3>1, <3>2, Zenon
  <2>3. CASE e \in NewestIn(E, K, name) /\ \A kind \in K : ~Reported(kind, name)
    <3>1. (e.kind = "visible") = (name \in DOMAIN before.rows)
      BY <1>5, <2>3, Zenon DEF VisibleEnds
    <3>2. ~Reported("visible", name) /\ ~Reported("invisible", name)
      BY <2>3, Zenon
    <3>3. (name \in DOMAIN rows) = (name \in DOMAIN before.rows)
      BY <3>2, SameVM, ZenonT(60)
    <3> QED BY <3>1, <3>3, Zenon
  <2> QED BY <2>1, <2>2, <2>3, Zenon
<1>10. ASSUME NEW name \in DOMAIN Disk PROVE StateEnds(G, rows, name)
  <2> DEFINE K == {"state", "visible", "invisible"}
  <2> SUFFICES ASSUME NEW e \in NewestIn(G, K, name), e.kind = "state"
               PROVE  name \in DOMAIN rows /\ e.to = safeVMState(rows[name].state)
    BY Zenon DEF StateEnds
  <2>1. /\ e.subject = name
        /\ \/ Says(before, rows, attribution, e)
           \/ e \in NewestIn(E, K, name) /\ \A kind \in K : ~Reported(kind, name)
    <3> HIDE DEF K
    <3> QED BY <1>7, Zenon
  <2>2. CASE Says(before, rows, attribution, e)
    BY <2>1, <2>2, Zenon DEF Says
  <2>3. CASE e \in NewestIn(E, K, name) /\ \A kind \in K : ~Reported(kind, name)
    <3>1. name \in DOMAIN before.rows /\ e.to = safeVMState(before.rows[name].state)
      BY <1>5, <2>3, Zenon DEF StateEnds
    <3>2. ~Reported("state", name) /\ ~Reported("invisible", name)
      BY <2>3, Zenon
    <3>3. name \in DOMAIN rows /\ rows[name].state = before.rows[name].state
      BY <3>1, <3>2, SameState, Zenon
    <3> QED BY <3>1, <3>3, Zenon
  <2> QED BY <2>1, <2>2, <2>3, Zenon
<1>11. ASSUME NEW name \in DOMAIN Disk PROVE PressureEnds(G, rows, name)
  <2> DEFINE K == {"pressure", "state", "visible", "invisible"}
  <2> SUFFICES ASSUME NEW e \in NewestIn(G, K, name), e.kind = "pressure"
               PROVE  name \in DOMAIN rows /\ e.to = safeEventState(rows[name].pressure)
    BY Zenon DEF PressureEnds
  <2>1. /\ e.subject = name
        /\ \/ Says(before, rows, attribution, e)
           \/ e \in NewestIn(E, K, name) /\ \A kind \in K : ~Reported(kind, name)
    <3> HIDE DEF K
    <3> QED BY <1>7, Zenon
  <2>2. CASE Says(before, rows, attribution, e)
    BY <2>1, <2>2, Zenon DEF Says
  <2>3. CASE e \in NewestIn(E, K, name) /\ \A kind \in K : ~Reported(kind, name)
    <3>1. name \in DOMAIN before.rows /\ e.to = safeEventState(before.rows[name].pressure)
      BY <1>5, <2>3, Zenon DEF PressureEnds
    <3>2. ~Reported("state", name) /\ ~Reported("invisible", name) /\ ~Reported("pressure", name)
      BY <2>3, Zenon
    <3>3. name \in DOMAIN rows
      BY <3>1, <3>2, SameState, Zenon
    <3>4. rows[name].pressure = before.rows[name].pressure
      BY <3>1, <3>2, SamePressure, Zenon
    <3> QED BY <3>1, <3>3, <3>4, Zenon
  <2> QED BY <2>1, <2>2, <2>3, Zenon
<1>12. EndsIn(G, rows, attribution)
  BY <1>6, <1>8, <1>9, <1>10, <1>11, Zenon DEF EndsIn
<1> QED BY <1>4, <1>12, Zenon DEF G, F

\* No events at all end in any view.
LEMMA NoneIn ==
  ASSUME NEW kinds, NEW subject
  PROVE  NewestIn(<<>>, kinds, subject) = {} /\ DominantIn(<<>>) = {} /\ IsSeq(<<>>)
<1>1. DOMAIN <<>> = {}
  OBVIOUS
<1>2. <<>> \in Seq({})
  OBVIOUS
<1> QED BY <1>1, <1>2, SeqIs, Zenon DEF NewestIn, DominantIn

\* What a first event says, by its kind.
SaysFirst(rows, attribution, e) ==
  /\ e.kind \notin {"visible", "invisible", "state"}
  /\ e.kind = "pressure" => e.subject \in DOMAIN rows /\ e.to = safeEventState(rows[e.subject].pressure)
  /\ e.kind = "attribution" => e = AttributionEvent(attribution)
  /\ e.kind = "dominant" => e.subject = dominantAttributedVM(rows, attribution)

\* The first events end in the first view.
LEMMA EndsFirst ==
  ASSUME NEW rows, NEW attribution, NEW n \in Nat \ {0}
  PROVE  LET G == Newest(<<>> \o FirstEvents(rows, attribution), n)
         IN IsSeq(G) /\ EndsIn(G, rows, attribution)
<1> DEFINE F == FirstEvents(rows, attribution)
           G == Newest(<<>> \o F, n)
           d == dominantAttributedVM(rows, attribution)
<1>1. IsSeq(F) /\ \A e : Tells(F, e) <=> TellsOfFirst(rows, attribution, e)
  BY FirstTells, Zenon
<1>2. ASSUME NEW e, Tells(F, e)
      PROVE  SaysFirst(rows, attribution, e)
  <2>1. TellsOfFirst(rows, attribution, e)
    BY <1>1, <1>2, Zenon
  <2>2. CASE e = Event("window", "host", "")
    <3>1. e.kind = "window"
      BY <2>2 DEF Event
    <3> QED BY <3>1, Zenon DEF SaysFirst
  <2>3. CASE \E name \in DOMAIN Disk : TellsOfHigh(rows, name, e)
    <3>1. PICK name : name \in DOMAIN rows /\ rows[name].pressure = "high" /\ e = Event("pressure", name, "high")
      BY <2>3, Zenon DEF TellsOfHigh
    <3>2. e.kind = "pressure" /\ e.subject = name /\ e.to = "high"
      BY <3>1 DEF Event
    <3>3. safeEventState("high") = "high"
      BY DEF safeEventState, SafeStates
    <3> QED BY <3>1, <3>2, <3>3, Zenon DEF SaysFirst
  <2>4. CASE e = AttributionEvent(attribution)
    <3>1. e.kind = "attribution"
      BY <2>4, AttributionEventIs, Zenon
    <3> QED BY <2>4, <3>1, Zenon DEF SaysFirst
  <2>5. CASE e = Event("dominant", d, "")
    <3>1. e.kind = "dominant" /\ e.subject = d
      BY <2>5 DEF Event
    <3> QED BY <3>1, Zenon DEF SaysFirst
  <2> QED BY <2>1, <2>2, <2>3, <2>4, <2>5, Zenon DEF TellsOfFirst
<1>3. IsSeq(<<>>)
  BY NoneIn, Zenon
<1> HIDE DEF F
<1>4. IsSeq(G)
  BY <1>1, <1>3, NewestAre, Zenon
<1>5. ASSUME NEW kinds, NEW subject, NEW e \in NewestIn(G, kinds, subject)
      PROVE  e.kind \in kinds /\ e.subject = subject /\ Tells(F, e)
  <2>1. e.kind \in kinds /\ e.subject = subject /\ AddedOrKept(<<>>, F, kinds, subject, e)
    BY <1>1, <1>3, NewestAdded, Zenon
  <2>2. e \notin NewestIn(<<>>, kinds, subject)
    BY NoneIn, Zenon
  <2> QED BY <2>1, <2>2, Zenon DEF AddedOrKept
<1>6. DominantEnds(G, d)
  <2>1. (\E x : Tells(F, x) /\ x.kind = "dominant") \/ d = Nobody
    <3>1. Event("dominant", d, "").kind = "dominant"
      BY DEF Event
    <3>2. d # Nobody => TellsOfFirst(rows, attribution, Event("dominant", d, ""))
      BY Zenon DEF TellsOfFirst
    <3> QED BY <1>1, <3>1, <3>2, Zenon
  <2>2. \A x : Tells(F, x) /\ x.kind = "dominant" => x.subject = d
    BY <1>2, Zenon DEF SaysFirst
  <2> HIDE DEF d
  <2> QED BY <1>1, <1>3, <2>1, <2>2, DominantAdded, Zenon
<1> HIDE DEF G
<1>7. ASSUME NEW kinds, NEW subject, NEW e \in NewestIn(G, kinds, subject)
      PROVE  e.kind \in kinds /\ e.subject = subject /\ SaysFirst(rows, attribution, e)
  <2>1. e.kind \in kinds /\ e.subject = subject /\ Tells(F, e)
    BY <1>5, Zenon
  <2> QED BY <1>2, <2>1, Zenon
<1>8. AttributionEnds(G, attribution)
  <2> SUFFICES ASSUME NEW e \in NewestIn(G, {"attribution"}, "eBPF") PROVE e = AttributionEvent(attribution)
    BY Zenon DEF AttributionEnds
  <2>1. e.kind \in {"attribution"} /\ SaysFirst(rows, attribution, e)
    BY <1>7, Zenon
  <2> QED BY <2>1, Zenon DEF SaysFirst
<1>9. ASSUME NEW name \in DOMAIN Disk
      PROVE  VisibleEnds(G, rows, name) /\ StateEnds(G, rows, name) /\ PressureEnds(G, rows, name)
  <2>1. ASSUME NEW e \in NewestIn(G, {"visible", "invisible"}, name) PROVE FALSE
    <3>1. e.kind \in {"visible", "invisible"} /\ SaysFirst(rows, attribution, e)
      BY <1>7, <2>1, Zenon
    <3> QED BY <3>1, Zenon DEF SaysFirst
  <2>2. ASSUME NEW e \in NewestIn(G, {"state", "visible", "invisible"}, name) PROVE e.kind # "state"
    <3>1. SaysFirst(rows, attribution, e)
      BY <1>7, <2>2, Zenon
    <3> QED BY <3>1, Zenon DEF SaysFirst
  <2>3. ASSUME NEW e \in NewestIn(G, {"pressure", "state", "visible", "invisible"}, name), e.kind = "pressure"
        PROVE  name \in DOMAIN rows /\ e.to = safeEventState(rows[name].pressure)
    <3>1. e.subject = name /\ SaysFirst(rows, attribution, e)
      BY <1>7, <2>3, Zenon
    <3> QED BY <2>3, <3>1, Zenon DEF SaysFirst
  <2>4. VisibleEnds(G, rows, name) /\ StateEnds(G, rows, name)
    BY <2>1, <2>2, Zenon DEF VisibleEnds, StateEnds
  <2>5. PressureEnds(G, rows, name)
    BY <2>3, Zenon DEF PressureEnds
  <2> QED BY <2>4, <2>5
<1>10. EndsIn(G, rows, attribution)
  BY <1>6, <1>8, <1>9, Zenon DEF EndsIn
<1> QED BY <1>4, <1>10, Zenon DEF G, F

-----------------------------------------------------------------------------
(* The rows of a collection.                                               *)

\* A row has these fields, whatever else was added.
IsRow(row) == {"state", "running", "pressure"} \subseteq DOMAIN row /\ RowIs(row)

\* What becomes of the other fields changes nothing.
LEMMA OtherFields ==
  ASSUME NEW row, IsRow(row), NEW next, DOMAIN next = DOMAIN row,
         next.state = row.state, next.running = row.running, next.pressure = row.pressure
  PROVE  IsRow(next)
BY Zenon DEF IsRow, RowIs

LEMMA InventoryRowIs ==
  ASSUME NEW vm
  PROVE  IsRow(InventoryRow(vm))
<1> DEFINE s == normalizedVMState(vm.state)
           row == InventoryRow(vm)
<1>1. row = [VMRow EXCEPT !.state = s, !.running = (s = "running"),
                          !.pressure = IF s \in {"running", "unknown"} THEN "unavailable" ELSE "not_running",
                          !.attribution = stateForVMState(vm.state)]
  BY Zenon DEF InventoryRow
<1>2. normalizedVMState(s) = s
  BY DEF normalizedVMState, NotRunning
<1> HIDE DEF s, row
<1>3. /\ {"state", "running", "pressure"} \subseteq DOMAIN row
      /\ row.state = s /\ row.running = (s = "running")
      /\ row.pressure = IF s \in {"running", "unknown"} THEN "unavailable" ELSE "not_running"
  BY <1>1 DEF VMRow
<1> QED BY <1>2, <1>3 DEF row, IsRow, RowIs

LEMMA StatusRowIs ==
  ASSUME NEW row, {"state", "running", "pressure"} \subseteq DOMAIN row, NEW status, status.state = "running"
  PROVE  IsRow(StatusRow(row, status))
<1> DEFINE next == StatusRow(row, status)
<1>1. normalizedVMState("running") = "running"
  BY DEF normalizedVMState
<1>2. /\ {"state", "running", "pressure"} \subseteq DOMAIN next
      /\ next.state = "running" /\ next.running = TRUE
  BY <1>1 DEF StatusRow
<1> QED BY <1>1, <1>2, Zenon DEF IsRow, RowIs

LEMMA RequestedRowIs ==
  ASSUME NEW row, IsRow(row), NEW snapshot
  PROVE  IsRow(RequestedRow(row, snapshot))
<1> DEFINE next == RequestedRow(row, snapshot)
<1>1. {"state", "running", "pressure"} \subseteq DOMAIN row
  BY DEF IsRow
<1>2. DOMAIN next = DOMAIN row /\ next.state = row.state /\ next.running = row.running /\ next.pressure = row.pressure
  BY <1>1 DEF RequestedRow
<1> HIDE DEF next
<1>3. IsRow(next)
  BY <1>2, OtherFields, Zenon
<1> QED BY <1>3 DEF next

LEMMA AttributedRowIs ==
  ASSUME NEW row, IsRow(row), NEW report, NEW attribution, NEW name, NEW latency
  PROVE  IsRow(AttributedRow(row, report, attribution, name, latency))
<1> DEFINE next == AttributedRow(row, report, attribution, name, latency)
<1>1. {"state", "running", "pressure"} \subseteq DOMAIN row
  BY DEF IsRow
<1>2. DOMAIN next = DOMAIN row /\ next.state = row.state /\ next.running = row.running /\ next.pressure = row.pressure
  BY <1>1 DEF AttributedRow
<1> HIDE DEF next
<1>3. IsRow(next)
  BY <1>2, OtherFields, Zenon
<1> QED BY <1>3 DEF next

\* Every row is one: a VM that has a status was running.
LEMMA CollectedRows ==
  ASSUME NEW world, NEW requested
  PROVE  RowsAre(Rows(Collect(world, requested)))
<1> DEFINE snapshot == Collect(world, requested)
           attribution == AttributionView(snapshot)
           Listing(name) == IF name \in DOMAIN snapshot.inventory THEN InventoryRow(snapshot.inventory[name]) ELSE VMRow
           Measured(name) == IF name \in DOMAIN snapshot.status THEN StatusRow(Listing(name), snapshot.status[name]) ELSE Listing(name)
           Asked(name) == RequestedRow(Measured(name), snapshot)
           Row(name) == IF name \in DOMAIN snapshot.report.ops
                        THEN AttributedRow(Asked(name), snapshot.report, attribution, name, snapshot.inventory[name].latency)
                        ELSE Asked(name)
           names == DOMAIN snapshot.inventory \cup DOMAIN snapshot.status
<1>1. Rows(snapshot) = [name \in names |-> Row(name)]
  BY Zenon DEF Rows
<1>2. \A name \in DOMAIN snapshot.status : snapshot.status[name].state = "running"
  <2>1. snapshot.status = IF world.status THEN StatusReport(world) ELSE Empty
    BY DEF Collect
  <2> HIDE DEF snapshot
  <2>2. CASE world.status
    <3>1. snapshot.status = StatusReport(world)
      BY <2>1, <2>2, Zenon
    <3>2. DOMAIN StatusReport(world) = Sampled(world)
      BY Zenon DEF StatusReport
    <3>3. \A name \in Sampled(world) : StatusReport(world)[name].state = "running"
      <4> TAKE name \in Sampled(world)
      <4>1. StatusReport(world)[name].state = world.vms[name].state
        BY DEF StatusReport
      <4>2. world.vms[name].state = "running"
        BY Zenon DEF Sampled
      <4> QED BY <4>1, <4>2
    <3> QED BY <3>1, <3>2, <3>3, Zenon
  <2>3. CASE ~world.status
    <3>1. DOMAIN snapshot.status = {}
      BY <2>1, <2>3 DEF Empty
    <3> QED BY <3>1
  <2> QED BY <2>2, <2>3
<1> HIDE DEF snapshot, attribution
<1>3. ASSUME NEW name \in names PROVE IsRow(Row(name))
  <2>1. {"state", "running", "pressure"} \subseteq DOMAIN Listing(name)
    <3>1. {"state", "running", "pressure"} \subseteq DOMAIN VMRow
      BY DEF VMRow
    <3>2. \A vm : {"state", "running", "pressure"} \subseteq DOMAIN InventoryRow(vm)
      BY InventoryRowIs, Zenon DEF IsRow
    <3> QED BY <3>1, <3>2, Zenon
  <2>2. IsRow(Measured(name))
    <3>1. CASE name \in DOMAIN snapshot.status
      <4>1. snapshot.status[name].state = "running"
        BY <1>2, <3>1, Zenon
      <4> HIDE DEF Listing
      <4>2. IsRow(StatusRow(Listing(name), snapshot.status[name]))
        BY <2>1, <4>1, StatusRowIs, Zenon
      <4> QED BY <3>1, <4>2, Zenon
    <3>2. CASE name \notin DOMAIN snapshot.status
      <4>1. name \in DOMAIN snapshot.inventory
        BY <3>2
      <4>2. Measured(name) = InventoryRow(snapshot.inventory[name])
        BY <3>2, <4>1, Zenon
      <4> QED BY <4>2, InventoryRowIs, Zenon
    <3> QED BY <3>1, <3>2
  <2> HIDE DEF Measured
  <2>3. IsRow(Asked(name))
    BY <2>2, RequestedRowIs, Zenon
  <2> HIDE DEF Asked
  <2> QED BY <2>3, AttributedRowIs, Zenon
<1> HIDE DEF Row, names
<1>4. RowsAre(Rows(snapshot))
  BY <1>1, <1>3, Zenon DEF RowsAre, IsRow
<1> QED BY <1>4 DEF snapshot

\* Without the ownership of operations there is no quality.
LEMMA CollectedAttribution ==
  ASSUME NEW world \in Worlds, NEW requested
  PROVE  AttributionIs(AttributionView(Collect(world, requested)))
<1> DEFINE snapshot == Collect(world, requested)
           report == snapshot.report
           a == AttributionView(snapshot)
           R == CollectVMBlockLatencyReport(world.kernel, Mappings(world))
<1>1. /\ a.collector = (report.given /\ report.available)
      /\ a.available = (report.given /\ report.available /\ report.enabled /\ report.quality \in {"available", "degraded"})
      /\ a.quality = IF report.given THEN report.quality ELSE "unavailable"
  BY Zenon DEF AttributionView
<1>2. report = NoReport \/ (world.kernel.status \notin UnpreparedStates /\ report = Report(world))
  <2>1. report = IF requested THEN Report(world) ELSE NoReport
    BY DEF Collect
  <2> HIDE DEF report
  <2> QED BY <2>1, Zenon DEF Report
<1>3. ASSUME report = NoReport PROVE AttributionIs(a)
  <2>1. NoReport.given = FALSE
    BY DEF NoReport
  <2> HIDE DEF report, a
  <2>2. a.quality = "unavailable" /\ a.available = FALSE
    BY <1>1, <1>3, <2>1, Zenon
  <2> QED BY <2>2 DEF AttributionIs
<1>4. ASSUME world.kernel.status \notin UnpreparedStates, report = Report(world) PROVE AttributionIs(a)
  <2>1. /\ report.given = TRUE /\ report.available = R.available /\ report.quality = R.quality
        /\ report.enabled = (world.kernel.status = "attributed")
    BY <1>4 DEF Report
  <2>2. world.kernel.status \in {"failed", "host", "attributed"}
    BY <1>4, ViewAssumption, Zenon
  <2>3. \A summary : runtimeVMBlockAttributionQuality(summary) \in {"available", "degraded", "unavailable"}
    BY Zenon DEF runtimeVMBlockAttributionQuality
  <2>4. /\ R.quality \in {"available", "degraded", "unavailable"}
        /\ R.available \in BOOLEAN
        /\ world.kernel.status # "attributed" => R.quality = "unavailable"
    BY <2>2, <2>3 DEF CollectVMBlockLatencyReport, newVMBlockLatencyReport
  <2> HIDE DEF report, a, R
  <2>5. a.quality = R.quality /\ a.quality \in {"available", "degraded", "unavailable"}
    BY <1>1, <2>1, <2>4, Zenon
  <2>6. CASE R.available = FALSE
    <3>1. a.collector = FALSE /\ a.available = FALSE
      BY <1>1, <2>1, <2>6, Zenon
    <3> QED BY <2>5, <3>1 DEF AttributionIs
  <2>7. CASE R.available = TRUE /\ R.quality = "unavailable"
    <3>1. a.available = FALSE
      BY <1>1, <2>1, <2>7, Zenon
    <3> QED BY <2>5, <2>7, <3>1 DEF AttributionIs
  <2>8. CASE R.available = TRUE /\ R.quality # "unavailable"
    <3>1. a.collector = TRUE /\ R.quality \in {"available", "degraded"} /\ report.enabled = TRUE
      BY <1>1, <2>1, <2>4, <2>8, Zenon
    <3>2. a.available = TRUE
      BY <1>1, <2>1, <2>8, <3>1, Zenon
    <3> QED BY <2>5, <2>8, <3>1, <3>2 DEF AttributionIs
  <2> QED BY <2>4, <2>6, <2>7, <2>8, Zenon
<1> HIDE DEF report, a
<1> QED BY <1>2, <1>3, <1>4 DEF a

-----------------------------------------------------------------------------
(* The events end in what the screen shows.                                *)

\* The inductive invariant: what the tracker keeps is what the screen shows,
\* its rows and its attribution are consistent, and the events end in it.
EventsInv ==
  /\ IsSeq(events)
  /\ ~tracker.initialized => events = <<>>
  /\ tracker.initialized =>
       /\ {"rows", "attribution", "order"} \subseteq DOMAIN view
       /\ view.rows = tracker.rows /\ view.attribution = tracker.attribution
       /\ RowsAre(tracker.rows) /\ AttributionIs(tracker.attribution)
       /\ EndsIn(events, tracker.rows, tracker.attribution)

\* Without a view there are no events.
LEMMA Unviewed ==
  ASSUME tracker.initialized = FALSE, events = <<>>
  PROVE  EventsInv
<1>1. IsSeq(<<>>)
  BY NoneIn, Zenon
<1> QED BY <1>1, Zenon DEF EventsInv

LEMMA OpenedUnviewed ==
  ASSUME tracker' = NoTracker, events' = <<>>
  PROVE  EventsInv'
<1>1. tracker'.initialized = FALSE
  BY DEF NoTracker
<1>2. IsSeq(<<>>)
  BY NoneIn, Zenon
<1> QED BY <1>1, <1>2, Zenon DEF EventsInv

\* A collection adds the events that end in it.
LEMMA ReceivedEnds ==
  ASSUME EventsInv, NEW world \in Worlds, NEW requested, Received(world, requested)
  PROVE  EventsInv'
<1> DEFINE snapshot == Collect(world, requested)
<1>1. PICK next \in {BuildView(snapshot, state.sort)} :
        view' = next /\ Update(next.rows, next.attribution)
  BY Zenon DEF Received
<1> DEFINE rows == next.rows
           attribution == next.attribution
<1>2. /\ {"rows", "attribution", "order"} \subseteq DOMAIN next
      /\ rows = Rows(snapshot) /\ attribution = AttributionView(snapshot)
  <2> HIDE DEF snapshot
  <2> QED BY <1>1 DEF BuildView
<1>3. RowsAre(rows) /\ AttributionIs(attribution)
  BY <1>2, CollectedRows, CollectedAttribution, Zenon
<1>4. maxMonitorEvents \in Nat \ {0}
  BY ViewAssumption, Zenon
<1> HIDE DEF rows, attribution
<1>5. /\ tracker' = [initialized |-> TRUE, rows |-> rows, attribution |-> attribution]
      /\ events' = Newest(events \o (IF tracker.initialized THEN NextEvents(tracker, rows, attribution)
                                     ELSE FirstEvents(rows, attribution)), maxMonitorEvents)
  BY <1>1, Zenon DEF Update, add, rows, attribution
<1>6. tracker'.initialized = TRUE /\ tracker'.rows = rows /\ tracker'.attribution = attribution
  BY <1>5
<1>7. IsSeq(events') /\ EndsIn(events', rows, attribution)
  <2>1. CASE tracker.initialized
    <3>1. /\ IsSeq(events) /\ EndsIn(events, tracker.rows, tracker.attribution)
          /\ RowsAre(tracker.rows) /\ AttributionIs(tracker.attribution)
      BY <2>1, Zenon DEF EventsInv
    <3>2. events' = Newest(events \o NextEvents(tracker, rows, attribution), maxMonitorEvents)
      BY <1>5, <2>1, Zenon
    <3> QED BY <1>3, <1>4, <3>1, <3>2, EndsNext, Zenon
  <2>2. CASE ~tracker.initialized
    <3>1. events' = Newest(<<>> \o FirstEvents(rows, attribution), maxMonitorEvents)
      BY <1>5, <2>2, Zenon DEF EventsInv
    <3> QED BY <1>4, <3>1, EndsFirst, Zenon
  <2> QED BY <2>1, <2>2
<1>8. /\ {"rows", "attribution", "order"} \subseteq DOMAIN view'
      /\ view'.rows = rows /\ view'.attribution = attribution
  BY <1>1, <1>2, Zenon DEF rows, attribution
<1> QED BY <1>3, <1>6, <1>7, <1>8, Zenon DEF EventsInv

\* A key changes the order of the rows only.
LEMMA KeyEnds ==
  ASSUME EventsInv, KeyPressed
  PROVE  EventsInv'
<1>1. UNCHANGED <<tracker, events>>
  BY DEF KeyPressed
<1>2. view' = view \/ \E order : view' = [view EXCEPT !.order = order]
  <2>1. PICK action : applyInteractiveAction(action)
    BY Zenon DEF KeyPressed
  <2> QED BY <2>1, Zenon DEF applyInteractiveAction
<1>3. {"rows", "attribution", "order"} \subseteq DOMAIN view =>
        /\ {"rows", "attribution", "order"} \subseteq DOMAIN view'
        /\ view'.rows = view.rows /\ view'.attribution = view.attribution
  BY <1>2
<1> QED BY <1>1, <1>3, Zenon DEF EventsInv

LEMMA EventsInvInit == SessionInit => EventsInv
<1> SUFFICES ASSUME SessionInit PROVE EventsInv
  OBVIOUS
<1>1. tracker.initialized = FALSE /\ events = <<>>
  BY DEF SessionInit, ViewInit, NoTracker
<1> QED BY <1>1, Unviewed, Zenon

LEMMA EventsInvNext == EventsInv /\ [SessionNext]_sessionVars => EventsInv'
<1> SUFFICES ASSUME EventsInv, [SessionNext]_sessionVars PROVE EventsInv'
  OBVIOUS
<1>1. ASSUME UNCHANGED screen PROVE EventsInv'
  <2>1. UNCHANGED <<view, tracker, events>>
    BY <1>1 DEF screen
  <2> QED BY <2>1, Zenon DEF EventsInv
<1>2. ASSUME NEW field, NEW application, Opens(field, application) PROVE EventsInv'
  BY <1>2, OpenedUnviewed, Zenon DEF Opens
<1>3. CASE Starts
  BY <1>2, <1>3, Zenon DEF Starts
<1>4. CASE Performs \/ Fails
  <2>1. Left
    BY <1>4, Zenon DEF Performs, Fails
  <2>2. (\E field, application : Opens(field, application)) \/ UNCHANGED screen
    BY <2>1, Zenon DEF Left
  <2> QED BY <1>1, <1>2, <2>2, Zenon
<1>5. CASE Ends
  <2>1. UNCHANGED screen
    BY <1>5 DEF Ends
  <2> QED BY <1>1, <2>1, Zenon
<1>6. CASE Shows
  <2>1. KeyPressed \/ \E world \in Worlds : Received(world, EBPF(command.options))
    BY <1>6, Zenon DEF Shows
  <2> QED BY <2>1, KeyEnds, ReceivedEnds, Zenon
<1>7. CASE Traces
  <2>1. UNCHANGED screen
    BY <1>7 DEF Traces
  <2> QED BY <1>1, <2>1, Zenon
<1>8. CASE UNCHANGED sessionVars
  <2>1. UNCHANGED screen
    BY <1>8 DEF sessionVars
  <2> QED BY <1>1, <2>1, Zenon
<1> QED BY <1>3, <1>4, <1>5, <1>6, <1>7, <1>8, Zenon DEF SessionNext

\* What the list of events ends in is what the screen shows.
LEMMA EventsEnd == EventsInv => EventsEndInTheView
<1> SUFFICES ASSUME EventsInv, tracker.initialized
             PROVE  /\ \A name \in DOMAIN Disk : /\ VisibleEndsInTheView(name) /\ StateEndsInTheView(name)
                                                 /\ PressureEndsInTheView(name)
                    /\ NewestEvents({"attribution"}, "eBPF") \subseteq {AttributionEvent(view.attribution)}
                    /\ \A dominant \in {dominantAttributedVM(view.rows, view.attribution)} \ {Nobody} :
                         \A i \in DominantEvents : (\A j \in DominantEvents : j <= i) => events[i].subject = dominant
  BY Zenon DEF EventsEndInTheView
<1>1. EndsIn(events, view.rows, view.attribution)
  BY Zenon DEF EventsInv
<1>2. \A kinds, subject : NewestEvents(kinds, subject) = NewestIn(events, kinds, subject)
  BY Zenon DEF NewestEvents, NewestIn
<1>3. DominantEvents = DominantIn(events)
  BY Zenon DEF DominantEvents, DominantIn
<1>4. ASSUME NEW name \in DOMAIN Disk
      PROVE  VisibleEndsInTheView(name) /\ StateEndsInTheView(name) /\ PressureEndsInTheView(name)
  <2>1. VisibleEnds(events, view.rows, name) /\ StateEnds(events, view.rows, name) /\ PressureEnds(events, view.rows, name)
    BY <1>1, <1>4, Zenon DEF EndsIn
  <2>2. VisibleEndsInTheView(name)
    BY <1>2, <2>1, Zenon DEF VisibleEnds, VisibleEndsInTheView
  <2>3. StateEndsInTheView(name)
    BY <1>2, <2>1, Zenon DEF StateEnds, StateEndsInTheView
  <2>4. PressureEndsInTheView(name)
    BY <1>2, <2>1, Zenon DEF PressureEnds, PressureEndsInTheView
  <2> QED BY <2>2, <2>3, <2>4
<1>5. NewestEvents({"attribution"}, "eBPF") \subseteq {AttributionEvent(view.attribution)}
  BY <1>1, <1>2, Zenon DEF EndsIn, AttributionEnds
<1>6. ASSUME NEW dominant \in {dominantAttributedVM(view.rows, view.attribution)} \ {Nobody}, NEW i \in DominantEvents,
             \A j \in DominantEvents : j <= i
      PROVE  events[i].subject = dominant
  <2>1. DominantEnds(events, dominant) /\ dominant # Nobody
    BY <1>1, <1>6, Zenon DEF EndsIn
  <2> QED BY <1>3, <1>6, <2>1, Zenon DEF DominantEnds
<1> QED BY <1>4, <1>5, <1>6, Zenon

\* Following the list of events, an operator who knows nothing else ends up
\* with what the screen shows, for any VMs, collections and length of the list.
THEOREM EventsLeadToTheView == SessionSpec => []EventsEndInTheView
<1>1. SessionInit => EventsInv
  BY EventsInvInit
<1>2. EventsInv /\ [SessionNext]_sessionVars => EventsInv'
  BY EventsInvNext
<1>3. EventsInv => EventsEndInTheView
  BY EventsEnd
<1> QED BY <1>1, <1>2, <1>3, PTL DEF SessionSpec
-----------------------------------------------------------------------------
(* The order of the rows.                                                  *)

\* A set of natural numbers has a least one.
LEMMA LeastIn ==
  ASSUME NEW S, NEW i \in Nat, i \in S
  PROVE  \E k \in Nat : k \in S /\ \A j \in Nat : j < k => j \notin S
<1> SUFFICES ASSUME \A k \in Nat : k \in S => \E j \in Nat : j < k /\ j \in S PROVE FALSE
  OBVIOUS
<1> DEFINE None == {n \in Nat : \A j \in Nat : j < n => j \notin S}
<1>1. 0 \in None
  OBVIOUS
<1>2. \A n \in Nat : n \in None => n + 1 \in None
  OBVIOUS
<1>3. \A n \in Nat : n \in None
  <2> HIDE DEF None
  <2> QED BY <1>1, <1>2, SetInduction, Zenon
<1>4. i + 1 \in None
  BY <1>3
<1> QED BY <1>4

\* The order of keys of one length is strict and total.
LEMMA KeysAreOrdered ==
  ASSUME NEW m \in Nat
  PROVE  /\ \A k \in [1..m -> Int] : ~Precedes(k, k)
         /\ \A k, l, h \in [1..m -> Int] : Precedes(k, l) /\ Precedes(l, h) => Precedes(k, h)
         /\ \A k, l \in [1..m -> Int] : k # l => Precedes(k, l) \/ Precedes(l, k)
<1>1. \A k \in [1..m -> Int] : ~Precedes(k, k)
  BY DEF Precedes
<1>2. ASSUME NEW k \in [1..m -> Int], NEW l \in [1..m -> Int], NEW h \in [1..m -> Int], Precedes(k, l), Precedes(l, h)
      PROVE  Precedes(k, h)
  <2>1. PICK i \in 1..m : k[i] < l[i] /\ \A j \in 1..(i - 1) : k[j] = l[j]
    BY <1>2 DEF Precedes
  <2>2. PICK n \in 1..m : l[n] < h[n] /\ \A j \in 1..(n - 1) : l[j] = h[j]
    BY <1>2 DEF Precedes
  <2>3. CASE i < n
    <3>1. i \in 1..(n - 1) /\ \A j \in 1..(i - 1) : j \in 1..(n - 1)
      BY <2>3
    <3>2. k[i] < h[i] /\ \A j \in 1..(i - 1) : k[j] = h[j]
      BY <2>1, <2>2, <3>1
    <3> QED BY <3>2 DEF Precedes
  <2>4. CASE i = n
    <3>1. k[i] < h[i]
      BY <2>1, <2>2, <2>4
    <3>2. \A j \in 1..(i - 1) : k[j] = h[j]
      BY <2>1, <2>2, <2>4
    <3> QED BY <3>1, <3>2 DEF Precedes
  <2>5. CASE n < i
    <3>1. n \in 1..(i - 1) /\ \A j \in 1..(n - 1) : j \in 1..(i - 1)
      BY <2>5
    <3>2. k[n] < h[n] /\ \A j \in 1..(n - 1) : k[j] = h[j]
      BY <2>1, <2>2, <3>1
    <3> QED BY <3>2 DEF Precedes
  <2> QED BY <2>3, <2>4, <2>5
<1>3. ASSUME NEW k \in [1..m -> Int], NEW l \in [1..m -> Int], k # l
      PROVE  Precedes(k, l) \/ Precedes(l, k)
  <2> DEFINE S == {n \in 1..m : k[n] # l[n]}
  <2>1. PICK i \in 1..m : k[i] # l[i]
    BY <1>3
  <2>2. i \in Nat /\ i \in S
    BY <2>1
  <2>3. PICK n \in Nat : n \in S /\ \A j \in Nat : j < n => j \notin S
    <3> HIDE DEF S
    <3> QED BY <2>2, LeastIn, Zenon
  <2>4. n \in 1..m /\ k[n] # l[n] /\ \A j \in 1..(n - 1) : k[j] = l[j]
    BY <2>3
  <2>5. k[n] < l[n] \/ l[n] < k[n]
    BY <2>4
  <2> QED BY <2>4, <2>5 DEF Precedes
<1> QED BY <1>1, <1>2, <1>3, Zenon

\* What comes before every element of a set.
Orders(S, B) ==
  /\ B \in [S -> SUBSET S]
  /\ \A x \in S : x \notin B[x]
  /\ \A x, y \in S : y \in B[x] => B[y] \subseteq B[x]
  /\ \A x, y \in S : x # y => y \in B[x] \/ x \in B[y]

\* Of the elements in an order, exactly one has any number before it.
LEMMA EveryPlaceIsTaken ==
  ASSUME NEW S, IsFiniteSet(S), NEW B, Orders(S, B)
  PROVE  /\ Cardinality(S) \in Nat
         /\ \A i \in 1..Cardinality(S) : \E x \in S : Cardinality(B[x]) = i - 1
<1> DEFINE n == Cardinality(S)
           c == [x \in S |-> Cardinality(B[x])]
<1>1. n \in Nat
  BY FS_CardinalityType
<1>2. \A x \in S : B[x] \in SUBSET S /\ x \notin B[x]
  BY DEF Orders
<1>3. \A x \in S : IsFiniteSet(B[x]) /\ Cardinality(B[x]) \in Nat /\ Cardinality(B[x]) < n
  <2> TAKE x \in S
  <2>1. /\ IsFiniteSet(B[x]) /\ Cardinality(B[x]) <= n
        /\ Cardinality(S) = Cardinality(B[x]) => S = B[x]
    BY <1>2, FS_Subset
  <2>2. Cardinality(B[x]) \in Nat
    BY <2>1, FS_CardinalityType
  <2>3. Cardinality(B[x]) # n
    BY <1>2, <2>1
  <2> HIDE DEF n
  <2> QED BY <1>1, <2>1, <2>2, <2>3
<1>4. c \in [S -> 0..(n - 1)]
  <2> HIDE DEF n
  <2> QED BY <1>1, <1>3
<1>5. ASSUME NEW x \in S, NEW y \in S, y \in B[x] PROVE Cardinality(B[x]) # Cardinality(B[y])
  <2>1. B[y] \in SUBSET B[x] /\ y \notin B[y]
    BY <1>2, <1>5 DEF Orders
  <2>2. Cardinality(B[x]) = Cardinality(B[y]) => B[x] = B[y]
    BY <1>3, <2>1, FS_Subset
  <2> QED BY <1>5, <2>1, <2>2
<1>6. \A x, y \in S : c[x] = c[y] => x = y
  <2> SUFFICES ASSUME NEW x \in S, NEW y \in S, x # y PROVE c[x] # c[y]
    OBVIOUS
  <2>1. y \in B[x] \/ x \in B[y]
    BY DEF Orders
  <2> QED BY <1>5, <2>1
<1>7. c \in Injection(S, 0..(n - 1))
  <2> HIDE DEF c, n
  <2> QED BY <1>4, <1>6 DEF Injection, IsInjective
<1>8. IsFiniteSet(0..(n - 1)) /\ Cardinality(0..(n - 1)) = n
  <2>1. 0 \in Int /\ n - 1 \in Int
    BY <1>1
  <2>2. IsFiniteSet(0..(n - 1)) /\ Cardinality(0..(n - 1)) = IF 0 > n - 1 THEN 0 ELSE (n - 1) - 0 + 1
    BY <2>1, FS_Interval, Zenon
  <2> HIDE DEF n
  <2> QED BY <1>1, <2>2
<1>9. c \in Surjection(S, 0..(n - 1))
  <2> DEFINE T == 0..(n - 1)
  <2>1. c \in Injection(S, T) /\ IsFiniteSet(T) /\ Cardinality(S) = Cardinality(T)
    BY <1>7, <1>8
  <2> HIDE DEF c, T
  <2>2. c \in Surjection(S, T)
    BY <2>1, FS_Injection, Zenon
  <2> QED BY <2>2 DEF T
<1>10. ASSUME NEW i \in 1..n PROVE \E x \in S : Cardinality(B[x]) = i - 1
  <2>1. i - 1 \in 0..(n - 1)
    BY <1>1
  <2>2. \E x \in S : c[x] = i - 1
    <3> HIDE DEF c, n
    <3> QED BY <1>9, <2>1 DEF Surjection
  <2> QED BY <2>2
<1> QED BY <1>1, <1>10

\* The names of VMs are finitely many, and are ranked.
LEMMA NamesAreRanked ==
  /\ IsFiniteSet(DOMAIN Disk)
  /\ \A name \in DOMAIN Disk : Rank(name) \in Int /\ VMNames[Rank(name)] = name
<1>1. /\ VMNames \in Seq(DOMAIN Disk) /\ DOMAIN Disk = {VMNames[i] : i \in DOMAIN VMNames}
  BY ViewAssumption, Zenon
<1> DEFINE n == Len(VMNames)
<1>2. n \in Nat /\ DOMAIN VMNames = 1..n /\ VMNames \in [1..n -> DOMAIN Disk]
  BY <1>1
<1>3. \A name \in DOMAIN Disk : \E i \in 1..n : VMNames[i] = name
  BY <1>1, <1>2
<1> HIDE DEF n
<1>4. VMNames \in Surjection(1..n, DOMAIN Disk)
  BY <1>2, <1>3 DEF Surjection
<1>5. IsFiniteSet(1..n)
  BY <1>2, FS_Interval
<1>6. IsFiniteSet(DOMAIN Disk)
  BY <1>4, <1>5, FS_Surjection, Zenon
<1>7. ASSUME NEW name \in DOMAIN Disk PROVE Rank(name) \in Int /\ VMNames[Rank(name)] = name
  <2>1. \E i \in DOMAIN VMNames : VMNames[i] = name
    BY <1>2, <1>3
  <2>2. Rank(name) \in DOMAIN VMNames /\ VMNames[Rank(name)] = name
    BY <2>1, Zenon DEF Rank
  <2> QED BY <1>2, <2>2
<1> QED BY <1>6, <1>7

\* Rows of VMs, with numbers.
RowsOfDisk(rows) ==
  /\ DOMAIN rows \subseteq DOMAIN Disk
  /\ \A name \in DOMAIN rows : rows[name].ops \in Int /\ rows[name].latency \in Int

\* How long the key of an order is.
KeyLength(field) == CASE field = "pressure" -> 6 [] field \in {"write", "ops", "latency"} -> 3 [] field = "name" -> 1

\* A key ends in what tells the VMs apart.
EndsInRank(k, n, last) == k \in [1..n -> Int] /\ n \in Nat \ {0} /\ k[n] = last

\* A list with one element more.
LEMMA OneMore ==
  ASSUME NEW T, NEW s \in Seq(T), NEW n \in T
  PROVE  /\ s \o <<n>> \in [1..(Len(s) + 1) -> T]
         /\ (s \o <<n>>)[Len(s) + 1] = n
         /\ Len(s) + 1 \in Nat \ {0}
<1>1. Append(s, n) = s \o <<n>>
  BY AppendIsConcat
<1>2. Append(s, n) \in Seq(T) /\ Len(Append(s, n)) = Len(s) + 1 /\ Append(s, n)[Len(s) + 1] = n
  BY AppendProperties
<1> DEFINE u == Append(s, n)
<1>4. u \in [1..(Len(s) + 1) -> T] /\ u[Len(s) + 1] = n
  <2>1. u \in Seq(T) /\ Len(u) = Len(s) + 1 /\ u[Len(s) + 1] = n
    BY <1>2
  <2> HIDE DEF u
  <2> QED BY <2>1
<1>3. Len(s) + 1 \in Nat \ {0}
  OBVIOUS
<1> QED BY <1>1, <1>3, <1>4, Zenon

\* Its last element is the one that was added.
LEMMA RankIsLast ==
  ASSUME NEW s, s \in Seq(Int), NEW n \in Int
  PROVE  EndsInRank(s \o <<n>>, Len(s) + 1, n)
<1>1. s \in Seq(Int) /\ n \in Int
  OBVIOUS
<1>2. /\ s \o <<n>> \in [1..(Len(s) + 1) -> Int]
      /\ (s \o <<n>>)[Len(s) + 1] = n
      /\ Len(s) + 1 \in Nat \ {0}
  BY <1>1, OneMore
<1> QED BY <1>2, Zenon DEF EndsInRank

\* The last part of a sort key is the rank of the name.
LEMMA KeysAre ==
  ASSUME NEW field \in SortFields, NEW name \in DOMAIN Disk, NEW row, row.ops \in Int, row.latency \in Int
  PROVE  EndsInRank(SortKey(field, name, row), KeyLength(field), Rank(name))
<1> DEFINE p == pressureRank(row.pressure)
           a == Missing(row.attributed)
           o == -row.ops
           w == Missing(row.writeAvailable)
           v == -Written(row)
           l == -row.latency
           n == Rank(name)
           k == SortKey(field, name, row)
           m == KeyLength(field)
<1>1. n \in Int
  BY NamesAreRanked
<1>2. p \in Int /\ a \in Int /\ o \in Int /\ w \in Int /\ v \in Int /\ l \in Int
  BY DEF pressureRank, Missing, Written
<1>3. /\ field = "pressure" => k = ((<<p>> \o <<a, o>>) \o <<w, v>>) \o <<n>>
      /\ field = "write" => k = <<w, v>> \o <<n>>
      /\ field = "ops" => k = <<a, o>> \o <<n>>
      /\ field = "latency" => k = <<a, l, n>>
      /\ field = "name" => k = <<n>>
  BY DEF SortKey
<1>4. /\ field = "pressure" => m = 6
      /\ field \in {"write", "ops", "latency"} => m = 3
      /\ field = "name" => m = 1
  BY DEF KeyLength
<1> HIDE DEF p, a, o, w, v, l, k, n, m
<1>5. ASSUME NEW i \in Int, NEW j \in Int PROVE EndsInRank(<<i, j>> \o <<n>>, 3, n)
  <2> DEFINE s == <<i, j>>
  <2>1. s \in Seq(Int) /\ Len(s) + 1 = 3
    OBVIOUS
  <2> HIDE DEF s
  <2>2. EndsInRank(s \o <<n>>, Len(s) + 1, n)
    BY <1>1, <2>1, RankIsLast, Zenon
  <2> QED BY <2>1, <2>2 DEF s
<1>6. ASSUME field = "pressure" PROVE EndsInRank(k, m, n)
  <2> DEFINE b == <<p>>
             c == <<a, o>>
             d == <<w, v>>
             s == b \o c
             t == s \o d
  <2>1. b \in Seq(Int) /\ c \in Seq(Int) /\ d \in Seq(Int) /\ Len(b) = 1 /\ Len(c) = 2 /\ Len(d) = 2
    BY <1>2
  <2>2. k = t \o <<n>>
    BY <1>3, <1>6, Zenon
  <2> HIDE DEF b, c, d
  <2>3. s \in Seq(Int) /\ Len(s) = Len(b) + Len(c)
    BY <2>1, Concatenated, Zenon
  <2> HIDE DEF s
  <2>4. t \in Seq(Int) /\ Len(t) = Len(s) + Len(d)
    BY <2>1, <2>3, Concatenated, Zenon
  <2> HIDE DEF t
  <2>5. EndsInRank(t \o <<n>>, Len(t) + 1, n)
    BY <1>1, <2>4, RankIsLast, Zenon
  <2>6. Len(t) + 1 = 6 /\ m = 6
    BY <1>4, <1>6, <2>1, <2>3, <2>4
  <2> QED BY <2>2, <2>5, <2>6, Zenon
<1>7. ASSUME field = "write" PROVE EndsInRank(k, m, n)
  <2>1. k = <<w, v>> \o <<n>> /\ m = 3
    BY <1>3, <1>4, <1>7
  <2> QED BY <1>2, <1>5, <2>1, Zenon
<1>8. ASSUME field = "ops" PROVE EndsInRank(k, m, n)
  <2>1. k = <<a, o>> \o <<n>> /\ m = 3
    BY <1>3, <1>4, <1>8
  <2> QED BY <1>2, <1>5, <2>1, Zenon
<1>9. ASSUME field = "latency" PROVE EndsInRank(k, m, n)
  <2>1. k = <<a, l, n>> /\ m = 3
    BY <1>3, <1>4, <1>9
  <2> QED BY <1>1, <1>2, <2>1 DEF EndsInRank
<1>10. ASSUME field = "name" PROVE EndsInRank(k, m, n)
  <2>1. k = <<n>> /\ m = 1
    BY <1>3, <1>4, <1>10
  <2> QED BY <1>1, <2>1 DEF EndsInRank
<1>11. EndsInRank(k, m, n)
  BY <1>6, <1>7, <1>8, <1>9, <1>10 DEF SortFields
<1> QED BY <1>11 DEF k, m, n

\* The rows are in the order, each of them once.
LEMMA SortedRows ==
  ASSUME NEW field \in SortFields, NEW rows, RowsOfDisk(rows)
  PROVE  sortRows(rows, field) \in Seq(DOMAIN rows)
<1> DEFINE S == DOMAIN rows
           m == KeyLength(field)
           k(name) == SortKey(field, name, rows[name])
           Before(name) == {other \in S : Precedes(k(other), k(name))}
           B == [name \in S |-> Before(name)]
           n == Cardinality(S)
<1>1. S \in SUBSET DOMAIN Disk /\ IsFiniteSet(S)
  <2>1. S \in SUBSET DOMAIN Disk
    BY DEF RowsOfDisk
  <2> QED BY <2>1, NamesAreRanked, FS_Subset
<1>2. \A name \in S : EndsInRank(k(name), m, Rank(name))
  <2>1. \A name \in S : name \in DOMAIN Disk /\ rows[name].ops \in Int /\ rows[name].latency \in Int
    BY DEF RowsOfDisk
  <2> QED BY <2>1, KeysAre, Zenon
<1> HIDE DEF k, m
<1>3. \A name \in S : k(name) \in [1..m -> Int] /\ m \in Nat /\ k(name)[m] = Rank(name)
  BY <1>2 DEF EndsInRank
<1>4. \A x, y \in S : x # y => k(x) # k(y)
  <2> SUFFICES ASSUME NEW x \in S, NEW y \in S, k(x) = k(y) PROVE x = y
    BY Zenon
  <2>1. Rank(x) = Rank(y)
    BY <1>3
  <2>2. VMNames[Rank(x)] = x /\ VMNames[Rank(y)] = y
    BY <1>1, NamesAreRanked
  <2> QED BY <2>1, <2>2
<1>5. Orders(S, B)
  <2>1. \A x, y \in S : y \in B[x] <=> Precedes(k(y), k(x))
    OBVIOUS
  <2>2. B \in [S -> SUBSET S]
    OBVIOUS
  <2> HIDE DEF B, S
  <2>3. ASSUME NEW x \in S PROVE x \notin B[x]
    BY <1>3, <2>1, KeysAreOrdered, Zenon
  <2>4. ASSUME NEW x \in S, NEW y \in S, x # y PROVE y \in B[x] \/ x \in B[y]
    <3>1. k(x) \in [1..m -> Int] /\ k(y) \in [1..m -> Int] /\ m \in Nat /\ k(x) # k(y)
      BY <1>3, <1>4, <2>4, Zenon
    <3>2. Precedes(k(x), k(y)) \/ Precedes(k(y), k(x))
      BY <3>1, KeysAreOrdered, Zenon
    <3> QED BY <2>1, <3>2, Zenon
  <2>5. ASSUME NEW x \in S, NEW y \in S, y \in B[x], NEW z \in B[y] PROVE z \in B[x]
    <3>1. z \in S
      BY <2>2, <2>5
    <3>2. k(x) \in [1..m -> Int] /\ k(y) \in [1..m -> Int] /\ k(z) \in [1..m -> Int] /\ m \in Nat
      BY <1>3, <3>1, Zenon
    <3>3. Precedes(k(z), k(y)) /\ Precedes(k(y), k(x))
      BY <2>1, <2>5, <3>1, Zenon
    <3>4. Precedes(k(z), k(x))
      BY <3>2, <3>3, KeysAreOrdered, Zenon
    <3> QED BY <2>1, <3>1, <3>4, Zenon
  <2> QED BY <2>2, <2>3, <2>4, <2>5, Zenon DEF Orders
<1>6. n \in Nat /\ \A i \in 1..n : \E x \in S : Cardinality(B[x]) = i - 1
  <2> HIDE DEF B, S
  <2> QED BY <1>1, <1>5, EveryPlaceIsTaken, Zenon DEF n
<1> DEFINE place(i) == CHOOSE x \in S : Cardinality(Before(x)) = i - 1
<1>7. \A i \in 1..n : place(i) \in S
  <2> TAKE i \in 1..n
  <2>1. \E x \in S : Cardinality(Before(x)) = i - 1
    <3>1. \A x \in S : B[x] = Before(x)
      OBVIOUS
    <3> HIDE DEF B, Before
    <3> QED BY <1>6, <3>1, Zenon
  <2> HIDE DEF Before
  <2> QED BY <2>1, Zenon
<1>8. sortRows(rows, field) = [i \in 1..n |-> place(i)]
  BY Zenon DEF sortRows, k
<1>9. [i \in 1..n |-> place(i)] \in Seq(S)
  <2> HIDE DEF place, n, S
  <2>1. [i \in 1..n |-> place(i)] \in [1..n -> S]
    BY <1>7
  <2> DEFINE F == [i \in 1..n |-> place(i)]
  <2>2. F \in [1..n -> S]
    BY <2>1
  <2> HIDE DEF F
  <2>3. F \in Seq(S)
    BY <1>6, <2>2, SeqFrom, Zenon
  <2> QED BY <2>3 DEF F
<1> QED BY <1>8, <1>9, Zenon

-----------------------------------------------------------------------------
(* The rows of a collection have numbers.                                  *)

\* A sum of one number, or of none.
LEMMA SumOfOne ==
  ASSUME NEW f, NEW x, NEW S, S \subseteq {x}, S # {} => f[x] \in Nat
  PROVE  SumFunctionOnSet(f, S) \in Nat
<1> DEFINE Some(s) == CHOOSE y \in s : TRUE
           body(g) == [s \in SUBSET S |-> IF s = {} THEN 0 ELSE f[Some(s)] + g[s \ {Some(s)}]]
           sum == CHOOSE g : g = body(g)
           g == [s \in SUBSET S |-> IF s = {} THEN 0 ELSE f[x]]
<1>1. \A s \in SUBSET S : s # {} => s = S /\ Some(s) = x /\ s \ {Some(s)} = {}
  OBVIOUS
<1>2. g = body(g)
  <2>1. ASSUME NEW s \in SUBSET S, s # {} PROVE f[x] = f[Some(s)] + g[s \ {Some(s)}]
    <3>1. Some(s) = x /\ s \ {Some(s)} = {} /\ f[x] \in Nat
      BY <1>1, <2>1
    <3>2. g[{}] = 0
      OBVIOUS
    <3> HIDE DEF g, Some
    <3>3. g[s \ {Some(s)}] = 0
      BY <3>1, <3>2, Zenon
    <3> QED BY <3>1, <3>3
  <2>2. \A s \in SUBSET S : g[s] = IF s = {} THEN 0 ELSE f[Some(s)] + g[s \ {Some(s)}]
    BY <2>1
  <2>3. g = [s \in SUBSET S |-> g[s]]
    OBVIOUS
  <2> HIDE DEF g, Some
  <2> QED BY <2>2, <2>3
<1>3. sum = body(sum)
  <2> HIDE DEF body, g
  <2> QED BY <1>2, Zenon
<1>4. SumFunctionOnSet(f, S) = sum[S]
  BY DEF SumFunctionOnSet, FoldFunctionOnSet, MapThenFoldSet
<1> HIDE DEF sum
<1>5. \A s \in SUBSET S : sum[s] = IF s = {} THEN 0 ELSE f[Some(s)] + sum[s \ {Some(s)}]
  <2> HIDE DEF Some
  <2> QED BY <1>3
<1>6. sum[{}] = 0
  BY <1>5
<1>7. S # {} => sum[S] = f[x]
  <2> SUFFICES ASSUME S # {} PROVE sum[S] = f[x]
    OBVIOUS
  <2>1. sum[S] = f[x] + sum[{}] /\ f[x] \in Nat
    BY <1>1, <1>5
  <2> QED BY <1>6, <2>1
<1> QED BY <1>4, <1>6, <1>7

\* A VM has a number of operations in the report, if it is in it.
LEMMA ReportNumbers ==
  ASSUME NEW world \in Worlds
  PROVE  /\ DOMAIN Report(world).ops \subseteq Listed(world)
         /\ \A name \in DOMAIN Report(world).ops : Report(world).ops[name] \in Int
<1> DEFINE kernel2 == world.kernel
           maps == Mappings(world)
           blank == newVMBlockLatencyReport(maps)
           summary == finish(kernel2, maps)
           whole == CollectVMBlockLatencyReport(kernel2, maps)
           r == Report(world)
<1>1. DOMAIN maps = Sampled(world) /\ (\A name \in Sampled(world) : maps[name] = {name}) /\ Sampled(world) \subseteq Listed(world)
  BY DEF Mappings, Sampled
<1>2. kernel2.operations \in [DOMAIN kernel2.operations -> Nat]
  BY ViewAssumption, Zenon
<1> HIDE DEF kernel2, maps
<1>3. DOMAIN blank.ops = DOMAIN maps /\ \A name \in DOMAIN maps : blank.ops[name] = 0
  BY DEF newVMBlockLatencyReport
<1>4. DOMAIN summary.ops = DOMAIN maps /\ \A name \in DOMAIN maps : summary.ops[name] = recordKernelCgroupOperation(kernel2, maps[name])
  BY DEF finish
<1>5. \A name \in DOMAIN maps : recordKernelCgroupOperation(kernel2, maps[name]) \in Nat
  <2> TAKE name \in DOMAIN maps
  <2> DEFINE S == maps[name] \cap DOMAIN kernel2.operations
  <2>1. S \subseteq {name} /\ (S # {} => kernel2.operations[name] \in Nat)
    BY <1>1, <1>2
  <2> HIDE DEF S
  <2>2. SumFunctionOnSet(kernel2.operations, S) \in Nat
    BY <2>1, SumOfOne, Zenon
  <2> QED BY <2>2 DEF recordKernelCgroupOperation, S
<1>6. whole.ops = blank.ops \/ whole.ops = summary.ops
  <2> DEFINE counted == [blank EXCEPT !.attributed = summary.attributed, !.unattributed = summary.unattributed,
                                      !.ops = summary.ops]
  <2>1. {"ops", "available", "quality", "attributed", "unattributed"} \subseteq DOMAIN blank
    BY DEF newVMBlockLatencyReport
  <2> DEFINE b == blank
             u == summary
  <2> HIDE DEF b, u
  <2>2. \A c : c = [b EXCEPT !.attributed = u.attributed, !.unattributed = u.unattributed, !.ops = u.ops] =>
           /\ c.ops = u.ops /\ [c EXCEPT !.available = TRUE].ops = u.ops
           /\ \A q : [c EXCEPT !.available = TRUE, !.quality = q].ops = u.ops
    BY <2>1 DEF b
  <2>3. /\ counted.ops = u.ops /\ [counted EXCEPT !.available = TRUE].ops = u.ops
        /\ \A q : [counted EXCEPT !.available = TRUE, !.quality = q].ops = u.ops
    BY <2>2, Zenon DEF b, u
  <2>4. \/ whole = blank \/ whole = counted \/ whole = [counted EXCEPT !.available = TRUE]
        \/ \E q : whole = [counted EXCEPT !.available = TRUE, !.quality = q]
    BY Zenon DEF CollectVMBlockLatencyReport
  <2> HIDE DEF counted, whole, blank
  <2> QED BY <2>3, <2>4, Zenon DEF u
<1>7. r = NoReport \/ r.ops = whole.ops
  <2>1. CASE world.kernel.status \in UnpreparedStates
    BY <2>1, Zenon DEF Report
  <2>2. CASE world.kernel.status \notin UnpreparedStates
    <3> HIDE DEF whole
    <3>1. r = [given |-> TRUE, available |-> whole.available,
               status |-> IF whole.available THEN "available" ELSE "permission_denied",
               quality |-> whole.quality, enabled |-> world.kernel.status = "attributed", ops |-> whole.ops]
      BY <2>2 DEF Report, whole, kernel2, maps
    <3> HIDE DEF r
    <3> QED BY <3>1
  <2> QED BY <2>1, <2>2
<1>8. DOMAIN NoReport.ops = {}
  BY DEF NoReport, Empty
<1> HIDE DEF r, whole, blank, summary
<1>9. CASE r = NoReport
  BY <1>8, <1>9 DEF r
<1>10. CASE r.ops = whole.ops
  <2>1. DOMAIN whole.ops = DOMAIN maps /\ \A name \in DOMAIN maps : whole.ops[name] \in Int
    BY <1>3, <1>4, <1>5, <1>6
  <2>2. DOMAIN r.ops \subseteq Listed(world) /\ \A name \in DOMAIN r.ops : r.ops[name] \in Int
    BY <1>1, <1>10, <2>1
  <2> QED BY <2>2 DEF r
<1> QED BY <1>7, <1>9, <1>10

\* A row with numbers.
Numbered(row) == {"ops", "latency"} \subseteq DOMAIN row /\ row.ops \in Int /\ row.latency \in Int

\* The rows that a collection makes have numbers.
LEMMA RowsNumbered ==
  /\ Numbered(VMRow)
  /\ \A vm : Numbered(InventoryRow(vm))
  /\ \A row : Numbered(row) => /\ \A status : Numbered(StatusRow(row, status))
                               /\ \A snapshot : Numbered(RequestedRow(row, snapshot))
                               /\ \A report, attribution, name, latency :
                                    report.ops[name] \in Int /\ latency \in Int =>
                                      Numbered(AttributedRow(row, report, attribution, name, latency))
<1>1. Numbered(VMRow)
  BY DEF Numbered, VMRow
<1>2. ASSUME NEW vm PROVE Numbered(InventoryRow(vm))
  <2> DEFINE s == normalizedVMState(vm.state)
             row == InventoryRow(vm)
             p == IF s \in {"running", "unknown"} THEN "unavailable" ELSE "not_running"
             t == stateForVMState(vm.state)
             b == s = "running"
  <2>1. row = [VMRow EXCEPT !.state = s, !.running = b, !.pressure = p, !.attribution = t]
    BY Zenon DEF InventoryRow
  <2> HIDE DEF s, row, p, t, b
  <2>2. Numbered(row)
    BY <2>1 DEF Numbered, VMRow
  <2> QED BY <2>2 DEF row
<1>3. ASSUME NEW row, Numbered(row), NEW status PROVE Numbered(StatusRow(row, status))
  <2>1. StatusRow(row, status).ops = row.ops /\ StatusRow(row, status).latency = row.latency
        /\ DOMAIN StatusRow(row, status) = DOMAIN row
    BY <1>3 DEF StatusRow, Numbered
  <2> QED BY <1>3, <2>1, Zenon DEF Numbered
<1>4. ASSUME NEW row, Numbered(row), NEW snapshot PROVE Numbered(RequestedRow(row, snapshot))
  <2>1. RequestedRow(row, snapshot).ops = row.ops /\ RequestedRow(row, snapshot).latency = row.latency
        /\ DOMAIN RequestedRow(row, snapshot) = DOMAIN row
    BY <1>4 DEF RequestedRow, Numbered
  <2> QED BY <1>4, <2>1, Zenon DEF Numbered
<1>5. ASSUME NEW row, Numbered(row), NEW report, NEW attribution, NEW name, NEW latency,
             report.ops[name] \in Int, latency \in Int
      PROVE  Numbered(AttributedRow(row, report, attribution, name, latency))
  <2> DEFINE u == AttributedRow(row, report, attribution, name, latency)
             n == report.ops[name]
             t == IF report.ops[name] > 0 THEN report.quality ELSE "no_attributed_events"
             h == report.quality
  <2>1. u = IF attribution.available THEN [row EXCEPT !.attributed = TRUE, !.ops = n, !.latency = latency, !.attribution = t]
            ELSE [row EXCEPT !.attribution = h]
    BY Zenon DEF AttributedRow
  <2>2. n \in Int
    BY <1>5
  <2> HIDE DEF u, n, t, h
  <2>3. DOMAIN u = DOMAIN row /\ (u.ops = n \/ u.ops = row.ops) /\ (u.latency = latency \/ u.latency = row.latency)
    BY <1>5, <2>1 DEF Numbered
  <2>4. Numbered(u)
    BY <1>5, <2>2, <2>3 DEF Numbered
  <2> QED BY <2>4 DEF u
<1> QED BY <1>1, <1>2, <1>3, <1>4, <1>5, Zenon

\* A collection shows VMs that are known, with numbers.
LEMMA CollectedOfDisk ==
  ASSUME NEW world \in Worlds, NEW requested
  PROVE  RowsOfDisk(Rows(Collect(world, requested)))
<1> DEFINE snapshot == Collect(world, requested)
           attribution == AttributionView(snapshot)
           Listing(name) == IF name \in DOMAIN snapshot.inventory THEN InventoryRow(snapshot.inventory[name]) ELSE VMRow
           Measured(name) == IF name \in DOMAIN snapshot.status THEN StatusRow(Listing(name), snapshot.status[name]) ELSE Listing(name)
           Asked(name) == RequestedRow(Measured(name), snapshot)
           Row(name) == IF name \in DOMAIN snapshot.report.ops
                        THEN AttributedRow(Asked(name), snapshot.report, attribution, name, snapshot.inventory[name].latency)
                        ELSE Asked(name)
           names == DOMAIN snapshot.inventory \cup DOMAIN snapshot.status
<1>1. Rows(snapshot) = [name \in names |-> Row(name)]
  BY Zenon DEF Rows
<1>2. DOMAIN snapshot.inventory = Listed(world) /\ \A name \in Listed(world) : snapshot.inventory[name] = world.vms[name]
  BY DEF Collect
<1>3. DOMAIN snapshot.status \subseteq DOMAIN Disk /\ Listed(world) \subseteq DOMAIN Disk
  <2>1. snapshot.status = IF world.status THEN StatusReport(world) ELSE Empty
    BY DEF Collect
  <2>2. DOMAIN StatusReport(world) = Sampled(world) /\ Sampled(world) \subseteq Listed(world) /\ Listed(world) \subseteq DOMAIN Disk
    BY DEF StatusReport, Sampled, Listed
  <2>3. DOMAIN Empty = {}
    BY DEF Empty
  <2> HIDE DEF snapshot
  <2> QED BY <2>1, <2>2, <2>3
<1>4. /\ DOMAIN snapshot.report.ops \subseteq Listed(world)
      /\ \A name \in DOMAIN snapshot.report.ops : snapshot.report.ops[name] \in Int
  <2>1. snapshot.report = IF requested THEN Report(world) ELSE NoReport
    BY DEF Collect
  <2>2. DOMAIN NoReport.ops = {}
    BY DEF NoReport, Empty
  <2> HIDE DEF snapshot
  <2>3. CASE requested
    BY <2>1, <2>3, ReportNumbers
  <2>4. CASE ~requested
    BY <2>1, <2>2, <2>4
  <2> QED BY <2>3, <2>4
<1>5. \A name \in Listed(world) : world.vms[name].latency \in Int
  <2>1. \A name \in DOMAIN Disk : world.vms[name].latency \in Nat
    BY ViewAssumption, Zenon
  <2> QED BY <1>3, <2>1
<1> HIDE DEF snapshot, attribution
<1>6. ASSUME NEW name \in names PROVE Numbered(Row(name))
  <2>1. Numbered(Listing(name))
    BY RowsNumbered, Zenon
  <2> HIDE DEF Listing
  <2>2. Numbered(Measured(name))
    BY <2>1, RowsNumbered, Zenon
  <2> HIDE DEF Measured
  <2>3. Numbered(Asked(name))
    BY <2>2, RowsNumbered, Zenon
  <2> HIDE DEF Asked
  <2>4. CASE name \in DOMAIN snapshot.report.ops
    <3>1. snapshot.report.ops[name] \in Int /\ snapshot.inventory[name].latency \in Int
      BY <1>2, <1>4, <1>5, <2>4
    <3>2. Numbered(AttributedRow(Asked(name), snapshot.report, attribution, name, snapshot.inventory[name].latency))
      BY <2>3, <3>1, RowsNumbered, Zenon
    <3> QED BY <2>4, <3>2, Zenon
  <2>5. CASE name \notin DOMAIN snapshot.report.ops
    BY <2>3, <2>5, Zenon
  <2> QED BY <2>4, <2>5
<1>7. names \subseteq DOMAIN Disk
  BY <1>2, <1>3
<1> HIDE DEF Row, names
<1>8. RowsOfDisk(Rows(snapshot))
  <2>1. DOMAIN Rows(snapshot) = names /\ \A name \in names : Rows(snapshot)[name] = Row(name)
    BY <1>1
  <2>2. \A name \in names : Row(name).ops \in Int /\ Row(name).latency \in Int
    BY <1>6, Zenon DEF Numbered
  <2> QED BY <1>7, <2>1, <2>2 DEF RowsOfDisk
<1> QED BY <1>8 DEF snapshot

-----------------------------------------------------------------------------
(* The stages that neither take the keys nor loop.                         *)
LEMMA CalmLiterals ==
  ASSUME NEW y, y \in {"raw", "loop"}
  PROVE  /\ Lacks(PlanStages, y) /\ Lacks(TargetStages, y) /\ Lacks(<<"single">>, y) /\ Lacks(<<"formats", "probe">>, y)
         /\ Lacks(<<"probe">>, y) /\ Lacks(<<"probe", "write">>, y)
         /\ Lacks(<<"write">>, y) /\ Lacks(<<"sample">>, y) /\ Lacks(<<"save">>, y) /\ Lacks(<<"services">>, y)
         /\ Lacks(<<"load">>, y) /\ Lacks(<<"explain">>, y) /\ Lacks(<<"open">>, y)
         /\ Lacks(<<"sample", "write">>, y) /\ Lacks(<<"save", "write">>, y) /\ Lacks(<<"sample", "diagnose">>, y)
         /\ Lacks(runInspect, y) /\ Lacks(runInventory, y) /\ Lacks(runExperimentSummary, y)
         /\ Lacks(runIncidentExplanation, y) /\ Lacks(runHostStatus, y) /\ Lacks(runObserveSnapshot, y)
         /\ Lacks(<<"inventory", "sample", "sort", "write">>, y)
         /\ Lacks(loadGuestTarget, y) /\ Lacks(loadDatabaseTarget, y) /\ Lacks(Ask, y)
<1>1. Lacks(PlanStages, y) /\ Lacks(TargetStages, y) /\ Lacks(<<"single">>, y) /\ Lacks(<<"formats", "probe">>, y)
  BY DEF Lacks, PlanStages, TargetStages, StageNames
<1>2. Lacks(<<"probe">>, y) /\ Lacks(<<"probe", "write">>, y)
  BY DEF Lacks, StageNames
<1>3. Lacks(<<"write">>, y) /\ Lacks(<<"sample">>, y) /\ Lacks(<<"save">>, y) /\ Lacks(<<"services">>, y)
  BY DEF Lacks, StageNames
<1>4. Lacks(<<"load">>, y) /\ Lacks(<<"explain">>, y) /\ Lacks(<<"open">>, y)
  BY DEF Lacks, StageNames
<1>5. Lacks(<<"sample", "write">>, y) /\ Lacks(<<"save", "write">>, y) /\ Lacks(<<"sample", "diagnose">>, y)
  BY DEF Lacks, StageNames
<1>6. Lacks(runInspect, y) /\ Lacks(runInventory, y) /\ Lacks(runExperimentSummary, y)
  BY DEF Lacks, StageNames, runInspect, runInventory, runExperimentSummary
<1>7. Lacks(runIncidentExplanation, y) /\ Lacks(runHostStatus, y)
  BY DEF Lacks, StageNames, runIncidentExplanation, runHostStatus
<1>8. Lacks(runObserveSnapshot, y) /\ Lacks(<<"inventory", "sample", "sort", "write">>, y)
  BY DEF Lacks, StageNames, runObserveSnapshot
<1>9. Lacks(loadGuestTarget, y) /\ Lacks(loadDatabaseTarget, y) /\ Lacks(Ask, y)
  BY DEF Lacks, StageNames, loadGuestTarget, loadDatabaseTarget, Ask
<1> QED BY <1>1, <1>2, <1>3, <1>4, <1>5, <1>6, <1>7, <1>8, <1>9, Zenon

\* A loop takes no keys.
LEMMA LoopsLack ==
  Lacks(<<"loop">>, "raw") /\ Lacks(<<"header", "loop">>, "raw")
BY DEF Lacks, StageNames

\* Neither does the evidence.
LEMMA EvidenceCalm ==
  ASSUME NEW r, NEW y, y \in {"raw", "loop"}
  PROVE  Lacks(runNoisyNeighborDiagnosis(r), y) /\ Lacks(runCaptureCommand(r), y)
<1> DEFINE report == Text(r, "--report-dir") # ""
           load == If(report, <<"load">>)
           before == If(report /\ ~Discovers(r), <<"explain">>)
           probe == If(EBPF(r), <<"probe">>)
           after == If(report /\ Discovers(r), <<"explain">>)
           s1 == load \o before
           s2 == s1 \o PlanStages
           s3 == s2 \o probe
           s4 == s3 \o <<"sample", "diagnose">>
           s5 == s4 \o after
           save == If({"--output", "--output-dir"} \cap r.seen # {}, <<"save">>)
<1>1. EvidenceStages(r) = s5
  BY Zenon DEF EvidenceStages
<1>2. /\ Lacks(load, y) /\ Lacks(before, y) /\ Lacks(PlanStages, y) /\ Lacks(probe, y)
      /\ Lacks(<<"sample", "diagnose">>, y) /\ Lacks(after, y) /\ Lacks(save, y)
      /\ Lacks(<<"write">>, y) /\ Lacks(<<"save", "write">>, y)
  BY CalmLiterals, IfLacks, Zenon
<1> HIDE DEF load, before, probe, after, s5
<1>3. Lacks(s5, y)
  <2>2. Lacks(s1, y)
    BY <1>2, LacksBoth, Zenon
  <2> HIDE DEF s1
  <2>3. Lacks(s2, y)
    BY <1>2, <2>2, LacksBoth, Zenon
  <2> HIDE DEF s2
  <2>4. Lacks(s3, y)
    BY <1>2, <2>3, LacksBoth, Zenon
  <2> HIDE DEF s3
  <2>5. Lacks(s4, y)
    BY <1>2, <2>4, LacksBoth, Zenon
  <2> HIDE DEF s4
  <2> QED BY <1>2, <2>5, LacksBoth, Zenon DEF s5
<1>4. runNoisyNeighborDiagnosis(r) = (s5 \o save) \o <<"write">> /\ runCaptureCommand(r) = s5 \o <<"save", "write">>
  BY <1>1, Zenon DEF runNoisyNeighborDiagnosis, runCaptureCommand
<1> HIDE DEF save
<1>5. Lacks(s5 \o save, y)
  BY <1>2, <1>3, LacksBoth, Zenon
<1>6. Lacks((s5 \o save) \o <<"write">>, y) /\ Lacks(s5 \o <<"save", "write">>, y)
  BY <1>2, <1>3, <1>5, LacksBoth, Zenon
<1> QED BY <1>4, <1>6, Zenon

\* Stages that do not take the keys.
Keyless(s) == Lacks(s, "raw")

\* Only top takes the keys.
LEMMA KeysAreForTop ==
  ASSUME NEW name \in Accepted, NEW r, name # <<"top">>
  PROVE  Keyless(Stages(name, r))
<1>0. \A s, t : Keyless(s) /\ Keyless(t) => Keyless(s \o t)
  BY LacksBoth, Zenon DEF Keyless
<1>00. \A c, s : Keyless(s) => Keyless(If(c, s))
  BY IfLacks, Zenon DEF Keyless
<1>01. /\ Keyless(PlanStages) /\ Keyless(TargetStages) /\ Keyless(<<"single">>) /\ Keyless(<<"formats", "probe">>)
       /\ Keyless(<<"probe">>) /\ Keyless(<<"probe", "write">>) /\ Keyless(<<"write">>) /\ Keyless(<<"sample">>) /\ Keyless(<<"save">>) /\ Keyless(<<"services">>)
       /\ Keyless(<<"open">>) /\ Keyless(<<"sample", "write">>) /\ Keyless(runInspect) /\ Keyless(runInventory) /\ Keyless(runExperimentSummary)
       /\ Keyless(runIncidentExplanation) /\ Keyless(runHostStatus) /\ Keyless(runObserveSnapshot)
       /\ Keyless(<<"inventory", "sample", "sort", "write">>) /\ Keyless(loadGuestTarget) /\ Keyless(loadDatabaseTarget) /\ Keyless(Ask)
       /\ Keyless(<<"loop">>) /\ Keyless(<<"header", "loop">>) /\ Keyless(runNoisyNeighborDiagnosis(r)) /\ Keyless(runCaptureCommand(r))
  BY CalmLiterals, LoopsLack, EvidenceCalm, Zenon DEF Keyless
<1>1. ASSUME name \in {<<"version">>, <<"doctor">>, <<"ebpf", "doctor">>, <<"ebpf", "block-watch">>,
                       <<"ebpf", "block-events">>, <<"ebpf", "block-count">>}
      PROVE  Keyless(Stages(name, r))
  BY <1>1, <1>01, StagesAre, Zenon
<1>2. ASSUME name \in {<<"inventory">>, <<"inspect">>, <<"host">>, <<"observe", "snapshot">>, <<"experiment">>,
                       <<"incidents">>, <<"watch">>, <<"diagnose">>, <<"capture">>}
      PROVE  Keyless(Stages(name, r))
  BY <1>2, <1>01, StagesAre, Zenon
<1>3. CASE name = <<"vm">>
  <2>1. Keyless((TargetStages \o <<"sample">>) \o If("--output" \in r.seen, <<"save">>))
    BY <1>0, <1>00, <1>01, Zenon
  <2>2. Keyless(runVMStorageStats(r))
    BY <2>1, <1>0, <1>01, Zenon DEF runVMStorageStats
  <2> QED BY <1>3, <2>2, StagesAre, Zenon
<1>4. CASE name = <<"observe", "watch">>
  <2>1. Keyless(runObserveWatch(r))
    BY <1>0, <1>00, <1>01, Zenon DEF runObserveWatch
  <2> QED BY <1>4, <2>1, StagesAre, Zenon
<1>5. CASE name = <<"status">>
  <2>1. Keyless(runStatus(r))
    BY <1>01, Zenon DEF runStatus
  <2> QED BY <1>5, <2>1, StagesAre, Zenon
<1>6. CASE name = <<"trace">>
  <2>1. Keyless(runTracePlan)
    BY <1>0, <1>01, Zenon DEF runTracePlan
  <2> QED BY <1>6, <2>1, StagesAre, Zenon
<1>7. CASE name \in {<<"storage", "snapshot">>, <<"storage", "watch">>}
  <2>1. Keyless(PlanStages \o <<"sample">>)
    BY <1>0, <1>01, Zenon
  <2>2. Keyless(runStorageCommand(name[2]))
    BY <2>1, <1>0, <1>01, Zenon DEF runStorageCommand
  <2> QED BY <1>7, <2>2, StagesAre, Zenon
<1>8. CASE name = <<"qemu", "io-watch">>
  <2>1. Keyless(runQEMUIOWatch)
    BY <1>0, <1>01, Zenon DEF runQEMUIOWatch
  <2> QED BY <1>8, <2>1, StagesAre, Zenon
<1>9. CASE name = <<"qemu", "io-summary">>
  <2>1. Keyless(runQEMUIOSummary)
    BY <1>0, <1>01, Zenon DEF runQEMUIOSummary
  <2> QED BY <1>9, <2>1, StagesAre, Zenon
<1>10. CASE name = <<"ebpf", "block-latency">>
  <2>1. Keyless(If(Text(r, "--victim") # "", PlanStages \o <<"single">>) \o <<"probe", "write">>)
    BY <1>0, <1>00, <1>01, Zenon
  <2> QED BY <1>10, <2>1, StagesAre, Zenon
<1>11. CASE name = <<"ebpf", "vm-block-latency">>
  <2>1. Keyless((TargetStages \o <<"probe">>) \o If("--output" \in r.seen, <<"save">>))
    BY <1>0, <1>00, <1>01, Zenon
  <2>2. Keyless(runEBPFVMBlockLatency(r))
    BY <2>1, <1>0, <1>01, Zenon DEF runEBPFVMBlockLatency
  <2> QED BY <1>11, <2>2, StagesAre, Zenon
<1>12. CASE name \in {<<"guest">>, <<"service">>, <<"db">>}
  <2>1. Keyless(loadGuestTarget \o <<"services">>)
    BY <1>0, <1>01, Zenon
  <2>2. Keyless(runGuestStatus) /\ Keyless(runServiceStatus) /\ Keyless(runDBStatus)
    BY <2>1, <1>0, <1>01, Zenon DEF runGuestStatus, runServiceStatus, runDBStatus
  <2> QED BY <1>12, <2>2, StagesAre, Zenon
<1>13. name \in {<<"version">>, <<"doctor">>, <<"ebpf", "doctor">>, <<"ebpf", "block-watch">>,
                 <<"ebpf", "block-events">>, <<"ebpf", "block-count">>, <<"inventory">>,
                 <<"inspect">>, <<"host">>, <<"observe", "snapshot">>, <<"experiment">>, <<"incidents">>, <<"watch">>,
                 <<"diagnose">>, <<"capture">>,
                 <<"vm">>, <<"observe", "watch">>, <<"status">>, <<"trace">>, <<"storage", "snapshot">>,
                 <<"storage", "watch">>, <<"qemu", "io-watch">>, <<"qemu", "io-summary">>,
                 <<"ebpf", "block-latency">>, <<"ebpf", "vm-block-latency">>, <<"guest">>, <<"service">>, <<"db">>}
  BY Zenon DEF Accepted, TwoWordCommands
<1> QED
  BY <1>1, <1>2, <1>3, <1>4, <1>5, <1>6, <1>7, <1>8, <1>9, <1>10, <1>11, <1>12, <1>13, Zenon

-----------------------------------------------------------------------------
(* What is on the screen, and what is marked.                              *)

\* The order that a monitor is told to begin with is one that it has.
LEMMA ValuesAreSeen ==
  ASSUME NEW T, NEW g, NEW args, args \in Seq(T), parseOptions(g, args).ok
  PROVE  DOMAIN parseOptions(g, args).value \subseteq parseOptions(g, args).seen
<1>1. PICK a : /\ Reads(T, g, args, a)
               /\ parseOptions(g, args) = a[Len(args)]
               /\ \A i \in 0..Len(args) : a[i].ok
  BY ParseAccepts, Zenon
<1> DEFINE S == {i \in Nat : i <= Len(args) => DOMAIN a[i].value \subseteq a[i].seen}
<1>2. 0 \in S
  <2>1. a[0] = Nothing
    BY <1>1, Zenon DEF Reads
  <2>2. DOMAIN Nothing.value = {}
    BY NothingIs, Zenon
  <2> QED BY <2>1, <2>2
<1>3. \A n \in Nat : n \in S => n + 1 \in S
  <2> SUFFICES ASSUME NEW n \in Nat, n \in S, n + 1 <= Len(args) PROVE DOMAIN a[n + 1].value \subseteq a[n + 1].seen
    OBVIOUS
  <2> DEFINE s == a[n]
             u == a[n + 1]
             t == args[n + 1]
  <2>1. n + 1 \in 1..Len(args) /\ (n + 1) - 1 = n /\ DOMAIN s.value \subseteq s.seen
    OBVIOUS
  <2>2. /\ s \in ParserStates(T) /\ u \in ParserStates(T)
        /\ TakesValue(g, s, t, u) \/ TakesBoolean(g, s, t, u) \/ TakesName(g, s, t, u)
    <3>1. \A i \in 1..Len(args) : /\ a[i - 1] \in ParserStates(T) /\ a[i] \in ParserStates(T)
                                  /\ \/ TakesValue(g, a[i - 1], args[i], a[i])
                                     \/ TakesBoolean(g, a[i - 1], args[i], a[i])
                                     \/ TakesName(g, a[i - 1], args[i], a[i])
      BY <1>1, ReadStep, Zenon
    <3> QED BY <2>1, <3>1
  <2> HIDE DEF s, u, t
  <2>3. CASE TakesValue(g, s, t, u)
    <3> DEFINE v == [o \in DOMAIN s.value \cup {s.pending} |-> IF o = s.pending THEN t ELSE s.value[o]]
    <3>1. u = [s EXCEPT !.pending = "", !.seen = @ \cup {s.pending}, !.value = v]
      BY <2>3 DEF TakesValue
    <3>2. DOMAIN v = DOMAIN s.value \cup {s.pending}
      OBVIOUS
    <3> HIDE DEF v
    <3>3. u.seen = s.seen \cup {s.pending} /\ u.value = v
      BY <2>2, <3>1 DEF ParserStates
    <3>4. DOMAIN u.value \subseteq u.seen
      BY <2>1, <3>2, <3>3
    <3> QED BY <3>4 DEF u
  <2>4. CASE TakesBoolean(g, s, t, u)
    <3>1. u.seen = s.seen \cup {t.option} /\ u.value = s.value
      BY <2>2, <2>4 DEF TakesBoolean, ParserStates
    <3>2. DOMAIN u.value \subseteq u.seen
      BY <2>1, <3>1
    <3> QED BY <3>2 DEF u
  <2>5. CASE TakesName(g, s, t, u)
    <3>1. u.seen = s.seen /\ u.value = s.value
      BY <2>2, <2>5 DEF TakesName, ParserStates
    <3>2. DOMAIN u.value \subseteq u.seen
      BY <2>1, <3>1
    <3> QED BY <3>2 DEF u
  <2> QED BY <2>2, <2>3, <2>4, <2>5
<1>4. \A m \in Nat : m \in S
  <2> HIDE DEF S
  <2> QED BY <1>2, <1>3, SetInduction
<1>5. Len(args) \in Nat
  OBVIOUS
<1> QED BY <1>1, <1>4, <1>5

\* top is only accepted with an order that the dashboard has.
LEMMA TopSorts ==
  ASSUME NEW T, NEW args, args \in Seq(T), Name(args) = <<"top">>, Parse(args).ok
  PROVE  Sort(Parse(args)) \in SortFields
<1> DEFINE g == Grammar({"--include-ebpf-latency", "--application"} \cup ClearOptions,
                        {"--duration", "--interval", "--every", "--ui-refresh"}, {"--iterations"}, {"--sort"})
           rest == SubSeq(args, 2, Len(args))
           r == parseOptions(g, rest)
           c == /\ r.ok /\ StartsWith(args, <<"top">>) /\ ValidSort(r, TopSortFields)
                /\ Given(r, "--ui-refresh", 1) >= 1 /\ IntervalFits(r, 30, 10) /\ ~(ClearOptions \subseteq r.seen)
<1>1. Parse(args) = parseTopArgs(args)
  <2>1. args # <<>>
    BY Zenon DEF Name
  <2> QED BY <2>1 DEF Parse
<1>2. parseTopArgs(args) = Require(r, c)
  BY Zenon DEF parseTopArgs
<1>3. rest \in Seq(T)
  OBVIOUS
<1> HIDE DEF g, rest
<1>4. c /\ Parse(args) = r
  <2> HIDE DEF r, c
  <2> QED BY <1>1, <1>2, RequireIs, Zenon
<1>5. DOMAIN r.value \subseteq r.seen
  BY <1>3, <1>4, ValuesAreSeen, Zenon
<1> HIDE DEF r
<1>6. "--sort" \in r.seen => Text(r, "--sort") \in SortFields
  BY <1>4 DEF ValidSort, TopSortFields, SortFields
<1>7. Text(r, "--sort") # "" => "--sort" \in r.seen
  BY <1>5 DEF Text
<1>8. Sort(r) \in SortFields
  BY <1>6, <1>7 DEF Sort, SortFields
<1> QED BY <1>4, <1>8, Zenon

\* The rows are of known VMs and have numbers, the order is of the rows, the
\* marked row is in it, and a monitor that takes keys has an order.
TakesKeys == "raw" \in terminal \/ \E i \in 1..Len(todo) : todo[i] = "raw"

ShownInv ==
  /\ {"rows", "order"} \subseteq DOMAIN view /\ {"sort", "selected"} \subseteq DOMAIN state
  /\ RowsOfDisk(view.rows) /\ view.order \in Seq(DOMAIN view.rows)
  /\ view.order # <<>> => state.selected \in ToSet(view.order)
  /\ phase = "run" /\ TakesKeys => state.sort \in SortFields

\* The row that is marked is one of the rows.
LEMMA SelectionStays ==
  ASSUME NEW T, NEW order \in Seq(T), order # <<>>, NEW selected
  PROVE  /\ retainedSelection(order, selected) \in ToSet(order)
         /\ \A delta \in Int : moveSelection(order, selected, delta) \in ToSet(order)
<1>1. Len(order) \in Nat \ {0} /\ DOMAIN order = 1..Len(order) /\ 1 \in DOMAIN order
  BY EmptySeq
<1>2. \A i \in DOMAIN order : order[i] \in ToSet(order)
  BY DEF ToSet
<1>3. retainedSelection(order, selected) \in ToSet(order)
  <2>1. CASE selected \in ToSet(order)
    BY <2>1, Zenon DEF retainedSelection
  <2>2. CASE selected \notin ToSet(order)
    BY <1>1, <1>2, <2>2, Zenon DEF retainedSelection
  <2> QED BY <2>1, <2>2
<1>4. ASSUME NEW delta \in Int PROVE moveSelection(order, selected, delta) \in ToSet(order)
  <2> DEFINE index == IF selected \in ToSet(order) THEN CHOOSE i \in DOMAIN order : order[i] = selected ELSE 1
  <2>1. index \in DOMAIN order
    <3>1. selected \in ToSet(order) => \E i \in DOMAIN order : order[i] = selected
      BY DEF ToSet
    <3> QED BY <1>1, <3>1
  <2>2. moveSelection(order, selected, delta) = order[((index - 1 + delta) % Len(order)) + 1]
    BY DEF moveSelection
  <2> HIDE DEF index
  <2>3. ((index - 1 + delta) % Len(order)) + 1 \in DOMAIN order
    BY <1>1, <2>1
  <2> QED BY <1>2, <2>2, <2>3, Zenon
<1> QED BY <1>3, <1>4

\* Nothing is shown yet.
LEMMA NothingShown ==
  ASSUME view' = NoView, NEW field, NEW application, state' = interactiveState(field, application),
         (phase = "run" /\ TakesKeys)' => field \in SortFields
  PROVE  ShownInv'
<1>1. {"rows", "order"} \subseteq DOMAIN NoView /\ NoView.order = <<>> /\ DOMAIN NoView.rows = {}
  BY DEF NoView, Empty
<1>2. /\ {"sort", "selected"} \subseteq DOMAIN interactiveState(field, application)
      /\ interactiveState(field, application).sort = field
  BY DEF interactiveState
<1>3. RowsOfDisk(NoView.rows) /\ NoView.order \in Seq(DOMAIN NoView.rows)
  BY <1>1, EmptySeq DEF RowsOfDisk
<1> QED BY <1>1, <1>2, <1>3 DEF ShownInv

\* The screen stays as it is, and no keys are taken that were not.
LEMMA ScreenStays ==
  ASSUME ShownInv, UNCHANGED screen, (phase = "run" /\ TakesKeys)' => phase = "run" /\ TakesKeys
  PROVE  ShownInv'
<1>1. view' = view /\ state' = state
  BY DEF screen
<1> QED BY <1>1 DEF ShownInv

\* Nothing is shown when the process starts.
LEMMA ShownInit == SessionInit => ShownInv
<1> SUFFICES ASSUME SessionInit PROVE ShownInv
  OBVIOUS
<1>1. view = NoView /\ state = interactiveState("name", FALSE) /\ phase = "start"
  BY DEF SessionInit, ViewInit, Init
<1>2. {"rows", "order"} \subseteq DOMAIN NoView /\ NoView.order = <<>> /\ DOMAIN NoView.rows = {}
  BY DEF NoView, Empty
<1>3. {"sort", "selected"} \subseteq DOMAIN interactiveState("name", FALSE)
  BY DEF interactiveState
<1>4. RowsOfDisk(NoView.rows) /\ NoView.order \in Seq(DOMAIN NoView.rows)
  BY <1>2, EmptySeq DEF RowsOfDisk
<1> QED BY <1>1, <1>2, <1>3, <1>4 DEF ShownInv

\* A command is dispatched: only top is given the keys, in an order that it has.
LEMMA ShownStarts ==
  ASSUME SessionInv, AskedInv, Starts
  PROVE  ShownInv'
<1> DEFINE rewritten == Read(line)
           args == rewritten.args
           r == Parse(args)
           T == Tokens \cup Composed(Resolve(line).settings.root)
           field == Sort(command'.options)
           application == "--application" \in command'.options.on
<1>1. Run /\ view' = NoView /\ state' = interactiveState(field, application)
  BY Zenon DEF Starts, Opens
<1>2. (phase = "run" /\ TakesKeys)' => field \in SortFields
  <2> SUFFICES ASSUME phase' = "run", TakesKeys' PROVE field \in SortFields
    OBVIOUS
  <2>1. /\ rewritten.ok /\ ~rewritten.help /\ r.ok /\ phase = "start" /\ terminal' = terminal
        /\ command' = [name |-> Name(args), options |-> r, settings |-> rewritten.settings]
        /\ todo' = Stages(Name(args), r)
    BY <1>1 DEF Run
  <2>2. line \in Seq(Tokens)
    BY LineTyped DEF AskedInv
  <2>3. line \in Seq(T) /\ Composed(Resolve(line).settings.root) \subseteq T
    BY <2>2
  <2>4. args \in Seq(T)
    <3> HIDE DEF T
    <3> QED BY <2>1, <2>3, ReadKeeps, Zenon
  <2>5. Name(args) \in Accepted
    BY <2>1, OthersAreRefused, Zenon
  <2>6. command'.options = r
    <3> HIDE DEF args, r, rewritten
    <3> QED BY <2>1
  <2> HIDE DEF args, r, rewritten, T
  <2>7. terminal' = {}
    BY <2>1 DEF SessionInv, TerminalIsDeferred
  <2>8. ~Keyless(todo')
    BY <2>7 DEF TakesKeys, Keyless, Lacks
  <2>9. Name(args) = <<"top">>
    BY <2>1, <2>5, <2>8, KeysAreForTop, Zenon
  <2>10. Sort(r) \in SortFields
    BY <2>1, <2>4, <2>9, TopSorts, Zenon DEF r
  <2> QED BY <2>6, <2>10
<1> HIDE DEF field, application
<1> QED BY <1>1, <1>2, NothingShown

\* A stage ends: what was shown in it is gone.
LEMMA ShownLeft ==
  ASSUME ShownInv, Left, (phase = "run" /\ TakesKeys)' => phase = "run" /\ TakesKeys
  PROVE  ShownInv'
<1>1. CASE Watching
  <2>1. view' = NoView /\ state' = interactiveState("name", FALSE)
    BY <1>1 DEF Left, Opens
  <2> QED BY <2>1, NothingShown DEF SortFields
<1>2. CASE ~Watching
  <2>1. UNCHANGED screen
    BY <1>2 DEF Left
  <2> QED BY <2>1, ScreenStays
<1> QED BY <1>1, <1>2

\* A stage is performed: only the monitor's shows a screen.
LEMMA ShownPerforms ==
  ASSUME ShownInv, AskedInv, Performs
  PROVE  ShownInv'
<1>1. Left /\ phase' = phase /\ todo # <<>> /\ todo' = Tail(todo) /\ terminal' = Switched(Head(todo)) /\ phase = "run"
  BY DEF Performs, Perform
<1>2. TakesKeys' => TakesKeys
  <2>1. todo \in Seq(StageNames)
    BY DEF AskedInv
  <2>2. Head(todo) = todo[1] /\ 1 \in 1..Len(todo)
    BY <1>1, <2>1, EmptySeq
  <2>3. \A i \in 1..Len(todo') : i + 1 \in 1..Len(todo) /\ todo'[i] = todo[i + 1]
    BY <1>1, <2>1
  <2>4. terminal' \subseteq terminal \cup {todo[1]}
    BY <1>1, <2>2 DEF Switched
  <2> QED BY <2>2, <2>3, <2>4 DEF TakesKeys
<1> QED BY <1>1, <1>2, ShownLeft

\* A stage fails, and its screen is left.
LEMMA ShownFails ==
  ASSUME ShownInv, Fails
  PROVE  ShownInv'
<1>1. Left /\ phase' = phase /\ todo' = <<>> /\ terminal' = terminal /\ phase = "run"
  BY DEF Fails, Fail
<1>2. TakesKeys' => TakesKeys
  BY <1>1 DEF TakesKeys
<1> QED BY <1>1, <1>2, ShownLeft

\* The command ends.
LEMMA ShownEnds ==
  ASSUME ShownInv, Ends
  PROVE  ShownInv'
<1>1. UNCHANGED screen
  BY DEF Ends
<1>2. (phase = "run" /\ TakesKeys)' => phase = "run" /\ TakesKeys
  <2>1. ASSUME NEW works \in BOOLEAN, Undo(works) PROVE phase' = phase /\ todo' = todo /\ terminal' \subseteq terminal
    BY <2>1 DEF Undo
  <2>2. CASE \E works \in BOOLEAN : Undo(works)
    BY <2>1, <2>2 DEF TakesKeys
  <2>3. CASE End
    BY <2>3 DEF End
  <2>4. CASE Ended
    BY <2>4 DEF Ended, vars, TakesKeys
  <2> QED BY <2>2, <2>3, <2>4 DEF Ends
<1> QED BY <1>1, <1>2, ScreenStays

\* A key moves what is marked along the order, or sorts the rows anew.
LEMMA ShownKey ==
  ASSUME ShownInv, NEW action, applyInteractiveAction(action), UNCHANGED vars
  PROVE  ShownInv'
<1>0. phase' = phase /\ (TakesKeys' <=> TakesKeys)
  BY DEF vars, TakesKeys
<1>1. CASE action \in SortFields /\ view' = [view EXCEPT !.order = sortRows(view.rows, action)]
           /\ state' = [state EXCEPT !.sort = action, !.selected = retainedSelection(sortRows(view.rows, action), state.selected)]
  <2> DEFINE order == sortRows(view.rows, action)
             chosen == retainedSelection(order, state.selected)
  <2>1. order \in Seq(DOMAIN view.rows)
    BY <1>1, SortedRows, Zenon DEF ShownInv
  <2>2. order # <<>> => chosen \in ToSet(order)
    BY <2>1, SelectionStays, Zenon
  <2>3. view' = [view EXCEPT !.order = order] /\ state' = [state EXCEPT !.sort = action, !.selected = chosen]
    BY <1>1
  <2> HIDE DEF order, chosen
  <2>4. /\ {"rows", "order"} \subseteq DOMAIN view' /\ view'.order = order /\ view'.rows = view.rows
        /\ {"sort", "selected"} \subseteq DOMAIN state' /\ state'.sort = action /\ state'.selected = chosen
    BY <2>3 DEF ShownInv
  <2> QED BY <1>1, <2>1, <2>2, <2>4 DEF ShownInv
<1>2. CASE action \in {"up", "down"} /\ view' = view
           /\ state' = [state EXCEPT !.selected = moveSelection(view.order, state.selected, IF action = "up" THEN -1 ELSE 1)]
  <2> DEFINE delta == IF action = "up" THEN -1 ELSE 1
             chosen == moveSelection(view.order, state.selected, delta)
  <2>1. delta \in Int
    OBVIOUS
  <2> HIDE DEF delta
  <2>2. view.order # <<>> => chosen \in ToSet(view.order)
    BY <2>1, SelectionStays, Zenon DEF ShownInv
  <2>3. view' = view /\ state' = [state EXCEPT !.selected = chosen]
    BY <1>2 DEF delta
  <2> HIDE DEF chosen
  <2>4. {"sort", "selected"} \subseteq DOMAIN state' /\ state'.sort = state.sort /\ state'.selected = chosen
    BY <2>3 DEF ShownInv
  <2> QED BY <1>0, <2>2, <2>3, <2>4 DEF ShownInv
<1>3. CASE view' = view /\ state' = [state EXCEPT !.help = ~@]
  <2>1. {"sort", "selected"} \subseteq DOMAIN state' /\ state'.sort = state.sort /\ state'.selected = state.selected
    BY <1>3 DEF ShownInv
  <2> QED BY <1>0, <1>3, <2>1 DEF ShownInv
<1>4. CASE view' = view /\ state' = [state EXCEPT !.panel = Opened(@, action)]
  <2>1. {"sort", "selected"} \subseteq DOMAIN state' /\ state'.sort = state.sort /\ state'.selected = state.selected
    BY <1>4 DEF ShownInv
  <2> QED BY <1>0, <1>4, <2>1 DEF ShownInv
<1> QED BY <1>1, <1>2, <1>3, <1>4, Zenon DEF applyInteractiveAction

\* A collection is shown in the order in force.
LEMMA ShownReceived ==
  ASSUME ShownInv, Watching, NEW world \in Worlds, NEW requested, Received(world, requested), UNCHANGED vars
  PROVE  ShownInv'
<1> DEFINE snapshot == Collect(world, requested)
           rows == Rows(snapshot)
           order == sortRows(rows, state.sort)
           next == BuildView(snapshot, state.sort)
           chosen == retainedSelection(order, state.selected)
<1>1. phase' = phase /\ (TakesKeys' <=> TakesKeys) /\ state.sort \in SortFields
  BY DEF vars, TakesKeys, Watching, Stage, ShownInv
<1>2. RowsOfDisk(rows)
  BY CollectedOfDisk, Zenon
<1> HIDE DEF rows
<1>3. order \in Seq(DOMAIN rows)
  BY <1>1, <1>2, SortedRows, Zenon
<1> HIDE DEF order
<1>4. order # <<>> => chosen \in ToSet(order)
  BY <1>3, SelectionStays, Zenon
<1>5. {"rows", "order"} \subseteq DOMAIN next /\ next.rows = rows /\ next.order = order
  BY DEF BuildView, rows, order
<1> HIDE DEF chosen, next
<1>6. view' = next /\ state' = [state EXCEPT !.selected = retainedSelection(next.order, @)]
  BY Zenon DEF Received, next
<1>7. state' = [state EXCEPT !.selected = chosen]
  BY <1>5, <1>6 DEF chosen
<1>8. {"sort", "selected"} \subseteq DOMAIN state' /\ state'.sort = state.sort /\ state'.selected = chosen
  BY <1>7 DEF ShownInv
<1> QED BY <1>1, <1>2, <1>3, <1>4, <1>5, <1>6, <1>8 DEF ShownInv

\* Every step keeps what is shown and marked consistent.
LEMMA ShownStep ==
  ASSUME ShownInv, SessionInv, AskedInv, [SessionNext]_sessionVars
  PROVE  ShownInv'
<1>1. CASE Starts
  BY <1>1, ShownStarts
<1>2. CASE Performs
  BY <1>2, ShownPerforms
<1>3. CASE Fails
  BY <1>3, ShownFails
<1>4. CASE Ends
  BY <1>4, ShownEnds
<1>5. CASE Shows
  <2>1. Watching /\ UNCHANGED vars
    BY <1>5 DEF Shows
  <2>2. CASE KeyPressed
    BY <2>1, <2>2, ShownKey, Zenon DEF KeyPressed
  <2>3. CASE \E world \in Worlds : Received(world, EBPF(command.options))
    BY <2>1, <2>3, ShownReceived, Zenon
  <2> QED BY <1>5, <2>2, <2>3 DEF Shows
<1>6. ASSUME UNCHANGED <<vars, screen>> PROVE ShownInv'
  <2>1. (phase = "run" /\ TakesKeys)' => phase = "run" /\ TakesKeys
    BY <1>6 DEF vars, TakesKeys
  <2> QED BY <1>6, <2>1, ScreenStays
<1>7. CASE Traces
  BY <1>6, <1>7 DEF Traces
<1>8. CASE UNCHANGED sessionVars
  BY <1>6, <1>8 DEF sessionVars
<1> QED BY <1>1, <1>2, <1>3, <1>4, <1>5, <1>7, <1>8, Zenon DEF SessionNext

-----------------------------------------------------------------------------
(* The command lines that the dashboard composes.                          *)

\* A parser that has read some arguments and waits for the next option.
ReadTo(T, g, args, s) ==
  args \in Seq(T) /\ s \in ParserStates(T) /\ s = After(T, g, Nothing, args) /\ Ready(g, s)

\* Nothing was read.
LEMMA ReadNone ==
  ASSUME NEW T, NEW g
  PROVE  ReadTo(T, g, <<>>, Nothing)
<1>1. Nothing \in ParserStates(T) /\ After(T, g, Nothing, <<>>) = Nothing
  BY NothingIs, AfterNone, Zenon
<1>2. Nothing.ok /\ Nothing.pending = "" /\ Nothing.seen = {}
  BY NothingIs, Zenon
<1> QED BY <1>1, <1>2, EmptySeq DEF ReadTo, Ready

\* What a parser has read is what it says.
LEMMA ReadAll ==
  ASSUME NEW T, NEW g, NEW args, NEW s, ReadTo(T, g, args, s)
  PROVE  parseOptions(g, args) = s
<1>1. args \in Seq(T) /\ s = After(T, g, Nothing, args) /\ s.ok /\ s.pending = ""
  BY Zenon DEF ReadTo, Ready
<1>2. parseOptions(g, args) = Completed(After(T, g, Nothing, args))
  BY <1>1, ParseIs, Zenon
<1> QED BY <1>1, <1>2, Zenon DEF Completed

\* It reads one more option, with or without a value.
Switches(s, o, w) == w.seen = s.seen \cup {o} /\ w.on = s.on \cup {o} /\ w.value = s.value
Assigns(s, o, t, w) ==
  /\ w.seen = s.seen \cup {o} /\ w.on = s.on
  /\ w.value = [p \in DOMAIN s.value \cup {o} |-> IF p = o THEN t ELSE s.value[p]]

\* A parser reads one group of arguments more.
LEMMA OneGroup ==
  ASSUME NEW T, NEW g, Proper(g), NEW args, NEW s, ReadTo(T, g, args, s), NEW x, IsGroup(T, x), Good(g, s, x)
  PROVE  ReadTo(T, g, args \o x, With(s, x)) /\ IsWith(T, g, s, x, With(s, x))
<1>1. args \in Seq(T) /\ s \in ParserStates(T) /\ s = After(T, g, Nothing, args) /\ Ready(g, s) /\ x \in Seq(T)
  BY Zenon DEF ReadTo, IsGroup
<1>2. IsWith(T, g, s, x, With(s, x))
  BY <1>1, WithIs, Zenon
<1>3. After(T, g, s, x) = With(s, x)
  <2>1. Good(g, s, x) => After(T, g, s, x) = With(s, x)
    BY <1>1, GroupRead
  <2> QED BY <2>1, Zenon
<1>4. Nothing \in ParserStates(T)
  BY NothingIs, Zenon
<1>5. After(T, g, Nothing, args \o x) = After(T, g, After(T, g, Nothing, args), x)
  <2> DEFINE n == Nothing
  <2>1. n \in ParserStates(T) /\ args \in Seq(T) /\ x \in Seq(T)
    BY <1>1, <1>4, Zenon
  <2> HIDE DEF n
  <2>2. After(T, g, n, args \o x) = After(T, g, After(T, g, n, args), x)
    BY <2>1, AfterBoth
  <2> QED BY <2>2, Zenon DEF n
<1>6. args \o x \in Seq(T)
  BY <1>1, Concatenated, Zenon
<1> QED BY <1>1, <1>2, <1>3, <1>5, <1>6, Zenon DEF ReadTo, IsWith

\* A boolean option, alone.
LEMMA ThenFlag ==
  ASSUME NEW T, NEW g, Proper(g), NEW args, NEW s, ReadTo(T, g, args, s),
         NEW o, o \in g.booleans, o \notin s.seen, Option(o) \in T
  PROVE  \E w : ReadTo(T, g, args \o <<Option(o)>>, w) /\ Switches(s, o, w)
<1> DEFINE x == <<Option(o)>>
           t == Option(o)
<1>1. t \in T /\ t.option = o /\ t.form = "bare" /\ o # ""
  BY WordIs DEF Proper
<1>2. x \in Seq(T) /\ Len(x) = 1 /\ x[1] = t
  OBVIOUS
<1> HIDE DEF x, t
<1>3. IsGroup(T, x)
  BY <1>1, <1>2 DEF IsGroup, IsWord
<1>4. Good(g, s, x)
  BY <1>1, <1>2 DEF Good, Takes, Fresh
<1>5. ReadTo(T, g, args \o x, With(s, x)) /\ IsWith(T, g, s, x, With(s, x))
  BY <1>3, <1>4, OneGroup, Zenon
<1>6. Switches(s, o, With(s, x))
  BY <1>1, <1>2, <1>5, Zenon DEF IsWith, Switches
<1> QED BY <1>5, <1>6, Zenon DEF x, t

\* Two arguments, and four put together.
LEMMA TwoOf ==
  ASSUME NEW T, NEW u \in T, NEW t \in T
  PROVE  <<u, t>> \in Seq(T) /\ Len(<<u, t>>) = 2 /\ <<u, t>>[1] = u /\ <<u, t>>[2] = t
OBVIOUS

\* A sequence with one element after it.
LEMMA OneAfter ==
  ASSUME NEW T, NEW a \in Seq(T), NEW b \in Seq(T), NEW t \in T, Len(b) = Len(a) + 1,
         \A k \in 1..Len(a) : b[k] = a[k], b[Len(a) + 1] = t
  PROVE  a \o <<t>> = b
<1> DEFINE c == a \o <<t>>
<1>1. c \in Seq(T) /\ Len(c) = Len(a) + 1 /\ c[Len(a) + 1] = t /\ \A k \in 1..Len(a) : c[k] = a[k]
  BY AppendIsConcat, AppendProperties
<1>2. Len(c) = Len(b) /\ Len(a) \in Nat
  BY <1>1
<1> HIDE DEF c
<1>3. \A k \in 1..Len(c) : c[k] = b[k]
  BY <1>1, <1>2
<1>4. c = b
  BY <1>1, <1>2, <1>3, SeqEqual
<1> QED BY <1>4 DEF c

\* Four arguments, put together as the dashboard does.
LEMMA FourOf ==
  ASSUME NEW T, NEW p \in T, NEW q \in T, NEW r \in T, NEW t \in T
  PROVE  ((<<>> \o <<p, q>>) \o <<r>>) \o <<t>> = <<p, q, r, t>>
<1> DEFINE a == <<p, q>>
           b == <<p, q, r>>
           c == <<p, q, r, t>>
<1>1. a \in Seq(T) /\ b \in Seq(T) /\ c \in Seq(T)
  OBVIOUS
<1>2. <<>> \o a = a
  BY <1>1, ConcatEmptySeq
<1>3. a \o <<r>> = b
  <2>1. Len(b) = Len(a) + 1 /\ b[Len(a) + 1] = r /\ \A k \in 1..Len(a) : b[k] = a[k]
    OBVIOUS
  <2> HIDE DEF a, b
  <2> QED BY <1>1, <2>1, OneAfter
<1>4. b \o <<t>> = c
  <2>1. Len(c) = Len(b) + 1 /\ c[Len(b) + 1] = t /\ \A k \in 1..Len(b) : c[k] = b[k]
    OBVIOUS
  <2> HIDE DEF b, c
  <2> QED BY <1>1, <2>1, OneAfter
<1> QED BY <1>2, <1>3, <1>4, Zenon DEF a, b, c

\* An option and the word after it.
LEMMA ThenValue ==
  ASSUME NEW T, NEW g, Proper(g), NEW args, NEW s, ReadTo(T, g, args, s),
         NEW o, o \in Valued(g), o \notin s.seen, Option(o) \in T,
         NEW t \in T, IsWord(t), t.text # "", AcceptsValue(g, o, t)
  PROVE  \E w : ReadTo(T, g, args \o <<Option(o), t>>, w) /\ Assigns(s, o, t, w)
<1> DEFINE u == Option(o)
           x == <<u, t>>
<1>1. u \in T /\ u.option = o /\ u.form = "bare" /\ o # ""
  BY WordIs DEF Proper
<1> HIDE DEF u
<1>2. x \in Seq(T) /\ Len(x) = 2 /\ x[1] = u /\ x[2] = t
  BY <1>1, TwoOf, Zenon
<1> HIDE DEF x
<1>3. IsGroup(T, x)
  BY <1>1, <1>2 DEF IsGroup, IsWord
<1>4. Good(g, s, x)
  BY <1>1, <1>2 DEF Good, Takes, Fresh, Repeated
<1>5. ReadTo(T, g, args \o x, With(s, x)) /\ IsWith(T, g, s, x, With(s, x))
  BY <1>3, <1>4, OneGroup, Zenon
<1>6. Assigns(s, o, t, With(s, x))
  BY <1>1, <1>2, <1>5, Zenon DEF IsWith, Assigns
<1> QED BY <1>5, <1>6, Zenon DEF x, u

\* The words of the command come first.
Leads(T, a, b, rest, args) ==
  /\ args \in Seq(T) /\ args # <<>> /\ Len(args) \in Nat /\ Len(args) >= 2 /\ args[1] = Word(a) /\ args[2] = Word(b)
  /\ SubSeq(args, 3, Len(args)) = rest /\ StartsWith(args, <<a, b>>)

\* The two words of a command, and its options.
LEMMA Leading ==
  ASSUME NEW T, NEW a, NEW b, Word(a) \in T, Word(b) \in T, NEW rest \in Seq(T)
  PROVE  Leads(T, a, b, rest, Words(<<a, b>>) \o rest)
<1> DEFINE w == Words(<<a, b>>)
           args == w \o rest
           p == Word(a)
           q == Word(b)
<1>1. w = <<p, q>> /\ p \in T /\ q \in T
  BY DEF Words
<1> HIDE DEF w, p, q
<1>10. w \in Seq(T) /\ Len(w) = 2 /\ w[1] = p /\ w[2] = q
  BY <1>1
<1>2. w \in Seq(T) /\ Len(w) = 2 /\ w[1] = Word(a) /\ w[2] = Word(b)
  BY <1>10, Zenon DEF p, q
<1>3. /\ args \in Seq(T) /\ Len(args) = Len(w) + Len(rest) /\ Len(rest) \in Nat
      /\ \A k \in 1..Len(w) : args[k] = w[k]
  <2>1. Len(rest) \in Nat
    OBVIOUS
  <2>2. /\ args \in Seq(T) /\ Len(args) = Len(w) + Len(rest)
        /\ \A k \in 1..Len(w) : args[k] = w[k]
    BY <1>2, Concatenated, Zenon
  <2> QED BY <2>1, <2>2, Zenon
<1>4. SubSeq(args, 1, Len(w)) = w /\ SubSeq(args, Len(w) + 1, Len(args)) = rest
  BY <1>2, PartsOf, Zenon
<1>5. Len(<<a, b>>) = 2
  OBVIOUS
<1> HIDE DEF args
<1>6. /\ args \in Seq(T) /\ args # <<>> /\ Len(args) \in Nat /\ Len(args) >= 2 /\ args[1] = Word(a) /\ args[2] = Word(b)
  BY <1>2, <1>3
<1>7. SubSeq(args, 3, Len(args)) = rest
  BY <1>2, <1>4
<1>8. StartsWith(args, <<a, b>>)
  BY <1>2, <1>4, <1>5, <1>6 DEF StartsWith, w
<1>9. Leads(T, a, b, rest, args)
  BY <1>6, <1>7, <1>8, Zenon DEF Leads
<1> QED BY <1>9 DEF args, w

\* What the words and the options are that the dashboard uses.
LaunchTokens(vm, root) ==
  {Word(vm), Word(root), Word("noisy-neighbor"), Word("diagnose"), Word("capture"), Word("watch"), Word("observe"),
   Word("snapshot"), Option("--victim"), Option("--discover-suspects"), Option("--include-ebpf-latency"),
   Option("--output-dir"), Option("--json"), Option("--window"), Option("--every"), Option("--iterations"),
   Duration("5s", 50), Duration("7s", 70), Number("3", 3)}

VictimLine(vm) ==
  <<Option("--victim"), Word(vm), Option("--discover-suspects"), Option("--include-ebpf-latency")>>

\* The victim, and the probes that are asked for.
IsVictim(s, vm) ==
  /\ s.seen = {"--victim", "--discover-suspects", "--include-ebpf-latency"}
  /\ s.on = {"--discover-suspects", "--include-ebpf-latency"}
  /\ DOMAIN s.value = {"--victim"} /\ s.value["--victim"] = Word(vm)

\* The victim, the discovery and the probes are read.
LEMMA VictimRead ==
  ASSUME NEW vm, vm # "", NEW root, NEW g, Proper(g), {"--discover-suspects", "--include-ebpf-latency"} \subseteq g.booleans,
         "--victim" \in g.texts, "--victim" \notin g.durations \cup g.counts
  PROVE  \E s : ReadTo(LaunchTokens(vm, root), g, VictimLine(vm), s) /\ IsVictim(s, vm)
<1> DEFINE T == LaunchTokens(vm, root)
           a == <<Option("--victim"), Word(vm)>>
           b == <<Option("--discover-suspects")>>
           c == <<Option("--include-ebpf-latency")>>
<1>1. /\ Option("--victim") \in T /\ Word(vm) \in T /\ Option("--discover-suspects") \in T
      /\ Option("--include-ebpf-latency") \in T
  BY Zenon DEF LaunchTokens
<1> HIDE DEF T
<1>2. ReadTo(T, g, <<>>, Nothing) /\ Nothing.seen = {} /\ Nothing.on = {} /\ DOMAIN Nothing.value = {}
  BY ReadNone, NothingIs, Zenon
<1>3. PICK s1 : ReadTo(T, g, <<>> \o a, s1) /\ Assigns(Nothing, "--victim", Word(vm), s1)
  <2>1. IsWord(Word(vm)) /\ Word(vm).text # ""
    BY WordIs, Zenon
  <2>2. "--victim" \in Valued(g) /\ AcceptsValue(g, "--victim", Word(vm)) /\ "--victim" \notin Nothing.seen
    BY <1>2, <2>1 DEF Valued, AcceptsValue
  <2> HIDE DEF a
  <2> QED BY <1>1, <1>2, <2>1, <2>2, ThenValue, Zenon DEF a
<1>4. s1.seen = {"--victim"} /\ s1.on = {} /\ DOMAIN s1.value = {"--victim"} /\ s1.value["--victim"] = Word(vm)
  BY <1>2, <1>3 DEF Assigns
<1>5. PICK s2 : ReadTo(T, g, (<<>> \o a) \o b, s2) /\ Switches(s1, "--discover-suspects", s2)
  <2>1. "--discover-suspects" \in g.booleans /\ "--discover-suspects" \notin s1.seen
    BY <1>4
  <2> HIDE DEF a, b
  <2> QED BY <1>1, <1>3, <2>1, ThenFlag, Zenon DEF b
<1>6. PICK s3 : ReadTo(T, g, ((<<>> \o a) \o b) \o c, s3) /\ Switches(s2, "--include-ebpf-latency", s3)
  <2>1. "--include-ebpf-latency" \in g.booleans /\ "--include-ebpf-latency" \notin s2.seen
    BY <1>4, <1>5 DEF Switches
  <2> HIDE DEF a, b, c
  <2> QED BY <1>1, <1>5, <2>1, ThenFlag, Zenon DEF c
<1>7. ((<<>> \o a) \o b) \o c = VictimLine(vm)
  <2> DEFINE p == Option("--victim")
             q == Word(vm)
             r == Option("--discover-suspects")
             t == Option("--include-ebpf-latency")
  <2>1. p \in T /\ q \in T /\ r \in T /\ t \in T
    BY <1>1, Zenon
  <2>2. a = <<p, q>> /\ b = <<r>> /\ c = <<t>> /\ VictimLine(vm) = <<p, q, r, t>>
    BY Zenon DEF VictimLine
  <2> HIDE DEF p, q, r, t, a, b, c
  <2>3. ((<<>> \o <<p, q>>) \o <<r>>) \o <<t>> = <<p, q, r, t>>
    BY <2>1, FourOf, Zenon
  <2> QED BY <2>2, <2>3, Zenon
<1>8. IsVictim(s3, vm)
  BY <1>4, <1>5, <1>6 DEF Switches, IsVictim
<1> QED BY <1>6, <1>7, <1>8 DEF T

-----------------------------------------------------------------------------
(* What the dashboard launches, one workflow after another.                *)

\* The arguments of each workflow.
DiagnoseLine(vm) == Words(<<"diagnose", "noisy-neighbor">>) \o VictimLine(vm)
CaptureLine(vm, root) == (Words(<<"capture", "noisy-neighbor">>) \o VictimLine(vm)) \o <<Option("--output-dir"), Word(root)>>
TimesLine == <<Option("--window"), Duration("5s", 50), Option("--every"), Duration("7s", 70)>>
WatchLine(vm) == ((Words(<<"watch", "noisy-neighbor">>) \o VictimLine(vm)) \o TimesLine) \o watchLimit
ObserveLine(vm) == (Words(<<"observe", "snapshot">>) \o VictimLine(vm)) \o <<Option("--json")>>

\* Whether a workflow is launched with these arguments.
Launches(workflow, vm, root, args) == topLaunchArgs(workflow, vm, root) = Rewritten(args)

\* What is launched for a VM.
LEMMA VMWorkflowsLaunch ==
  ASSUME NEW vm, vm # "", NEW root
  PROVE  /\ Launches("investigate", vm, root, DiagnoseLine(vm)) /\ Launches("bundle", vm, root, CaptureLine(vm, root))
         /\ Launches("watch", vm, root, WatchLine(vm)) /\ Launches("observe", vm, root, ObserveLine(vm))
<1>1. Launches("investigate", vm, root, DiagnoseLine(vm))
  BY DEF Launches, topLaunchArgs, DiagnoseLine, VictimLine, VMWorkflows
<1>2. Launches("bundle", vm, root, CaptureLine(vm, root))
  BY DEF Launches, topLaunchArgs, CaptureLine, VictimLine, VMWorkflows
<1>3. Launches("watch", vm, root, WatchLine(vm))
  BY DEF Launches, topLaunchArgs, WatchLine, TimesLine, VictimLine, VMWorkflows
<1>4. Launches("observe", vm, root, ObserveLine(vm))
  BY DEF Launches, topLaunchArgs, ObserveLine, VictimLine, VMWorkflows
<1> QED BY <1>1, <1>2, <1>3, <1>4, Zenon

\* What is launched for the host.
LEMMA HostWorkflowsLaunch ==
  ASSUME NEW vm, NEW root
  PROVE  /\ Launches("ebpf_doctor", vm, root, Words(<<"ebpf", "doctor">>))
         /\ \A w \in {"doctor", "inventory", "status", "version"} : Launches(w, vm, root, <<Word(w)>>)
<1>1. Launches("ebpf_doctor", vm, root, Words(<<"ebpf", "doctor">>))
  BY DEF Launches, topLaunchArgs, VMWorkflows
<1>2. ASSUME NEW w \in {"doctor", "inventory", "status", "version"} PROVE Launches(w, vm, root, <<Word(w)>>)
  BY DEF Launches, topLaunchArgs, VMWorkflows
<1> QED BY <1>1, <1>2

\* What a command line says, is about the VM and does not loop for ever.
IsBounded(workflow, vm, args, r) ==
  /\ workflow \in VMWorkflows => Text(r, "--victim") = vm
  /\ "loop" \in ToSet(runStages(Name(args), r)) => Given(r, "--iterations", 0) > 0

\* What has to be shown of the arguments of a workflow.
LEMMA BoundedLaunch ==
  ASSUME NEW workflow, NEW vm, NEW root, NEW args, Launches(workflow, vm, root, args),
         Parse(args).ok, IsBounded(workflow, vm, args, Parse(args))
  PROVE  LaunchIsBounded(workflow, vm, root)
<1> DEFINE l == topLaunchArgs(workflow, vm, root)
           p == Parse(args)
<1>1. l.ok /\ l.args = args
  BY DEF Launches, Rewritten
<1>2. \A launched \in {l} : \A r \in {Parse(launched.args)} : launched.ok /\ launched.args = args /\ r = p
  BY <1>1
<1>3. p.ok /\ IsBounded(workflow, vm, args, p)
  OBVIOUS
<1> HIDE DEF l, p
<1>4. \A launched \in {l} : \A r \in {Parse(launched.args)} :
        launched.ok /\ launched.args = args /\ r.ok /\ IsBounded(workflow, vm, launched.args, r)
  BY <1>2, <1>3, Zenon
<1> QED BY <1>4, Zenon DEF LaunchIsBounded, IsBounded, l

\* The name of a command is its first words.
LEMMA LeadingName ==
  ASSUME NEW T, NEW a, NEW b, NEW rest, NEW args, Leads(T, a, b, rest, args)
  PROVE  Name(args) = (IF <<a, b>> \in TwoWordCommands THEN <<a, b>> ELSE <<a>>) /\ IsNoisyNeighbor(args) = (b = "noisy-neighbor")
<1>1. args # <<>> /\ Len(args) >= 2 /\ args[1] = Word(a) /\ args[2] = Word(b)
  BY Zenon DEF Leads
<1>2. Word(a).text = a /\ Word(b).text = b /\ Word("noisy-neighbor").text = "noisy-neighbor"
  BY WordIs, Zenon
<1>3. <<args[1].text, args[2].text>> = <<a, b>> /\ args[1].text = a
  BY <1>1, <1>2, Zenon
<1>4. Name(args) = (IF <<a, b>> \in TwoWordCommands THEN <<a, b>> ELSE <<a>>)
  BY <1>1, <1>3, Zenon DEF Name
<1>5. IsNoisyNeighbor(args) = (b = "noisy-neighbor")
  BY <1>1, <1>2, Zenon DEF IsNoisyNeighbor
<1> QED BY <1>4, <1>5, Zenon

\* Which commands have two words.
LEMMA CommandNames ==
  /\ <<"diagnose", "noisy-neighbor">> \notin TwoWordCommands /\ <<"capture", "noisy-neighbor">> \notin TwoWordCommands
  /\ <<"watch", "noisy-neighbor">> \notin TwoWordCommands
  /\ <<"observe", "snapshot">> \in TwoWordCommands /\ <<"ebpf", "doctor">> \in TwoWordCommands
BY DEF TwoWordCommands

\* Stages that are quiet do not loop.
LEMMA NoLoopIn ==
  ASSUME NEW s, Lacks(s, "loop")
  PROVE  "loop" \notin ToSet(s)
<1>1. s \in Seq(StageNames) /\ \A i \in 1..Len(s) : s[i] # "loop"
  BY Zenon DEF Lacks
<1>2. ToSet(s) = {s[i] : i \in 1..Len(s)}
  BY <1>1 DEF ToSet
<1>3. \A e \in ToSet(s) : \E i \in 1..Len(s) : e = s[i]
  BY <1>2
<1>4. ASSUME "loop" \in ToSet(s) PROVE FALSE
  <2>1. PICK i \in 1..Len(s) : "loop" = s[i]
    BY <1>3, <1>4
  <2> QED BY <1>1, <2>1
<1> QED BY <1>4

\* What the parser of diagnose and capture knows.
TargetGrammar(json) ==
  [Grammar({"--discover-suspects"} \cup {"--include-ebpf-latency"} \cup (IF json THEN {"--json"} ELSE {}),
           {"--duration", "--interval"}, {},
           {"--victim", "--suspect"} \cup {"--report-dir"} \cup {"--output", "--output-dir"})
     EXCEPT !.byValue = {"--victim", "--suspect", "--report-dir"}]

\* It knows the options of the dashboard.
LEMMA TargetGrammarIs ==
  ASSUME NEW json \in BOOLEAN
  PROVE  LET g == TargetGrammar(json) IN
         /\ Proper(g) /\ {"--discover-suspects", "--include-ebpf-latency"} \subseteq g.booleans
         /\ "--victim" \in g.texts /\ "--output-dir" \in Valued(g) /\ g.filled = {}
         /\ {"--victim", "--output-dir"} \cap (g.durations \cup g.counts) = {}
BY DEF TargetGrammar, Grammar, Proper, Valued

\* A victim whose suspect is to be found is enough for it.
LEMMA TargetParsed ==
  ASSUME NEW args, NEW json, NEW r, r = parseOptions(TargetGrammar(json), SubSeq(args, 3, Len(args))), r.ok,
         Text(r, "--victim") # "", Text(r, "--suspect") = "", "--discover-suspects" \in r.on, "--output" \notin r.seen,
         IntervalFits(r, 100, 20)
  PROVE  parseTimedTargetOptions(args, 100, 20, TRUE, TRUE, TRUE, TRUE, json) = r
<1>1. OneSuspect(r) /\ ~({"--output", "--output-dir"} \subseteq r.seen)
  BY Zenon DEF OneSuspect
<1> DEFINE c == /\ r.ok
                /\ Text(r, "--victim") # ""
                /\ OneSuspect(r)
                /\ Text(r, "--suspect") # "" \/ "--discover-suspects" \in r.on
                /\ ~({"--output", "--output-dir"} \subseteq r.seen)
                /\ IntervalFits(r, 100, 20)
<1>2. c
  BY <1>1, Zenon
<1>3. parseTimedTargetOptions(args, 100, 20, TRUE, TRUE, TRUE, TRUE, json) = Require(r, c)
  BY DEF parseTimedTargetOptions, TargetGrammar
<1> HIDE DEF c
<1> QED BY <1>2, <1>3, Zenon DEF Require

\* What a parser that has read the victim, and perhaps more, says of it.
SaysVictim(r, vm, more) ==
  /\ r.ok /\ r.seen = {"--victim", "--discover-suspects", "--include-ebpf-latency"} \cup more
  /\ "--discover-suspects" \in r.on
  /\ DOMAIN r.value \subseteq {"--victim"} \cup more /\ "--victim" \in DOMAIN r.value /\ r.value["--victim"] = Word(vm)

\* The victim is the VM, and no suspect is named.
LEMMA VictimSaid ==
  ASSUME NEW vm, vm # "", NEW r, NEW more, SaysVictim(r, vm, more), "--suspect" \notin more
  PROVE  Text(r, "--victim") = vm /\ Text(r, "--suspect") = "" /\ OneSuspect(r)
<1>4. "--victim" \in DOMAIN r.value /\ r.value["--victim"] = Word(vm) /\ Word(vm).text = vm
  BY WordIs, Zenon DEF SaysVictim
<1>5. Text(r, "--victim") = r.value["--victim"].text
  BY <1>4, Zenon DEF Text
<1>1. Text(r, "--victim") = vm
  BY <1>4, <1>5, Zenon
<1>2. "--suspect" \notin DOMAIN r.value
  BY DEF SaysVictim
<1>3. Text(r, "--suspect") = ""
  BY <1>2, Zenon DEF Text
<1> QED BY <1>1, <1>3, Zenon DEF OneSuspect

\* The times that are not given fit each other.
LEMMA TimesSaid ==
  ASSUME NEW r, DOMAIN r.value \cap {"--interval", "--duration"} = {}
  PROVE  IntervalFits(r, 100, 20)
BY DEF IntervalFits, Given

\* investigate.
LEMMA InvestigateIsBounded ==
  ASSUME NEW vm, vm # "", NEW root
  PROVE  LaunchIsBounded("investigate", vm, root)
<1> DEFINE T == LaunchTokens(vm, root)
           g == TargetGrammar(TRUE)
           args == DiagnoseLine(vm)
           a == VictimLine(vm)
           p == Parse(args)
<1>1. Proper(g) /\ {"--discover-suspects", "--include-ebpf-latency"} \subseteq g.booleans
      /\ "--victim" \in g.texts /\ "--victim" \notin g.durations \cup g.counts
  BY TargetGrammarIs
<1> HIDE DEF g
<1>2. PICK s : ReadTo(T, g, a, s) /\ IsVictim(s, vm)
  BY <1>1, VictimRead, Zenon
<1>3. Word("diagnose") \in T /\ Word("noisy-neighbor") \in T
  BY Zenon DEF LaunchTokens
<1> HIDE DEF T, a
<1>4. a \in Seq(T) /\ parseOptions(g, a) = s /\ s.ok
  BY <1>2, ReadAll, Zenon DEF ReadTo, Ready
<1>5. Leads(T, "diagnose", "noisy-neighbor", a, args)
  <2>1. args = Words(<<"diagnose", "noisy-neighbor">>) \o a
    BY Zenon DEF DiagnoseLine, a
  <2> HIDE DEF args
  <2> QED BY <1>3, <1>4, <2>1, Leading, Zenon
<1> HIDE DEF args
<1>6. Name(args) = <<"diagnose">> /\ IsNoisyNeighbor(args)
  <2>1. /\ Name(args) = (IF <<"diagnose", "noisy-neighbor">> \in TwoWordCommands THEN <<"diagnose", "noisy-neighbor">>
                         ELSE <<"diagnose">>)
        /\ IsNoisyNeighbor(args) = ("noisy-neighbor" = "noisy-neighbor")
    BY <1>5, LeadingName, Zenon
  <2> QED BY <2>1, CommandNames, Zenon
<1>7. SaysVictim(s, vm, {})
  BY <1>2, <1>4 DEF IsVictim, SaysVictim
<1>8. Text(s, "--victim") = vm /\ Text(s, "--suspect") = "" /\ "--discover-suspects" \in s.on
  BY <1>7, VictimSaid, Zenon DEF SaysVictim
<1>9. "--output" \notin s.seen /\ DOMAIN s.value \cap {"--interval", "--duration"} = {}
  BY <1>7 DEF SaysVictim
<1>10. IntervalFits(s, 100, 20)
  BY <1>9, TimesSaid, Zenon
<1>11. args # <<>> /\ SubSeq(args, 3, Len(args)) = a
  BY <1>5, Zenon DEF Leads
<1>12. s = parseOptions(TargetGrammar(TRUE), SubSeq(args, 3, Len(args)))
  BY <1>4, <1>11, Zenon DEF g
<1>13. parseTimedTargetOptions(args, 100, 20, TRUE, TRUE, TRUE, TRUE, TRUE) = s
  BY <1>4, <1>8, <1>9, <1>10, <1>12, TargetParsed, Zenon
<1>14. Require(s, s.ok /\ IsNoisyNeighbor(args)) = s
  BY <1>4, <1>6, Zenon DEF Require
<1>15. p = s
  <2>1. p = parseDiagnoseNoisyNeighborArgs(args)
    BY <1>6, <1>11, ProbeParsers, Zenon
  <2> QED BY <1>13, <1>14, <2>1, Zenon DEF parseDiagnoseNoisyNeighborArgs
<1>16. "loop" \notin ToSet(runStages(Name(args), s))
  <2>1. runStages(<<"diagnose">>, s) = runNoisyNeighborDiagnosis(s)
    BY DEF runStages
  <2>2. Lacks(runNoisyNeighborDiagnosis(s), "loop")
    BY EvidenceCalm
  <2> QED BY <1>6, <2>1, <2>2, NoLoopIn, Zenon
<1>17. IsBounded("investigate", vm, args, s)
  BY <1>8, <1>16, Zenon DEF IsBounded
<1>18. Launches("investigate", vm, root, args)
  BY VMWorkflowsLaunch, Zenon DEF args
<1> QED BY <1>4, <1>15, <1>17, <1>18, BoundedLaunch, Zenon

\* The words of the command come first, and something more comes last.
LEMMA LeadsMore ==
  ASSUME NEW T, NEW a, NEW b, Word(a) \in T, Word(b) \in T, NEW rest \in Seq(T), NEW z \in Seq(T)
  PROVE  Leads(T, a, b, rest \o z, (Words(<<a, b>>) \o rest) \o z)
<1> DEFINE w == Words(<<a, b>>)
           p == Word(a)
           q == Word(b)
           m == rest \o z
<1>1. w = <<p, q>> /\ p \in T /\ q \in T
  BY DEF Words
<1>2. m \in Seq(T)
  BY Concatenated, Zenon
<1>3. Leads(T, a, b, m, w \o m)
  <2> HIDE DEF m
  <2> QED BY <1>2, Leading, Zenon
<1> HIDE DEF w, p, q
<1>4. w \in Seq(T)
  BY <1>1, TwoOf, Zenon
<1>5. (w \o rest) \o z = w \o (rest \o z)
  BY <1>4, ConcatAssociative
<1> QED BY <1>3, <1>5, Zenon DEF w

\* bundle.
LEMMA BundleIsBounded ==
  ASSUME NEW vm, vm # "", NEW root, root # ""
  PROVE  LaunchIsBounded("bundle", vm, root)
<1> DEFINE T == LaunchTokens(vm, root)
           g == TargetGrammar(FALSE)
           args == CaptureLine(vm, root)
           a == VictimLine(vm)
           z == <<Option("--output-dir"), Word(root)>>
           m == a \o z
           p == Parse(args)
<1>1. Proper(g) /\ {"--discover-suspects", "--include-ebpf-latency"} \subseteq g.booleans
      /\ "--victim" \in g.texts /\ "--victim" \notin g.durations \cup g.counts
  BY TargetGrammarIs
<1>2. "--output-dir" \in Valued(g) /\ "--output-dir" \notin g.durations \cup g.counts
  BY TargetGrammarIs
<1> HIDE DEF g
<1>3. PICK s : ReadTo(T, g, a, s) /\ IsVictim(s, vm)
  BY <1>1, VictimRead, Zenon
<1>4. Word("capture") \in T /\ Word("noisy-neighbor") \in T /\ Option("--output-dir") \in T /\ Word(root) \in T
  BY Zenon DEF LaunchTokens
<1> HIDE DEF T
<1>5. PICK r : ReadTo(T, g, m, r) /\ Assigns(s, "--output-dir", Word(root), r)
  <2>1. IsWord(Word(root)) /\ Word(root).text # ""
    BY WordIs, Zenon
  <2>2. AcceptsValue(g, "--output-dir", Word(root)) /\ "--output-dir" \notin s.seen
    BY <1>2, <1>3, <2>1 DEF AcceptsValue, IsVictim
  <2> HIDE DEF a
  <2> QED BY <1>1, <1>2, <1>3, <1>4, <2>1, <2>2, ThenValue, Zenon
<1>6. z \in Seq(T)
  BY <1>4, TwoOf, Zenon
<1> HIDE DEF a, z
<1>7. a \in Seq(T) /\ parseOptions(g, m) = r /\ r.ok
  BY <1>3, <1>5, ReadAll, Zenon DEF ReadTo, Ready
<1>8. Leads(T, "capture", "noisy-neighbor", m, args)
  <2>1. args = (Words(<<"capture", "noisy-neighbor">>) \o a) \o z
    BY Zenon DEF CaptureLine, a, z
  <2> HIDE DEF args
  <2> QED BY <1>4, <1>6, <1>7, <2>1, LeadsMore, Zenon
<1> HIDE DEF args, m
<1>9. Name(args) = <<"capture">> /\ IsNoisyNeighbor(args)
  <2>1. /\ Name(args) = (IF <<"capture", "noisy-neighbor">> \in TwoWordCommands THEN <<"capture", "noisy-neighbor">>
                         ELSE <<"capture">>)
        /\ IsNoisyNeighbor(args) = ("noisy-neighbor" = "noisy-neighbor")
    BY <1>8, LeadingName, Zenon
  <2> QED BY <2>1, CommandNames, Zenon
<1>10. SaysVictim(r, vm, {"--output-dir"})
  BY <1>3, <1>5, <1>7 DEF IsVictim, SaysVictim, Assigns
<1>11. Text(r, "--victim") = vm /\ Text(r, "--suspect") = "" /\ "--discover-suspects" \in r.on
  <2>1. "--suspect" \notin {"--output-dir"}
    OBVIOUS
  <2> QED BY <1>10, <2>1, VictimSaid, Zenon DEF SaysVictim
<1>12. "--output" \notin r.seen /\ DOMAIN r.value \cap {"--interval", "--duration"} = {} /\ "--output" \notin DOMAIN r.value
  BY <1>10 DEF SaysVictim
<1>13. IntervalFits(r, 100, 20)
  BY <1>12, TimesSaid, Zenon
<1>14. Text(r, "--output") = "" /\ Text(r, "--output-dir") # ""
  <2>1. "--output-dir" \in DOMAIN r.value /\ r.value["--output-dir"] = Word(root)
    BY <1>5 DEF Assigns
  <2>2. Word(root).text = root
    BY WordIs, Zenon
  <2>3. Text(r, "--output-dir") = r.value["--output-dir"].text
    BY <2>1, Zenon DEF Text
  <2>4. Text(r, "--output-dir") = root
    BY <2>1, <2>2, <2>3, Zenon
  <2>5. Text(r, "--output") = ""
    BY <1>12, Zenon DEF Text
  <2> QED BY <2>4, <2>5, Zenon
<1>15. args # <<>> /\ SubSeq(args, 3, Len(args)) = m
  BY <1>8, Zenon DEF Leads
<1>16. r = parseOptions(TargetGrammar(FALSE), SubSeq(args, 3, Len(args)))
  BY <1>7, <1>15, Zenon DEF g
<1>17. parseTimedTargetOptions(args, 100, 20, TRUE, TRUE, TRUE, TRUE, FALSE) = r
  BY <1>7, <1>11, <1>12, <1>13, <1>16, TargetParsed, Zenon
<1>18. Require(r, r.ok /\ IsNoisyNeighbor(args) /\ Text(r, "--output") = "" /\ Text(r, "--output-dir") # "") = r
  BY <1>7, <1>9, <1>14, Zenon DEF Require
<1>19. p = r
  <2>1. p = parseCaptureNoisyNeighborArgs(args)
    BY <1>9, <1>15, ProbeParsers, Zenon
  <2> QED BY <1>17, <1>18, <2>1 DEF parseCaptureNoisyNeighborArgs
<1>20. "loop" \notin ToSet(runStages(Name(args), r))
  <2>1. runStages(<<"capture">>, r) = runCaptureCommand(r)
    BY DEF runStages
  <2>2. Lacks(runCaptureCommand(r), "loop")
    BY EvidenceCalm
  <2> QED BY <1>9, <2>1, <2>2, NoLoopIn, Zenon
<1>21. IsBounded("bundle", vm, args, r)
  BY <1>11, <1>20, Zenon DEF IsBounded
<1>22. Launches("bundle", vm, root, args)
  BY VMWorkflowsLaunch, Zenon DEF args
<1> QED BY <1>7, <1>19, <1>21, <1>22, BoundedLaunch, Zenon

\* Two options with a value are one after the other.
LEMMA TwoAndTwo ==
  ASSUME NEW T, NEW p \in T, NEW q \in T, NEW r \in T, NEW t \in T
  PROVE  <<p, q>> \o <<r, t>> = <<p, q, r, t>>
<1> DEFINE a == <<p, q>>
           b == <<r>>
           c == <<t>>
           d == <<r, t>>
           e == <<p, q, r, t>>
<1>1. a \in Seq(T) /\ b \in Seq(T) /\ c \in Seq(T)
  OBVIOUS
<1>2. <<>> \o a = a
  BY <1>1, ConcatEmptySeq
<1>3. ((<<>> \o a) \o b) \o c = e
  BY FourOf, Zenon
<1>4. b \o c = d
  <2>1. d \in Seq(T) /\ Len(d) = Len(b) + 1 /\ d[Len(b) + 1] = t /\ \A k \in 1..Len(b) : d[k] = b[k]
    OBVIOUS
  <2> HIDE DEF b, d
  <2> QED BY <1>1, <2>1, OneAfter
<1> HIDE DEF a, b, c, d, e
<1>5. (a \o b) \o c = a \o (b \o c)
  BY <1>1, ConcatAssociative
<1>6. a \o d = e
  BY <1>2, <1>3, <1>4, <1>5, Zenon
<1> QED BY <1>6, Zenon DEF a, d, e

\* What the parser of watch knows, and what it asks for.
WatchGrammar ==
  [Grammar({"--discover-suspects", "--include-ebpf-latency", "--capture-on-alert", "--verbose"},
           {"--window", "--every", "--cooldown"}, {"--iterations"}, {"--victim", "--suspect", "--output-dir"})
     EXCEPT !.filled = {"--output-dir"}]

\* It knows the options of the dashboard.
LEMMA WatchGrammarIs ==
  /\ Proper(WatchGrammar) /\ {"--discover-suspects", "--include-ebpf-latency"} \subseteq WatchGrammar.booleans
  /\ "--victim" \in WatchGrammar.texts /\ "--victim" \notin WatchGrammar.durations \cup WatchGrammar.counts
  /\ {"--window", "--every", "--iterations"} \subseteq Valued(WatchGrammar)
  /\ {"--window", "--every"} \cap (WatchGrammar.counts \cup WatchGrammar.filled) = {}
  /\ "--iterations" \notin WatchGrammar.durations \cup WatchGrammar.filled
BY DEF WatchGrammar, Grammar, Proper, Valued

\* The numbers and the times that the dashboard writes.
IsTime(t) == IsWord(t) /\ t.text # "" /\ t.duration > 0
IsCount(t) == IsWord(t) /\ t.text # "" /\ t.number > 0
IsThree(t) == t.duration + t.number = 3

\* The dashboard writes two durations and a count.
LEMMA NumbersAre ==
  IsTime(Duration("5s", 50)) /\ IsTime(Duration("7s", 70)) /\ IsCount(Number("3", 3)) /\ IsThree(Number("3", 3))
BY DEF Duration, Number, Word, IsWord, IsTime, IsCount, IsThree

\* A victim whose suspect is to be found is enough for it.
LEMMA WatchParsed ==
  ASSUME NEW args, NEW r, r = parseOptions(WatchGrammar, SubSeq(args, 3, Len(args))), r.ok, IsNoisyNeighbor(args),
         Text(r, "--victim") # "", OneSuspect(r), "--discover-suspects" \in r.on
  PROVE  parseWatchNoisyNeighborArgs(args) = r
<1> DEFINE c == /\ r.ok /\ IsNoisyNeighbor(args)
                /\ Text(r, "--victim") # ""
                /\ OneSuspect(r)
                /\ Text(r, "--suspect") # "" \/ "--discover-suspects" \in r.on
<1>1. c
  BY Zenon
<1>2. parseWatchNoisyNeighborArgs(args) = Require(r, c)
  BY DEF parseWatchNoisyNeighborArgs, WatchGrammar
<1> HIDE DEF c
<1> QED BY <1>1, <1>2, Zenon DEF Require

\* A text that is not empty.
Nonempty(text) == text # ""

\* What is read of a watch.
LEMMA WatchRead ==
  ASSUME NEW vm, Nonempty(vm), NEW root
  PROVE  \E r : /\ ReadTo(LaunchTokens(vm, root), WatchGrammar, (VictimLine(vm) \o TimesLine) \o watchLimit, r)
                /\ SaysVictim(r, vm, {"--window", "--every", "--iterations"})
                /\ "--iterations" \in DOMAIN r.value /\ r.value["--iterations"] = Number("3", 3)
<1> DEFINE T == LaunchTokens(vm, root)
           g == WatchGrammar
           a == VictimLine(vm)
           d5 == Duration("5s", 50)
           d7 == Duration("7s", 70)
           n3 == Number("3", 3)
           x == <<Option("--window"), d5>>
           y == <<Option("--every"), d7>>
           z == <<Option("--iterations"), n3>>
<1>1. PICK s : ReadTo(T, g, a, s) /\ IsVictim(s, vm)
  BY WatchGrammarIs, VictimRead, Zenon DEF Nonempty
<1>2. /\ Option("--window") \in T /\ Option("--every") \in T /\ Option("--iterations") \in T
      /\ d5 \in T /\ d7 \in T /\ n3 \in T
  BY Zenon DEF LaunchTokens
<1>3. /\ IsWord(d5) /\ d5.text # "" /\ d5.duration > 0 /\ IsWord(d7) /\ d7.text # "" /\ d7.duration > 0
      /\ IsWord(n3) /\ n3.text # "" /\ n3.number > 0
  BY NumbersAre DEF IsTime, IsCount
<1> HIDE DEF T, d5, d7, n3, a
<1>4. PICK s1 : ReadTo(T, g, a \o x, s1) /\ Assigns(s, "--window", d5, s1)
  <2>1. AcceptsValue(g, "--window", d5) /\ "--window" \notin s.seen /\ "--window" \in Valued(g)
    BY <1>1, <1>3, WatchGrammarIs DEF AcceptsValue, IsVictim
  <2> QED BY <1>1, <1>2, <1>3, <2>1, WatchGrammarIs, ThenValue, Zenon
<1>5. PICK s2 : ReadTo(T, g, (a \o x) \o y, s2) /\ Assigns(s1, "--every", d7, s2)
  <2>1. AcceptsValue(g, "--every", d7) /\ "--every" \in Valued(g)
    BY <1>3, WatchGrammarIs DEF AcceptsValue
  <2>2. "--every" \notin s1.seen
    BY <1>1, <1>4 DEF Assigns, IsVictim
  <2> DEFINE b == a \o x
  <2>3. ReadTo(T, g, b, s1)
    BY <1>4, Zenon
  <2> HIDE DEF b
  <2>4. \E w : ReadTo(T, g, b \o y, w) /\ Assigns(s1, "--every", d7, w)
    BY <1>2, <1>3, <2>1, <2>2, <2>3, WatchGrammarIs, ThenValue, Zenon
  <2> QED BY <2>4, Zenon DEF b
<1>6. PICK r : ReadTo(T, g, ((a \o x) \o y) \o z, r) /\ Assigns(s2, "--iterations", n3, r)
  <2>1. AcceptsValue(g, "--iterations", n3) /\ "--iterations" \in Valued(g)
    BY <1>3, WatchGrammarIs DEF AcceptsValue
  <2>2. "--iterations" \notin s2.seen
    BY <1>1, <1>4, <1>5 DEF Assigns, IsVictim
  <2> DEFINE b == (a \o x) \o y
  <2>3. ReadTo(T, g, b, s2)
    BY <1>5, Zenon
  <2> HIDE DEF b
  <2>4. \E w : ReadTo(T, g, b \o z, w) /\ Assigns(s2, "--iterations", n3, w)
    BY <1>2, <1>3, <2>1, <2>2, <2>3, WatchGrammarIs, ThenValue, Zenon
  <2> QED BY <2>4, Zenon DEF b
<1>7. (a \o x) \o y = a \o TimesLine
  <2> DEFINE o == Option("--window")
             v == Option("--every")
  <2>1. TimesLine = <<o, d5, v, d7>> /\ x = <<o, d5>> /\ y = <<v, d7>>
    BY Zenon DEF TimesLine, d5, d7
  <2>2. o \in T /\ v \in T
    BY <1>2, Zenon
  <2> HIDE DEF o, v, x, y
  <2>3. x \o y = TimesLine
    <3>1. <<o, d5>> \o <<v, d7>> = <<o, d5, v, d7>>
      BY <1>2, <2>2, TwoAndTwo
    <3> QED BY <2>1, <3>1, Zenon
  <2>4. a \in Seq(T) /\ x \in Seq(T) /\ y \in Seq(T)
    BY <1>1, <1>2, <2>1, <2>2, TwoOf, Zenon DEF ReadTo
  <2>5. (a \o x) \o y = a \o (x \o y)
    BY <2>4, Associative
  <2> QED BY <2>3, <2>5, Zenon
<1>8. z = watchLimit
  BY Zenon DEF watchLimit, n3
<1> HIDE DEF x, y, z
<1>9. ReadTo(T, g, (a \o TimesLine) \o watchLimit, r)
  BY <1>6, <1>7, <1>8, Zenon
<1>10. r.ok
  BY <1>6, Zenon DEF ReadTo, Ready
<1>11. s1.on = s.on /\ s1.seen = s.seen \cup {"--window"} /\ DOMAIN s1.value = {"--victim", "--window"}
       /\ s1.value["--victim"] = Word(vm)
  BY <1>1, <1>4 DEF Assigns, IsVictim
<1>12. s2.on = s.on /\ s2.seen = s.seen \cup {"--window", "--every"} /\ DOMAIN s2.value = {"--victim", "--window", "--every"}
       /\ s2.value["--victim"] = Word(vm)
  BY <1>11, <1>5 DEF Assigns
<1>13. r.on = s.on /\ r.seen = s.seen \cup {"--window", "--every", "--iterations"}
       /\ DOMAIN r.value = {"--victim", "--window", "--every", "--iterations"}
       /\ r.value["--victim"] = Word(vm) /\ r.value["--iterations"] = n3
  BY <1>12, <1>6 DEF Assigns
<1>14. SaysVictim(r, vm, {"--window", "--every", "--iterations"})
  BY <1>1, <1>10, <1>13 DEF SaysVictim, IsVictim
<1> QED BY <1>9, <1>13, <1>14 DEF T, a, n3

\* watch.
LEMMA WatchIsBounded ==
  ASSUME NEW vm, Nonempty(vm), NEW root
  PROVE  LaunchIsBounded("watch", vm, root)
<1> DEFINE T == LaunchTokens(vm, root)
           a == VictimLine(vm)
           w == Words(<<"watch", "noisy-neighbor">>)
           args == WatchLine(vm)
           m == (a \o TimesLine) \o watchLimit
           p == Parse(args)
<1>1. PICK r : /\ ReadTo(T, WatchGrammar, m, r) /\ SaysVictim(r, vm, {"--window", "--every", "--iterations"})
               /\ "--iterations" \in DOMAIN r.value /\ r.value["--iterations"] = Number("3", 3)
  BY WatchRead, Zenon
<1>2. vm # ""
  BY Zenon DEF Nonempty
<1>3. parseOptions(WatchGrammar, m) = r /\ r.ok
  BY <1>1, ReadAll, Zenon DEF ReadTo, Ready
<1>4. Leads(T, "watch", "noisy-neighbor", m, args)
  <2> DEFINE o1 == Option("--window")
             o2 == Option("--every")
             o3 == Option("--iterations")
             d5 == Duration("5s", 50)
             d7 == Duration("7s", 70)
             n3 == Number("3", 3)
             p1 == Option("--victim")
             p2 == Word(vm)
             p3 == Option("--discover-suspects")
             p4 == Option("--include-ebpf-latency")
             w1 == Word("watch")
             w2 == Word("noisy-neighbor")
  <2>1. /\ o1 \in T /\ o2 \in T /\ o3 \in T /\ d5 \in T /\ d7 \in T /\ n3 \in T /\ p1 \in T /\ p2 \in T /\ p3 \in T
        /\ p4 \in T /\ w1 \in T /\ w2 \in T
    BY Zenon DEF LaunchTokens
  <2>2. /\ a = <<p1, p2, p3, p4>> /\ TimesLine = <<o1, d5, o2, d7>> /\ watchLimit = <<o3, n3>>
        /\ args = ((w \o a) \o TimesLine) \o watchLimit
    BY Zenon DEF VictimLine, TimesLine, watchLimit, WatchLine
  <2>3. w = <<w1, w2>>
    BY DEF Words
  <2>4. Word("watch") \in T /\ Word("noisy-neighbor") \in T
    BY <2>1, Zenon
  <2> HIDE DEF T, o1, o2, o3, d5, d7, n3, p1, p2, p3, p4, w1, w2, a, w, args
  <2>5. a \in Seq(T) /\ TimesLine \in Seq(T) /\ watchLimit \in Seq(T) /\ w \in Seq(T)
    BY <2>1, <2>2, <2>3
  <2>6. a \o TimesLine \in Seq(T)
    BY <2>5, Concatenated, Zenon
  <2>7. (w \o a) \o TimesLine = w \o (a \o TimesLine)
    BY <2>5, Associative
  <2> DEFINE b == a \o TimesLine
  <2>8. args = (w \o b) \o watchLimit /\ b \in Seq(T)
    BY <2>2, <2>6, <2>7, Zenon
  <2> HIDE DEF b
  <2>9. Leads(T, "watch", "noisy-neighbor", b \o watchLimit, (w \o b) \o watchLimit)
    BY <2>4, <2>5, <2>8, LeadsMore, Zenon DEF w
  <2> QED BY <2>8, <2>9, Zenon DEF b
<1> HIDE DEF args, m, T
<1>5. Name(args) = <<"watch">> /\ IsNoisyNeighbor(args)
  <2>1. /\ Name(args) = (IF <<"watch", "noisy-neighbor">> \in TwoWordCommands THEN <<"watch", "noisy-neighbor">>
                         ELSE <<"watch">>)
        /\ IsNoisyNeighbor(args) = ("noisy-neighbor" = "noisy-neighbor")
    BY <1>4, LeadingName, Zenon
  <2> QED BY <2>1, CommandNames, Zenon
<1>6. Text(r, "--victim") = vm /\ OneSuspect(r) /\ "--discover-suspects" \in r.on
  <2>1. "--suspect" \notin {"--window", "--every", "--iterations"}
    OBVIOUS
  <2> QED BY <1>1, <1>2, <2>1, VictimSaid, Zenon DEF SaysVictim
<1>7. args # <<>> /\ SubSeq(args, 3, Len(args)) = m
  BY <1>4, Zenon DEF Leads
<1>8. r = parseOptions(WatchGrammar, SubSeq(args, 3, Len(args)))
  BY <1>3, <1>7, Zenon
<1>9. parseWatchNoisyNeighborArgs(args) = r
  BY <1>2, <1>3, <1>5, <1>6, <1>8, WatchParsed, Zenon
<1>10. p = r
  <2> DEFINE n == Name(args)
  <2>1. n = <<"watch">> /\ args # <<>>
    BY <1>5, <1>7, Zenon
  <2> HIDE DEF n
  <2>2. p = parseWatchNoisyNeighborArgs(args)
    BY <2>1 DEF Parse, n
  <2> QED BY <1>9, <2>2, Zenon
<1>11. Given(r, "--iterations", 0) > 0
  <2> DEFINE t == r.value["--iterations"]
  <2>1. Given(r, "--iterations", 0) = t.duration + t.number
    BY <1>1, Zenon DEF Given
  <2>2. IsThree(t)
    BY <1>1, NumbersAre, Zenon
  <2> HIDE DEF t
  <2> QED BY <2>1, <2>2 DEF IsThree
<1>12. IsBounded("watch", vm, args, r)
  BY <1>6, <1>11, Zenon DEF IsBounded
<1>13. Launches("watch", vm, root, args)
  BY <1>2, VMWorkflowsLaunch, Zenon DEF args
<1> QED BY <1>3, <1>10, <1>12, <1>13, BoundedLaunch, Zenon

\* What the parser of observe snapshot knows, and what it asks for.
SnapshotGrammar ==
  Grammar({"--json", "--discover-suspects"} \cup Includes, {"--duration", "--interval"}, {}, {"--victim", "--suspect"})

\* It knows the options of the dashboard.
LEMMA SnapshotGrammarIs ==
  /\ Proper(SnapshotGrammar)
  /\ {"--discover-suspects", "--include-ebpf-latency"} \subseteq SnapshotGrammar.booleans
  /\ "--json" \in SnapshotGrammar.booleans
  /\ "--victim" \in SnapshotGrammar.texts /\ "--victim" \notin SnapshotGrammar.durations \cup SnapshotGrammar.counts
BY DEF SnapshotGrammar, Grammar, Includes, Proper, Valued

\* A valid observation is enough for it.
LEMMA SnapshotParsed ==
  ASSUME NEW args, NEW r, r = parseOptions(SnapshotGrammar, SubSeq(args, 3, Len(args))), r.ok,
         StartsWith(args, <<"observe", "snapshot">>), ValidObservation(r)
  PROVE  parseObserveSnapshotArgs(args) = r
<1> DEFINE c == r.ok /\ StartsWith(args, <<"observe", "snapshot">>) /\ ValidObservation(r)
<1>1. c
  BY Zenon
<1>2. parseObserveSnapshotArgs(args) = Require(r, c)
  BY Zenon DEF parseObserveSnapshotArgs, SnapshotGrammar
<1> HIDE DEF c
<1> QED BY <1>1, <1>2, Zenon DEF Require

\* observe.
LEMMA ObserveIsBounded ==
  ASSUME NEW vm, Nonempty(vm), NEW root
  PROVE  LaunchIsBounded("observe", vm, root)
<1> DEFINE T == LaunchTokens(vm, root)
           g == SnapshotGrammar
           args == ObserveLine(vm)
           a == VictimLine(vm)
           t == Option("--json")
           z == <<t>>
           m == a \o z
           p == Parse(args)
<1>1. vm # ""
  BY Zenon DEF Nonempty
<1>2. PICK s : ReadTo(T, g, a, s) /\ IsVictim(s, vm)
  BY <1>1, SnapshotGrammarIs, VictimRead, Zenon
<1>3. Word("observe") \in T /\ Word("snapshot") \in T /\ t \in T
  BY Zenon DEF LaunchTokens
<1> HIDE DEF T
<1>4. PICK r : ReadTo(T, g, m, r) /\ Switches(s, "--json", r)
  <2>1. "--json" \notin s.seen
    BY <1>2 DEF IsVictim
  <2> HIDE DEF a
  <2> QED BY <1>2, <1>3, <2>1, SnapshotGrammarIs, ThenFlag, Zenon
<1> HIDE DEF a, t
<1>5. z \in Seq(T)
  BY <1>3
<1> HIDE DEF z
<1>6. a \in Seq(T) /\ parseOptions(g, m) = r /\ r.ok
  BY <1>2, <1>4, ReadAll, Zenon DEF ReadTo, Ready
<1>7. Leads(T, "observe", "snapshot", m, args)
  <2>1. args = (Words(<<"observe", "snapshot">>) \o a) \o z
    BY Zenon DEF ObserveLine, a, z, t
  <2> HIDE DEF args
  <2> QED BY <1>3, <1>5, <1>6, <2>1, LeadsMore, Zenon
<1> HIDE DEF args, m
<1>8. Name(args) = <<"observe", "snapshot">>
  <2>1. Name(args) = (IF <<"observe", "snapshot">> \in TwoWordCommands THEN <<"observe", "snapshot">> ELSE <<"observe">>)
    BY <1>7, LeadingName, Zenon
  <2> QED BY <2>1, CommandNames, Zenon
<1>9. SaysVictim(r, vm, {"--json"}) /\ "--json" \in r.on
  BY <1>2, <1>4, <1>6 DEF IsVictim, SaysVictim, Switches
<1>10. Text(r, "--victim") = vm /\ OneSuspect(r)
  <2>1. "--suspect" \notin {"--json"}
    OBVIOUS
  <2> QED BY <1>1, <1>9, <2>1, VictimSaid, Zenon
<1>11. DOMAIN r.value \cap {"--interval", "--duration"} = {}
  BY <1>9 DEF SaysVictim
<1>12. IntervalFits(r, 100, 20)
  BY <1>11, TimesSaid, Zenon
<1>13. ValidObservation(r)
  BY <1>1, <1>9, <1>10, <1>12, Zenon DEF ValidObservation
<1>14. args # <<>> /\ SubSeq(args, 3, Len(args)) = m /\ StartsWith(args, <<"observe", "snapshot">>)
  BY <1>7, Zenon DEF Leads
<1>15. r = parseOptions(SnapshotGrammar, SubSeq(args, 3, Len(args)))
  BY <1>6, <1>14, Zenon
<1>16. parseObserveSnapshotArgs(args) = r
  BY <1>6, <1>13, <1>14, <1>15, SnapshotParsed, Zenon
<1>17. p = r
  <2> DEFINE n == Name(args)
  <2>1. n = <<"observe", "snapshot">> /\ args # <<>>
    BY <1>8, <1>14, Zenon
  <2> HIDE DEF n
  <2>2. p = parseObserveSnapshotArgs(args)
    BY <2>1 DEF Parse, n
  <2> QED BY <1>16, <2>2, Zenon
<1>18. "loop" \notin ToSet(runStages(Name(args), r))
  <2>1. runStages(<<"observe", "snapshot">>, r) = runObserveSnapshot
    BY DEF runStages
  <2>2. Lacks(runObserveSnapshot, "loop")
    BY CalmLiterals
  <2> QED BY <1>8, <2>1, <2>2, NoLoopIn, Zenon
<1>19. IsBounded("observe", vm, args, r)
  BY <1>10, <1>18, Zenon DEF IsBounded
<1>20. Launches("observe", vm, root, args)
  BY <1>1, VMWorkflowsLaunch, Zenon DEF args
<1> QED BY <1>6, <1>17, <1>19, <1>20, BoundedLaunch, Zenon

\* The command lines of the host's workflows are accepted, and are short.
LEMMA HostsAreBounded ==
  ASSUME NEW workflow \in HostWorkflows, NEW vm, NEW root
  PROVE  LaunchIsBounded(workflow, vm, root)
<1>1. workflow \notin VMWorkflows
  BY DEF HostWorkflows, VMWorkflows
<1>2. ASSUME NEW args, Launches(workflow, vm, root, args), Parse(args).ok,
             Lacks(runStages(Name(args), Parse(args)), "loop")
      PROVE  LaunchIsBounded(workflow, vm, root)
  <2>1. IsBounded(workflow, vm, args, Parse(args))
    BY <1>1, <1>2, NoLoopIn, Zenon DEF IsBounded
  <2> QED BY <1>2, <2>1, BoundedLaunch, Zenon
<1>3. CASE workflow = "ebpf_doctor"
  <2> DEFINE args == Words(<<"ebpf", "doctor">>)
             w == Word("ebpf")
             d == Word("doctor")
             n == Name(args)
  <2>1. args = <<w, d>>
    BY DEF Words
  <2>2. w.text = "ebpf" /\ d.text = "doctor"
    BY WordIs, Zenon
  <2>3. Launches("ebpf_doctor", vm, root, args)
    BY HostWorkflowsLaunch, Zenon
  <2> HIDE DEF args, w, d
  <2>4. args # <<>> /\ Len(args) = 2 /\ args[1] = w /\ args[2] = d
    BY <2>1
  <2>5. <<args[1].text, args[2].text>> = <<"ebpf", "doctor">>
    BY <2>2, <2>4
  <2>6. n = <<"ebpf", "doctor">>
    BY <2>4, <2>5, CommandNames DEF Name
  <2> HIDE DEF n
  <2>7. Parse(args) = Require(Nothing, Len(args) = 2)
    BY <2>4, <2>6 DEF Parse, Bare, n
  <2>8. Parse(args).ok
    BY <2>4, <2>7, NothingIs, Zenon DEF Require
  <2>9. runStages(n, Parse(args)) = <<"write">>
    <3> DEFINE r == Parse(args)
    <3> HIDE DEF r
    <3>1. runStages(<<"ebpf", "doctor">>, r) = <<"write">>
      BY DEF runStages, runEBPFCommand
    <3> QED BY <2>6, <3>1, Zenon DEF r
  <2>10. Lacks(runStages(n, Parse(args)), "loop")
    BY <2>9, CalmLiterals
  <2> QED BY <1>2, <1>3, <2>3, <2>8, <2>10, Zenon DEF n
<1>4. CASE workflow \in {"doctor", "inventory", "status", "version"}
  <2> DEFINE w == Word(workflow)
             args == <<w>>
             n == Name(args)
  <2>1. w.text = workflow
    BY WordIs, Zenon
  <2>2. Launches(workflow, vm, root, args)
    BY <1>4, HostWorkflowsLaunch, Zenon
  <2> HIDE DEF w
  <2>3. args # <<>> /\ Len(args) = 1 /\ args[1] = w /\ args \in Seq({w})
    OBVIOUS
  <2> HIDE DEF args
  <2>4. n = <<workflow>>
    BY <2>1, <2>3 DEF Name
  <2> HIDE DEF n
  <2>5. ASSUME Parse(args).ok, Lacks(runStages(n, Parse(args)), "loop") PROVE LaunchIsBounded(workflow, vm, root)
    BY <1>2, <2>2, <2>5, Zenon DEF n
  <2>6. CASE workflow = "doctor"
    <3>1. n = <<"doctor">>
      BY <2>4, <2>6
    <3>2. Parse(args) = Require(Nothing, Len(args) = 1 \/ args = <<Word("doctor"), Option("--lab")>>)
      BY <2>3, <3>1 DEF Parse, Bare, n
    <3>3. Parse(args).ok
      BY <2>3, <3>2, NothingIs, Zenon DEF Require
    <3>4. runStages(n, Parse(args)) = <<"write">>
      BY <3>1 DEF runStages
    <3>5. Lacks(runStages(n, Parse(args)), "loop")
      BY <3>4, CalmLiterals
    <3> QED BY <2>5, <3>3, <3>5, Zenon
  <2>7. CASE workflow = "version"
    <3>1. n = <<"version">>
      BY <2>4, <2>7
    <3>2. Parse(args)
            = Require(Nothing, Len(args) = 1 \/ (Len(args) = 2 /\ Is(args[2], "--json") /\ args[2].form # "bad"))
      BY <2>3, <3>1 DEF Parse, Bare, n
    <3>3. Parse(args).ok
      BY <2>3, <3>2, NothingIs, Zenon DEF Require
    <3>4. runStages(n, Parse(args)) = <<"write">>
      BY <3>1 DEF runStages
    <3>5. Lacks(runStages(n, Parse(args)), "loop")
      BY <3>4, CalmLiterals
    <3> QED BY <2>5, <3>3, <3>5, Zenon
  <2>8. CASE workflow = "inventory"
    <3>1. n = <<"inventory">>
      BY <2>4, <2>8
    <3>2. Parse(args) = Nothing
      BY <2>3, <3>1 DEF Parse, n
    <3>3. Parse(args).ok
      BY <3>2, NothingIs, Zenon
    <3>4. runStages(n, Parse(args)) = runInventory
      BY <3>1 DEF runStages
    <3>5. Lacks(runStages(n, Parse(args)), "loop")
      BY <3>4, CalmLiterals
    <3> QED BY <2>5, <3>3, <3>5, Zenon
  <2>9. CASE workflow = "status"
    <3>1. n = <<"status">>
      BY <2>4, <2>9
    <3>2. Parse(args) = parseStatusArgs(args)
      BY <2>3, <3>1 DEF Parse, n
    <3>3. SubSeq(args, 2, Len(args)) = <<>>
      BY <2>3
    <3>4. StartsWith(args, <<"status">>)
      <4>1. args = <<w>> /\ Words(<<"status">>) = <<Word("status")>> /\ w = Word("status")
        BY <2>9 DEF args, w, Words
      <4>2. SubSeq(args, 1, Len(args)) = args
        BY <2>3, SubSeqFull, Zenon
      <4>3. Len(<<"status">>) = 1
        OBVIOUS
      <4> QED BY <2>3, <4>1, <4>2, <4>3 DEF StartsWith
    <3>5. \A g : parseOptions(g, <<>>) = Nothing
      BY ReadNone, ReadAll, Zenon
    <3>6. Parse(args) = Nothing
      <4> DEFINE g == Grammar({"--json", "--watch"} \cup ClearOptions, {"--duration", "--interval", "--every"},
                              {"--iterations"}, {"--sort"})
                 r == parseOptions(g, SubSeq(args, 2, Len(args)))
                 c == /\ r.ok /\ StartsWith(args, <<"status">>)
                      /\ ValidSort(r, StatusSortFields)
                      /\ IntervalFits(r, 30, 10)
                      /\ ~({"--watch", "--json"} \subseteq r.on)
                      /\ ~(ClearOptions \subseteq r.seen)
                      /\ "--watch" \notin r.on => r.seen \cap ({"--every", "--iterations"} \cup ClearOptions) = {}
      <4>1. r = Nothing
        BY <3>3, <3>5, Zenon
      <4>2. parseStatusArgs(args) = Require(r, c)
        BY Zenon DEF parseStatusArgs
      <4>3. r.ok /\ r.seen = {} /\ r.on = {} /\ DOMAIN r.value = {}
        BY <4>1, NothingIs, Zenon
      <4> HIDE DEF r
      <4>4. ValidSort(r, StatusSortFields) /\ IntervalFits(r, 30, 10)
        BY <4>3 DEF ValidSort, IntervalFits, Given
      <4>5. c
        BY <3>4, <4>3, <4>4 DEF ClearOptions
      <4> HIDE DEF c
      <4> QED BY <3>2, <4>1, <4>2, <4>5, Zenon DEF Require
    <3>7. Parse(args).ok /\ Parse(args).on = {}
      BY <3>6, NothingIs, Zenon
    <3>8. runStages(n, Parse(args)) = <<"inventory", "sample", "sort", "write">>
      <4> DEFINE r == Parse(args)
      <4>1. "--watch" \notin r.on
        BY <3>7
      <4> HIDE DEF r
      <4>2. runStages(<<"status">>, r) = <<"inventory", "sample", "sort", "write">>
        BY <4>1 DEF runStages, runStatus
      <4> QED BY <3>1, <4>2, Zenon DEF r
    <3>9. Lacks(runStages(n, Parse(args)), "loop")
      BY <3>8, CalmLiterals
    <3> QED BY <2>5, <3>7, <3>9, Zenon
  <2> QED BY <1>4, <2>6, <2>7, <2>8, <2>9
<1> QED BY <1>3, <1>4 DEF HostWorkflows

\* Every workflow of a VM that is known is bounded.
LEMMA LaunchesBounded ==
  ASSUME NEW vm \in DOMAIN Disk
  PROVE  BoundedFor[vm]
<1>1. vm # ""
  BY ViewAssumption, Zenon
<1>2. ASSUME NEW workflow \in VMWorkflows \cup HostWorkflows, NEW root \in Roots \ {""}
      PROVE  LaunchIsBounded(workflow, vm, root)
  <2>1. root # "" /\ Nonempty(vm)
    BY <1>1, Zenon DEF Nonempty
  <2>2. /\ LaunchIsBounded("investigate", vm, root) /\ LaunchIsBounded("bundle", vm, root)
        /\ LaunchIsBounded("watch", vm, root) /\ LaunchIsBounded("observe", vm, root)
    BY <1>1, <2>1, InvestigateIsBounded, BundleIsBounded, WatchIsBounded, ObserveIsBounded, Zenon
  <2>3. workflow \in HostWorkflows => LaunchIsBounded(workflow, vm, root)
    BY HostsAreBounded, Zenon
  <2> QED BY <2>2, <2>3, Zenon DEF VMWorkflows
<1>3. BoundedFor[vm] = (\A workflow \in VMWorkflows \cup HostWorkflows : \A root \in Roots \ {""} :
                          LaunchIsBounded(workflow, vm, root))
  BY Zenon DEF BoundedFor
<1> QED BY <1>2, <1>3, Zenon

\* Whatever was pressed and collected, the rows are of known VMs and the
\* marked one is among them.
LEMMA ShownInvariance == SessionSpec => []ShownInv
<1>1. SessionInit => ShownInv
  BY ShownInit, Zenon
<1>2. ShownInv /\ SessionInv /\ AskedInv /\ [SessionNext]_sessionVars => ShownInv'
  BY ShownStep, Zenon
<1> QED BY <1>1, <1>2, SessionInvariance, AskedInvariance, PTL DEF SessionSpec

\* While rows are shown, the marked one is one of them, and what can be
\* launched for its VM is accepted by the parsers, is about that VM and, where
\* it loops, has a limit (retainedSelection, applyInteractiveAction and
\* topLaunchArgs of the dashboard against the parsers of cli.go).
THEOREM LaunchesStayBounded == SessionSpec => []LaunchesAreBounded
<1>1. ShownInv => LaunchesAreBounded
  <2> SUFFICES ASSUME ShownInv, view.order # <<>>
               PROVE  state.selected \in DOMAIN view.rows /\ BoundedFor[state.selected]
    BY Zenon DEF LaunchesAreBounded
  <2>1. state.selected \in ToSet(view.order) /\ view.order \in Seq(DOMAIN view.rows) /\ RowsOfDisk(view.rows)
    BY Zenon DEF ShownInv
  <2> DEFINE selected == state.selected
             order == view.order
             names == DOMAIN view.rows
  <2>2. selected \in names
    <3> HIDE DEF selected, order, names
    <3>1. selected \in ToSet(order) /\ order \in Seq(names)
      BY <2>1, Zenon DEF selected, order, names
    <3> QED BY <3>1 DEF ToSet
  <2>3. names \subseteq DOMAIN Disk
    BY <2>1 DEF RowsOfDisk
  <2>4. BoundedFor[selected]
    <3> HIDE DEF selected, names
    <3> QED BY <2>2, <2>3, LaunchesBounded
  <2> QED BY <2>2, <2>4, Zenon
<1> QED BY <1>1, ShownInvariance, PTL

-----------------------------------------------------------------------------
(* One group among the options of a command line: what becomes of it.      *)
IsHeld(T, p, x, q, u) == Frame(T, p, q) /\ IsGroup(T, x) /\ u = p \o (x \o q)

Held(T, x, u) == \E p, q : IsHeld(T, p, x, q, u)

\* The parts of such a command line.
HeldParts(T, p, x, q, u) ==
  /\ p \in Seq(T) /\ x \in Seq(T) /\ q \in Seq(T) /\ p # <<>> /\ Grouped(T, q)
  /\ x \o q \in Seq(T) /\ x \o q # <<>> /\ (x \o q)[1] = x[1] /\ ~IsWord(x[1])
  /\ u \in Seq(T) /\ u # <<>> /\ u[1] = p[1]

\* They are made of the arguments considered.
LEMMA HeldTyped ==
  ASSUME NEW T, NEW p, NEW x, NEW q, NEW u, IsHeld(T, p, x, q, u)
  PROVE  HeldParts(T, p, x, q, u)
<1>1. p \in Seq(T) /\ p # <<>> /\ Grouped(T, q) /\ q \in Seq(T) /\ u = p \o (x \o q)
  BY Zenon DEF IsHeld, Frame, Grouped
<1>2. x \in Seq(T) /\ x # <<>> /\ ~IsWord(x[1])
  <2>1. IsGroup(T, x)
    BY Zenon DEF IsHeld
  <2> QED BY <2>1, GroupIs, Zenon DEF IsGroup
<1>3. x \o q \in Seq(T)
  BY <1>1, <1>2, Concatenated, Zenon
<1>4. x \o q # <<>> /\ (x \o q)[1] = x[1]
  BY <1>1, <1>2, BeginsAsBefore, Zenon
<1> DEFINE m == x \o q
<1>5. m \in Seq(T)
  BY <1>3
<1> HIDE DEF m
<1>6. p \o m \in Seq(T)
  BY <1>1, <1>5, Concatenated, Zenon
<1>7. p \o m # <<>> /\ (p \o m)[1] = p[1]
  BY <1>1, <1>5, BeginsAsBefore, Zenon
<1> QED BY <1>1, <1>2, <1>3, <1>4, <1>6, <1>7, Zenon DEF HeldParts, m

\* Groups one after another: one of them, what is before it and behind it.
LEMMA OptionHeld ==
  ASSUME NEW T, NEW S \in Seq(Seq(T)), \A j \in 1..Len(S) : IsGroup(T, S[j]), NEW i \in 1..Len(S)
  PROVE  \E a \in Seq(T) : \E B : Grouped(T, B) /\ FlattenSeq(S) = a \o (S[i] \o B)
<1> DEFINE n == Len(S)
           x == S[i]
<1>1. n \in Nat /\ i - 1 \in 0..n /\ i \in 0..n /\ i \in 1..n
  OBVIOUS
<1>2. IsGroup(T, x) /\ x \in Seq(T)
  BY <1>1, Zenon DEF IsGroup
<1>3. PICK f : Flattens(T, S, f)
  BY FlattenSteps, Zenon
<1>4. f \in [0..n -> Seq(T)] /\ f[n] = FlattenSeq(S) /\ \A j \in 1..n : f[j] = f[j - 1] \o S[j]
  BY <1>3, Zenon DEF Flattens
<1> DEFINE a == f[i - 1]
           At(j) == \E B : Grouped(T, B) /\ f[j] = a \o (x \o B)
<1>5. a \in Seq(T)
  BY <1>1, <1>4
<1>6. At(i)
  <2>1. f[i] = a \o x
    BY <1>1, <1>4, Zenon
  <2>2. x \o <<>> = x
    BY <1>2, ConcatEmptySeq, Zenon
  <2>3. Grouped(T, <<>>)
    BY GroupedNone, Zenon
  <2> WITNESS <<>>
  <2> QED BY <2>1, <2>2, <2>3, Zenon
<1>7. ASSUME NEW j \in Nat, At(j), j + 1 \in 1..n PROVE At(j + 1)
  <2>1. PICK B : Grouped(T, B) /\ f[j] = a \o (x \o B)
    BY <1>7, Zenon
  <2> DEFINE z == S[j + 1]
  <2>2. IsGroup(T, z) /\ z \in Seq(T) /\ B \in Seq(T)
    BY <1>7, <2>1, Zenon DEF IsGroup, Grouped
  <2>3. (j + 1) - 1 = j
    OBVIOUS
  <2>4. f[j + 1] = f[j] \o z
    BY <1>4, <1>7, <2>3, Zenon
  <2> HIDE DEF a, x, z
  <2>5. Grouped(T, z)
    BY <2>2, GroupedGroup, Zenon
  <2>6. Grouped(T, B \o z)
    BY <2>1, <2>5, GroupedBoth, Zenon
  <2>7. Moves(a, x, B, z)
    BY <1>2, <1>5, <2>2, MiddleMoves, Zenon
  <2>8. f[j + 1] = a \o (x \o (B \o z))
    BY <2>1, <2>4, <2>7, Zenon DEF Moves
  <2> QED BY <2>6, <2>8, Zenon
<1> HIDE DEF a, At
<1> DEFINE Rest == {k \in Nat : i + k \in 1..n => At(i + k)}
<1>8. 0 \in Rest
  <2>1. i + 0 = i
    BY <1>1
  <2> QED BY <1>6, <2>1
<1>9. ASSUME NEW k \in Nat, k \in Rest PROVE k + 1 \in Rest
  <2> SUFFICES ASSUME i + (k + 1) \in 1..n PROVE At(i + (k + 1))
    OBVIOUS
  <2> DEFINE j == i + k
  <2>1. j \in Nat /\ j \in 1..n /\ j + 1 = i + (k + 1)
    BY <1>1
  <2>2. At(j) /\ j + 1 \in 1..n
    BY <1>9, <2>1
  <2> HIDE DEF j
  <2> QED BY <1>7, <2>1, <2>2
<1>10. \A k \in Nat : k \in Rest
  <2> HIDE DEF Rest
  <2> QED BY <1>8, <1>9, SetInduction, Zenon
<1>11. n - i \in Nat /\ i + (n - i) = n /\ n \in 1..n
  BY <1>1
<1>12. At(n)
  BY <1>10, <1>11
<1> QED BY <1>4, <1>5, <1>12, Zenon DEF At

\* Every option of a command line is among its options.
LEMMA LineHeld ==
  ASSUME given \in CommandLines, NoEmptyText, NEW i \in 1..Len(given.options)
  PROVE  Held(Tokens, given.options[i], line)
<1> DEFINE S == given.options
           verb == given.verb
           x == S[i]
<1>1. verb \in Seq(Tokens) /\ S \in Seq(Seq(Tokens)) /\ \A j \in 1..Len(S) : IsGroup(Tokens, S[j])
  BY GroupsOfTheLine, Zenon
<1>2. i \in 1..Len(S) /\ S # <<>>
  <2>1. i \in 1..Len(S) /\ S \in Seq(Seq(Tokens))
    BY <1>1, Zenon
  <2> HIDE DEF S
  <2> QED BY <2>1
<1>3. verb # <<>> /\ (\A j \in DOMAIN verb : IsWord(verb[j])) /\ (verb[1].text = "inspect" => Len(verb) > 1)
  BY <1>2, CommandsAssumption, Zenon
<1> HIDE DEF verb, S
<1>4. PICK a, B : a \in Seq(Tokens) /\ Grouped(Tokens, B) /\ FlattenSeq(S) = a \o (x \o B)
  <2>1. \E a \in Seq(Tokens) : \E B : Grouped(Tokens, B) /\ FlattenSeq(S) = a \o (S[i] \o B)
    BY <1>1, <1>2, OptionHeld
  <2> QED BY <2>1
<1>5. IsGroup(Tokens, x) /\ x \in Seq(Tokens) /\ B \in Seq(Tokens)
  BY <1>1, <1>2, <1>4, Zenon DEF IsGroup, Grouped
<1> HIDE DEF x
<1> DEFINE p == verb \o a
<1>6. Frame(Tokens, p, B)
  <2>1. p \in Seq(Tokens) /\ Len(p) = Len(verb) + Len(a) /\ \A k \in 1..Len(verb) : p[k] = verb[k]
    BY <1>1, <1>4, Concatenated, Zenon
  <2> HIDE DEF p
  <2>2. Len(verb) \in Nat /\ Len(a) \in Nat /\ Len(verb) # 0 /\ DOMAIN verb = 1..Len(verb)
    BY <1>1, <1>3, <1>4
  <2>3. 1 \in 1..Len(verb) /\ p # <<>>
    BY <2>1, <2>2
  <2>4. p[1] = verb[1] /\ IsWord(p[1])
    BY <1>3, <2>1, <2>2, <2>3
  <2>5. ASSUME p[1].text = "inspect" PROVE 2 \in 1..Len(p) /\ IsWord(p[2])
    <3>1. Len(verb) > 1
      BY <1>3, <2>4, <2>5
    <3>2. 2 \in 1..Len(verb) /\ 2 \in 1..Len(p)
      BY <2>1, <2>2, <3>1
    <3> QED BY <1>3, <2>1, <2>2, <3>2
  <2> QED BY <1>4, <2>1, <2>3, <2>4, <2>5, Zenon DEF Frame
<1>7. x \o B \in Seq(Tokens)
  BY <1>5, Concatenated, Zenon
<1> DEFINE m == x \o B
<1>8. verb \o (a \o m) = p \o m
  <2> HIDE DEF m
  <2>1. m \in Seq(Tokens)
    BY <1>7 DEF m
  <2>2. Associates(verb, a, m)
    BY <1>1, <1>4, <2>1, Associated, Zenon
  <2> QED BY <2>2, Zenon DEF Associates
<1>9. line = p \o m
  <2>1. line = verb \o FlattenSeq(S)
    BY DEF line, verb, S
  <2> HIDE DEF p
  <2> QED BY <1>4, <1>8, <2>1, Zenon
<1> HIDE DEF p
<1>10. IsHeld(Tokens, p, x, B, line)
  BY <1>5, <1>6, <1>9, Zenon DEF IsHeld
<1> QED BY <1>10, Zenon DEF Held, x, S

\* --config before the group is taken out with its path.
LEMMA ConfigBefore ==
  ASSUME NEW T, NEW p, NEW x, NEW q, NEW u, IsHeld(T, p, x, q, u),
         NEW a, NEW f, NEW b, Lone(T, IsConfig(T), p, a, f, b), ~Has(IsConfig(T), x \o q),
         extractConfigFlag(u).ok
  PROVE  Held(T, x, extractConfigFlag(u).args)
<1> DEFINE X == IsConfig(T)
           c == x \o q
           d == b \o c
           r == SubSeq(b, 2, Len(b))
<1>0. X \subseteq {t \in T : ~IsWord(t)}
  BY DEF IsConfig, Is, IsWord
<1>1. Frame(T, p, q) /\ IsGroup(T, x) /\ u = p \o c
  BY Zenon DEF IsHeld
<1>2. /\ c \in Seq(T) /\ c # <<>> /\ c[1] = x[1] /\ ~IsWord(x[1]) /\ u \in Seq(T)
      /\ ~Has(X, c) /\ Lone(T, X, p, a, f, b)
  <2>1. HeldParts(T, p, x, q, u)
    BY HeldTyped
  <2> QED BY <2>1, Zenon DEF HeldParts
<1>3. a \in Seq(T) /\ b \in Seq(T)
  BY Zenon DEF Lone
<1> HIDE DEF X, c
<1>4. Lone(T, X, u, a, f, d)
  BY <1>1, <1>2, LoneBefore, Zenon
<1>5. Extracted(extractConfigFlag(u), a, d)
  BY <1>2, <1>4, ExtractLone, Zenon DEF X
<1>6. NamesPath(d) /\ extractConfigFlag(u).args = a \o SubSeq(d, 2, Len(d))
  BY <1>5, Zenon DEF Extracted
<1>7. b # <<>>
  <2> SUFFICES ASSUME b = <<>> PROVE FALSE
    OBVIOUS
  <2>1. d = c
    BY <1>2, ConcatEmptySeq, Zenon
  <2> QED BY <1>2, <1>6, <2>1, Zenon DEF NamesPath
<1>8. SubSeq(d, 2, Len(d)) = r \o c /\ r \in Seq(T)
  <2>1. 2 \in 1..(Len(b) + 1)
    <3>1. Len(b) # 0 /\ Len(b) \in Nat
      BY <1>3, <1>7
    <3> QED BY <3>1
  <2> QED BY <1>2, <1>3, <2>1, SuffixOf, Zenon
<1> HIDE DEF d, r
<1>9. a \o (r \o c) = (a \o r) \o c
  <2>1. Associates(a, r, c)
    BY <1>2, <1>3, <1>8, Associated, Zenon
  <2> QED BY <2>1, Zenon DEF Associates
<1>10. Frame(T, a \o r, q)
  BY <1>0, <1>1, <1>2, <1>8, FrameFront, Zenon
<1>11. IsHeld(T, a \o r, x, q, extractConfigFlag(u).args)
  BY <1>1, <1>6, <1>8, <1>9, <1>10, Zenon DEF IsHeld, c
<1> QED BY <1>11, Zenon DEF Held

\* And so it is behind the group.
LEMMA ConfigBehind ==
  ASSUME NEW T, NEW p, NEW x, NEW q, NEW u, IsHeld(T, p, x, q, u),
         NEW a, NEW f, NEW b, Lone(T, IsConfig(T), q, a, f, b), ~Has(IsConfig(T), p), ~Has(IsConfig(T), x),
         extractConfigFlag(u).ok
  PROVE  Held(T, x, extractConfigFlag(u).args)
<1> DEFINE X == IsConfig(T)
           r == SubSeq(b, 2, Len(b))
           c == p \o x
<1>0. X \subseteq {t \in T : ~IsWord(t)}
  BY DEF IsConfig, Is, IsWord
<1>1. Frame(T, p, q) /\ IsGroup(T, x) /\ u = p \o (x \o q)
  BY Zenon DEF IsHeld
<1>2. /\ p \in Seq(T) /\ x \in Seq(T) /\ q \in Seq(T) /\ u \in Seq(T)
      /\ Lone(T, X, q, a, f, b) /\ ~Has(X, p) /\ ~Has(X, x)
  BY HeldTyped, Zenon DEF HeldParts
<1>3. a \in Seq(T) /\ b \in Seq(T) /\ r \in Seq(T)
  BY DEF Lone
<1> HIDE DEF X, r
<1>4. u = c \o q
  <2>1. Associates(p, x, q)
    BY <1>2, Associated, Zenon
  <2> QED BY <1>1, <2>1, Zenon DEF Associates
<1>5. c \in Seq(T) /\ ~Has(X, c)
  <2>1. c \in Seq(T)
    BY <1>2, Concatenated, Zenon
  <2> QED BY <1>2, <2>1, HasBoth, Zenon
<1> HIDE DEF c
<1>6. Lone(T, X, u, c \o a, f, b)
  BY <1>2, <1>4, <1>5, LoneBehind, Zenon
<1>7. Extracted(extractConfigFlag(u), c \o a, b)
  BY <1>2, <1>6, ExtractLone, Zenon DEF X
<1>8. NamesPath(b) /\ extractConfigFlag(u).args = (c \o a) \o r
  BY <1>7, Zenon DEF Extracted, r
<1>9. Frame(T, p, a \o r)
  BY <1>0, <1>1, <1>2, <1>8, FrameBack, Zenon DEF NamesPath, r
<1>10. (c \o a) \o r = p \o (x \o (a \o r))
  <2>1. a \o r \in Seq(T)
    BY <1>3, Concatenated, Zenon
  <2> DEFINE z == a \o r
  <2>2. Associates(c, a, r)
    BY <1>3, <1>5, Associated, Zenon
  <2>3. z \in Seq(T)
    BY <2>1
  <2> HIDE DEF z
  <2>4. Associates(p, x, z)
    BY <1>2, <2>3, Associated, Zenon
  <2> QED BY <2>2, <2>4, Zenon DEF Associates, z, c
<1>11. IsHeld(T, p, x, a \o r, extractConfigFlag(u).args)
  BY <1>1, <1>8, <1>9, <1>10, Zenon DEF IsHeld
<1> QED BY <1>11, Zenon DEF Held

\* Every other option is held when --config and its path are taken out.
LEMMA ConfigHeld ==
  ASSUME NEW T, NEW x, NEW u, Held(T, x, u), ~Is(x[1], "--config"), extractConfigFlag(u).ok
  PROVE  Held(T, x, extractConfigFlag(u).args)
<1> DEFINE X == IsConfig(T)
<1>1. PICK p, q : IsHeld(T, p, x, q, u)
  BY Zenon DEF Held
<1>2. /\ p \in Seq(T) /\ x \in Seq(T) /\ q \in Seq(T) /\ x \o q \in Seq(T) /\ u \in Seq(T)
      /\ IsGroup(T, x) /\ u = p \o (x \o q)
  BY <1>1, HeldTyped, Zenon DEF HeldParts, IsHeld
<1>3. ~Has(X, x)
  <2> SUFFICES ASSUME NEW i \in 1..Len(x), x[i] \in X PROVE FALSE
    BY Zenon DEF Has
  <2>1. Len(x) \in {1, 2} /\ (Len(x) = 2 => IsWord(x[2]))
    BY <1>2, GroupIs, Zenon DEF IsWord
  <2>2. x[i].option = "--config"
    BY DEF IsConfig, Is
  <2>3. i = 1 \/ (i = 2 /\ Len(x) = 2)
    <3>1. Len(x) \in {1, 2}
      BY <2>1, Zenon
    <3> QED BY <3>1
  <2>4. ~IsWord(x[i])
    BY <2>2 DEF IsWord
  <2>5. i # 1
    BY <2>2, Zenon DEF Is
  <2> QED BY <2>1, <2>3, <2>4, <2>5, Zenon
<1> HIDE DEF X
<1>4. Has(X, x \o q) <=> Has(X, q)
  BY <1>2, <1>3, HasBoth, Zenon
<1>5. Has(X, u) <=> Has(X, p) \/ Has(X, q)
  BY <1>2, <1>4, HasBoth, Zenon
<1>6. Two(X, u) <=> Two(X, p) \/ Two(X, x \o q) \/ (Has(X, p) /\ Has(X, x \o q))
  BY <1>2, HasBoth, Zenon
<1>7. ~Two(X, u)
  BY <1>2, ExtractTwo, Zenon DEF X
<1>8. CASE ~Has(X, u)
  <2>1. extractConfigFlag(u).args = u
    BY <1>2, <1>8, ExtractNone, Zenon DEF X
  <2> QED BY <2>1
<1>9. CASE Has(X, p)
  <2>1. ~Has(X, x \o q) /\ ~Two(X, p)
    BY <1>6, <1>7, <1>9, Zenon
  <2>2. PICK a, f, b : Lone(T, X, p, a, f, b)
    BY <1>2, <1>9, <2>1, LoneOne, Zenon
  <2> QED BY <1>1, <2>1, <2>2, ConfigBefore, Zenon DEF X
<1>10. CASE ~Has(X, p) /\ Has(X, q)
  <2>1. ~Two(X, q)
    <3>1. Two(X, x \o q) <=> Two(X, x) \/ Two(X, q) \/ (Has(X, x) /\ Has(X, q))
      BY <1>2, HasBoth, Zenon
    <3> QED BY <1>6, <1>7, <3>1, Zenon
  <2>2. PICK a, f, b : Lone(T, X, q, a, f, b)
    BY <1>2, <1>10, <2>1, LoneOne, Zenon
  <2> QED BY <1>1, <1>3, <1>10, <2>2, ConfigBehind, Zenon DEF X
<1> QED BY <1>5, <1>8, <1>9, <1>10, Zenon
-----------------------------------------------------------------------------
(* What an accepted command line says about one of its options.            *)

\* What was switched on stays on, and nothing is switched on twice.
StaysOn(s, t, u) == s.seen \subseteq u.seen /\ s.on \subseteq u.on /\ u.on \subseteq s.on \cup ({t.option} \ s.seen)

\* A parser that has read an argument has not forgotten another.
LEMMA OnStays ==
  ASSUME NEW T, NEW g, NEW s \in ParserStates(T), NEW t, NEW u,
         TakesValue(g, s, t, u) \/ TakesBoolean(g, s, t, u) \/ TakesName(g, s, t, u)
  PROVE  StaysOn(s, t, u)
<1>0. s.seen \subseteq u.seen /\ u.on \subseteq s.on \cup {t.option}
  BY OnKept
<1>9. t.option \in s.seen => u.on = s.on
  BY OnKept
<1>10. s.on \subseteq u.on => StaysOn(s, t, u)
  BY <1>0, <1>9 DEF StaysOn
<1> SUFFICES s.on \subseteq u.on
  BY <1>10
<1>1. CASE TakesValue(g, s, t, u)
  BY <1>1 DEF TakesValue, ParserStates
<1>2. CASE TakesBoolean(g, s, t, u)
  <2>1. u = [s EXCEPT !.seen = @ \cup {t.option}, !.on = @ \cup {t.option}]
          \/ u = [s EXCEPT !.seen = @ \cup {t.option}, !.on = @]
    BY <1>2 DEF TakesBoolean
  <2> QED BY <2>1 DEF ParserStates
<1>3. CASE TakesName(g, s, t, u)
  BY <1>3 DEF TakesName, ParserStates
<1> QED BY <1>1, <1>2, <1>3

\* Of an option that stands alone nothing but a boolean can be made, and it
\* keeps what it was given.
IsSwitch(g, r, t) == t.option \in g.booleans /\ (t.option \in r.on <=> t.form \in {"bare", "true"})

\* A boolean option is on if it was given so.
LEMMA GivenSwitch ==
  ASSUME NEW T, NEW g, NEW args, args \in Seq(T), parseOptions(g, args).ok,
         NEW i \in 1..Len(args), ~IsWord(args[i]), i + 1 \in 1..Len(args) => ~IsWord(args[i + 1])
  PROVE  IsSwitch(g, parseOptions(g, args), args[i])
<1> DEFINE n == Len(args)
           o == args[i].option
           yes == args[i].form \in {"bare", "true"}
<1>1. PICK a : /\ Reads(T, g, args, a) /\ parseOptions(g, args) = a[n] /\ a[n].pending = ""
               /\ \A k \in 0..n : a[k].ok
  BY ParseAccepts
<1>2. n \in Nat /\ i \in 1..n /\ (i + 1) - 1 = i
  OBVIOUS
<1>3. \A k \in 1..n : /\ a[k - 1] \in ParserStates(T) /\ a[k] \in ParserStates(T)
                      /\ \/ TakesValue(g, a[k - 1], args[k], a[k])
                         \/ TakesBoolean(g, a[k - 1], args[k], a[k])
                         \/ TakesName(g, a[k - 1], args[k], a[k])
  BY <1>1, ReadStep
<1>4. ~TakesValue(g, a[i - 1], args[i], a[i])
  BY Zenon DEF TakesValue
<1>5. ~TakesName(g, a[i - 1], args[i], a[i])
  <2> SUFFICES ASSUME TakesName(g, a[i - 1], args[i], a[i]) PROVE FALSE
    OBVIOUS
  <2>1. a[i].pending # ""
    <3>1. a[i - 1] \in ParserStates(T)
      BY <1>2, <1>3, SMTT(30)
    <3>2. a[i].pending = o
      BY <3>1 DEF TakesName, ParserStates
    <3> QED BY <3>2, Zenon DEF IsWord
  <2>2. i # n
    BY <1>1, <2>1, Zenon
  <2>3. i + 1 \in 1..n
    BY <1>2, <2>2
  <2>4. \/ TakesValue(g, a[(i + 1) - 1], args[i + 1], a[i + 1])
        \/ TakesBoolean(g, a[(i + 1) - 1], args[i + 1], a[i + 1])
        \/ TakesName(g, a[(i + 1) - 1], args[i + 1], a[i + 1])
    BY <1>3, <2>3, Zenon
  <2>5. TakesValue(g, a[i], args[i + 1], a[i + 1])
    BY <1>2, <2>1, <2>4, Zenon DEF TakesBoolean, TakesName
  <2> QED BY <2>3, <2>5, Zenon DEF TakesValue
<1>6. TakesBoolean(g, a[i - 1], args[i], a[i])
  BY <1>2, <1>3, <1>4, <1>5, Zenon
<1> DEFINE Told(s) == o \in s.seen /\ (o \in s.on <=> yes)
           After1 == {m \in Nat : i + m <= n => Told(a[i + m])}
<1>7. o \in g.booleans /\ Told(a[i])
  <2> DEFINE s == a[i - 1]
             u == a[i]
             t == args[i]
  <2>1. s \in ParserStates(T) /\ TakesBoolean(g, s, t, u)
    BY <1>2, <1>3, <1>6, Zenon
  <2>5. s.on \subseteq s.seen
    <3> DEFINE Fit == {m \in Nat : m <= n => a[m].on \subseteq a[m].seen}
    <3>1. 0 \in Fit
      <4>1. a[0] = Nothing
        BY <1>1, Zenon DEF Reads
      <4>2. Nothing.on = {}
        BY NothingIs, Zenon
      <4> QED BY <4>1, <4>2
    <3>2. ASSUME NEW m \in Nat, m \in Fit PROVE m + 1 \in Fit
      <4> SUFFICES ASSUME m + 1 <= n PROVE a[m + 1].on \subseteq a[m + 1].seen
        OBVIOUS
      <4>1. m + 1 \in 1..n /\ (m + 1) - 1 = m /\ m <= n
        BY <1>2
      <4>2. /\ a[m] \in ParserStates(T)
            /\ \/ TakesValue(g, a[m], args[m + 1], a[m + 1])
               \/ TakesBoolean(g, a[m], args[m + 1], a[m + 1])
               \/ TakesName(g, a[m], args[m + 1], a[m + 1])
        BY <1>3, <4>1
      <4>3. a[m].on \subseteq a[m].seen
        BY <3>2, <4>1
      <4> DEFINE s1 == a[m]
                 t1 == args[m + 1]
                 u1 == a[m + 1]
      <4>4. /\ s1 \in ParserStates(T) /\ s1.on \subseteq s1.seen
            /\ TakesValue(g, s1, t1, u1) \/ TakesBoolean(g, s1, t1, u1) \/ TakesName(g, s1, t1, u1)
        BY <4>2, <4>3
      <4> HIDE DEF s1, t1, u1
      <4>5. u1.on \subseteq u1.seen
        BY <4>4, OnKept
      <4> QED BY <4>5 DEF u1
    <3>3. \A m \in Nat : m \in Fit
      <4> HIDE DEF Fit
      <4> QED BY <3>1, <3>2, SetInduction, Zenon
    <3>4. i - 1 \in Nat /\ i - 1 <= n
      BY <1>2
    <3> QED BY <3>3, <3>4
  <2> HIDE DEF s, u, t, n
  <2>2. t.option \in g.booleans /\ t.option \notin s.seen
    BY <2>1 DEF TakesBoolean
  <2>3. u.seen = s.seen \cup {t.option} /\ u.on = IF t.form \in {"bare", "true"} THEN s.on \cup {t.option} ELSE s.on
    BY <2>1 DEF TakesBoolean, ParserStates
  <2>4. t.option \notin s.on
    BY <2>2, <2>5
  <2>6. t.option \in u.seen /\ (t.option \in u.on <=> t.form \in {"bare", "true"})
    BY <2>3, <2>4
  <2> QED BY <2>2, <2>6 DEF u, t
<1> HIDE DEF n, o, yes
<1>8. \A m \in Nat : m \in After1
  <2>1. 0 \in After1
    <3>1. i + 0 = i
      BY <1>2
    <3> HIDE DEF Told
    <3> QED BY <1>7, <3>1
  <2>2. ASSUME NEW m \in Nat, m \in After1 PROVE m + 1 \in After1
    <3> SUFFICES ASSUME i + (m + 1) <= n PROVE Told(a[i + (m + 1)])
      OBVIOUS
    <3>1. i + (m + 1) \in 1..n /\ (i + (m + 1)) - 1 = i + m /\ i + m <= n
      BY <1>2
    <3> DEFINE s == a[i + m]
               t == args[i + (m + 1)]
               u == a[i + (m + 1)]
    <3>2. /\ s \in ParserStates(T)
          /\ TakesValue(g, s, t, u) \/ TakesBoolean(g, s, t, u) \/ TakesName(g, s, t, u)
      BY <1>3, <3>1
    <3>3. Told(s)
      <4> HIDE DEF Told
      <4> QED BY <2>2, <3>1
    <3> HIDE DEF s, t, u
    <3>4. s.seen \subseteq u.seen /\ s.on \subseteq u.on /\ u.on \subseteq s.on \cup ({t.option} \ s.seen)
      <4>1. StaysOn(s, t, u)
        BY <3>2, OnStays
      <4> QED BY <4>1 DEF StaysOn
    <3>5. Told(u)
      BY <3>3, <3>4
    <3> QED BY <3>5 DEF u
  <2> HIDE DEF After1
  <2> QED BY <2>1, <2>2, SetInduction, Zenon
<1>9. Told(a[n])
  <2>1. n - i \in Nat /\ i + (n - i) = n /\ n <= n
    BY <1>2 DEF n
  <2>2. n - i \in After1
    BY <1>8, <2>1
  <2> HIDE DEF Told
  <2> QED BY <2>1, <2>2
<1> QED BY <1>1, <1>7, <1>9, Zenon DEF IsSwitch, o, yes

\* What a group says is what the parser has read of it.
Said(x, r) ==
  IF Len(x) = 2 THEN r.value[x[1].option] = x[2]
  ELSE booleanFlag(x[1], x[1].option).value = (x[1].option \in r.on)

\* A parser that accepts its arguments has read every option as it is given.
LEMMA GroupSaid ==
  ASSUME NEW T, NEW g, Proper(g), NEW P \in Seq(T), NEW x, IsGroup(T, x), NEW q, Grouped(T, q),
         parseOptions(g, P \o (x \o q)).ok
  PROVE  Said(x, parseOptions(g, P \o (x \o q)))
<1> DEFINE m == x \o q
           args == P \o m
           i == Len(P) + 1
           r == parseOptions(g, args)
<1>1. /\ x \in Seq(T) /\ Len(x) \in {1, 2} /\ x # <<>> /\ ~IsWord(x[1]) /\ q \in Seq(T)
      /\ q # <<>> => ~IsWord(q[1])
  BY GroupIs, GroupedBegins, Zenon DEF IsGroup, Grouped
<1>2. m \in Seq(T) /\ IsJoin(x, q, m)
  BY <1>1, Joined, Zenon
<1> HIDE DEF m
<1>3. args \in Seq(T) /\ IsJoin(P, m, args)
  BY <1>2, Joined, Zenon
<1> HIDE DEF args
<1>4. /\ Len(P) \in Nat /\ Len(x) \in {1, 2} /\ Len(q) \in Nat /\ Len(args) = Len(P) + (Len(x) + Len(q))
      /\ \A k \in 1..(Len(x) + Len(q)) : args[Len(P) + k] = m[k]
      /\ \A k \in 1..Len(x) : m[k] = x[k]
      /\ \A k \in 1..Len(q) : m[Len(x) + k] = q[k]
  BY <1>1, <1>2, <1>3 DEF IsJoin
<1>5. i \in 1..Len(args) /\ args[i] = x[1]
  <2>0. Len(P) \in Nat /\ Len(x) \in {1, 2} /\ Len(q) \in Nat /\ Len(args) = Len(P) + (Len(x) + Len(q))
    BY <1>4, Zenon
  <2>1. 1 \in 1..(Len(x) + Len(q)) /\ 1 \in 1..Len(x) /\ i \in 1..Len(args)
    <3>1. ASSUME NEW lp \in Nat, NEW lx \in {1, 2}, NEW lq \in Nat
          PROVE  1 \in 1..(lx + lq) /\ 1 \in 1..lx /\ lp + 1 \in 1..(lp + (lx + lq))
      OBVIOUS
    <3> QED BY <2>0, <3>1, Zenon
  <2> QED BY <1>4, <2>1, Zenon
<1>6. r.ok
  BY DEF args, m
<1>7. ASSUME Len(x) = 2 PROVE r.value[x[1].option] = x[2]
  <2>1. i + 1 \in 1..Len(args) /\ args[i + 1] = x[2]
    <3>1. 2 \in 1..(Len(x) + Len(q)) /\ 2 \in 1..Len(x) /\ i + 1 = Len(P) + 2
      BY <1>4, <1>7
    <3> QED BY <1>4, <3>1
  <2>2. x[1].option # "" /\ x[2].text # "" /\ IsWord(x[2])
    <3>1. Len(x) # 1
      BY <1>7
    <3> QED BY <1>1, <3>1, Zenon DEF IsGroup, IsWord
  <2> HIDE DEF i, r
  <2>3. x[1].option \notin g.booleans
    <3> SUFFICES ASSUME x[1].option \in g.booleans PROVE FALSE
      OBVIOUS
    <3>1. PICK a : Reads(T, g, args, a) /\ \A k \in 0..Len(args) : a[k].ok
      BY <1>3, <1>6, ParseAccepts, Zenon DEF r
    <3>2. /\ a[i - 1] \in ParserStates(T) /\ a[i] \in ParserStates(T)
          /\ TakesValue(g, a[i - 1], x[1], a[i]) \/ TakesBoolean(g, a[i - 1], x[1], a[i]) \/ TakesName(g, a[i - 1], x[1], a[i])
      BY <1>3, <1>5, <3>1, ReadStep
    <3>3. /\ TakesValue(g, a[i], x[2], a[i + 1]) \/ TakesBoolean(g, a[i], x[2], a[i + 1]) \/ TakesName(g, a[i], x[2], a[i + 1])
      <4>1. (i + 1) - 1 = i
        BY <1>5
      <4>2. \/ TakesValue(g, a[(i + 1) - 1], args[i + 1], a[i + 1])
            \/ TakesBoolean(g, a[(i + 1) - 1], args[i + 1], a[i + 1])
            \/ TakesName(g, a[(i + 1) - 1], args[i + 1], a[i + 1])
        BY <1>3, <2>1, <3>1, ReadStep
      <4> QED BY <2>1, <4>1, <4>2, Zenon
    <3>4. TakesBoolean(g, a[i - 1], x[1], a[i])
      <4>1. x[1].option \notin Valued(g)
        BY Zenon DEF Proper
      <4> QED BY <2>2, <3>2, <4>1, Zenon DEF TakesValue, TakesName, IsWord
    <3>5. a[i].pending = a[i - 1].pending /\ a[i - 1].pending = ""
      BY <3>2, <3>4 DEF TakesBoolean, ParserStates
    <3>6. TakesBoolean(g, a[i], x[2], a[i + 1]) \/ TakesName(g, a[i], x[2], a[i + 1])
      BY <3>3, <3>5, Zenon DEF TakesValue
    <3> QED BY <2>2, <3>6, Zenon DEF TakesBoolean, TakesName, Proper, IsWord
  <2>4. HasText(g, args[i], args[i + 1])
    BY <1>5, <2>1, <2>2, <2>3, Zenon DEF HasText
  <2>5. IsValue(g, r, args[i].option, args[i + 1])
    BY <1>3, <1>5, <1>6, <2>1, <2>4, GivenToken DEF r
  <2> QED BY <1>5, <2>1, <2>5, Zenon DEF IsValue
<1>8. ASSUME Len(x) = 1 PROVE booleanFlag(x[1], x[1].option).value = (x[1].option \in r.on)
  <2>1. i + 1 \in 1..Len(args) => ~IsWord(args[i + 1])
    <3> SUFFICES ASSUME i + 1 \in 1..Len(args) PROVE ~IsWord(args[i + 1])
      OBVIOUS
    <3>1. 2 \in 1..(Len(x) + Len(q)) /\ 1 \in 1..Len(q) /\ i + 1 = Len(P) + 2 /\ Len(x) + 1 = 2
      BY <1>4, <1>8
    <3>2. args[i + 1] = m[2] /\ m[Len(x) + 1] = q[1]
      BY <1>4, <3>1, Zenon
    <3>3. args[i + 1] = q[1]
      BY <3>1, <3>2, Zenon
    <3>4. q # <<>>
      BY <3>1
    <3> QED BY <1>1, <3>3, <3>4, Zenon
  <2> HIDE DEF i, r
  <2>2. ~IsWord(args[i])
    BY <1>1, <1>5, Zenon
  <2>3. IsSwitch(g, r, args[i])
    BY <1>3, <1>5, <1>6, <2>1, <2>2, GivenSwitch, Zenon DEF r
  <2>4. x[1].option \in r.on <=> x[1].form \in {"bare", "true"}
    BY <1>5, <2>3, Zenon DEF IsSwitch
  <2>5. booleanFlag(x[1], x[1].option).value = (x[1].form \in {"bare", "true"})
    BY DEF booleanFlag
  <2> QED BY <2>4, <2>5
<1> HIDE DEF r
<1>9. Len(x) = 2 \/ (Len(x) = 1 /\ Len(x) # 2)
  BY <1>1
<1>10. Said(x, r)
  BY <1>7, <1>8, <1>9, Zenon DEF Said
<1> QED BY <1>10 DEF r, args, m

-----------------------------------------------------------------------------
(* An option of the operator among the arguments of the long command.      *)

\* A group stands somewhere among options.
IsWithin(T, m, x, q, s) == m \in Seq(T) /\ IsGroup(T, x) /\ Grouped(T, q) /\ s = m \o (x \o q)

Within(T, x, s) == \E m, q : IsWithin(T, m, x, q, s)

\* Behind the words of the command it still does.
LEMMA WithinLine ==
  ASSUME NEW T, NEW p, NEW x, NEW q, NEW u, IsHeld(T, p, x, q, u), NEW k \in 1..(Len(p) + 1)
  PROVE  Within(T, x, SubSeq(u, k, Len(u)))
<1> DEFINE m == x \o q
           r == SubSeq(p, k, Len(p))
<1>1. IsGroup(T, x) /\ Grouped(T, q) /\ u = p \o m /\ p \in Seq(T)
  BY Zenon DEF IsHeld, Frame
<1>2. m \in Seq(T)
  BY HeldTyped, Zenon DEF HeldParts
<1> HIDE DEF m
<1>3. r \in Seq(T) /\ SubSeq(u, k, Len(u)) = r \o m
  BY <1>1, <1>2, SuffixOf, Zenon
<1>4. IsWithin(T, r, x, q, SubSeq(u, k, Len(u)))
  BY <1>1, <1>3, Zenon DEF IsWithin, m
<1> QED BY <1>4, Zenon DEF Within

\* Options may follow.
LEMMA WithinMore ==
  ASSUME NEW T, NEW x, NEW s, Within(T, x, s), NEW d, Grouped(T, d)
  PROVE  Within(T, x, s \o d)
<1>1. PICK m, q : IsWithin(T, m, x, q, s)
  BY Zenon DEF Within
<1>2. m \in Seq(T) /\ x \in Seq(T) /\ q \in Seq(T) /\ d \in Seq(T) /\ s = m \o (x \o q) /\ IsGroup(T, x) /\ Grouped(T, q)
  BY <1>1, Zenon DEF IsWithin, IsGroup, Grouped
<1>3. Moves(m, x, q, d)
  BY <1>2, MiddleMoves, Zenon
<1>4. s \o d = m \o (x \o (q \o d))
  BY <1>2, <1>3, Zenon DEF Moves
<1>5. Grouped(T, q \o d)
  BY <1>2, GroupedBoth, Zenon
<1>6. IsWithin(T, m, x, q \o d, s \o d)
  BY <1>2, <1>4, <1>5, Zenon DEF IsWithin
<1> QED BY <1>6, Zenon DEF Within

\* And anything may come before.
LEMMA WithinAfter ==
  ASSUME NEW T, NEW x, NEW s, Within(T, x, s), NEW b \in Seq(T)
  PROVE  Within(T, x, b \o s)
<1>1. PICK m, q : IsWithin(T, m, x, q, s)
  BY Zenon DEF Within
<1> DEFINE n == x \o q
<1>2. m \in Seq(T) /\ x \in Seq(T) /\ q \in Seq(T) /\ s = m \o n /\ IsGroup(T, x) /\ Grouped(T, q)
  BY <1>1, Zenon DEF IsWithin, IsGroup, Grouped
<1>3. n \in Seq(T)
  BY <1>2, Concatenated, Zenon
<1> HIDE DEF n
<1>4. Associates(b, m, n)
  BY <1>2, <1>3, Associated, Zenon
<1>5. b \o m \in Seq(T)
  BY <1>2, Concatenated, Zenon
<1>6. IsWithin(T, b \o m, x, q, b \o s)
  BY <1>2, <1>4, <1>5, Zenon DEF IsWithin, Associates, n
<1> QED BY <1>6, Zenon DEF Within

\* A parser that accepts the arguments has read the group as it is given.
LEMMA WithinSaid ==
  ASSUME NEW T, NEW g, Proper(g), NEW x, NEW s, Within(T, x, s), parseOptions(g, s).ok
  PROVE  Said(x, parseOptions(g, s))
<1>1. PICK m, q : IsWithin(T, m, x, q, s)
  BY Zenon DEF Within
<1>2. m \in Seq(T) /\ IsGroup(T, x) /\ Grouped(T, q) /\ s = m \o (x \o q)
  BY <1>1, Zenon DEF IsWithin
<1> QED BY <1>2, GroupSaid, Zenon

\* More arguments can be considered.
LEMMA HeldWider ==
  ASSUME NEW S, NEW T, S \subseteq T, NEW x, NEW u, Held(S, x, u)
  PROVE  Held(T, x, u)
<1>1. PICK p, q : IsHeld(S, p, x, q, u)
  BY Zenon DEF Held
<1>2. Frame(S, p, q) /\ IsGroup(S, x) /\ u = p \o (x \o q)
  BY <1>1, Zenon DEF IsHeld
<1>3. \A s : s \in Seq(S) => s \in Seq(T)
  OBVIOUS
<1>4. IsGroup(T, x)
  BY <1>2, <1>3, Zenon DEF IsGroup
<1>5. Frame(T, p, q)
  BY <1>2, <1>3, Zenon DEF Frame, Grouped
<1>6. IsHeld(T, p, x, q, u)
  BY <1>2, <1>4, <1>5, Zenon DEF IsHeld
<1> QED BY <1>6, Zenon DEF Held

\* The words at the beginning of a command line come before the group.
LEMMA WordsBefore ==
  ASSUME NEW T, NEW p, NEW x, NEW q, NEW u, IsHeld(T, p, x, q, u), NEW n \in 1..Len(u),
         \A k \in 1..n : IsWord(u[k])
  PROVE  n + 1 \in 1..(Len(p) + 1)
<1> DEFINE m == x \o q
           l == Len(p)
<1>1. u = p \o m /\ p \in Seq(T) /\ m \in Seq(T) /\ m # <<>> /\ ~IsWord(m[1])
  <2>1. HeldParts(T, p, x, q, u) /\ u = p \o m
    BY HeldTyped, Zenon DEF IsHeld
  <2> QED BY <2>1, Zenon DEF HeldParts
<1> HIDE DEF m
<1>2. IsJoin(p, m, u) /\ u \in Seq(T)
  BY <1>1, Joined, Zenon
<1>3. 1 \in 1..Len(m) /\ l \in Nat
  BY <1>1
<1>4. ~IsWord(u[l + 1])
  BY <1>1, <1>2, <1>3, Zenon DEF IsJoin
<1>5. n \in Nat /\ n >= 1
  BY <1>2
<1> HIDE DEF l
<1>6. ~(l + 1 \in 1..n)
  BY <1>4, Zenon
<1>7. n + 1 \in 1..(l + 1)
  BY <1>3, <1>5, <1>6
<1> QED BY <1>7 DEF l

-----------------------------------------------------------------------------
(* The parsers of the long commands: what they ask of the options they     *)
(* have read.                                                              *)
TopGrammar ==
  Grammar({"--include-ebpf-latency", "--application"} \cup ClearOptions,
          {"--duration", "--interval", "--every", "--ui-refresh"}, {"--iterations"}, {"--sort"})

TopAccepts(r) ==
  /\ r.ok /\ ValidSort(r, TopSortFields) /\ Given(r, "--ui-refresh", 1) >= 1 /\ IntervalFits(r, 30, 10)
  /\ ~(ClearOptions \subseteq r.seen)

TargetAccepts(long, r) ==
  /\ r.ok /\ Text(r, "--victim") # "" /\ OneSuspect(r)
  /\ Text(r, "--suspect") # "" \/ "--discover-suspects" \in r.on
  /\ ~({"--output", "--output-dir"} \subseteq r.seen) /\ IntervalFits(r, 100, 20)
  /\ long = "capture" => Text(r, "--output") = "" /\ Text(r, "--output-dir") # ""

\* A command line is what its parser has read, if that is accepted.
Recounts(args, r, accepted) == (Parse(args).ok <=> accepted) /\ (accepted => Parse(args) = r)

\* What is required is asked for.
LEMMA RequireRecounts ==
  ASSUME NEW args, NEW r, NEW c, r.ok, Parse(args) = Require(r, c) \/ (~c /\ Parse(args) = Refused)
  PROVE  Recounts(args, r, c)
<1>1. ~Refused.ok
  BY NothingIs, Zenon
<1>2. CASE c
  BY <1>2, Zenon DEF Recounts, Require
<1>3. CASE ~c
  BY <1>1, <1>3, Zenon DEF Recounts, Require
<1> QED BY <1>2, <1>3

\* What is refused is not accepted.
LEMMA RefusedRecounts ==
  ASSUME NEW args, NEW r, NEW c, ~c, ~Parse(args).ok
  PROVE  Recounts(args, r, c)
BY Zenon DEF Recounts

\* top.
LEMMA TopRecounts ==
  ASSUME NEW T, Word("top") \in T, NEW s \in Seq(T)
  PROVE  LET r == parseOptions(TopGrammar, s) IN Recounts(<<Word("top")>> \o s, r, TopAccepts(r))
<1> DEFINE w == <<Word("top")>>
           args == w \o s
           r == parseOptions(TopGrammar, s)
           t == parseOptions(TopGrammar, SubSeq(args, 2, Len(args)))
           c == /\ t.ok /\ StartsWith(args, <<"top">>) /\ ValidSort(t, TopSortFields)
                /\ Given(t, "--ui-refresh", 1) >= 1 /\ IntervalFits(t, 30, 10) /\ ~(ClearOptions \subseteq t.seen)
<1>1. w \in Seq(T) /\ w # <<>> /\ w[1] = Word("top") /\ Len(w) = 1
  BY OneIs, Zenon
<1>2. Words(<<"top">>) = w /\ Len(<<"top">>) = 1
  BY DEF Words
<1> HIDE DEF w
<1>3. args \in Seq(T) /\ Len(args) = Len(w) + Len(s) /\ Len(s) \in Nat
  <2>1. Len(s) \in Nat
    OBVIOUS
  <2> QED BY <1>1, <2>1, Concatenated, Zenon
<1>4. args # <<>> /\ args[1] = Word("top")
  BY <1>1, BeginsAsBefore, Zenon
<1>5. SubSeq(args, 1, Len(w)) = w /\ SubSeq(args, Len(w) + 1, Len(args)) = s
  BY <1>1, PartsOf, Zenon
<1> HIDE DEF args
<1>6. SubSeq(args, 1, 1) = w /\ SubSeq(args, 2, Len(args)) = s /\ Len(args) >= 1
  BY <1>1, <1>3, <1>5
<1>7. StartsWith(args, <<"top">>)
  BY <1>2, <1>6 DEF StartsWith
<1>8. Name(args) = <<"top">>
  <2>1. args[1].text = "top"
    BY <1>4, WordIs, Zenon
  <2>2. \A x : <<"top", x>> \notin TwoWordCommands
    BY DEF TwoWordCommands
  <2> QED BY <1>4, <2>1, <2>2, Zenon DEF Name
<1>9. Parse(args) = parseTopArgs(args)
  BY <1>4, <1>8 DEF Parse
<1>10. parseTopArgs(args) = Require(t, c)
  BY Zenon DEF parseTopArgs, TopGrammar
<1>11. t = r
  BY <1>6, Zenon
<1>12. c <=> TopAccepts(r)
  BY <1>7, <1>11, Zenon DEF TopAccepts
<1> HIDE DEF t, c, r
<1>13. CASE r.ok
  <2>1. Recounts(args, t, c)
    BY <1>9, <1>10, <1>11, <1>13, RequireRecounts, Zenon
  <2> QED BY <1>11, <1>12, <2>1, Zenon DEF args, w, r, Recounts
<1>14. CASE ~r.ok
  <2>1. ~c /\ ~TopAccepts(r)
    BY <1>12, <1>14, Zenon DEF TopAccepts
  <2>2. ~Parse(args).ok
    BY <1>9, <1>10, <2>1, NotRequired, NothingIs, Zenon
  <2>3. Recounts(args, r, TopAccepts(r))
    BY <2>1, <2>2, RefusedRecounts, Zenon
  <2> QED BY <2>3 DEF args, w, r
<1> QED BY <1>13, <1>14

\* diagnose and capture.
LEMMA TargetRecounts ==
  ASSUME NEW T, NEW long \in {"diagnose", "capture"}, Word(long) \in T, Word("noisy-neighbor") \in T, NEW s \in Seq(T)
  PROVE  LET r == parseOptions(TargetGrammar(long = "diagnose"), s)
         IN Recounts(Words(<<long, "noisy-neighbor">>) \o s, r, TargetAccepts(long, r))
<1> DEFINE args == Words(<<long, "noisy-neighbor">>) \o s
           json == long = "diagnose"
           r == parseOptions(TargetGrammar(json), s)
           t == parseOptions(TargetGrammar(json), SubSeq(args, 3, Len(args)))
           c == /\ t.ok
                /\ Text(t, "--victim") # ""
                /\ OneSuspect(t)
                /\ Text(t, "--suspect") # "" \/ "--discover-suspects" \in t.on
                /\ ~({"--output", "--output-dir"} \subseteq t.seen)
                /\ IntervalFits(t, 100, 20)
           p == parseTimedTargetOptions(args, 100, 20, TRUE, TRUE, TRUE, TRUE, json)
           dd == p.ok /\ IsNoisyNeighbor(args)
           ee == p.ok /\ IsNoisyNeighbor(args) /\ Text(p, "--output") = "" /\ Text(p, "--output-dir") # ""
<1>1. Leads(T, long, "noisy-neighbor", s, args)
  BY Leading, Zenon
<1>2. args # <<>> /\ SubSeq(args, 3, Len(args)) = s
  BY <1>1, Zenon DEF Leads
<1> HIDE DEF args
<1>3. Name(args) = <<long>> /\ IsNoisyNeighbor(args)
  <2>1. /\ Name(args) = (IF <<long, "noisy-neighbor">> \in TwoWordCommands THEN <<long, "noisy-neighbor">> ELSE <<long>>)
        /\ IsNoisyNeighbor(args) = ("noisy-neighbor" = "noisy-neighbor")
    BY <1>1, LeadingName, Zenon
  <2>2. <<long, "noisy-neighbor">> \notin TwoWordCommands
    BY CommandNames, Zenon
  <2> QED BY <2>1, <2>2, Zenon
<1>4. t = r
  BY <1>2, Zenon
<1>5. p = Require(t, c)
  BY DEF parseTimedTargetOptions, TargetGrammar
<1>6. Parse(args) = IF long = "diagnose" THEN Require(p, dd) ELSE Require(p, ee)
  <2>1. long = "diagnose" => Parse(args) = parseDiagnoseNoisyNeighborArgs(args)
    BY <1>2, <1>3, ProbeParsers, Zenon
  <2>2. long = "capture" => Parse(args) = parseCaptureNoisyNeighborArgs(args)
    BY <1>2, <1>3, ProbeParsers, Zenon
  <2>3. long = "diagnose" => parseDiagnoseNoisyNeighborArgs(args) = Require(p, dd)
    BY Zenon DEF parseDiagnoseNoisyNeighborArgs
  <2>4. long = "capture" => parseCaptureNoisyNeighborArgs(args) = Require(p, ee)
    BY Zenon DEF parseCaptureNoisyNeighborArgs
  <2>5. long = "diagnose" \/ (long = "capture" /\ long # "diagnose")
    OBVIOUS
  <2> HIDE DEF p, dd, ee
  <2> QED BY <2>1, <2>2, <2>3, <2>4, <2>5, Zenon
<1>7. ~Refused.ok
  BY NothingIs, Zenon
<1>8. \A x : Require(t, x) = (IF x THEN t ELSE Refused)
  BY Zenon DEF Require
<1>9. p = IF c THEN t ELSE Refused
  BY <1>5, Zenon DEF Require
<1>10. c <=> (c /\ t.ok)
  BY Zenon
<1>11. Parse(args).ok => c /\ Parse(args) = t /\ (long = "capture" => Text(t, "--output") = "" /\ Text(t, "--output-dir") # "")
  <2> HIDE DEF c, t
  <2> SUFFICES ASSUME Parse(args).ok PROVE c /\ Parse(args) = t /\ (long = "capture" => Text(t, "--output") = "" /\ Text(t, "--output-dir") # "")
    BY Zenon
  <2>1. CASE long = "diagnose"
    <3>1. dd /\ Parse(args) = p
      <4> HIDE DEF p, dd
      <4>1. Parse(args) = Require(p, dd)
        BY <1>6, <2>1, Zenon
      <4> QED BY <4>1, RequireIs, Zenon
    <3>2. c /\ p = t
      <4> HIDE DEF p
      <4> QED BY <1>7, <1>9, <3>1, Zenon
    <3>3. long # "capture"
      BY <2>1
    <3> HIDE DEF p
    <3> QED BY <3>1, <3>2, <3>3, Zenon
  <2>2. CASE long = "capture"
    <3>0. long # "diagnose"
      BY <2>2
    <3>1. ee /\ Parse(args) = p
      <4> HIDE DEF p, ee
      <4>1. Parse(args) = Require(p, ee)
        BY <1>6, <3>0, Zenon
      <4> QED BY <4>1, RequireIs, Zenon
    <3>2. c /\ p = t
      <4> HIDE DEF p
      <4> QED BY <1>7, <1>9, <3>1, Zenon
    <3> HIDE DEF p
    <3> QED BY <3>1, <3>2, Zenon
  <2> QED BY <2>1, <2>2
<1>12. c /\ (long = "capture" => Text(t, "--output") = "" /\ Text(t, "--output-dir") # "") => Parse(args) = t
  <2> SUFFICES ASSUME c, long = "capture" => Text(t, "--output") = "" /\ Text(t, "--output-dir") # "" PROVE Parse(args) = t
    BY Zenon
  <2>1. p = t /\ t.ok
    <3> HIDE DEF p, t
    <3> QED BY <1>9, Zenon
  <2>2. dd /\ (long = "capture" => ee)
    <3> HIDE DEF p, t
    <3> QED BY <1>3, <2>1, Zenon
  <2>3. long = "diagnose" \/ (long = "capture" /\ long # "diagnose")
    OBVIOUS
  <2> HIDE DEF p, t, c, dd, ee
  <2> QED BY <1>6, <2>1, <2>2, <2>3, Zenon DEF Require
<1>13. TargetAccepts(long, r) <=> c /\ (long = "capture" => Text(t, "--output") = "" /\ Text(t, "--output-dir") # "")
  BY <1>4, Zenon DEF TargetAccepts
<1> HIDE DEF c, p, dd, ee
<1>14. c => t.ok
  BY <1>10, Zenon
<1> HIDE DEF r, t
<1>15. Recounts(args, r, TargetAccepts(long, r))
  BY <1>4, <1>11, <1>12, <1>13, <1>14, Zenon DEF Recounts
<1> QED BY <1>15 DEF args, r

-----------------------------------------------------------------------------
(* A default among options that say nothing of it.                         *)
Lacking(s, o) == \A i \in 1..Len(s) : s[i].option # o

\* This is what is asked before a default is filled in.
LEMMA LackingIs ==
  ASSUME NEW T, NEW s \in Seq(T), NEW o
  PROVE  Lacking(s, o) <=> ~hasOption(s, o)
<1>1. DOMAIN s = 1..Len(s)
  OBVIOUS
<1> QED BY <1>1, Zenon DEF Lacking, hasOption, Is

\* No arguments, and one more.
LEMMA SequencesAre ==
  ASSUME NEW T
  PROVE  <<>> \in Seq(T) /\ \A s \in Seq(T) : \A t \in T : s \o <<t>> \in Seq(T)
OBVIOUS

\* All but the last argument lack what all of them lack.
LEMMA LackingMore ==
  ASSUME NEW T, NEW s \in Seq(T), NEW t \in T, NEW o
  PROVE  Lacking(s \o <<t>>, o) <=> Lacking(s, o) /\ t.option # o
<1> DEFINE z == <<t>>
           v == s \o z
<1>1. z \in Seq(T) /\ Len(z) = 1 /\ z[1] = t
  OBVIOUS
<1> HIDE DEF z
<1>2. v \in Seq(T) /\ IsJoin(s, z, v)
  BY <1>1, Joined, Zenon
<1> HIDE DEF v
<1>3. Len(s) \in Nat
  OBVIOUS
<1>4. v[Len(s) + 1] = t /\ Len(v) = Len(s) + 1
  <2>1. 1 \in 1..Len(z)
    BY <1>1
  <2> QED BY <1>1, <1>2, <2>1, Zenon DEF IsJoin
<1>5. Lacking(v, o) => Lacking(s, o) /\ t.option # o
  <2> SUFFICES ASSUME Lacking(v, o) PROVE Lacking(s, o) /\ t.option # o
    OBVIOUS
  <2>1. Len(s) + 1 \in 1..Len(v) /\ \A i \in 1..Len(s) : i \in 1..Len(v)
    BY <1>3, <1>4
  <2> QED BY <1>2, <1>4, <2>1, Zenon DEF Lacking, IsJoin
<1>6. Lacking(s, o) /\ t.option # o => Lacking(v, o)
  <2> SUFFICES ASSUME Lacking(s, o), t.option # o, NEW i \in 1..Len(v) PROVE v[i].option # o
    BY Zenon DEF Lacking
  <2>1. i \in 1..Len(s) \/ i = Len(s) + 1
    BY <1>3, <1>4
  <2> QED BY <1>2, <1>4, <2>1, Zenon DEF Lacking, IsJoin
<1> QED BY <1>5, <1>6 DEF v, z

\* What is not among the arguments is not read of them.
Unread(e, o) == o \notin e.seen /\ e.pending # o

\* One argument more.
LEMMA UnreadMore ==
  ASSUME NEW T, NEW g, NEW s \in ParserStates(T), NEW t \in T, NEW o, o # "", Unread(s, o), t.option # o
  PROVE  Unread(parseArgument(g, s, t), o)
<1> DEFINE u == parseArgument(g, s, t)
<1>1. \/ ~u.ok /\ (u = s \/ u = Refused)
      \/ s.ok /\ (TakesValue(g, s, t, u) \/ TakesBoolean(g, s, t, u) \/ TakesName(g, s, t, u))
  BY ArgumentCases
<1> HIDE DEF u
<1>2. Refused.seen = {} /\ Refused.pending = ""
  BY DEF Refused, Nothing
<1>3. CASE u = s
  BY <1>3, Zenon DEF u
<1>4. CASE u = Refused
  <2>1. u.seen = {} /\ u.pending # o
    BY <1>2, <1>4, Zenon
  <2> QED BY <2>1 DEF Unread, u
<1>5. CASE TakesValue(g, s, t, u)
  <2>1. u.pending = "" /\ u.seen = s.seen \cup {s.pending}
    BY <1>5 DEF TakesValue, ParserStates
  <2>2. o \notin u.seen
    BY <2>1 DEF Unread
  <2> QED BY <2>1, <2>2, Zenon DEF Unread, u
<1>6. CASE TakesBoolean(g, s, t, u)
  <2>1. u.pending = s.pending /\ u.seen = s.seen \cup {t.option}
    BY <1>6 DEF TakesBoolean, ParserStates
  <2>2. o \notin u.seen
    BY <2>1 DEF Unread
  <2> QED BY <2>1, <2>2, Zenon DEF Unread, u
<1>7. CASE TakesName(g, s, t, u)
  <2>1. u.pending = t.option /\ u.seen = s.seen
    BY <1>7 DEF TakesName, ParserStates
  <2> QED BY <2>1, Zenon DEF Unread, u
<1> QED BY <1>1, <1>3, <1>4, <1>5, <1>6, <1>7 DEF u

\* All of them.
LEMMA AfterUnread ==
  ASSUME NEW T, NEW g, NEW s \in ParserStates(T), NEW o, o # "", Unread(s, o), NEW q \in Seq(T), Lacking(q, o)
  PROVE  Unread(After(T, g, s, q), o)
<1> DEFINE S == {r \in Seq(T) : Lacking(r, o) => Unread(After(T, g, s, r), o)}
<1>1. <<>> \in S
  <2>1. After(T, g, s, <<>>) = s
    BY AfterNone, Zenon
  <2>2. <<>> \in Seq(T)
    BY SequencesAre, Zenon
  <2> QED BY <2>1, <2>2, Zenon
<1>2. ASSUME NEW r \in Seq(T), NEW t \in T, r \in S PROVE r \o <<t>> \in S
  <2> DEFINE v == r \o <<t>>
             e == After(T, g, s, r)
  <2>1. v \in Seq(T)
    BY SequencesAre, Zenon
  <2>2. Lacking(v, o) <=> Lacking(r, o) /\ t.option # o
    BY LackingMore, Zenon
  <2>3. e \in ParserStates(T) /\ After(T, g, s, v) = parseArgument(g, e, t)
    BY AfterMore, Zenon
  <2>4. Lacking(r, o) => Unread(e, o)
    BY <1>2, Zenon
  <2> HIDE DEF v, e
  <2>5. ASSUME Lacking(v, o) PROVE Unread(After(T, g, s, v), o)
    <3>1. Unread(e, o) /\ t.option # o
      BY <2>2, <2>4, <2>5, Zenon
    <3>2. Unread(parseArgument(g, e, t), o)
      BY <2>3, <3>1, UnreadMore, Zenon
    <3> QED BY <2>3, <3>2, Zenon
  <2> QED BY <2>1, <2>5, Zenon DEF v
<1>3. \A r \in Seq(T) : r \in S
  <2> HIDE DEF S
  <2>1. \A r \in Seq(T) : \A t \in T : r \in S => r \o <<t>> \in S
    BY <1>2, Zenon
  <2> QED BY <1>1, <2>1, AppendInduction, Zenon
<1> QED BY <1>3, Zenon

\* What a group changes, whether or not it is accepted.
Assign(f, o, x) == [p \in DOMAIN f \cup {o} |-> IF p = o THEN x ELSE f[p]]
PutValue(f, d) == IF Len(d) = 1 THEN f ELSE Assign(f, d[1].option, d[2])
PutOn(on, d) == IF Len(d) = 1 /\ d[1].form \in {"bare", "true"} THEN on \cup {d[1].option} ELSE on

IsPut(T, s, d, w) ==
  /\ w \in ParserStates(T) /\ w.ok = s.ok /\ w.pending = s.pending /\ w.seen = s.seen \cup {d[1].option}
  /\ w.on = PutOn(s.on, d) /\ w.value = PutValue(s.value, d)

\* Two options are assigned in either order.
LEMMA AssignsCommute ==
  ASSUME NEW f, NEW a, NEW b, a # b, NEW x, NEW y
  PROVE  Assign(Assign(f, a, x), b, y) = Assign(Assign(f, b, y), a, x)
BY DEF Assign

\* The state of a parser is what it has read.
LEMMA SameReading ==
  ASSUME NEW T, NEW s \in ParserStates(T), NEW u \in ParserStates(T),
         s.ok = u.ok, s.pending = u.pending, s.seen = u.seen, s.on = u.on, s.value = u.value
  PROVE  s = u
BY DEF ParserStates

\* A value more is typed.
LEMMA AssignTyped ==
  ASSUME NEW T, NEW X, NEW f \in UNION {[D -> T] : D \in SUBSET X}, NEW o \in X, NEW x \in T
  PROVE  Assign(f, o, x) \in UNION {[D -> T] : D \in SUBSET X}
<1>1. PICK D \in SUBSET X : f \in [D -> T]
  OBVIOUS
<1>2. Assign(f, o, x) \in [D \cup {o} -> T]
  BY <1>1 DEF Assign
<1> QED BY <1>2

\* What is left of the other fields.
LEMMA PutIs ==
  ASSUME NEW T, NEW s \in ParserStates(T), NEW d, IsGroup(T, d)
  PROVE  IsPut(T, s, d, With(s, d))
<1> DEFINE o == d[1].option
           y == d[2]
           w == With(s, d)
           X == Texts(T)
           V == UNION {[D -> T] : D \in SUBSET Texts(T)}
<1>1. Len(d) \in {1, 2} /\ o \in X /\ (Len(d) = 2 => y \in T)
  BY GroupIs DEF Texts
<1>2. s \in [ok : BOOLEAN, pending : X, seen : SUBSET X, on : SUBSET X, value : V]
  BY DEF ParserStates
<1>3. CASE Len(d) = 1
  <2> DEFINE n == IF d[1].form \in {"bare", "true"} THEN s.on \cup {o} ELSE s.on
  <2>1. w = [s EXCEPT !.seen = s.seen \cup {o}, !.on = n]
    BY <1>3 DEF With
  <2>2. n = PutOn(s.on, d) /\ s.value = PutValue(s.value, d)
    BY <1>3, Zenon DEF PutOn, PutValue
  <2>3. n \in SUBSET X
    BY <1>1, <1>2
  <2> HIDE DEF n, o, w, X, V
  <2>4. w \in [ok : BOOLEAN, pending : X, seen : SUBSET X, on : SUBSET X, value : V]
        /\ w.ok = s.ok /\ w.pending = s.pending /\ w.seen = s.seen \cup {o} /\ w.on = n /\ w.value = s.value
    BY <1>1, <1>2, <2>1, <2>3
  <2> QED BY <2>2, <2>4, Zenon DEF IsPut, ParserStates, o, w, X, V
<1>4. CASE Len(d) = 2
  <2> DEFINE n == Assign(s.value, o, y)
  <2>0. Len(d) # 1
    BY <1>4
  <2>1. w = [s EXCEPT !.seen = s.seen \cup {o}, !.value = n]
    BY <2>0 DEF With, Assign
  <2>2. s.on = PutOn(s.on, d) /\ n = PutValue(s.value, d)
    BY <2>0, Zenon DEF PutOn, PutValue
  <2>3. n \in V
    <3> HIDE DEF o, y
    <3> QED BY <1>1, <1>2, <1>4, AssignTyped
  <2> HIDE DEF n, o, w, X, V
  <2>4. w \in [ok : BOOLEAN, pending : X, seen : SUBSET X, on : SUBSET X, value : V]
        /\ w.ok = s.ok /\ w.pending = s.pending /\ w.seen = s.seen \cup {o} /\ w.on = s.on /\ w.value = n
    BY <1>1, <1>2, <2>1, <2>3
  <2> QED BY <2>2, <2>4, Zenon DEF IsPut, ParserStates, o, w, X, V
<1> QED BY <1>1, <1>3, <1>4

\* What a parser has made of an argument, field by field.
IsTaken(g, s, t, u) ==
  \/ /\ s.pending # "" /\ IsWord(t) /\ AcceptsValue(g, s.pending, t)
     /\ u.ok = s.ok /\ u.pending = "" /\ u.seen = s.seen \cup {s.pending} /\ u.on = s.on
     /\ u.value = Assign(s.value, s.pending, t)
  \/ /\ s.pending = "" /\ t.option \in g.booleans /\ t.form # "bad" /\ t.option \notin s.seen
     /\ u.ok = s.ok /\ u.pending = "" /\ u.seen = s.seen \cup {t.option} /\ u.value = s.value
     /\ u.on = IF t.form \in {"bare", "true"} THEN s.on \cup {t.option} ELSE s.on
  \/ /\ s.pending = "" /\ t.option \in Valued(g) \ g.booleans /\ t.form = "bare" /\ ~Repeated(g, s, t.option)
     /\ u.ok = s.ok /\ u.pending = t.option /\ u.seen = s.seen /\ u.on = s.on /\ u.value = s.value
\* What is accepted is taken, field by field.
LEMMA AcceptedIsTaken ==
  ASSUME NEW T, NEW g, Proper(g), NEW s \in ParserStates(T), NEW t \in T, parseArgument(g, s, t).ok
  PROVE  s.ok /\ IsTaken(g, s, t, parseArgument(g, s, t))
<1> DEFINE u == parseArgument(g, s, t)
<1>1. s.ok /\ (TakesValue(g, s, t, u) \/ TakesBoolean(g, s, t, u) \/ TakesName(g, s, t, u))
  BY ArgumentCases
<1> HIDE DEF u
<1>2. CASE TakesValue(g, s, t, u)
  BY <1>1, <1>2 DEF TakesValue, ParserStates, IsTaken, Assign, u
<1>3. CASE TakesBoolean(g, s, t, u)
  BY <1>1, <1>3 DEF TakesBoolean, ParserStates, IsTaken, u
<1>4. CASE TakesName(g, s, t, u)
  <2>1. t.option \notin g.booleans
    BY <1>4, Zenon DEF TakesName, Proper
  <2> QED BY <1>1, <1>4, <2>1 DEF TakesName, ParserStates, IsTaken, u
<1> QED BY <1>1, <1>2, <1>3, <1>4

\* What is taken is what the parser makes of the argument.
LEMMA TakenIs ==
  ASSUME NEW T, NEW g, NEW s \in ParserStates(T), NEW t \in T, s.ok, NEW u \in ParserStates(T), IsTaken(g, s, t, u)
  PROVE  u = parseArgument(g, s, t)
<1> DEFINE w == parseArgument(g, s, t)
<1>1. w \in ParserStates(T)
  BY ArgumentTyped
<1>2. CASE /\ s.pending # "" /\ IsWord(t) /\ AcceptsValue(g, s.pending, t)
           /\ u.ok = s.ok /\ u.pending = "" /\ u.seen = s.seen \cup {s.pending} /\ u.on = s.on
           /\ u.value = Assign(s.value, s.pending, t)
  <2>1. w = [s EXCEPT !.pending = "", !.seen = @ \cup {s.pending}, !.value = Assign(s.value, s.pending, t)]
    BY <1>2 DEF parseArgument, setValue, Assign
  <2> HIDE DEF w
  <2>2. w.ok = s.ok /\ w.pending = "" /\ w.seen = s.seen \cup {s.pending} /\ w.on = s.on
        /\ w.value = Assign(s.value, s.pending, t)
    BY <2>1 DEF ParserStates
  <2>3. u = w
    BY <1>1, <1>2, <2>2, SameReading, Zenon
  <2> QED BY <2>3 DEF w
<1>3. CASE /\ s.pending = "" /\ t.option \in g.booleans /\ t.form # "bad" /\ t.option \notin s.seen
           /\ u.ok = s.ok /\ u.pending = "" /\ u.seen = s.seen \cup {t.option} /\ u.value = s.value
           /\ u.on = IF t.form \in {"bare", "true"} THEN s.on \cup {t.option} ELSE s.on
  <2>1. w = [s EXCEPT !.seen = @ \cup {t.option}, !.on = IF t.form \in {"bare", "true"} THEN s.on \cup {t.option} ELSE s.on]
    BY <1>3 DEF parseArgument, setKnownBooleanOption, booleanFlag
  <2> HIDE DEF w
  <2>2. w.ok = s.ok /\ w.pending = s.pending /\ w.seen = s.seen \cup {t.option} /\ w.value = s.value
        /\ w.on = IF t.form \in {"bare", "true"} THEN s.on \cup {t.option} ELSE s.on
    BY <2>1 DEF ParserStates
  <2>3. u = w
    BY <1>1, <1>3, <2>2, SameReading, Zenon
  <2> QED BY <2>3 DEF w
<1>4. CASE /\ s.pending = "" /\ t.option \in Valued(g) \ g.booleans /\ t.form = "bare" /\ ~Repeated(g, s, t.option)
           /\ u.ok = s.ok /\ u.pending = t.option /\ u.seen = s.seen /\ u.on = s.on /\ u.value = s.value
  <2>1. w = [s EXCEPT !.pending = t.option]
    BY <1>4 DEF parseArgument
  <2> HIDE DEF w
  <2>2. w.ok = s.ok /\ w.pending = t.option /\ w.seen = s.seen /\ w.value = s.value /\ w.on = s.on
    BY <2>1 DEF ParserStates
  <2>3. u = w
    BY <1>1, <1>4, <2>2, SameReading, Zenon
  <2> QED BY <2>3 DEF w
<1> QED BY <1>2, <1>3, <1>4 DEF IsTaken
\* What other options were given stays.
LEMMA PutsCommute ==
  ASSUME NEW f, NEW d, NEW p, NEW t, p # d[1].option
  PROVE  PutValue(Assign(f, p, t), d) = Assign(PutValue(f, d), p, t)
<1>1. CASE Len(d) = 1
  BY <1>1, Zenon DEF PutValue
<1>2. CASE Len(d) # 1
  <2>1. \A h : PutValue(h, d) = Assign(h, d[1].option, d[2])
    BY <1>2, Zenon DEF PutValue
  <2>2. Assign(Assign(f, p, t), d[1].option, d[2]) = Assign(Assign(f, d[1].option, d[2]), p, t)
    BY AssignsCommute
  <2> QED BY <2>1, <2>2, Zenon
<1> QED BY <1>1, <1>2

\* Another option is as new to the parser as it was.
LEMMA RepeatedSame ==
  ASSUME NEW T, NEW g, NEW s \in ParserStates(T), s.seen \subseteq g.booleans \cup DOMAIN s.value,
         NEW d, NEW w, IsPut(T, s, d, w), NEW n, n # d[1].option, n \notin g.booleans
  PROVE  Repeated(g, w, n) <=> Repeated(g, s, n)
<1> DEFINE o == d[1].option
<1>1. w.seen = s.seen \cup {o} /\ w.value = PutValue(s.value, d)
  BY Zenon DEF IsPut
<1>2. n \in w.seen <=> n \in s.seen
  BY <1>1
<1>3. n \in DOMAIN s.value => w.value[n] = s.value[n]
  <2>1. CASE Len(d) = 1
    BY <1>1, <2>1, Zenon DEF PutValue
  <2>2. CASE Len(d) # 1
    <3>1. w.value = Assign(s.value, o, d[2])
      BY <1>1, <2>2, Zenon DEF PutValue
    <3> QED BY <3>1 DEF Assign
  <2> QED BY <2>1, <2>2
<1>4. n \in s.seen => n \in DOMAIN s.value
  OBVIOUS
<1> QED BY <1>2, <1>3, <1>4, Zenon DEF Repeated

\* A group of another option can be read before an argument instead of after it.
LEMMA GroupCommutes ==
  ASSUME NEW T, NEW g, Proper(g), NEW d, IsGroup(T, d), NEW s \in ParserStates(T), NEW t \in T,
         s.seen \subseteq g.booleans \cup DOMAIN s.value, s.pending # d[1].option, t.option # d[1].option,
         parseArgument(g, s, t).ok
  PROVE  parseArgument(g, With(s, d), t) = With(parseArgument(g, s, t), d)
<1> DEFINE o == d[1].option
           u == parseArgument(g, s, t)
           w == With(s, d)
           x == With(u, d)
<1>1. u \in ParserStates(T)
  BY ArgumentTyped
<1>2. IsPut(T, s, d, w)
  BY PutIs
<1>3. s.ok /\ IsTaken(g, s, t, u)
  BY AcceptedIsTaken
<1>4. IsPut(T, u, d, x)
  BY <1>1, PutIs
<1> HIDE DEF u, w, x
<1>5. /\ w \in ParserStates(T) /\ w.ok = s.ok /\ w.pending = s.pending /\ w.seen = s.seen \cup {o}
      /\ w.on = PutOn(s.on, d) /\ w.value = PutValue(s.value, d)
  BY <1>2, Zenon DEF IsPut
<1>6. /\ x \in ParserStates(T) /\ x.ok = u.ok /\ x.pending = u.pending /\ x.seen = u.seen \cup {o}
      /\ x.on = PutOn(u.on, d) /\ x.value = PutValue(u.value, d)
  BY <1>4, Zenon DEF IsPut
<1> SUFFICES IsTaken(g, w, t, x)
  <2>1. x = parseArgument(g, w, t)
    BY <1>3, <1>5, <1>6, TakenIs, Zenon
  <2> QED BY <2>1, Zenon DEF u, w, x
<1>7. CASE /\ s.pending # "" /\ IsWord(t) /\ AcceptsValue(g, s.pending, t)
           /\ u.ok = s.ok /\ u.pending = "" /\ u.seen = s.seen \cup {s.pending} /\ u.on = s.on
           /\ u.value = Assign(s.value, s.pending, t)
  <2>0. PutValue(Assign(s.value, s.pending, t), d) = Assign(PutValue(s.value, d), s.pending, t)
    BY PutsCommute
  <2>1. x.value = Assign(w.value, w.pending, t)
    BY <1>5, <1>6, <1>7, <2>0, Zenon
  <2>2. x.seen = w.seen \cup {w.pending}
    BY <1>5, <1>6, <1>7
  <2>3. w.pending # "" /\ AcceptsValue(g, w.pending, t) /\ x.ok = w.ok /\ x.pending = "" /\ x.on = w.on
    BY <1>5, <1>6, <1>7, Zenon
  <2>4. IsTaken(g, w, t, x)
    BY <1>7, <2>1, <2>2, <2>3, Zenon DEF IsTaken
  <2> QED BY <2>4, Zenon
<1>8. CASE /\ s.pending = "" /\ t.option \in g.booleans /\ t.form # "bad" /\ t.option \notin s.seen
           /\ u.ok = s.ok /\ u.pending = "" /\ u.seen = s.seen \cup {t.option} /\ u.value = s.value
           /\ u.on = IF t.form \in {"bare", "true"} THEN s.on \cup {t.option} ELSE s.on
  <2>1. x.value = w.value /\ w.pending = "" /\ x.pending = "" /\ x.ok = w.ok
    BY <1>5, <1>6, <1>8, Zenon
  <2>2. x.seen = w.seen \cup {t.option}
    BY <1>5, <1>6, <1>8
  <2>3. t.option \notin w.seen
    BY <1>5, <1>8
  <2>4. x.on = IF t.form \in {"bare", "true"} THEN w.on \cup {t.option} ELSE w.on
    BY <1>5, <1>6, <1>8 DEF PutOn
  <2>5. IsTaken(g, w, t, x)
    BY <1>8, <2>1, <2>2, <2>3, <2>4, Zenon DEF IsTaken
  <2> QED BY <2>5, Zenon
<1>9. CASE /\ s.pending = "" /\ t.option \in Valued(g) \ g.booleans /\ t.form = "bare" /\ ~Repeated(g, s, t.option)
           /\ u.ok = s.ok /\ u.pending = t.option /\ u.seen = s.seen /\ u.on = s.on /\ u.value = s.value
  <2>1. x.value = w.value /\ w.pending = "" /\ x.pending = t.option /\ x.ok = w.ok /\ x.on = w.on /\ x.seen = w.seen
    BY <1>5, <1>6, <1>9, Zenon
  <2>2. t.option \notin g.booleans
    BY <1>9
  <2>3. ~Repeated(g, w, t.option)
    BY <1>2, <1>9, <2>2, RepeatedSame, Zenon
  <2>5. IsTaken(g, w, t, x)
    BY <1>9, <2>1, <2>3, Zenon DEF IsTaken
  <2> QED BY <2>5, Zenon
<1> QED BY <1>3, <1>7, <1>8, <1>9, Zenon DEF IsTaken
\* A group that nothing behind it is about can be read first or last.
LEMMA GroupLast ==
  ASSUME NEW T, NEW g, Proper(g), NEW P, NEW s, ReadTo(T, g, P, s), NEW d, IsGroup(T, d), Unread(s, d[1].option),
         NEW q \in Seq(T), Lacking(q, d[1].option), After(T, g, s, q).ok
  PROVE  After(T, g, With(s, d), q) = With(After(T, g, s, q), d)
<1> DEFINE o == d[1].option
           w == With(s, d)
           S == {r \in Seq(T) : Lacking(r, o) /\ After(T, g, s, r).ok => After(T, g, w, r) = With(After(T, g, s, r), d)}
<1>1. P \in Seq(T) /\ s \in ParserStates(T) /\ s = After(T, g, Nothing, P)
  BY Zenon DEF ReadTo
<1>2. w \in ParserStates(T) /\ o # ""
  <2>1. IsPut(T, s, d, w)
    BY <1>1, PutIs
  <2>2. d[1].option # ""
    BY GroupIs, Zenon
  <2> QED BY <2>1, <2>2, Zenon DEF IsPut
<1>3. w = With(s, d)
  BY Zenon
<1>4. Unread(s, o) /\ Lacking(q, o)
  BY Zenon
<1> HIDE DEF w
<1>5. <<>> \in S
  <2>1. After(T, g, s, <<>>) = s /\ After(T, g, w, <<>>) = w
    BY <1>1, <1>2, AfterNone, Zenon
  <2>2. <<>> \in Seq(T)
    BY SequencesAre, Zenon
  <2> QED BY <1>3, <2>1, <2>2, Zenon
<1>6. ASSUME NEW r \in Seq(T), NEW t \in T, r \in S PROVE r \o <<t>> \in S
  <2> DEFINE v == r \o <<t>>
             e == After(T, g, s, r)
             f == After(T, g, w, r)
  <2>1. v \in Seq(T)
    BY SequencesAre, Zenon
  <2>2. Lacking(v, o) <=> Lacking(r, o) /\ t.option # o
    BY LackingMore, Zenon
  <2>3. e \in ParserStates(T) /\ After(T, g, s, v) = parseArgument(g, e, t)
    BY <1>1, AfterMore, Zenon
  <2>4. After(T, g, w, v) = parseArgument(g, f, t)
    BY <1>2, AfterMore, Zenon
  <2>5. Lacking(r, o) /\ e.ok => f = With(e, d)
    BY <1>6, Zenon
  <2>6. e.seen \subseteq g.booleans \cup DOMAIN e.value
    <3>1. P \o r \in Seq(T)
      BY <1>1, Concatenated, Zenon
    <3>2. After(T, g, Nothing, P \o r) = After(T, g, After(T, g, Nothing, P), r)
      <4>1. Nothing \in ParserStates(T)
        BY NothingIs, Zenon
      <4> QED BY <1>1, <4>1, AfterBoth
    <3>3. After(T, g, Nothing, P \o r) = e
      BY <1>1, <3>2, Zenon
    <3> QED BY <3>1, <3>3, AfterReady, Zenon
  <2>7. Lacking(r, o) => e.pending # o
    <3>1. Lacking(r, o) => Unread(e, o)
      BY <1>1, <1>2, <1>4, AfterUnread, Zenon
    <3> QED BY <3>1, Zenon DEF Unread
  <2> HIDE DEF v, e, f
  <2>8. ASSUME Lacking(v, o), After(T, g, s, v).ok PROVE After(T, g, w, v) = With(After(T, g, s, v), d)
    <3>1. Lacking(r, o) /\ t.option # o /\ parseArgument(g, e, t).ok
      BY <2>2, <2>3, <2>8, Zenon
    <3>2. e.ok
      BY <2>3, <3>1, AcceptedIsTaken, Zenon
    <3>3. f = With(e, d)
      BY <2>5, <3>1, <3>2, Zenon
    <3>4. parseArgument(g, With(e, d), t) = With(parseArgument(g, e, t), d)
      <4>1. e.pending # d[1].option /\ t.option # d[1].option /\ parseArgument(g, e, t).ok
        BY <2>7, <3>1, Zenon
      <4> QED BY <2>3, <2>6, <4>1, GroupCommutes
    <3> QED BY <2>3, <2>4, <3>3, <3>4, Zenon
  <2> QED BY <2>1, <2>8, Zenon DEF v
<1>7. \A r \in Seq(T) : r \in S
  <2> HIDE DEF S
  <2>1. \A r \in Seq(T) : \A t \in T : r \in S => r \o <<t>> \in S
    BY <1>6, Zenon
  <2> QED BY <1>5, <2>1, AppendInduction, Zenon
<1> QED BY <1>3, <1>4, <1>7, Zenon
\* What a parser has read when a default is filled in, if there is one, and
\* when it can be.
Put(s, d) == IF d = <<>> THEN s ELSE With(s, d)

Fits(T, g, s, d) == d = <<>> \/ (IsGroup(T, d) /\ Takes(g, d) /\ d[1].option \notin s.seen)

\* Nothing behind some arguments changes nothing.
LEMMA NothingBehind ==
  ASSUME NEW T, NEW s \in Seq(T)
  PROVE  s \o <<>> = s
OBVIOUS

\* A default behind some arguments.
LEMMA ThenPut ==
  ASSUME NEW T, NEW g, Proper(g), NEW P, NEW s, ReadTo(T, g, P, s), NEW d, Fits(T, g, s, d)
  PROVE  ReadTo(T, g, P \o d, Put(s, d))
<1>1. CASE d = <<>>
  <2>1. P \o d = P
    BY <1>1, NothingBehind, Zenon DEF ReadTo
  <2> QED BY <1>1, <2>1, Zenon DEF Put
<1>2. CASE d # <<>>
  <2>1. IsGroup(T, d) /\ Takes(g, d) /\ d[1].option \notin s.seen
    BY <1>2, Zenon DEF Fits
  <2>2. Good(g, s, d)
    BY <2>1, Zenon DEF Good, Fresh, Repeated
  <2>3. ReadTo(T, g, P \o d, With(s, d))
    BY <2>1, <2>2, OneGroup, Zenon
  <2> QED BY <1>2, <2>3, Zenon DEF Put
<1> QED BY <1>1, <1>2

\* What was read before a default, if all of it is accepted.
PutWas(T, g, P, d, e) == ReadTo(T, g, P, e) /\ parseOptions(g, P \o d) = Put(e, d)

\* There was something.
LEMMA BeforePut ==
  ASSUME NEW T, NEW g, Proper(g), NEW P \in Seq(T), NEW d, d = <<>> \/ IsGroup(T, d), parseOptions(g, P \o d).ok
  PROVE  \E e : PutWas(T, g, P, d, e)
<1> DEFINE e == After(T, g, Nothing, P)
           f == After(T, g, Nothing, P \o d)
<1>0. Nothing \in ParserStates(T)
  BY NothingIs, Zenon
<1>1. d \in Seq(T)
  BY SequencesAre, Zenon DEF IsGroup
<1>2. P \o d \in Seq(T) /\ f = After(T, g, e, d)
  <2>1. P \o d \in Seq(T)
    BY <1>1, Concatenated, Zenon
  <2>2. f = After(T, g, e, d)
    BY <1>0, <1>1, AfterBoth
  <2> QED BY <2>1, <2>2
<1>3. e \in ParserStates(T) /\ f \in ParserStates(T)
  BY <1>0, <1>2, AfterTyped, Zenon
<1>4. parseOptions(g, P \o d) = Completed(f)
  BY <1>2, ParseIs, Zenon
<1>5. ~Failed(f) /\ parseOptions(g, P \o d) = f
  <2>1. ~Refused.ok
    BY NothingIs, Zenon
  <2> HIDE DEF f
  <2> QED BY <1>4, <2>1, Zenon DEF Completed, Failed
<1>6. e.seen \subseteq g.booleans \cup DOMAIN e.value
  BY AfterReady
<1>7. e = After(T, g, Nothing, P)
  BY Zenon
<1> HIDE DEF e, f
<1>8. ~Failed(e)
  <2>1. d # <<>> => ~IsWord(d[1])
    BY Zenon DEF IsGroup
  <2> QED BY <1>1, <1>2, <1>3, <1>5, <2>1, StaysFailed, Zenon
<1>9. Ready(g, e)
  BY <1>6, <1>8, Zenon DEF Ready, Failed
<1>10. ReadTo(T, g, P, e)
  BY <1>3, <1>7, <1>9, Zenon DEF ReadTo
<1>11. CASE d = <<>>
  <2>1. f = e
    BY <1>2, <1>3, <1>11, AfterNone, Zenon
  <2>2. PutWas(T, g, P, d, e)
    BY <1>5, <1>10, <1>11, <2>1, Zenon DEF PutWas, Put
  <2> QED BY <2>2, Zenon
<1>12. CASE d # <<>>
  <2>1. IsGroup(T, d)
    BY <1>12, Zenon
  <2>2. /\ Good(g, e, d) => After(T, g, e, d) = With(e, d)
        /\ ~Good(g, e, d) => Failed(After(T, g, e, d))
    BY <1>3, <1>9, <2>1, GroupRead, Zenon
  <2>3. f = With(e, d)
    BY <1>2, <1>5, <2>2, Zenon
  <2>4. PutWas(T, g, P, d, e)
    BY <1>5, <1>10, <1>12, <2>3, Zenon DEF PutWas, Put
  <2> QED BY <2>4, Zenon
<1> QED BY <1>11, <1>12

\* What is read behind what was read.
LEMMA ReadBehind ==
  ASSUME NEW T, NEW g, NEW P, NEW s, ReadTo(T, g, P, s), NEW q \in Seq(T)
  PROVE  After(T, g, Nothing, P \o q) = After(T, g, s, q)
<1>1. Nothing \in ParserStates(T)
  BY NothingIs, Zenon
<1>2. P \in Seq(T) /\ s = After(T, g, Nothing, P)
  BY Zenon DEF ReadTo
<1>3. After(T, g, Nothing, P \o q) = After(T, g, After(T, g, Nothing, P), q)
  BY <1>1, <1>2, AfterBoth
<1> QED BY <1>2, <1>3, Zenon

\* A default between other arguments, when it is not among those behind it.
LEMMA PutBetween ==
  ASSUME NEW T, NEW g, Proper(g), NEW P, NEW s, ReadTo(T, g, P, s), NEW d, Fits(T, g, s, d),
         NEW q \in Seq(T), d # <<>> => Lacking(q, d[1].option), NEW e, ReadTo(T, g, P \o q, e)
  PROVE  ReadTo(T, g, (P \o d) \o q, Put(e, d))
<1>1. P \in Seq(T) /\ s \in ParserStates(T) /\ s = After(T, g, Nothing, P) /\ s.pending = "" /\ Nothing \in ParserStates(T)
  <2>1. Nothing \in ParserStates(T)
    BY NothingIs, Zenon
  <2> QED BY <2>1, Zenon DEF ReadTo, Ready
<1>2. e \in ParserStates(T) /\ e = After(T, g, Nothing, P \o q) /\ Ready(g, e)
  BY Zenon DEF ReadTo
<1>3. e = After(T, g, s, q)
  BY <1>2, ReadBehind, Zenon
<1>4. CASE d = <<>>
  <2>1. P \o d = P
    BY <1>1, <1>4, NothingBehind, Zenon
  <2> QED BY <1>4, <2>1, Zenon DEF Put
<1>5. CASE d # <<>>
  <2> DEFINE w == With(s, d)
             a == P \o d
             x == With(e, d)
  <2>1. IsGroup(T, d) /\ Takes(g, d) /\ d[1].option \notin s.seen /\ d[1].option # "" /\ d \in Seq(T) /\ Lacking(q, d[1].option)
    <3>1. IsGroup(T, d) /\ Takes(g, d) /\ d[1].option \notin s.seen /\ Lacking(q, d[1].option)
      BY <1>5, Zenon DEF Fits
    <3> QED BY <3>1, GroupIs, Zenon
  <2>2. ReadTo(T, g, a, w)
    BY <1>5, ThenPut, Zenon DEF Put
  <2>3. Unread(s, d[1].option)
    BY <1>1, <2>1, Zenon DEF Unread
  <2>4. After(T, g, s, q).ok
    BY <1>2, <1>3, Zenon DEF Ready
  <2>5. After(T, g, w, q) = With(After(T, g, s, q), d)
    <3>1. IsGroup(T, d) /\ Lacking(q, d[1].option)
      BY <2>1, Zenon
    <3> QED BY <2>3, <2>4, <3>1, GroupLast
  <2>6. After(T, g, w, q) = x
    BY <1>3, <2>5, Zenon
  <2>7. IsPut(T, e, d, x)
    BY <1>2, <2>1, PutIs
  <2>8. x = Put(e, d)
    BY <1>5, Zenon DEF Put
  <2> HIDE DEF w, a, x
  <2>9. a \in Seq(T) /\ w = After(T, g, Nothing, a)
    BY <2>2, Zenon DEF ReadTo
  <2>10. x = After(T, g, Nothing, a \o q)
    <3>1. After(T, g, Nothing, a \o q) = After(T, g, w, q)
      BY <2>2, ReadBehind, Zenon
    <3> QED BY <2>6, <3>1, Zenon
  <2>11. a \o q \in Seq(T)
    BY <2>9, Concatenated, Zenon
  <2>12. x.seen \subseteq g.booleans \cup DOMAIN x.value
    BY <2>10, <2>11, AfterReady, Zenon
  <2>13. Ready(g, x)
    BY <1>2, <2>7, <2>12, Zenon DEF Ready, IsPut
  <2>14. ReadTo(T, g, a \o q, x)
    BY <2>7, <2>10, <2>11, <2>13, Zenon DEF ReadTo, IsPut
  <2> QED BY <2>8, <2>14, Zenon DEF a
<1> QED BY <1>4, <1>5
-----------------------------------------------------------------------------
(* What a short command expands to.                                        *)

\* An option is in a sequence, or behind one.
LEMMA OptionBehind ==
  ASSUME NEW T, NEW u \in Seq(T), NEW v \in Seq(T), NEW o
  PROVE  hasOption(u \o v, o) <=> hasOption(u, o) \/ hasOption(v, o)
<1> DEFINE X == {t \in T : Is(t, o)}
           w == u \o v
<1>1. w \in Seq(T)
  BY Concatenated, Zenon
<1>2. Has(X, w) <=> Has(X, u) \/ Has(X, v)
  BY HasBoth, Zenon
<1>3. hasOption(u, o) = Has(X, u) /\ hasOption(v, o) = Has(X, v) /\ hasOption(w, o) = Has(X, w)
  <2> HIDE DEF w
  <2> QED BY <1>1, OptionHas, Zenon
<1> HIDE DEF w, X
<1>4. hasOption(w, o) <=> hasOption(u, o) \/ hasOption(v, o)
  BY <1>2, <1>3
<1> QED BY <1>4 DEF w

\* One argument has the option it is.
LEMMA OptionOne ==
  ASSUME NEW t, NEW o
  PROVE  hasOption(<<t>>, o) <=> t.option = o
BY DEF hasOption, Is

\* What the search for --config leaves was there.
LEMMA ExtractedHas ==
  ASSUME NEW T, NEW u \in Seq(T), extractConfigFlag(u).ok, NEW o, hasOption(extractConfigFlag(u).args, o)
  PROVE  hasOption(u, o)
<1> DEFINE X == IsConfig(T)
           r == extractConfigFlag(u).args
<1>1. CASE ~Has(X, u)
  <2>1. r = u
    BY <1>1, ExtractNone, Zenon
  <2> QED BY <2>1, Zenon
<1>2. CASE Has(X, u)
  <2>1. ~Two(X, u)
    BY ExtractTwo, Zenon
  <2>2. PICK a, f, b : Lone(T, X, u, a, f, b)
    BY <1>2, <2>1, LoneOne, Zenon
  <2> DEFINE c == SubSeq(b, 2, Len(b))
             h == <<b[1]>>
             e == <<f>>
  <2>3. a \in Seq(T) /\ f \in T /\ b \in Seq(T) /\ u = a \o (e \o b)
    BY <2>2, Zenon DEF Lone, Around
  <2>4. Extracted(extractConfigFlag(u), a, b)
    BY <2>2, ExtractLone, Zenon
  <2>5. b # <<>> /\ r = a \o c
    BY <2>4, Zenon DEF Extracted, NamesPath
  <2>6. IsRest(T, b, c)
    BY <2>3, <2>5, RestIs, Zenon
  <2>7. c \in Seq(T) /\ h \in Seq(T) /\ e \in Seq(T) /\ b = h \o c
    BY <2>3, <2>6, OneIs, Zenon DEF IsRest
  <2> HIDE DEF c, h, e, r
  <2>8. e \o b \in Seq(T)
    BY <2>3, <2>7, Concatenated, Zenon
  <2>9. hasOption(a, o) \/ hasOption(c, o)
    <3>1. hasOption(r, o)
      BY Zenon DEF r
    <3> QED BY <2>3, <2>5, <2>7, <3>1, OptionBehind, Zenon
  <2>10. hasOption(c, o) => hasOption(b, o)
    BY <2>7, OptionBehind, Zenon
  <2>11. hasOption(b, o) => hasOption(e \o b, o)
    BY <2>3, <2>7, OptionBehind, Zenon
  <2>12. hasOption(a, o) \/ hasOption(e \o b, o)
    BY <2>9, <2>10, <2>11, Zenon
  <2>13. hasOption(a \o (e \o b), o)
    BY <2>3, <2>8, <2>12, OptionBehind, Zenon
  <2> QED BY <2>3, <2>13, Zenon
<1> QED BY <1>1, <1>2

\* What is resolved: the arguments without --config and its path, and settings
\* that name where to put what is captured.
ResolvedTo(a, d) == extractConfigFlag(a).ok /\ d.args = extractConfigFlag(a).args /\ Nonempty(d.settings.root)

\* Resolve finds them.
LEMMA ResolvedIs ==
  ASSUME NEW a, Resolve(a).ok
  PROVE  ResolvedTo(a, Resolve(a))
<1> DEFINE flag == extractConfigFlag(a)
           paths == FirstNonEmpty(<<flag.path, EnvironmentPath, InstalledDefaultPath>>)
           file == IF paths = <<>> THEN [ok |-> TRUE, settings |-> DevelopmentDefaults] ELSE Load(paths[1])
           c == flag.ok /\ file.ok
           d == Resolve(a)
<1>1. d = [ok |-> c, args |-> flag.args, settings |-> file.settings]
  BY Zenon DEF Resolve
<1>2. d.ok
  BY Zenon
<1> HIDE DEF d, flag, file, c
<1>3. c /\ d.args = flag.args /\ d.settings = file.settings
  BY <1>1, <1>2
<1>4. flag.ok /\ file.ok
  BY <1>3, Zenon DEF c
<1>5. Nonempty(file.settings.root)
  <2>1. CASE paths = <<>>
    <3>1. file = [ok |-> TRUE, settings |-> DevelopmentDefaults]
      BY <2>1, Zenon DEF file
    <3>2. file.settings = DevelopmentDefaults
      BY <3>1
    <3>3. DevelopmentDefaults.root = OutputRoot
      BY DEF DevelopmentDefaults
    <3> QED BY <3>2, <3>3, InventoryAssumption, Zenon DEF Nonempty
  <2>2. CASE paths # <<>>
    <3> DEFINE path == paths[1]
               known == path \in DOMAIN Files
               e == Files[path]
               k == known /\ e.opens /\ e.json /\ e.safe /\ e.single /\ Validate(e.settings)
               z == IF known THEN e.settings ELSE DevelopmentDefaults
    <3>1. file = Load(path)
      BY <2>2, Zenon DEF file
    <3>2. Load(path) = [ok |-> k, settings |-> z]
      BY Zenon DEF Load
    <3> HIDE DEF paths, path, k, z
    <3>3. file.ok = k /\ file.settings = z
      BY <3>1, <3>2
    <3>4. z = Files[path].settings /\ Validate(Files[path].settings)
      BY <1>4, <3>3, Zenon DEF k, z
    <3> QED BY <3>3, <3>4, Zenon DEF Validate, Nonempty
  <2> QED BY <2>1, <2>2
<1> QED BY <1>3, <1>4, <1>5, Zenon DEF ResolvedTo, d, flag
\* The options that investigate and bundle write themselves, and the defaults.
TargetHead(a, k) ==
  <<Option("--victim"), a[2]>>
    \o IF k = 4 THEN <<Option("--suspect"), a[3]>> ELSE <<Option("--discover-suspects")>>
Latency(rest) == Default(rest, "--include-ebpf-latency", <<>>)
Directory(long, output, rest) ==
  IF long = "capture" THEN Default(rest, "--output-dir", <<Word(output)>>) ELSE <<>>

\* What they were given: a victim, perhaps a suspect, and from place k on options.
IsTargetLine(a, k) ==
  /\ k \in {3, 4} /\ Len(a) >= k - 1
  /\ IsWord(a[2]) /\ Nonempty(a[2].text)
  /\ k = 4 <=> (Len(a) >= 3 /\ IsWord(a[3]))
  /\ k = 4 => IsWord(a[3]) /\ Nonempty(a[3].text)

Expands(a, k, long, output, args) ==
  LET rest == SubSeq(a, k, Len(a))
  IN args = Words(<<long, "noisy-neighbor">>) \o (((TargetHead(a, k) \o Latency(rest)) \o Directory(long, output, rest)) \o rest)

\* The first four arguments of the long command.
LEMMA FourFirst ==
  ASSUME NEW long, NEW t
  PROVE  <<Word(long), Word("noisy-neighbor"), Option("--victim"), t>>
           = Words(<<long, "noisy-neighbor">>) \o <<Option("--victim"), t>>
BY DEF Words

\* Five parts, put together from the left or behind the first.
InFive(w, v, s, l, d, r) == ((((w \o v) \o s) \o l) \o d) \o r = w \o ((((v \o s) \o l) \o d) \o r)

\* They are the same arguments.
LEMMA FiveParts ==
  ASSUME NEW T, NEW w, w \in Seq(T), NEW v, v \in Seq(T), NEW s, s \in Seq(T), NEW l, l \in Seq(T),
         NEW d, d \in Seq(T), NEW r, r \in Seq(T)
  PROVE  InFive(w, v, s, l, d, r)
<1> DEFINE e == v \o s
           f == e \o l
           h == f \o d
<1>1. Associates(w, v, s)
  BY Associated, Zenon
<1>2. e \in Seq(T)
  BY Concatenated, Zenon
<1>3. f \in Seq(T)
  <2> HIDE DEF e
  <2> QED BY <1>2, Concatenated, Zenon
<1>4. h \in Seq(T)
  <2> HIDE DEF f
  <2> QED BY <1>3, Concatenated, Zenon
<1> HIDE DEF e, f, h
<1>5. Associates(w, e, l)
  BY <1>2, Associated, Zenon
<1>6. Associates(w, f, d)
  BY <1>3, Associated, Zenon
<1>7. Associates(w, h, r)
  BY <1>4, Associated, Zenon
<1>8. /\ (w \o v) \o s = w \o e /\ (w \o e) \o l = w \o f /\ (w \o f) \o d = w \o h
      /\ (w \o h) \o r = w \o (h \o r)
  BY <1>1, <1>5, <1>6, <1>7, Zenon DEF Associates, e, f, h
<1>9. ((((w \o v) \o s) \o l) \o d) \o r = w \o (h \o r)
  BY <1>8, Zenon
<1> QED BY <1>9, Zenon DEF InFive, e, f, h

\* What they write is made of the arguments considered.
TargetParts(T, a, k, long, output) ==
  /\ <<Option("--victim"), a[2]>> \in Seq(T) /\ TargetHead(a, k) \in Seq(T)
  /\ (IF k = 4 THEN <<Option("--suspect"), a[3]>> ELSE <<Option("--discover-suspects")>>) \in Seq(T)
  /\ SubSeq(a, k, Len(a)) \in Seq(T)
  /\ Latency(SubSeq(a, k, Len(a))) \in Seq(T) /\ Directory(long, output, SubSeq(a, k, Len(a))) \in Seq(T)

\* They are.
LEMMA TargetPartsAre ==
  ASSUME NEW T, NEW root, Composed(root) \subseteq T, NEW a \in Seq(T), NEW k, IsTargetLine(a, k),
         NEW long, NEW output, Word(output) \in T
  PROVE  TargetParts(T, a, k, long, output)
<1> DEFINE rest == SubSeq(a, k, Len(a))
           v == <<Option("--victim"), a[2]>>
           s == IF k = 4 THEN <<Option("--suspect"), a[3]>> ELSE <<Option("--discover-suspects")>>
<1>1. /\ Option("--victim") \in T /\ Option("--suspect") \in T /\ Option("--discover-suspects") \in T
      /\ Option("--include-ebpf-latency") \in T /\ Option("--output-dir") \in T
  BY DEF Composed
<1>2. a[2] \in T /\ (k = 4 => a[3] \in T) /\ k \in Nat /\ k >= 1
  BY DEF IsTargetLine
<1>3. v \in Seq(T) /\ s \in Seq(T)
  BY <1>1, <1>2
<1>4. rest \in Seq(T)
  BY <1>2
<1>5. <<>> \in Seq(T) /\ <<Word(output)>> \in Seq(T)
  OBVIOUS
<1>6. TargetHead(a, k) \in Seq(T)
  <2>1. TargetHead(a, k) = v \o s
    BY Zenon DEF TargetHead
  <2> HIDE DEF v, s
  <2> QED BY <1>3, <2>1, Concatenated, Zenon
<1> HIDE DEF rest
<1>7. Latency(rest) \in Seq(T) /\ Directory(long, output, rest) \in Seq(T)
  <2>1. Default(rest, "--output-dir", <<Word(output)>>) \in Seq(T)
    BY <1>1, <1>5, DefaultIs, Zenon
  <2>2. Latency(rest) \in Seq(T)
    BY <1>1, <1>5, DefaultIs, Zenon DEF Latency
  <2> QED BY <1>5, <2>1, <2>2, Zenon DEF Directory
<1> QED BY <1>3, <1>4, <1>6, <1>7, Zenon DEF TargetParts, rest

\* investigate and bundle expand so, if they are given a victim.
LEMMA TargetExpands ==
  ASSUME NEW T, NEW root, Composed(root) \subseteq T, NEW a \in Seq(T), NEW long, Word(long) \in T,
         NEW output, Word(output) \in T, expandTargetOperatorCommand(a, long, output).ok
  PROVE  \E k : IsTargetLine(a, k) /\ Expands(a, k, long, output, expandTargetOperatorCommand(a, long, output).args)
<1> DEFINE named == Len(a) >= 3 /\ IsWord(a[3])
           k == IF named THEN 4 ELSE 3
           rest == SubSeq(a, k, Len(a))
           s == IF named THEN <<Option("--suspect"), a[3]>> ELSE <<Option("--discover-suspects")>>
           first == <<Word(long), Word("noisy-neighbor"), Option("--victim"), a[2]>>
           l == Default(rest, "--include-ebpf-latency", <<>>)
           d == IF long = "capture" THEN Default(rest, "--output-dir", <<Word(output)>>) ELSE <<>>
           all == (((first \o s) \o l) \o d) \o rest
           bad == Len(a) < 2 \/ ~IsWord(a[2]) \/ a[2].text = "" \/ (named /\ a[3].text = "")
           out == expandTargetOperatorCommand(a, long, output)
           w == Words(<<long, "noisy-neighbor">>)
           v == <<Option("--victim"), a[2]>>
<1>1. out = IF bad THEN Unreadable ELSE Rewritten(all)
  BY Zenon DEF expandTargetOperatorCommand
<1>2. Rewritten(all).args = all
  BY DEF Rewritten
<1>3. ~Unreadable.ok
  BY DEF Unreadable
<1>4. out.ok
  BY Zenon
<1>5. ~bad /\ out.args = all
  <2> HIDE DEF out, bad, all
  <2> QED BY <1>1, <1>2, <1>3, <1>4, Zenon
<1>6. IsTargetLine(a, k)
  <2>1. k \in {3, 4} /\ (k = 4 <=> named)
    <3> HIDE DEF named
    <3> QED OBVIOUS
  <2>2. Len(a) \in Nat
    OBVIOUS
  <2>3. ~(Len(a) < 2) /\ IsWord(a[2]) /\ Nonempty(a[2].text) /\ (named => Nonempty(a[3].text))
    BY <1>5, Zenon DEF Nonempty
  <2>4. Len(a) >= k - 1
    BY <2>1, <2>2, <2>3
  <2>5. named => IsWord(a[3])
    BY Zenon
  <2>6. (k = 4 <=> (Len(a) >= 3 /\ IsWord(a[3])))
    BY <2>1, Zenon
  <2> HIDE DEF k, named
  <2> QED BY <2>1, <2>3, <2>4, <2>5, <2>6, Zenon DEF IsTargetLine
<1>7. TargetParts(T, a, k, long, output)
  <2> HIDE DEF k
  <2> QED BY <1>6, TargetPartsAre, Zenon
<1>8. s = IF k = 4 THEN <<Option("--suspect"), a[3]>> ELSE <<Option("--discover-suspects")>>
  <2> HIDE DEF named
  <2>1. k = 4 <=> named
    OBVIOUS
  <2> HIDE DEF k
  <2> QED BY <2>1, Zenon
<1>9. TargetHead(a, k) = v \o s /\ l = Latency(rest) /\ d = Directory(long, output, rest)
  BY <1>8, Zenon DEF TargetHead, Latency, Directory
<1>10. v \in Seq(T) /\ s \in Seq(T) /\ l \in Seq(T) /\ d \in Seq(T) /\ rest \in Seq(T)
  BY <1>7, <1>8, <1>9, Zenon DEF TargetParts
<1>11. first = w \o v
  BY FourFirst, Zenon
<1>12. w \in Seq(T)
  <2>1. Word("noisy-neighbor") \in T
    BY DEF Composed
  <2> QED BY <2>1 DEF Words
<1> HIDE DEF k, rest, s, first, l, d, w, v, bad, out
<1>13. all = w \o ((((v \o s) \o l) \o d) \o rest)
  <2>1. InFive(w, v, s, l, d, rest)
    BY <1>10, <1>12, FiveParts, Zenon
  <2> QED BY <1>11, <2>1, Zenon DEF InFive
<1> HIDE DEF all
<1>14. Expands(a, k, long, output, out.args)
  BY <1>5, <1>9, <1>13, Zenon DEF Expands, rest, w
<1> QED BY <1>6, <1>14, Zenon DEF out
\* A part of a sequence, from its first argument on.
LEMMA FirstAndRest ==
  ASSUME NEW T, NEW a \in Seq(T), NEW k \in 1..Len(a)
  PROVE  SubSeq(a, k, Len(a)) = <<a[k]>> \o SubSeq(a, k + 1, Len(a))
<1> DEFINE n == Len(a)
           m == SubSeq(a, k, n)
           f == <<a[k]>>
           r == SubSeq(a, k + 1, n)
           u == f \o r
<1>1. n \in Nat /\ k \in 1..n /\ a[k] \in T
  OBVIOUS
<1>2. m \in Seq(T) /\ Len(m) = n - k + 1 /\ \A i \in 1..(n - k + 1) : m[i] = a[k + i - 1]
  OBVIOUS
<1>3. r \in Seq(T) /\ Len(r) = n - k /\ \A i \in 1..(n - k) : r[i] = a[k + 1 + i - 1]
  OBVIOUS
<1>4. f \in Seq(T) /\ Len(f) = 1 /\ f[1] = a[k]
  BY <1>1
<1> HIDE DEF f, r, m, n
<1>5. u \in Seq(T) /\ IsJoin(f, r, u)
  BY <1>3, <1>4, Joined, Zenon
<1> HIDE DEF u
<1>6. Len(u) = 1 + Len(r) /\ (\A i \in 1..1 : u[i] = f[i]) /\ \A i \in 1..Len(r) : u[1 + i] = r[i]
  BY <1>4, <1>5, Zenon DEF IsJoin
<1>7. Len(u) = Len(m)
  BY <1>1, <1>2, <1>3, <1>6
<1>8. ASSUME NEW i \in 1..Len(m) PROVE m[i] = u[i]
  <2>1. CASE i = 1
    BY <1>1, <1>2, <1>4, <1>6, <2>1
  <2>2. CASE i # 1
    <3> DEFINE j == i - 1
    <3>1. j \in 1..Len(r) /\ i = 1 + j /\ j \in Int
      BY <1>1, <1>2, <1>3, <2>2
    <3>2. u[1 + j] = r[j] /\ r[j] = a[k + 1 + j - 1]
      BY <1>3, <1>6, <3>1
    <3>3. m[i] = a[k + i - 1]
      BY <1>2
    <3>4. k + i - 1 = k + 1 + j - 1
      BY <1>1, <3>1
    <3> HIDE DEF j
    <3> QED BY <3>1, <3>2, <3>3, <3>4
  <2> QED BY <2>1, <2>2
<1>9. m = u
  BY <1>2, <1>5, <1>7, <1>8
<1> QED BY <1>9 DEF m, u, f, r, n

\* The words of the short command are no options.
LEMMA RestHas ==
  ASSUME NEW T, NEW a \in Seq(T), NEW k \in 1..(Len(a) + 1), \A i \in 1..(k - 1) : IsWord(a[i]), NEW o, Nonempty(o)
  PROVE  hasOption(a, o) <=> hasOption(SubSeq(a, k, Len(a)), o)
<1> DEFINE r == SubSeq(a, k, Len(a))
           n == Len(a)
<1>1. n \in Nat /\ r \in Seq(T) /\ Len(r) = n - k + 1 /\ DOMAIN a = 1..n /\ DOMAIN r = 1..Len(r) /\ k \in 1..(n + 1)
  OBVIOUS
<1>4. \A j \in 1..(n - k + 1) : r[j] = a[k + j - 1]
  OBVIOUS
<1> HIDE DEF r
<1>2. ASSUME NEW i \in DOMAIN a, Is(a[i], o) PROVE hasOption(r, o)
  <2>1. ~(i \in 1..(k - 1))
    BY <1>2, Zenon DEF Is, IsWord, Nonempty
  <2>2. i - k + 1 \in 1..(n - k + 1) /\ k + (i - k + 1) - 1 = i
    BY <1>1, <2>1
  <2>3. i - k + 1 \in DOMAIN r /\ r[i - k + 1] = a[i]
    BY <1>1, <1>4, <2>2
  <2> QED BY <1>2, <2>3, Zenon DEF hasOption
<1>3. ASSUME NEW j \in DOMAIN r, Is(r[j], o) PROVE hasOption(a, o)
  <2>1. k + j - 1 \in DOMAIN a /\ r[j] = a[k + j - 1]
    BY <1>1, <1>4
  <2> QED BY <1>3, <2>1, Zenon DEF hasOption
<1> QED BY <1>2, <1>3, Zenon DEF hasOption, r

\* The words of investigate and bundle.
LEMMA TargetWords ==
  ASSUME NEW T, NEW a \in Seq(T), NEW k, IsTargetLine(a, k), IsWord(a[1])
  PROVE  k \in 3..(Len(a) + 1) /\ \A i \in 1..(k - 1) : IsWord(a[i])
<1>1. k \in {3, 4} /\ Len(a) >= k - 1 /\ IsWord(a[2]) /\ (k = 4 => IsWord(a[3])) /\ Len(a) \in Nat
  BY DEF IsTargetLine
<1>2. \A i \in 1..(k - 1) : i = 1 \/ i = 2 \/ (i = 3 /\ k = 4)
  BY <1>1
<1> QED BY <1>1, <1>2

\* Where the words end, what the operator gave begins.
LEMMA HeadAndRest ==
  ASSUME NEW T, NEW a \in Seq(T), Option("--victim") \in T, Option("--suspect") \in T, Option("--discover-suspects") \in T,
         NEW k, IsTargetLine(a, k)
  PROVE  <<Option("--victim"), a[2], Option(IF k = 4 THEN "--suspect" ELSE "--discover-suspects")>> \o SubSeq(a, 3, Len(a))
           = TargetHead(a, k) \o SubSeq(a, k, Len(a))
<1> DEFINE x == Option("--victim")
           y == a[2]
           c == <<x, y>>
<1>1. k \in {3, 4} /\ Len(a) >= k - 1 /\ Len(a) \in Nat
  BY DEF IsTargetLine
<1>2. y \in T /\ c \in Seq(T)
  BY <1>1
<1>3. CASE k = 3
  <2> DEFINE z == Option("--discover-suspects")
  <2>1. TargetHead(a, k) = c \o <<z>>
    BY <1>3 DEF TargetHead
  <2>2. <<x, y, z>> = c \o <<z>>
    <3> HIDE DEF x, y, z
    <3> QED OBVIOUS
  <2>3. Option(IF k = 4 THEN "--suspect" ELSE "--discover-suspects") = z
    BY <1>3
  <2> HIDE DEF z
  <2> QED BY <1>3, <2>1, <2>2, <2>3
<1>4. CASE k = 4
  <2> DEFINE z == Option("--suspect")
             t == a[3]
             r == SubSeq(a, 4, Len(a))
             e == <<x, y, z>>
             f == <<t>>
  <2>1. TargetHead(a, k) = c \o <<z, t>>
    BY <1>4 DEF TargetHead
  <2>2. t \in T /\ z \in T /\ r \in Seq(T)
    BY <1>1, <1>4
  <2>3. SubSeq(a, 3, Len(a)) = f \o r
    <3>1. 3 \in 1..Len(a) /\ 3 + 1 = 4
      BY <1>1, <1>4
    <3> QED BY <3>1, FirstAndRest
  <2>4. Option(IF k = 4 THEN "--suspect" ELSE "--discover-suspects") = z
    BY <1>4
  <2>5. e \in Seq(T) /\ f \in Seq(T)
    BY <1>2, <2>2
  <2>6. e \o f = c \o <<z, t>>
    <3> HIDE DEF x, y, z, t
    <3> QED OBVIOUS
  <2>7. SubSeq(a, k, Len(a)) = r
    BY <1>4
  <2> HIDE DEF e, f, r
  <2>8. Associates(e, f, r)
    BY <2>2, <2>5, Associated, Zenon
  <2> QED BY <2>1, <2>3, <2>4, <2>6, <2>7, <2>8, Zenon DEF Associates, e
<1> QED BY <1>1, <1>3, <1>4

\* The short command and the long one it stands for.
IsShortFor(a, long, root, output) ==
  \/ a[1] = Word("investigate") /\ long = "diagnose"
  \/ a[1] = Word("bundle") /\ long = "capture" /\ output = root

\* The long command with what it needs.
DirectIs(a, k, long, root, output) ==
  LET rest == SubSeq(a, k, Len(a))
  IN Direct(a, root) = Words(<<long, "noisy-neighbor">>) \o ((TargetHead(a, k) \o rest) \o Directory(long, output, rest))

\* It is what an operator would have written.
LEMMA DirectTarget ==
  ASSUME NEW T, NEW root, Composed(root) \subseteq T, NEW a \in Seq(T), NEW k, IsTargetLine(a, k),
         NEW long, Word(long) \in T, NEW output, Word(output) \in T, IsShortFor(a, long, root, output)
  PROVE  DirectIs(a, k, long, root, output)
<1> DEFINE rest == SubSeq(a, k, Len(a))
           more == SubSeq(a, 3, Len(a))
           w == Words(<<long, "noisy-neighbor">>)
           h == TargetHead(a, k)
           m == h \o rest
           d == Directory(long, output, rest)
           suspect == IF Len(a) > 2 /\ IsWord(a[3]) THEN "--suspect" ELSE "--discover-suspects"
           x == <<Option("--victim"), a[2], Option(suspect)>>
<1>1. Option("--victim") \in T /\ Option("--suspect") \in T /\ Option("--discover-suspects") \in T
  BY DEF Composed
<1>2. k \in {3, 4} /\ (k = 4 <=> (Len(a) >= 3 /\ IsWord(a[3]))) /\ Len(a) \in Nat /\ Len(a) >= 2
  BY DEF IsTargetLine
<1>3. suspect = IF k = 4 THEN "--suspect" ELSE "--discover-suspects"
  BY <1>2
<1>4. x \o more = m
  <2>1. <<Option("--victim"), a[2], Option(IF k = 4 THEN "--suspect" ELSE "--discover-suspects")>> \o SubSeq(a, 3, Len(a))
           = TargetHead(a, k) \o SubSeq(a, k, Len(a))
    BY <1>1, HeadAndRest, Zenon
  <2> HIDE DEF suspect
  <2> QED BY <1>3, <2>1, Zenon
<1>5. TargetParts(T, a, k, long, output)
  BY TargetPartsAre, Zenon
<1>6. h \in Seq(T) /\ rest \in Seq(T) /\ d \in Seq(T)
  BY <1>5, Zenon DEF TargetParts
<1>7. w \in Seq(T)
  <2>1. Word("noisy-neighbor") \in T
    BY DEF Composed
  <2> QED BY <2>1 DEF Words
<1>8. m \in Seq(T)
  <2> HIDE DEF h, rest
  <2> QED BY <1>6, Concatenated, Zenon
<1>9. x \in Seq(T) /\ more \in Seq(T)
  <2>1. a[2] \in T /\ Option(suspect) \in T
    BY <1>1, <1>2
  <2>2. x \in Seq(T)
    <3> HIDE DEF suspect
    <3> QED BY <1>1, <2>1
  <2>3. more \in Seq(T)
    BY <1>2
  <2> QED BY <2>2, <2>3
<1>10. IsWord(a[1]) /\ (long = "capture" => a[1] = Word("bundle") /\ output = root)
        /\ (long = "diagnose" => a[1] = Word("investigate")) /\ long \in {"diagnose", "capture"}
  <2>1. IsWord(a[1])
    <3>1. \A x1 : IsWord(Word(x1))
      BY WordIs, Zenon
    <3>2. a[1] = Word("investigate") \/ a[1] = Word("bundle")
      BY Zenon DEF IsShortFor
    <3> QED BY <3>1, <3>2, Zenon
  <2>2. Word("investigate") # Word("bundle") /\ "diagnose" # "capture"
    BY ExpandedDiffer
  <2> QED BY <2>1, <2>2, Zenon DEF IsShortFor
<1>11. long = "capture" => d = Default(a, "--output-dir", <<Word(root)>>)
  <2>1. k \in 3..(Len(a) + 1) /\ \A i \in 1..(k - 1) : IsWord(a[i])
    BY <1>10, TargetWords, Zenon
  <2>2. k \in 1..(Len(a) + 1)
    BY <1>2, <2>1
  <2>3. Nonempty("--output-dir")
    BY DEF Nonempty
  <2>4. hasOption(a, "--output-dir") <=> hasOption(rest, "--output-dir")
    BY <2>1, <2>2, <2>3, RestHas, Zenon
  <2> HIDE DEF rest
  <2> QED BY <1>10, <2>4, Zenon DEF Directory, Default
<1>12. long # "capture" => d = <<>>
  BY Zenon DEF Directory
<1>13. Direct(a, root) = IF long = "capture" THEN ((w \o x) \o more) \o Default(a, "--output-dir", <<Word(root)>>) ELSE (w \o x) \o more
  <2>1. Word("monitor") # Word("investigate") /\ Word("monitor") # Word("bundle") /\ Word("investigate") # Word("bundle")
    BY ExpandedDiffer, Zenon
  <2>2. CASE long = "capture"
    <3>1. Direct(a, root) = ((Words(<<"capture", "noisy-neighbor">>) \o x) \o more) \o Default(a, "--output-dir", <<Word(root)>>)
      BY <1>10, <2>1, <2>2, Zenon DEF Direct
    <3> QED BY <2>2, <3>1, Zenon
  <2>3. CASE long = "diagnose"
    <3>1. Direct(a, root) = (Words(<<"diagnose", "noisy-neighbor">>) \o x) \o more
      BY <1>10, <2>1, <2>3, Zenon DEF Direct
    <3>2. long # "capture"
      BY <2>3
    <3> QED BY <2>3, <3>1, <3>2, Zenon
  <2> QED BY <1>10, <2>2, <2>3, Zenon
<1> HIDE DEF rest, more, w, h, m, d, suspect, x
<1>14. (w \o x) \o more = w \o m
  <2>1. Associates(w, x, more)
    BY <1>7, <1>9, Associated, Zenon
  <2> QED BY <1>4, <2>1, Zenon DEF Associates
<1>15. Associates(w, m, d)
  BY <1>6, <1>7, <1>8, Associated, Zenon
<1>16. Direct(a, root) = w \o (m \o d)
  <2>1. CASE long = "capture"
    BY <1>11, <1>13, <1>14, <1>15, <2>1, Zenon DEF Associates
  <2>2. CASE long # "capture"
    <3>1. m \o d = m
      BY <1>8, <1>12, <2>2, NothingBehind, Zenon
    <3> QED BY <1>13, <1>14, <2>2, <3>1, Zenon
  <2> QED BY <2>1, <2>2, Zenon
<1> QED BY <1>16, Zenon DEF DirectIs, m, h, d, w, rest

\* The arguments of the long command, behind its words.
TargetRest(a, k, long, output) ==
  LET rest == SubSeq(a, k, Len(a))
  IN ((TargetHead(a, k) \o Latency(rest)) \o Directory(long, output, rest)) \o rest

\* They are arguments considered.
LEMMA TargetRestIs ==
  ASSUME NEW T, NEW a, NEW k, NEW long, NEW output, TargetParts(T, a, k, long, output)
  PROVE  LET rest == SubSeq(a, k, Len(a)) IN
         /\ TargetHead(a, k) \o Latency(rest) \in Seq(T)
         /\ (TargetHead(a, k) \o Latency(rest)) \o Directory(long, output, rest) \in Seq(T)
         /\ TargetRest(a, k, long, output) \in Seq(T)
<1> DEFINE rest == SubSeq(a, k, Len(a))
           h == TargetHead(a, k)
           l == Latency(rest)
           d == Directory(long, output, rest)
           m == h \o l
           n == m \o d
<1>1. h \in Seq(T) /\ l \in Seq(T) /\ d \in Seq(T) /\ rest \in Seq(T)
  BY Zenon DEF TargetParts
<1> HIDE DEF h, l, d, rest
<1>2. m \in Seq(T)
  BY <1>1, Concatenated, Zenon
<1> HIDE DEF m
<1>3. n \in Seq(T)
  BY <1>1, <1>2, Concatenated, Zenon
<1> HIDE DEF n
<1>4. n \o rest \in Seq(T)
  BY <1>1, <1>3, Concatenated, Zenon
<1> QED BY <1>2, <1>3, <1>4, Zenon DEF TargetRest, n, m, h, l, d, rest

\* investigate and bundle keep what the operator said.
LEMMA TargetSaid ==
  ASSUME NEW T, NEW root, Composed(root) \subseteq T, NEW a \in Seq(T), NEW k, IsTargetLine(a, k), IsWord(a[1]),
         NEW long \in {"diagnose", "capture"}, NEW output, Word(output) \in T, NEW args, Expands(a, k, long, output, args),
         NEW x, Held(T, x, a), Parse(args).ok
  PROVE  Said(x, Parse(args))
<1> DEFINE rest == SubSeq(a, k, Len(a))
           b == (TargetHead(a, k) \o Latency(rest)) \o Directory(long, output, rest)
           s == TargetRest(a, k, long, output)
           json == long = "diagnose"
           g == TargetGrammar(json)
           r == parseOptions(g, s)
<1>1. Word(long) \in T /\ Word("noisy-neighbor") \in T
  BY DEF Composed
<1>2. b \in Seq(T) /\ s \in Seq(T) /\ s = b \o rest
  BY TargetPartsAre, TargetRestIs, Zenon DEF TargetRest
<1>3. args = Words(<<long, "noisy-neighbor">>) \o s
  BY Zenon DEF Expands, TargetRest
<1>4. PICK p, q : IsHeld(T, p, x, q, a)
  BY Zenon DEF Held
<1>5. k \in 3..(Len(a) + 1) /\ \A i \in 1..(k - 1) : IsWord(a[i])
  BY TargetWords, Zenon
<1>6. k \in 1..(Len(p) + 1)
  <2> DEFINE n == k - 1
  <2>1. n \in 1..Len(a) /\ n + 1 = k
    <3>1. Len(a) \in Nat
      OBVIOUS
    <3> QED BY <1>5, <3>1
  <2>2. \A i \in 1..n : IsWord(a[i])
    BY <1>5
  <2> HIDE DEF n
  <2>3. n + 1 \in 1..(Len(p) + 1)
    BY <1>4, <2>1, <2>2, WordsBefore, Zenon
  <2> QED BY <2>1, <2>3
<1>7. Within(T, x, rest)
  BY <1>4, <1>6, WithinLine, Zenon
<1> HIDE DEF b, rest, s
<1>8. Within(T, x, s)
  BY <1>2, <1>7, WithinAfter, Zenon
<1>9. Recounts(args, r, TargetAccepts(long, r))
  BY <1>1, <1>2, <1>3, TargetRecounts, Zenon
<1>10. Proper(g)
  <2>1. json \in BOOLEAN
    OBVIOUS
  <2> HIDE DEF json
  <2> QED BY <2>1, TargetGrammarIs, Zenon
<1> HIDE DEF g
<1>11. r.ok /\ Parse(args) = r
  <2> HIDE DEF r
  <2> QED BY <1>9, Zenon DEF Recounts, TargetAccepts
<1>12. Said(x, r)
  BY <1>8, <1>10, <1>11, WithinSaid, Zenon
<1> QED BY <1>11, <1>12, Zenon

-----------------------------------------------------------------------------
(* The defaults of the short commands change nothing that the long command *)
(* would refuse.                                                           *)

\* A default is filled in where the option is not given, and a parser takes it.
Defaulted(T, g, args, o, d) ==
  /\ d = <<>> <=> hasOption(args, o)
  /\ d # <<>> => IsGroup(T, d) /\ d[1].option = o /\ Takes(g, d)

\* A boolean option.
LEMMA FlagDefault ==
  ASSUME NEW T, NEW g, NEW args, NEW o, Nonempty(o), o \in g.booleans, Option(o) \in T
  PROVE  /\ Defaulted(T, g, args, o, Default(args, o, <<>>))
         /\ Default(args, o, <<>>) # <<>> => Default(args, o, <<>>) = <<Option(o)>>
<1> DEFINE d == <<Option(o)>>
<1>1. Option(o).option = o /\ Option(o).form = "bare" /\ ~IsWord(Option(o))
  <2>1. Option(o).option = o /\ Option(o).form = "bare"
    BY WordIs, Zenon
  <2> QED BY <2>1, Zenon DEF IsWord, Nonempty
<1>2. d \in Seq(T) /\ Len(d) = 1 /\ d[1] = Option(o) /\ d # <<>>
  BY OneIs, Zenon
<1>3. IsGroup(T, d)
  BY <1>1, <1>2, Zenon DEF IsGroup
<1>4. Takes(g, d)
  <2>1. "bare" # "bad"
    OBVIOUS
  <2> QED BY <1>1, <1>2, <2>1, Zenon DEF Takes
<1>5. d \o <<>> = d
  BY <1>2, NothingBehind, Zenon
<1>6. Default(args, o, <<>>) = IF hasOption(args, o) THEN <<>> ELSE d
  BY <1>5, Zenon DEF Default
<1>7. CASE hasOption(args, o)
  <2>1. Default(args, o, <<>>) = <<>>
    BY <1>6, <1>7, Zenon
  <2> QED BY <1>7, <2>1, Zenon DEF Defaulted
<1>8. CASE ~hasOption(args, o)
  <2>1. Default(args, o, <<>>) = d
    BY <1>6, <1>8, Zenon
  <2>2. Defaulted(T, g, args, o, d)
    BY <1>1, <1>2, <1>3, <1>4, <1>8, Zenon DEF Defaulted
  <2> QED BY <2>1, <2>2, Zenon
<1> QED BY <1>7, <1>8

\* An option with a value.
LEMMA ValueDefault ==
  ASSUME NEW T, NEW g, NEW args, NEW o, Nonempty(o), o \in Valued(g), Option(o) \in T,
         NEW t \in T, IsWord(t), Nonempty(t.text), AcceptsValue(g, o, t)
  PROVE  /\ Defaulted(T, g, args, o, Default(args, o, <<t>>))
         /\ Default(args, o, <<t>>) # <<>> => Len(Default(args, o, <<t>>)) = 2 /\ Default(args, o, <<t>>)[2] = t
<1> DEFINE d == <<Option(o)>> \o <<t>>
<1>1. Option(o).option = o /\ Option(o).form = "bare" /\ ~IsWord(Option(o))
  <2>1. Option(o).option = o /\ Option(o).form = "bare"
    BY WordIs, Zenon
  <2> QED BY <2>1, Zenon DEF IsWord, Nonempty
<1>2. d \in Seq(T) /\ Len(d) = 2 /\ d[1] = Option(o) /\ d[2] = t /\ d # <<>>
  OBVIOUS
<1> HIDE DEF d
<1>3. IsGroup(T, d)
  BY <1>1, <1>2, Zenon DEF IsGroup, Nonempty
<1>4. Takes(g, d)
  BY <1>1, <1>2, Zenon DEF Takes
<1>5. Default(args, o, <<t>>) = IF hasOption(args, o) THEN <<>> ELSE d
  BY Zenon DEF Default, d
<1>6. CASE hasOption(args, o)
  <2>1. Default(args, o, <<t>>) = <<>>
    BY <1>5, <1>6, Zenon
  <2> QED BY <1>6, <2>1, Zenon DEF Defaulted
<1>7. CASE ~hasOption(args, o)
  <2>1. Default(args, o, <<t>>) = d
    BY <1>5, <1>7, Zenon
  <2>2. Defaulted(T, g, args, o, d)
    BY <1>1, <1>2, <1>3, <1>4, <1>7, Zenon DEF Defaulted
  <2> QED BY <1>2, <2>1, <2>2, Zenon
<1> QED BY <1>6, <1>7

\* A default fits where its option was not read.
LEMMA DefaultFits ==
  ASSUME NEW T, NEW g, NEW args, NEW o, NEW d, Defaulted(T, g, args, o, d), NEW s, d # <<>> => o \notin s.seen
  PROVE  Fits(T, g, s, d)
BY Zenon DEF Defaulted, Fits

\* And the arguments it is a default for lack it.
LEMMA DefaultLacks ==
  ASSUME NEW T, NEW g, NEW args \in Seq(T), NEW o, NEW d, Defaulted(T, g, args, o, d)
  PROVE  d # <<>> => Lacking(args, d[1].option)
<1>1. Lacking(args, o) <=> ~hasOption(args, o)
  BY LackingIs, Zenon
<1> QED BY <1>1, Zenon DEF Defaulted

\* Two parsers that differ in whether the latency is asked for.
LikeRead(r, w) ==
  /\ w.ok = r.ok /\ w.value = r.value
  /\ \A o : o # "--include-ebpf-latency" => (o \in w.on <=> o \in r.on) /\ (o \in w.seen <=> o \in r.seen)

\* They still differ in that alone when a default is filled in.
LEMMA LikePut ==
  ASSUME NEW T, NEW r \in ParserStates(T), NEW w \in ParserStates(T), LikeRead(r, w), NEW d, d = <<>> \/ IsGroup(T, d)
  PROVE  LikeRead(Put(r, d), Put(w, d))
<1>1. CASE d = <<>>
  BY <1>1, Zenon DEF Put
<1>2. CASE d # <<>>
  <2> DEFINE x == With(r, d)
             y == With(w, d)
  <2>1. IsGroup(T, d)
    BY <1>2, Zenon
  <2>2. IsPut(T, r, d, x) /\ IsPut(T, w, d, y)
    BY <2>1, PutIs
  <2>3. x = Put(r, d) /\ y = Put(w, d)
    BY <1>2, Zenon DEF Put
  <2> HIDE DEF x, y
  <2>4. y.ok = x.ok /\ y.value = x.value
    BY <2>2, Zenon DEF IsPut, LikeRead
  <2>5. ASSUME NEW o, o # "--include-ebpf-latency" PROVE (o \in y.on <=> o \in x.on) /\ (o \in y.seen <=> o \in x.seen)
    <3>1. (o \in w.on <=> o \in r.on) /\ (o \in w.seen <=> o \in r.seen)
      BY <2>5, Zenon DEF LikeRead
    <3>2. o \in y.on <=> o \in x.on
      BY <2>2, <3>1, Zenon DEF IsPut, PutOn
    <3>3. o \in y.seen <=> o \in x.seen
      BY <2>2, <3>1, Zenon DEF IsPut
    <3> QED BY <3>2, <3>3
  <2>6. LikeRead(x, y)
    BY <2>4, <2>5, Zenon DEF LikeRead
  <2> QED BY <2>3, <2>6, Zenon
<1> QED BY <1>1, <1>2

\* They differ in that when it is filled in itself.
LEMMA LatencyLike ==
  ASSUME NEW T, NEW e \in ParserStates(T), NEW d, d = <<>> \/ (IsGroup(T, d) /\ d = <<Option("--include-ebpf-latency")>>)
  PROVE  LikeRead(e, Put(e, d))
<1>1. CASE d = <<>>
  BY <1>1, Zenon DEF Put, LikeRead
<1>2. CASE d # <<>>
  <2> DEFINE x == With(e, d)
             o == "--include-ebpf-latency"
  <2>1. IsGroup(T, d) /\ d = <<Option(o)>>
    BY <1>2, Zenon
  <2>2. IsPut(T, e, d, x)
    BY <2>1, PutIs
  <2>3. x = Put(e, d)
    BY <1>2, Zenon DEF Put
  <2>4. Len(d) = 1 /\ d[1].option = o
    <3>1. Len(<<Option(o)>>) = 1 /\ <<Option(o)>>[1] = Option(o)
      BY OneIs, Zenon
    <3>2. Option(o).option = o
      BY WordIs, Zenon
    <3> QED BY <2>1, <3>1, <3>2, Zenon
  <2> HIDE DEF x, o
  <2>5. x.ok = e.ok /\ x.value = e.value
    BY <2>2, <2>4, Zenon DEF IsPut, PutValue
  <2>6. \A p : p # o => (p \in x.on <=> p \in e.on) /\ (p \in x.seen <=> p \in e.seen)
    BY <2>2, <2>4, Zenon DEF IsPut, PutOn
  <2>7. LikeRead(e, x)
    BY <2>5, <2>6, Zenon DEF LikeRead, o
  <2> QED BY <2>3, <2>7, Zenon
<1> QED BY <1>1, <1>2

\* diagnose and capture do not tell them apart.
LEMMA LikeAccepted ==
  ASSUME NEW long, NEW r, NEW w, LikeRead(r, w), TargetAccepts(long, r)
  PROVE  TargetAccepts(long, w)
<1>1. \A o : Text(w, o) = Text(r, o)
  BY Zenon DEF LikeRead, Text
<1>2. \A o, n : Given(w, o, n) = Given(r, o, n)
  BY Zenon DEF LikeRead, Given
<1>3. /\ "--discover-suspects" # "--include-ebpf-latency" /\ "--output" # "--include-ebpf-latency"
      /\ "--output-dir" # "--include-ebpf-latency"
  OBVIOUS
<1>4. /\ "--discover-suspects" \in w.on <=> "--discover-suspects" \in r.on
      /\ "--output" \in w.seen <=> "--output" \in r.seen
      /\ "--output-dir" \in w.seen <=> "--output-dir" \in r.seen
      /\ w.ok = r.ok
  BY <1>3, Zenon DEF LikeRead
<1>5. {"--output", "--output-dir"} \subseteq w.seen <=> {"--output", "--output-dir"} \subseteq r.seen
  BY <1>4, Zenon
<1>6. OneSuspect(w) <=> OneSuspect(r)
  BY <1>1, <1>4, Zenon DEF OneSuspect
<1>7. IntervalFits(w, 100, 20) <=> IntervalFits(r, 100, 20)
  BY <1>2, Zenon DEF IntervalFits
<1> QED BY <1>1, <1>4, <1>5, <1>6, <1>7, Zenon DEF TargetAccepts

\* The options with a value that investigate and bundle write themselves.
LEMMA TargetTakes ==
  ASSUME NEW json \in BOOLEAN, NEW o \in {"--victim", "--suspect", "--output-dir"}, NEW t
  PROVE  o \in Valued(TargetGrammar(json)) /\ AcceptsValue(TargetGrammar(json), o, t)
BY DEF TargetGrammar, Grammar, Valued, AcceptsValue

\* What a parser has read of the options that they write.
HeadRead(T, g, a, k, s) ==
  ReadTo(T, g, TargetHead(a, k), s) /\ s.seen \subseteq {"--victim", "--suspect", "--discover-suspects"}

\* It has read them.
LEMMA HeadIsRead ==
  ASSUME NEW T, NEW root, Composed(root) \subseteq T, NEW a \in Seq(T), NEW k, IsTargetLine(a, k), NEW json \in BOOLEAN
  PROVE  \E s : HeadRead(T, TargetGrammar(json), a, k, s)
<1> DEFINE g == TargetGrammar(json)
           v == <<Option("--victim"), a[2]>>
<1>1. Option("--victim") \in T /\ Option("--suspect") \in T /\ Option("--discover-suspects") \in T
  BY DEF Composed
<1>2. k \in {3, 4} /\ Len(a) >= k - 1 /\ Len(a) \in Nat
  BY DEF IsTargetLine
<1>3. a[2] \in T /\ IsWord(a[2]) /\ a[2].text # "" /\ (k = 4 => a[3] \in T /\ IsWord(a[3]) /\ a[3].text # "")
  <2>1. a[2] \in T /\ (k = 4 => a[3] \in T)
    BY <1>2
  <2> QED BY <2>1, Zenon DEF IsTargetLine, Nonempty
<1>4. /\ Proper(g) /\ "--discover-suspects" \in g.booleans
      /\ "--victim" \in Valued(g) /\ AcceptsValue(g, "--victim", a[2])
      /\ "--suspect" \in Valued(g) /\ AcceptsValue(g, "--suspect", a[3])
  <2>1. /\ "--victim" \in Valued(g) /\ AcceptsValue(g, "--victim", a[2])
        /\ "--suspect" \in Valued(g) /\ AcceptsValue(g, "--suspect", a[3])
    BY TargetTakes, Zenon
  <2>2. Proper(g) /\ {"--discover-suspects", "--include-ebpf-latency"} \subseteq g.booleans
    BY TargetGrammarIs, Zenon
  <2> QED BY <2>1, <2>2, Zenon
<1> HIDE DEF g
<1>5. ReadTo(T, g, <<>>, Nothing) /\ Nothing.seen = {}
  BY ReadNone, Zenon DEF Nothing
<1>6. "--victim" \notin Nothing.seen
  BY <1>5, Zenon
<1>7. \E w : ReadTo(T, g, <<>> \o <<Option("--victim"), a[2]>>, w) /\ Assigns(Nothing, "--victim", a[2], w)
  BY <1>1, <1>3, <1>4, <1>5, <1>6, ThenValue
<1>8. <<>> \o <<Option("--victim"), a[2]>> = v
  <2>1. v \in Seq(T)
    BY <1>1, <1>3, TwoOf, Zenon
  <2> HIDE DEF v
  <2>2. <<>> \o v = v
    BY <2>1
  <2> QED BY <2>2 DEF v
<1>9. PICK w : ReadTo(T, g, v, w) /\ Assigns(Nothing, "--victim", a[2], w)
  BY <1>7, <1>8, Zenon
<1>10. w.seen = {"--victim"}
  BY <1>5, <1>9 DEF Assigns
<1> HIDE DEF v
<1>11. CASE k = 3
  <2>1. TargetHead(a, k) = v \o <<Option("--discover-suspects")>>
    BY <1>11 DEF TargetHead, v
  <2>2. "--discover-suspects" \notin w.seen
    BY <1>10
  <2>3. PICK s : ReadTo(T, g, v \o <<Option("--discover-suspects")>>, s) /\ Switches(w, "--discover-suspects", s)
    BY <1>1, <1>4, <1>9, <2>2, ThenFlag
  <2>4. s.seen \subseteq {"--victim", "--suspect", "--discover-suspects"}
    BY <1>10, <2>3 DEF Switches
  <2>5. HeadRead(T, g, a, k, s)
    BY <2>1, <2>3, <2>4, Zenon DEF HeadRead
  <2> QED BY <2>5, Zenon DEF g
<1>12. CASE k = 4
  <2>1. TargetHead(a, k) = v \o <<Option("--suspect"), a[3]>>
    BY <1>12 DEF TargetHead, v
  <2>2. "--suspect" \notin w.seen
    BY <1>10
  <2>3. a[3] \in T /\ IsWord(a[3]) /\ a[3].text # ""
    BY <1>3, <1>12
  <2>4. PICK s : ReadTo(T, g, v \o <<Option("--suspect"), a[3]>>, s) /\ Assigns(w, "--suspect", a[3], s)
    BY <1>1, <1>4, <1>9, <2>2, <2>3, ThenValue
  <2>5. s.seen \subseteq {"--victim", "--suspect", "--discover-suspects"}
    BY <1>10, <2>4 DEF Assigns
  <2>6. HeadRead(T, g, a, k, s)
    BY <2>1, <2>4, <2>5, Zenon DEF HeadRead
  <2> QED BY <2>6, Zenon DEF g
<1> QED BY <1>2, <1>11, <1>12

\* The default directory, which diagnose is not given.
LEMMA DirectoryIs ==
  ASSUME NEW T, NEW root, Composed(root) \subseteq T, NEW long, NEW output, Word(output) \in T,
         long = "capture" => Nonempty(output), NEW rest \in Seq(T), NEW json \in BOOLEAN
  PROVE  \/ Directory(long, output, rest) = <<>>
         \/ Defaulted(T, TargetGrammar(json), rest, "--output-dir", Directory(long, output, rest))
<1>1. CASE long = "capture"
  <2> DEFINE g == TargetGrammar(json)
             t == Word(output)
  <2>1. "--output-dir" \in Valued(g) /\ AcceptsValue(g, "--output-dir", t)
    BY TargetTakes, Zenon
  <2>2. Nonempty("--output-dir") /\ Option("--output-dir") \in T
    BY DEF Nonempty, Composed
  <2>3. IsWord(t) /\ Nonempty(t.text)
    <3>1. IsWord(t) /\ t.text = output /\ Nonempty(output)
      BY <1>1, WordIs, Zenon
    <3> QED BY <3>1, Zenon DEF Nonempty
  <2> HIDE DEF g, t
  <2>4. t \in T
    BY Zenon DEF t
  <2>5. Defaulted(T, g, rest, "--output-dir", Default(rest, "--output-dir", <<t>>))
    BY <2>1, <2>2, <2>3, <2>4, ValueDefault, Zenon
  <2> QED BY <1>1, <2>5, Zenon DEF Directory, g, t
<1>2. CASE long # "capture"
  BY <1>2, Zenon DEF Directory
<1> QED BY <1>1, <1>2

\* What the long command reads with and without the latency, if it accepts
\* what the operator gave.
BothRead(T, g, m, n, l, d, e) ==
  /\ e \in ParserStates(T) /\ parseOptions(g, m) = Put(e, d)
  /\ parseOptions(g, n) = Put(Put(e, l), d) /\ Put(e, l) \in ParserStates(T)

\* It reads both.
LEMMA BothAreRead ==
  ASSUME NEW T, NEW g, Proper(g), NEW h, NEW s, ReadTo(T, g, h, s), NEW rest \in Seq(T),
         NEW l, Defaulted(T, g, rest, "--include-ebpf-latency", l), "--include-ebpf-latency" \notin s.seen,
         NEW d, d = <<>> \/ Defaulted(T, g, rest, "--output-dir", d), "--output-dir" \notin s.seen,
         parseOptions(g, (h \o rest) \o d).ok
  PROVE  \E e : BothRead(T, g, (h \o rest) \o d, ((h \o l) \o d) \o rest, l, d, e)
<1> DEFINE m == h \o rest
           u == h \o l
           w == Put(s, l)
           n == (u \o d) \o rest
<1>1. h \in Seq(T) /\ s \in ParserStates(T)
  BY Zenon DEF ReadTo
<1>2. m \in Seq(T)
  BY <1>1, Concatenated, Zenon
<1>3. d = <<>> \/ IsGroup(T, d)
  BY Zenon DEF Defaulted
<1>4. PICK e : PutWas(T, g, m, d, e)
  <2> HIDE DEF m
  <2>1. parseOptions(g, m \o d).ok
    BY Zenon DEF m
  <2> QED BY <1>2, <1>3, <2>1, BeforePut, Zenon
<1>5. ReadTo(T, g, h \o rest, e) /\ parseOptions(g, m \o d) = Put(e, d)
  BY <1>4, Zenon DEF PutWas
<1>6. Fits(T, g, s, l)
  BY DefaultFits, Zenon
<1>7. l # <<>> => Lacking(rest, l[1].option)
  BY DefaultLacks, Zenon
<1>8. ReadTo(T, g, u \o rest, Put(e, l))
  BY <1>5, <1>6, <1>7, PutBetween
<1>9. ReadTo(T, g, u, w)
  BY <1>6, ThenPut, Zenon
<1>10. "--output-dir" \notin w.seen
  <2>1. CASE l = <<>>
    BY <2>1, Zenon DEF Put
  <2>2. CASE l # <<>>
    <3> DEFINE x == With(s, l)
    <3>1. IsGroup(T, l) /\ l[1].option = "--include-ebpf-latency"
      BY <2>2, Zenon DEF Defaulted
    <3>2. IsPut(T, s, l, x)
      BY <1>1, <3>1, PutIs
    <3>3. w = x
      BY <2>2, Zenon DEF Put
    <3> HIDE DEF w, x
    <3>4. w.seen = s.seen \cup {"--include-ebpf-latency"}
      BY <3>1, <3>2, <3>3, Zenon DEF IsPut
    <3> QED BY <3>4
  <2> QED BY <2>1, <2>2
<1> HIDE DEF w, u
<1>11. Fits(T, g, w, d)
  <2>1. CASE d = <<>>
    BY <2>1, Zenon DEF Fits
  <2>2. CASE d # <<>>
    BY <1>10, <2>2, DefaultFits, Zenon
  <2> QED BY <2>1, <2>2
<1>12. d # <<>> => Lacking(rest, d[1].option)
  BY DefaultLacks, Zenon
<1>13. ReadTo(T, g, (u \o d) \o rest, Put(Put(e, l), d))
  <2> DEFINE f == Put(e, l)
  <2>1. ReadTo(T, g, u \o rest, f)
    BY <1>8
  <2> HIDE DEF f
  <2>2. ReadTo(T, g, (u \o d) \o rest, Put(f, d))
    BY <1>9, <1>11, <1>12, <2>1, PutBetween
  <2> QED BY <2>2, Zenon DEF f
<1>14. parseOptions(g, n) = Put(Put(e, l), d)
  BY <1>13, ReadAll, Zenon
<1>15. e \in ParserStates(T) /\ Put(e, l) \in ParserStates(T)
  BY <1>5, <1>8, Zenon DEF ReadTo
<1>16. BothRead(T, g, m \o d, n, l, d, e)
  BY <1>5, <1>14, <1>15, Zenon DEF BothRead
<1> QED BY <1>16, Zenon DEF m, n, u

\* The latency that is asked for by default.
LatencyFits(T, g, rest, l) ==
  Defaulted(T, g, rest, "--include-ebpf-latency", l) /\ (l # <<>> => l = <<Option("--include-ebpf-latency")>>)

\* A parser that knows the option takes it.
LEMMA LatencyDefault ==
  ASSUME NEW T, NEW g, NEW rest, "--include-ebpf-latency" \in g.booleans, Option("--include-ebpf-latency") \in T
  PROVE  LatencyFits(T, g, rest, Latency(rest))
<1> DEFINE o == "--include-ebpf-latency"
           l == Default(rest, o, <<>>)
<1>1. Nonempty(o)
  BY DEF Nonempty
<1>2. o \in g.booleans /\ Option(o) \in T
  OBVIOUS
<1> HIDE DEF o
<1>3. Defaulted(T, g, rest, o, l) /\ (l # <<>> => l = <<Option(o)>>)
  BY <1>1, <1>2, FlagDefault
<1> HIDE DEF l
<1>4. l = Latency(rest)
  BY Zenon DEF l, Latency, o
<1> QED BY <1>3, <1>4, Zenon DEF LatencyFits, o

\* What the long command accepts with what it needs, it accepts as
\* investigate and bundle write it.
LEMMA TargetAccepted ==
  ASSUME NEW T, NEW root, Composed(root) \subseteq T, NEW a \in Seq(T), NEW k, IsTargetLine(a, k),
         NEW long \in {"diagnose", "capture"}, NEW output, Word(output) \in T, long = "capture" => Nonempty(output),
         IsShortFor(a, long, root, output), NEW args, Expands(a, k, long, output, args), Parse(Direct(a, root)).ok
  PROVE  Parse(args).ok
<1> DEFINE rest == SubSeq(a, k, Len(a))
           h == TargetHead(a, k)
           l == Latency(rest)
           d == Directory(long, output, rest)
           m == (h \o rest) \o d
           n == TargetRest(a, k, long, output)
           json == long = "diagnose"
           g == TargetGrammar(json)
           r == parseOptions(g, m)
           w == parseOptions(g, n)
<1>0. json \in BOOLEAN
  OBVIOUS
<1> HIDE DEF json
<1>1. Word(long) \in T /\ Word("noisy-neighbor") \in T /\ Option("--include-ebpf-latency") \in T
  BY DEF Composed
<1>2. TargetParts(T, a, k, long, output)
  BY TargetPartsAre, Zenon
<1>3. h \in Seq(T) /\ rest \in Seq(T) /\ d \in Seq(T)
  BY <1>2, Zenon DEF TargetParts
<1>4. n \in Seq(T) /\ args = Words(<<long, "noisy-neighbor">>) \o n
  <2>1. n \in Seq(T)
    BY <1>2, TargetRestIs, Zenon
  <2>2. args = Words(<<long, "noisy-neighbor">>) \o n
    BY Zenon DEF Expands, TargetRest
  <2> QED BY <2>1, <2>2
<1>5. DirectIs(a, k, long, root, output)
  BY <1>1, DirectTarget, Zenon
<1>6. Direct(a, root) = Words(<<long, "noisy-neighbor">>) \o m
  BY <1>5, Zenon DEF DirectIs
<1>7. n = ((h \o l) \o d) \o rest
  BY Zenon DEF TargetRest
<1>8. LatencyFits(T, g, rest, l)
  <2>1. "--include-ebpf-latency" \in g.booleans
    BY <1>0, TargetGrammarIs, Zenon
  <2> HIDE DEF g, rest
  <2> QED BY <1>1, <2>1, LatencyDefault, Zenon
<1>9. d = <<>> \/ Defaulted(T, g, rest, "--output-dir", d)
  BY <1>0, <1>3, DirectoryIs, Zenon
<1>10. Proper(g)
  BY <1>0, TargetGrammarIs, Zenon
<1>11. PICK s : HeadRead(T, g, a, k, s)
  BY <1>0, HeadIsRead, Zenon
<1>12. ReadTo(T, g, h, s) /\ s.seen \subseteq {"--victim", "--suspect", "--discover-suspects"}
  BY <1>11, Zenon DEF HeadRead
<1>13. "--include-ebpf-latency" \notin s.seen /\ "--output-dir" \notin s.seen
  BY <1>12
<1>14. /\ Defaulted(T, g, rest, "--include-ebpf-latency", l)
       /\ l = <<>> \/ (IsGroup(T, l) /\ l = <<Option("--include-ebpf-latency")>>)
  <2> HIDE DEF l, g, rest
  <2> QED BY <1>8, Zenon DEF Defaulted, LatencyFits
<1>15. d = <<>> \/ IsGroup(T, d)
  <2> HIDE DEF d, g
  <2> QED BY <1>9, Zenon DEF Defaulted
<1> HIDE DEF h, rest, l, d, n
<1>16. m \in Seq(T)
  <2>1. h \o rest \in Seq(T)
    BY <1>3, Concatenated, Zenon
  <2> DEFINE b == h \o rest
  <2> HIDE DEF b
  <2>2. b \o d \in Seq(T)
    BY <1>3, <2>1, Concatenated, Zenon DEF b
  <2> QED BY <2>2 DEF b
<1>17. Recounts(Words(<<long, "noisy-neighbor">>) \o m, r, TargetAccepts(long, r))
  <2> HIDE DEF m
  <2> QED BY <1>1, <1>16, TargetRecounts, Zenon DEF g, json
<1>18. Recounts(args, w, TargetAccepts(long, w))
  BY <1>1, <1>4, TargetRecounts, Zenon DEF g, json
<1> HIDE DEF g
<1>19. TargetAccepts(long, r) /\ r.ok
  <2> HIDE DEF m, r
  <2> QED BY <1>6, <1>17, Zenon DEF Recounts, TargetAccepts
<1>20. \E e : BothRead(T, g, m, ((h \o l) \o d) \o rest, l, d, e)
  BY <1>3, <1>9, <1>10, <1>12, <1>13, <1>14, <1>19, BothAreRead, Zenon
<1>21. PICK e : BothRead(T, g, m, n, l, d, e)
  BY <1>7, <1>20, Zenon
<1>22. e \in ParserStates(T) /\ r = Put(e, d) /\ w = Put(Put(e, l), d) /\ Put(e, l) \in ParserStates(T)
  BY <1>21, Zenon DEF BothRead
<1>23. LikeRead(e, Put(e, l))
  BY <1>14, <1>22, LatencyLike, Zenon
<1> HIDE DEF r, w
<1>24. LikeRead(r, w)
  BY <1>15, <1>22, <1>23, LikePut, Zenon
<1>25. TargetAccepts(long, w)
  BY <1>19, <1>24, LikeAccepted, Zenon
<1> QED BY <1>18, <1>25, Zenon DEF Recounts

-----------------------------------------------------------------------------
(* What monitor writes.                                                    *)
Application == <<Option("--application")>>

MonitorDuration(rest) == Default(rest, "--duration", <<Duration("5s", 50)>>)
MonitorEvery(rest) == Default(rest, "--every", <<Duration("7s", 70)>>)
MonitorRefresh(rest) == Default(rest, "--ui-refresh", <<Duration("200ms", 2)>>)

MonitorRest(rest) ==
  ((((rest \o Application) \o MonitorDuration(rest)) \o MonitorEvery(rest)) \o MonitorRefresh(rest)) \o Latency(rest)

\* Seven parts, put together from the left or behind the first.
InSeven(w, r, o, d, e, f, l) ==
  (((((w \o r) \o o) \o d) \o e) \o f) \o l = w \o (((((r \o o) \o d) \o e) \o f) \o l)

\* They are the same arguments.
LEMMA SevenParts ==
  ASSUME NEW T, NEW w, w \in Seq(T), NEW r, r \in Seq(T), NEW o, o \in Seq(T), NEW d, d \in Seq(T),
         NEW e, e \in Seq(T), NEW f, f \in Seq(T), NEW l, l \in Seq(T)
  PROVE  InSeven(w, r, o, d, e, f, l) /\ ((((r \o o) \o d) \o e) \o f) \o l \in Seq(T)
<1> DEFINE b == r \o o
           c == b \o d
           m == c \o e
           n == m \o f
<1>1. b \in Seq(T)
  BY Concatenated, Zenon
<1>2. c \in Seq(T)
  <2> HIDE DEF b
  <2> QED BY <1>1, Concatenated, Zenon
<1>3. m \in Seq(T)
  <2> HIDE DEF c
  <2> QED BY <1>2, Concatenated, Zenon
<1>4. n \in Seq(T)
  <2> HIDE DEF m
  <2> QED BY <1>3, Concatenated, Zenon
<1>5. Associates(w, r, o)
  BY Associated, Zenon
<1>6. n \o l \in Seq(T)
  <2> HIDE DEF n
  <2> QED BY <1>4, Concatenated, Zenon
<1> HIDE DEF b, c, m, n
<1>7. Associates(w, b, d) /\ Associates(w, c, e) /\ Associates(w, m, f) /\ Associates(w, n, l)
  BY <1>1, <1>2, <1>3, <1>4, Associated, Zenon
<1>8. /\ (w \o r) \o o = w \o b /\ (w \o b) \o d = w \o c /\ (w \o c) \o e = w \o m
      /\ (w \o m) \o f = w \o n /\ (w \o n) \o l = w \o (n \o l)
  BY <1>5, <1>7, Zenon DEF Associates, b, c, m, n
<1>9. (((((w \o r) \o o) \o d) \o e) \o f) \o l = w \o (n \o l)
  BY <1>8, Zenon
<1> QED BY <1>6, <1>9, Zenon DEF InSeven, b, c, m, n

\* What monitor writes is made of the arguments considered.
MonitorParts(T, rest) ==
  /\ rest \in Seq(T) /\ Application \in Seq(T) /\ Grouped(T, Application)
  /\ Grouped(T, MonitorDuration(rest)) /\ Grouped(T, MonitorEvery(rest)) /\ Grouped(T, MonitorRefresh(rest))
  /\ Grouped(T, Latency(rest))

\* And so are its parts.
LEMMA MonitorPartsAre ==
  ASSUME NEW T, NEW root, Composed(root) \subseteq T, NEW rest \in Seq(T)
  PROVE  MonitorParts(T, rest)
<1>1. /\ Option("--duration") \in T /\ Option("--every") \in T /\ Option("--ui-refresh") \in T
      /\ Option("--include-ebpf-latency") \in T /\ Option("--application") \in T
      /\ Duration("5s", 50) \in T /\ Duration("7s", 70) \in T /\ Duration("200ms", 2) \in T
  BY DEF Composed
<1>2. /\ <<Duration("5s", 50)>> \in Seq(T) /\ Len(<<Duration("5s", 50)>>) = 1
      /\ <<Duration("7s", 70)>> \in Seq(T) /\ Len(<<Duration("7s", 70)>>) = 1
      /\ <<Duration("200ms", 2)>> \in Seq(T) /\ Len(<<Duration("200ms", 2)>>) = 1
      /\ <<>> \in Seq(T)
  BY <1>1
<1>3. \A text, n : IsWord(<<Duration(text, n)>>[1])
  BY DEF IsWord, Duration, Word
<1>4. /\ ~IsWord(Option("--duration")) /\ ~IsWord(Option("--every")) /\ ~IsWord(Option("--ui-refresh"))
      /\ ~IsWord(Option("--include-ebpf-latency")) /\ ~IsWord(Option("--application"))
  BY DEF IsWord, Option, Word
<1>5. Grouped(T, MonitorDuration(rest))
  BY <1>1, <1>2, <1>3, <1>4, DefaultGrouped DEF MonitorDuration
<1>6. Grouped(T, MonitorEvery(rest))
  BY <1>1, <1>2, <1>3, <1>4, DefaultGrouped DEF MonitorEvery
<1>7. Grouped(T, MonitorRefresh(rest))
  BY <1>1, <1>2, <1>3, <1>4, DefaultGrouped DEF MonitorRefresh
<1>8. Grouped(T, Latency(rest))
  BY <1>1, <1>2, <1>4, DefaultGrouped DEF Latency
<1>9. Application \in Seq(T) /\ Grouped(T, Application)
  <2>1. Application \in Seq(T) /\ Len(Application) = 1 /\ ~IsWord(Application[1])
    BY <1>1, <1>4 DEF Application
  <2>2. \A i \in 1..Len(Application) : i = 1
    BY <2>1
  <2> QED BY <2>1, <2>2, Zenon DEF Grouped
<1> QED BY <1>5, <1>6, <1>7, <1>8, <1>9, Zenon DEF MonitorParts

\* The defaults look at the options that the operator gave.
LEMMA MonitorHas ==
  ASSUME NEW T, Word("top") \in T, Option("--application") \in T, NEW rest \in Seq(T),
         NEW o, Nonempty(o), o # "--application"
  PROVE  hasOption((<<Word("top")>> \o rest) \o Application, o) <=> hasOption(rest, o)
<1> DEFINE b == <<Word("top")>>
           m == b \o rest
<1>1. b \in Seq(T) /\ Application \in Seq(T)
  BY DEF Application
<1>2. hasOption(b, o) <=> Word("top").option = o
  BY OptionOne, Zenon
<1>3. hasOption(Application, o) <=> Option("--application").option = o
  BY OptionOne, Zenon DEF Application
<1>4. ~hasOption(b, o)
  <2>1. IsWord(Word("top"))
    BY WordIs, Zenon
  <2> QED BY <1>2, <2>1, Zenon DEF IsWord, Nonempty
<1>5. ~hasOption(Application, o)
  <2>1. Option("--application").option = "--application"
    BY WordIs, Zenon
  <2> QED BY <1>3, <2>1, Zenon
<1> HIDE DEF b
<1>6. m \in Seq(T)
  BY <1>1, Concatenated, Zenon
<1>7. hasOption(m, o) <=> hasOption(b, o) \/ hasOption(rest, o)
  BY <1>1, OptionBehind, Zenon
<1> HIDE DEF m
<1>8. hasOption(m \o Application, o) <=> hasOption(m, o) \/ hasOption(Application, o)
  BY <1>1, <1>6, OptionBehind, Zenon
<1> QED BY <1>4, <1>5, <1>7, <1>8, Zenon DEF m, b

\* monitor is top with the defaults behind what the operator gave.
MonitorIs(a, root) ==
  LET rest == SubSeq(a, 2, Len(a)) IN
  /\ expandOperatorCommand(a, root).args = <<Word("top")>> \o MonitorRest(rest)
  /\ Direct(a, root) = <<Word("top")>> \o rest

\* It writes nothing else.
LEMMA MonitorExpands ==
  ASSUME NEW T, NEW root, Composed(root) \subseteq T, NEW a \in Seq(T), a # <<>>, a[1] = Word("monitor")
  PROVE  MonitorIs(a, root) /\ MonitorRest(SubSeq(a, 2, Len(a))) \in Seq(T) /\ SubSeq(a, 2, Len(a)) \in Seq(T)
<1> DEFINE rest == SubSeq(a, 2, Len(a))
           b == <<Word("top")>>
           whole == (b \o rest) \o Application
           d == MonitorDuration(rest)
           e == MonitorEvery(rest)
           f == MonitorRefresh(rest)
           l == Latency(rest)
           all == (((whole \o d) \o e) \o f) \o l
<1>1. Tail(a) = rest
  BY TailIsSubSeq, Zenon
<1>2. rest \in Seq(T)
  OBVIOUS
<1>3. b \in Seq(T) /\ Word("top") \in T /\ Option("--application") \in T
  BY DEF Composed
<1>4. Word("monitor") # Word("investigate") /\ Word("monitor") # Word("bundle")
  BY ExpandedDiffer, Zenon
<1> HIDE DEF rest
<1>5. MonitorParts(T, rest)
  BY <1>2, MonitorPartsAre, Zenon
<1>6. Application \in Seq(T) /\ d \in Seq(T) /\ e \in Seq(T) /\ f \in Seq(T) /\ l \in Seq(T)
  BY <1>5, Zenon DEF MonitorParts, Grouped
<1>7. \A o : Nonempty(o) /\ o # "--application" => (hasOption(whole, o) <=> hasOption(rest, o))
  BY <1>2, <1>3, MonitorHas, Zenon
<1>8. /\ Nonempty("--duration") /\ Nonempty("--every") /\ Nonempty("--ui-refresh") /\ Nonempty("--include-ebpf-latency")
      /\ "--duration" # "--application" /\ "--every" # "--application" /\ "--ui-refresh" # "--application"
      /\ "--include-ebpf-latency" # "--application"
  BY DEF Nonempty
<1>9. /\ Default(whole, "--duration", <<Duration("5s", 50)>>) = d
      /\ Default(whole, "--every", <<Duration("7s", 70)>>) = e
      /\ Default(whole, "--ui-refresh", <<Duration("200ms", 2)>>) = f
      /\ Default(whole, "--include-ebpf-latency", <<>>) = l
  <2> HIDE DEF whole
  <2>1. Default(whole, "--duration", <<Duration("5s", 50)>>) = d
    BY <1>7, <1>8, Zenon DEF MonitorDuration, Default
  <2>2. Default(whole, "--every", <<Duration("7s", 70)>>) = e
    BY <1>7, <1>8, Zenon DEF MonitorEvery, Default
  <2>3. Default(whole, "--ui-refresh", <<Duration("200ms", 2)>>) = f
    BY <1>7, <1>8, Zenon DEF MonitorRefresh, Default
  <2>4. Default(whole, "--include-ebpf-latency", <<>>) = l
    BY <1>7, <1>8, Zenon DEF Latency, Default
  <2> QED BY <2>1, <2>2, <2>3, <2>4
<1>10. whole = (<<Word("top")>> \o Tail(a)) \o <<Option("--application")>>
  BY <1>1, Zenon DEF Application
<1> HIDE DEF whole, d, e, f, l
<1>11. expandOperatorCommand(a, root) = Rewritten(all)
  <2>1. expandOperatorCommand(a, root) =
          Rewritten((((whole \o Default(whole, "--duration", <<Duration("5s", 50)>>))
                        \o Default(whole, "--every", <<Duration("7s", 70)>>))
                        \o Default(whole, "--ui-refresh", <<Duration("200ms", 2)>>))
                        \o Default(whole, "--include-ebpf-latency", <<>>))
    BY <1>4, <1>10, Zenon DEF expandOperatorCommand
  <2> QED BY <1>9, <2>1, Zenon
<1>12. Rewritten(all).args = all
  BY DEF Rewritten
<1> HIDE DEF b
<1>13. InSeven(b, rest, Application, d, e, f, l) /\ ((((rest \o Application) \o d) \o e) \o f) \o l \in Seq(T)
  BY <1>2, <1>3, <1>6, SevenParts, Zenon
<1>14. MonitorRest(rest) = ((((rest \o Application) \o d) \o e) \o f) \o l
  BY Zenon DEF MonitorRest, d, e, f, l
<1>15. all = b \o MonitorRest(rest)
  BY <1>13, <1>14, Zenon DEF InSeven, whole
<1> HIDE DEF all
<1>16. expandOperatorCommand(a, root).args = b \o MonitorRest(rest)
  BY <1>11, <1>12, <1>15, Zenon
<1>17. Direct(a, root) = b \o rest
  BY <1>1, <1>4, Zenon DEF Direct, b
<1> QED BY <1>2, <1>13, <1>14, <1>16, <1>17, Zenon DEF MonitorIs, rest, b

\* The parser of top.
LEMMA TopGrammarIs ==
  /\ Proper(TopGrammar) /\ {"--application", "--include-ebpf-latency"} \subseteq TopGrammar.booleans
  /\ {"--duration", "--every", "--ui-refresh"} \subseteq Valued(TopGrammar)
  /\ \A o \in {"--duration", "--every", "--ui-refresh"} : o \notin TopGrammar.counts
  /\ TopGrammar.filled = {}
BY DEF TopGrammar, Grammar, Valued, Proper, ClearOptions

\* monitor keeps what the operator said.
LEMMA MonitorSaid ==
  ASSUME NEW T, NEW root, Composed(root) \subseteq T, NEW a \in Seq(T), a # <<>>, a[1] = Word("monitor"),
         NEW x, Held(T, x, a), Parse(expandOperatorCommand(a, root).args).ok
  PROVE  Said(x, Parse(expandOperatorCommand(a, root).args))
<1> DEFINE rest == SubSeq(a, 2, Len(a))
           s == MonitorRest(rest)
           args == expandOperatorCommand(a, root).args
           r == parseOptions(TopGrammar, s)
           o == Application
           d == MonitorDuration(rest)
           e == MonitorEvery(rest)
           f == MonitorRefresh(rest)
           l == Latency(rest)
<1>1. args = <<Word("top")>> \o s /\ s \in Seq(T) /\ rest \in Seq(T)
  <2>1. MonitorIs(a, root) /\ s \in Seq(T) /\ rest \in Seq(T)
    BY MonitorExpands, Zenon
  <2> QED BY <2>1, Zenon DEF MonitorIs
<1>2. PICK p, q : IsHeld(T, p, x, q, a)
  BY Zenon DEF Held
<1>3. 2 \in 1..(Len(p) + 1)
  <2>1. 1 \in 1..Len(a)
    OBVIOUS
  <2>2. IsWord(a[1])
    BY WordIs, Zenon
  <2>3. \A i \in 1..1 : IsWord(a[i])
    BY <2>2
  <2>4. 1 + 1 \in 1..(Len(p) + 1)
    BY <1>2, <2>1, <2>3, WordsBefore, Zenon
  <2> QED BY <2>4
<1>4. Within(T, x, rest)
  BY <1>2, <1>3, WithinLine, Zenon
<1>5. MonitorParts(T, rest)
  BY <1>1, MonitorPartsAre, Zenon
<1>6. Grouped(T, o) /\ Grouped(T, d) /\ Grouped(T, e) /\ Grouped(T, f) /\ Grouped(T, l)
  BY <1>5, Zenon DEF MonitorParts
<1>7. s = ((((rest \o o) \o d) \o e) \o f) \o l
  BY Zenon DEF MonitorRest
<1> HIDE DEF rest, s, o, d, e, f, l, args
<1>8. Within(T, x, rest \o o)
  BY <1>4, <1>6, WithinMore, Zenon
<1>9. Within(T, x, (rest \o o) \o d)
  BY <1>6, <1>8, WithinMore, Zenon
<1>10. Within(T, x, ((rest \o o) \o d) \o e)
  BY <1>6, <1>9, WithinMore, Zenon
<1>11. Within(T, x, (((rest \o o) \o d) \o e) \o f)
  BY <1>6, <1>10, WithinMore, Zenon
<1>12. Within(T, x, s)
  BY <1>6, <1>7, <1>11, WithinMore, Zenon
<1>13. Recounts(args, r, TopAccepts(r))
  <2>1. Word("top") \in T
    BY DEF Composed
  <2> QED BY <1>1, <2>1, TopRecounts, Zenon
<1>14. r.ok /\ Parse(args) = r
  <2>1. Parse(args).ok
    BY DEF args
  <2> HIDE DEF r
  <2> QED BY <1>13, <2>1, Zenon DEF Recounts, TopAccepts
<1>15. Said(x, r)
  BY <1>12, <1>14, TopGrammarIs, WithinSaid, Zenon
<1> QED BY <1>14, <1>15, Zenon DEF args

\* The defaults of monitor.
MonitorOptions == {"--application", "--duration", "--every", "--ui-refresh", "--include-ebpf-latency"}

\* A default that top accepts where it accepts the rest.
Harmless(o, d) ==
  /\ o \in MonitorOptions
  /\ d # <<>> /\ o = "--duration" => Len(d) = 2 /\ d[2].duration + d[2].number = 50
  /\ d # <<>> /\ o = "--ui-refresh" => Len(d) = 2 /\ d[2].duration + d[2].number = 2

\* The numbers of the arguments considered.
Numeric(T) == \A t \in T : t.duration \in Nat /\ t.number \in Nat

\* What is given is a number.
LEMMA GivenIs ==
  ASSUME NEW T, Numeric(T), NEW s \in ParserStates(T), NEW o, NEW n \in Nat
  PROVE  Given(s, o, n) \in Nat
<1>1. PICK D : s.value \in [D -> T]
  BY DEF ParserStates
<1>2. o \in DOMAIN s.value => s.value[o].duration \in Nat /\ s.value[o].number \in Nat
  BY <1>1 DEF Numeric
<1> QED BY <1>2 DEF Given

\* top accepts a default where it accepts the rest.
LEMMA TopPut ==
  ASSUME NEW T, Numeric(T), NEW s \in ParserStates(T), DOMAIN s.value \subseteq s.seen, TopAccepts(s),
         NEW d, NEW o, Harmless(o, d), d = <<>> \/ (IsGroup(T, d) /\ d[1].option = o /\ o \notin s.seen)
  PROVE  TopAccepts(Put(s, d))
<1>1. CASE d = <<>>
  BY <1>1, Zenon DEF Put
<1>2. CASE d # <<>>
  <2> DEFINE w == With(s, d)
  <2>1. IsGroup(T, d) /\ d[1].option = o /\ o \notin s.seen
    BY <1>2, Zenon
  <2>2. IsPut(T, s, d, w)
    BY <2>1, PutIs
  <2>3. w = Put(s, d)
    BY <1>2, Zenon DEF Put
  <2> HIDE DEF w
  <2>4. /\ o # "--sort" /\ o # "--interval" /\ o \notin ClearOptions
        /\ "--duration" # "--ui-refresh"
    BY DEF Harmless, MonitorOptions, ClearOptions
  <2>5. w.ok = s.ok /\ w.seen = s.seen \cup {o} /\ w.value = IF Len(d) = 1 THEN s.value ELSE Assign(s.value, o, d[2])
    BY <2>1, <2>2, Zenon DEF IsPut, PutValue
  <2>6. \A p : p # o => (p \in DOMAIN w.value <=> p \in DOMAIN s.value) /\ (p \in DOMAIN s.value => w.value[p] = s.value[p])
    BY <2>5 DEF Assign
  <2>7. Len(d) = 2 => o \in DOMAIN w.value /\ w.value[o] = d[2]
    BY <2>5 DEF Assign
  <2>8. \A p : p # o => Text(w, p) = Text(s, p) /\ \A n : Given(w, p, n) = Given(s, p, n)
    BY <2>6, Zenon DEF Text, Given
  <2>9. ValidSort(w, TopSortFields)
    <3>1. "--sort" \in w.seen => "--sort" \in s.seen
      BY <2>4, <2>5, Zenon
    <3> QED BY <2>4, <2>8, <3>1, Zenon DEF ValidSort, TopAccepts
  <2>10. ~(ClearOptions \subseteq w.seen)
    <3>1. ~(ClearOptions \subseteq s.seen)
      BY Zenon DEF TopAccepts
    <3> QED BY <2>4, <2>5, <3>1, Zenon
  <2>11. Given(w, "--ui-refresh", 1) >= 1
    <3>1. CASE o = "--ui-refresh"
      <4>1. Len(d) = 2 /\ d[2].duration + d[2].number = 2
        BY <1>2, <3>1, Zenon DEF Harmless
      <4>2. Given(w, o, 1) = 2
        BY <2>7, <4>1, Zenon DEF Given
      <4> QED BY <3>1, <4>2
    <3>2. CASE o # "--ui-refresh"
      <4>1. Given(w, "--ui-refresh", 1) = Given(s, "--ui-refresh", 1)
        BY <2>8, <3>2, Zenon
      <4> QED BY <4>1, Zenon DEF TopAccepts
    <3> QED BY <3>1, <3>2
  <2>12. IntervalFits(w, 30, 10)
    <3>1. Given(w, "--interval", 10) = Given(s, "--interval", 10)
      BY <2>4, <2>8, Zenon
    <3>2. Given(s, "--interval", 10) <= Given(s, "--duration", 30)
      BY Zenon DEF TopAccepts, IntervalFits
    <3>3. CASE o = "--duration"
      <4>1. Len(d) = 2 /\ d[2].duration + d[2].number = 50
        BY <1>2, <3>3, Zenon DEF Harmless
      <4>2. Given(w, o, 30) = 50
        BY <2>7, <4>1, Zenon DEF Given
      <4>3. Given(s, o, 30) = 30
        BY <2>1, Zenon DEF Given
      <4>4. Given(s, "--interval", 10) \in Nat
        BY GivenIs
      <4>5. Given(w, "--interval", 10) <= Given(w, o, 30)
        BY <3>1, <3>2, <3>3, <4>2, <4>3, <4>4
      <4> QED BY <3>3, <4>5, Zenon DEF IntervalFits
    <3>4. CASE o # "--duration"
      <4>1. Given(w, "--duration", 30) = Given(s, "--duration", 30)
        BY <2>8, <3>4, Zenon
      <4> QED BY <3>1, <3>2, <4>1, Zenon DEF IntervalFits
    <3> QED BY <3>3, <3>4
  <2>13. TopAccepts(w)
    BY <2>5, <2>9, <2>10, <2>11, <2>12, Zenon DEF TopAccepts
  <2> QED BY <2>3, <2>13, Zenon
<1> QED BY <1>1, <1>2

\* What top accepts, and which of the defaults it has not read.
TopRead(T, rest, P, s, O) ==
  /\ ReadTo(T, TopGrammar, P, s) /\ TopAccepts(s)
  /\ \A o \in O : ~hasOption(rest, o) => o \notin s.seen

\* A default more.
LEMMA TopNext ==
  ASSUME NEW T, Numeric(T), NEW rest, NEW P, NEW s, NEW O, TopRead(T, rest, P, s, O),
         NEW o \in O, NEW d, Defaulted(T, TopGrammar, rest, o, d), Harmless(o, d)
  PROVE  TopRead(T, rest, P \o d, Put(s, d), O \ {o})
<1> DEFINE w == Put(s, d)
<1>1. ReadTo(T, TopGrammar, P, s) /\ TopAccepts(s) /\ P \in Seq(T) /\ s \in ParserStates(T)
  BY Zenon DEF TopRead, ReadTo
<1>2. DOMAIN s.value \subseteq s.seen
  <2>1. parseOptions(TopGrammar, P) = s
    BY <1>1, ReadAll, Zenon
  <2>2. parseOptions(TopGrammar, P).ok
    BY <1>1, <2>1, Zenon DEF TopAccepts
  <2>3. DOMAIN parseOptions(TopGrammar, P).value \subseteq parseOptions(TopGrammar, P).seen
    BY <1>1, <2>2, ValuesAreSeen, Zenon
  <2> QED BY <2>1, <2>3, Zenon
<1>3. d # <<>> => o \notin s.seen
  BY Zenon DEF TopRead, Defaulted
<1>4. Fits(T, TopGrammar, s, d)
  BY <1>3, DefaultFits, Zenon
<1>5. ReadTo(T, TopGrammar, P \o d, w)
  BY <1>1, <1>4, TopGrammarIs, ThenPut, Zenon
<1>6. d = <<>> \/ (IsGroup(T, d) /\ d[1].option = o /\ o \notin s.seen)
  BY <1>3, Zenon DEF Defaulted
<1>7. TopAccepts(w)
  BY <1>1, <1>2, <1>6, TopPut, Zenon
<1>8. ASSUME NEW p \in O \ {o}, ~hasOption(rest, p) PROVE p \notin w.seen
  <2>1. p \notin s.seen /\ p # o
    BY <1>8, Zenon DEF TopRead
  <2>2. CASE d = <<>>
    BY <2>1, <2>2, Zenon DEF Put
  <2>3. CASE d # <<>>
    <3> DEFINE x == With(s, d)
    <3>1. IsGroup(T, d) /\ d[1].option = o
      BY <1>6, <2>3, Zenon
    <3>2. IsPut(T, s, d, x)
      BY <1>1, <3>1, PutIs
    <3>3. w = x
      BY <2>3, Zenon DEF Put
    <3> HIDE DEF w, x
    <3>4. w.seen = s.seen \cup {o}
      BY <3>1, <3>2, <3>3, Zenon DEF IsPut
    <3> QED BY <2>1, <3>4, Zenon
  <2> QED BY <2>2, <2>3
<1> QED BY <1>5, <1>7, <1>8, Zenon DEF TopRead

\* What monitor writes are harmless defaults.
MonitorDefault(T, rest, o, d) == Defaulted(T, TopGrammar, rest, o, d) /\ Harmless(o, d)

\* Each of them.
LEMMA MonitorDefaults ==
  ASSUME NEW T, NEW root, Composed(root) \subseteq T, NEW rest \in Seq(T), ~hasOption(rest, "--application")
  PROVE  /\ MonitorDefault(T, rest, "--application", Application)
         /\ MonitorDefault(T, rest, "--duration", MonitorDuration(rest))
         /\ MonitorDefault(T, rest, "--every", MonitorEvery(rest))
         /\ MonitorDefault(T, rest, "--ui-refresh", MonitorRefresh(rest))
         /\ MonitorDefault(T, rest, "--include-ebpf-latency", Latency(rest))
<1> DEFINE g == TopGrammar
           t1 == Duration("5s", 50)
           t2 == Duration("7s", 70)
           t3 == Duration("200ms", 2)
<1>1. /\ Option("--duration") \in T /\ Option("--every") \in T /\ Option("--ui-refresh") \in T
      /\ Option("--include-ebpf-latency") \in T /\ Option("--application") \in T
      /\ t1 \in T /\ t2 \in T /\ t3 \in T
  BY DEF Composed
<1>2. /\ IsWord(t1) /\ IsWord(t2) /\ IsWord(t3) /\ Nonempty(t1.text) /\ Nonempty(t2.text) /\ Nonempty(t3.text)
      /\ t1.duration = 50 /\ t1.number = 0 /\ t2.duration = 70 /\ t3.duration = 2 /\ t3.number = 0
  BY DEF IsWord, Duration, Word, Nonempty
<1>3. /\ Nonempty("--duration") /\ Nonempty("--every") /\ Nonempty("--ui-refresh") /\ Nonempty("--include-ebpf-latency")
      /\ Nonempty("--application")
  BY DEF Nonempty
<1>4. AcceptsValue(g, "--duration", t1) /\ AcceptsValue(g, "--every", t2) /\ AcceptsValue(g, "--ui-refresh", t3)
  <2>1. t1.duration > 0 /\ t2.duration > 0 /\ t3.duration > 0
    BY <1>2
  <2> HIDE DEF g, t1, t2, t3
  <2>2. g.filled = {} /\ "--duration" \notin g.counts /\ "--every" \notin g.counts /\ "--ui-refresh" \notin g.counts
    BY TopGrammarIs, Zenon DEF g
  <2> QED BY <2>1, <2>2, Zenon DEF AcceptsValue
<1>5. "--duration" \in Valued(g) /\ "--every" \in Valued(g) /\ "--ui-refresh" \in Valued(g)
  BY TopGrammarIs, Zenon
<1>6. "--application" \in g.booleans /\ "--include-ebpf-latency" \in g.booleans
  BY TopGrammarIs, Zenon
<1>7. t1.duration + t1.number = 50 /\ t3.duration + t3.number = 2
  BY <1>2
<1>8. /\ \A o \in {"--application", "--every", "--include-ebpf-latency"} :
           o \in MonitorOptions /\ o # "--duration" /\ o # "--ui-refresh"
      /\ "--duration" \in MonitorOptions /\ "--ui-refresh" \in MonitorOptions /\ "--duration" # "--ui-refresh"
  BY DEF MonitorOptions
<1>9. \A o \in {"--application", "--every", "--include-ebpf-latency"} : \A d : Harmless(o, d)
  BY <1>8, Zenon DEF Harmless
<1> HIDE DEF g, t1, t2, t3
<1>10. MonitorDefault(T, rest, "--application", Application)
  <2> DEFINE o == "--application"
             d == Default(rest, o, <<>>)
  <2>1. Nonempty(o) /\ o \in g.booleans /\ Option(o) \in T
    BY <1>1, <1>3, <1>6, Zenon
  <2>2. ~hasOption(rest, o) /\ Harmless(o, Application)
    BY <1>9, Zenon
  <2> HIDE DEF o
  <2>3. Defaulted(T, g, rest, o, d)
    BY <2>1, FlagDefault, Zenon
  <2>4. d = Application
    <3>1. d = <<Option(o)>> \o <<>>
      BY <2>2, Zenon DEF Default
    <3>2. <<Option(o)>> \in Seq(T)
      BY <2>1, OneIs, Zenon
    <3>3. <<Option(o)>> \o <<>> = <<Option(o)>>
      BY <3>2, NothingBehind, Zenon
    <3> QED BY <3>1, <3>3, Zenon DEF Application, o
  <2> QED BY <2>2, <2>3, <2>4, Zenon DEF MonitorDefault, g, o
<1>11. MonitorDefault(T, rest, "--duration", MonitorDuration(rest))
  <2> DEFINE o == "--duration"
             d == Default(rest, o, <<t1>>)
  <2>1. Nonempty(o) /\ o \in Valued(g) /\ Option(o) \in T /\ t1 \in T /\ IsWord(t1) /\ Nonempty(t1.text) /\ AcceptsValue(g, o, t1)
    BY <1>1, <1>2, <1>3, <1>4, <1>5, Zenon
  <2>2. o \in MonitorOptions /\ o # "--ui-refresh"
    BY <1>8, Zenon
  <2> HIDE DEF o
  <2>3. Defaulted(T, g, rest, o, d) /\ (d # <<>> => Len(d) = 2 /\ d[2] = t1)
    BY <2>1, ValueDefault
  <2>4. d = MonitorDuration(rest)
    BY Zenon DEF MonitorDuration, o, t1
  <2> HIDE DEF d
  <2>5. Harmless(o, d)
    BY <1>7, <2>2, <2>3, Zenon DEF Harmless
  <2> QED BY <2>3, <2>4, <2>5, Zenon DEF MonitorDefault, g, o
<1>12. MonitorDefault(T, rest, "--every", MonitorEvery(rest))
  <2> DEFINE o == "--every"
             d == Default(rest, o, <<t2>>)
  <2>1. Nonempty(o) /\ o \in Valued(g) /\ Option(o) \in T /\ t2 \in T /\ IsWord(t2) /\ Nonempty(t2.text) /\ AcceptsValue(g, o, t2)
    BY <1>1, <1>2, <1>3, <1>4, <1>5, Zenon
  <2>2. Harmless(o, d)
    BY <1>9, Zenon
  <2> HIDE DEF o
  <2>3. Defaulted(T, g, rest, o, d)
    BY <2>1, ValueDefault, Zenon
  <2>4. d = MonitorEvery(rest)
    BY Zenon DEF MonitorEvery, o, t2
  <2> HIDE DEF d
  <2> QED BY <2>2, <2>3, <2>4, Zenon DEF MonitorDefault, g, o
<1>13. MonitorDefault(T, rest, "--ui-refresh", MonitorRefresh(rest))
  <2> DEFINE o == "--ui-refresh"
             d == Default(rest, o, <<t3>>)
  <2>1. Nonempty(o) /\ o \in Valued(g) /\ Option(o) \in T /\ t3 \in T /\ IsWord(t3) /\ Nonempty(t3.text) /\ AcceptsValue(g, o, t3)
    BY <1>1, <1>2, <1>3, <1>4, <1>5, Zenon
  <2>2. o \in MonitorOptions /\ o # "--duration"
    BY <1>8, Zenon
  <2> HIDE DEF o
  <2>3. Defaulted(T, g, rest, o, d) /\ (d # <<>> => Len(d) = 2 /\ d[2] = t3)
    BY <2>1, ValueDefault
  <2>4. d = MonitorRefresh(rest)
    BY Zenon DEF MonitorRefresh, o, t3
  <2> HIDE DEF d
  <2>5. Harmless(o, d)
    BY <1>7, <2>2, <2>3, Zenon DEF Harmless
  <2> QED BY <2>3, <2>4, <2>5, Zenon DEF MonitorDefault, g, o
<1>14. MonitorDefault(T, rest, "--include-ebpf-latency", Latency(rest))
  <2> DEFINE o == "--include-ebpf-latency"
             d == Default(rest, o, <<>>)
  <2>1. Nonempty(o) /\ o \in g.booleans /\ Option(o) \in T
    BY <1>1, <1>3, <1>6, Zenon
  <2>2. Harmless(o, d)
    BY <1>9, Zenon
  <2> HIDE DEF o
  <2>3. Defaulted(T, g, rest, o, d)
    BY <2>1, FlagDefault, Zenon
  <2>4. d = Latency(rest)
    BY Zenon DEF Latency, o
  <2> HIDE DEF d
  <2> QED BY <2>2, <2>3, <2>4, Zenon DEF MonitorDefault, g, o
<1> QED BY <1>10, <1>11, <1>12, <1>13, <1>14

\* What top accepts without the defaults, it accepts as monitor writes it.
LEMMA MonitorAccepted ==
  ASSUME NEW T, Numeric(T), NEW root, Composed(root) \subseteq T, NEW a \in Seq(T), a # <<>>, a[1] = Word("monitor"),
         ~hasOption(a, "--application"), Parse(Direct(a, root)).ok
  PROVE  Parse(expandOperatorCommand(a, root).args).ok
<1> DEFINE rest == SubSeq(a, 2, Len(a))
           m == MonitorRest(rest)
           g == TopGrammar
           r == parseOptions(g, rest)
           w == parseOptions(g, m)
<1>1. MonitorIs(a, root) /\ m \in Seq(T) /\ rest \in Seq(T)
  BY MonitorExpands, Zenon
<1>2. expandOperatorCommand(a, root).args = <<Word("top")>> \o m /\ Direct(a, root) = <<Word("top")>> \o rest
  BY <1>1, Zenon DEF MonitorIs
<1>3. ~hasOption(rest, "--application")
  <2>1. IsWord(a[1])
    BY WordIs, Zenon
  <2>2. 2 \in 1..(Len(a) + 1)
    OBVIOUS
  <2>3. \A i \in 1..(2 - 1) : IsWord(a[i])
    BY <2>1
  <2>4. Nonempty("--application")
    BY DEF Nonempty
  <2>5. hasOption(a, "--application") <=> hasOption(rest, "--application")
    BY <2>2, <2>3, <2>4, RestHas
  <2> QED BY <2>5
<1> HIDE DEF rest, m
<1>4. Word("top") \in T
  BY DEF Composed
<1>5. Recounts(<<Word("top")>> \o rest, r, TopAccepts(r)) /\ Recounts(<<Word("top")>> \o m, w, TopAccepts(w))
  BY <1>1, <1>4, TopRecounts, Zenon
<1>6. TopAccepts(r) /\ r.ok
  BY <1>2, <1>5, Zenon DEF Recounts, TopAccepts
<1>7. \E e : PutWas(T, g, rest, <<>>, e)
  <2>1. rest \o <<>> = rest
    BY <1>1, NothingBehind, Zenon
  <2>2. parseOptions(g, rest \o <<>>).ok
    BY <1>6, <2>1, Zenon
  <2>3. Proper(g)
    BY TopGrammarIs, Zenon
  <2> HIDE DEF g
  <2>4. <<>> = <<>> \/ IsGroup(T, <<>>)
    OBVIOUS
  <2> QED BY <1>1, <2>2, <2>3, <2>4, BeforePut, Zenon
<1>8. PICK e : ReadTo(T, g, rest, e)
  BY <1>7, Zenon DEF PutWas
<1>9. r = e
  BY <1>8, ReadAll, Zenon
<1>10. ASSUME NEW o \in MonitorOptions, ~hasOption(rest, o) PROVE o \notin e.seen
  <2>1. Nothing \in ParserStates(T) /\ Nothing.seen = {} /\ Nothing.pending = ""
    <3>1. Nothing \in ParserStates(T)
      BY NothingIs, Zenon
    <3> QED BY <3>1, Zenon DEF Nothing
  <2>2. o # ""
    BY <1>10 DEF MonitorOptions
  <2>3. Unread(Nothing, o)
    BY <2>1, <2>2, Zenon DEF Unread
  <2>4. Lacking(rest, o)
    BY <1>1, <1>10, LackingIs, Zenon
  <2>5. Unread(After(T, g, Nothing, rest), o)
    BY <1>1, <2>1, <2>2, <2>3, <2>4, AfterUnread, Zenon
  <2> QED BY <1>8, <2>5, Zenon DEF ReadTo, Unread
<1>11. TopRead(T, rest, rest, e, MonitorOptions)
  BY <1>6, <1>8, <1>9, <1>10, Zenon DEF TopRead
<1> DEFINE d1 == MonitorDuration(rest)
           d2 == MonitorEvery(rest)
           d3 == MonitorRefresh(rest)
           d4 == Latency(rest)
<1>12. /\ MonitorDefault(T, rest, "--application", Application) /\ MonitorDefault(T, rest, "--duration", d1)
       /\ MonitorDefault(T, rest, "--every", d2) /\ MonitorDefault(T, rest, "--ui-refresh", d3)
       /\ MonitorDefault(T, rest, "--include-ebpf-latency", d4)
  BY <1>1, <1>3, MonitorDefaults, Zenon
<1>13. m = ((((rest \o Application) \o d1) \o d2) \o d3) \o d4
  BY Zenon DEF m, MonitorRest
<1> HIDE DEF d1, d2, d3, d4
<1>14. \A P, s, O, o, d : TopRead(T, rest, P, s, O) /\ o \in O /\ MonitorDefault(T, rest, o, d)
                            => TopRead(T, rest, P \o d, Put(s, d), O \ {o})
  BY TopNext, Zenon DEF MonitorDefault
<1> DEFINE O1 == MonitorOptions \ {"--application"}
           O2 == O1 \ {"--duration"}
           O3 == O2 \ {"--every"}
           O4 == O3 \ {"--ui-refresh"}
<1>15. /\ "--application" \in MonitorOptions /\ "--duration" \in O1 /\ "--every" \in O2 /\ "--ui-refresh" \in O3
       /\ "--include-ebpf-latency" \in O4
  BY DEF MonitorOptions
<1>16. \E s : TopRead(T, rest, rest \o Application, s, O1)
  <2> HIDE DEF O1
  <2>1. TopRead(T, rest, rest \o Application, Put(e, Application), MonitorOptions \ {"--application"})
    BY <1>11, <1>12, <1>14, <1>15, Zenon
  <2> QED BY <2>1, Zenon DEF O1
<1> HIDE DEF O1
<1>17. \E s : TopRead(T, rest, (rest \o Application) \o d1, s, O2)
  BY <1>12, <1>14, <1>15, <1>16, Zenon
<1> HIDE DEF O2
<1>18. \E s : TopRead(T, rest, ((rest \o Application) \o d1) \o d2, s, O3)
  BY <1>12, <1>14, <1>15, <1>17, Zenon
<1> HIDE DEF O3
<1>19. \E s : TopRead(T, rest, (((rest \o Application) \o d1) \o d2) \o d3, s, O4)
  BY <1>12, <1>14, <1>15, <1>18, Zenon
<1> HIDE DEF O4
<1>20. \E s : TopRead(T, rest, m, s, O4 \ {"--include-ebpf-latency"})
  BY <1>12, <1>13, <1>14, <1>15, <1>19, Zenon
<1>21. PICK s : ReadTo(T, g, m, s) /\ TopAccepts(s)
  BY <1>20, Zenon DEF TopRead
<1>22. w = s
  BY <1>21, ReadAll, Zenon
<1> QED BY <1>2, <1>5, <1>21, <1>22, Zenon DEF Recounts

-----------------------------------------------------------------------------
(* The short commands fill in only what the operator left open.            *)

\* What is said stays said, and what the long command accepts is accepted.
KeepsChoices(T, a, root) ==
  /\ \A x : Held(T, x, a) /\ Parse(expandOperatorCommand(a, root).args).ok
              => Said(x, Parse(expandOperatorCommand(a, root).args))
  /\ Parse(Direct(a, root)).ok /\ ~hasOption(a, "--application") => Parse(expandOperatorCommand(a, root).args).ok

\* investigate and bundle.
LEMMA TargetKeepsChoices ==
  ASSUME NEW T, NEW root, Composed(root) \subseteq T, NEW a \in Seq(T), NEW long \in {"diagnose", "capture"},
         NEW output, Word(output) \in T, long = "capture" => Nonempty(output), IsShortFor(a, long, root, output),
         IsWord(a[1]), expandOperatorCommand(a, root) = expandTargetOperatorCommand(a, long, output),
         expandOperatorCommand(a, root).ok
  PROVE  KeepsChoices(T, a, root)
<1> DEFINE out == expandTargetOperatorCommand(a, long, output)
           args == expandOperatorCommand(a, root).args
<1>1. Word(long) \in T
  BY DEF Composed
<1>2. out.ok /\ out.args = args
  BY Zenon
<1>3. \E k : IsTargetLine(a, k) /\ Expands(a, k, long, output, out.args)
  BY <1>1, <1>2, TargetExpands, Zenon
<1> HIDE DEF out, args
<1>4. PICK k : IsTargetLine(a, k) /\ Expands(a, k, long, output, args)
  BY <1>2, <1>3, Zenon
<1>5. ASSUME NEW x, Held(T, x, a), Parse(args).ok PROVE Said(x, Parse(args))
  BY <1>4, <1>5, TargetSaid, Zenon
<1>6. ASSUME Parse(Direct(a, root)).ok PROVE Parse(args).ok
  BY <1>4, <1>6, TargetAccepted, Zenon
<1> QED BY <1>5, <1>6, Zenon DEF KeepsChoices, args

\* Each of the short commands.
LEMMA ExpansionKeeps ==
  ASSUME NEW T, Numeric(T), NEW root, Composed(root) \subseteq T, Word("") \in T, Nonempty(root),
         NEW a \in Seq(T), a # <<>>, a[1] \in ShortCommands, expandOperatorCommand(a, root).ok
  PROVE  KeepsChoices(T, a, root)
<1>1. /\ Word("monitor") # Word("investigate") /\ Word("monitor") # Word("bundle")
      /\ Word("investigate") # Word("bundle")
  BY ExpandedDiffer, Zenon
<1>2. a[1] = Word("monitor") \/ a[1] = Word("investigate") \/ a[1] = Word("bundle")
  BY Zenon DEF ShortCommands
<1>3. CASE a[1] = Word("monitor")
  <2>1. ASSUME NEW x, Held(T, x, a), Parse(expandOperatorCommand(a, root).args).ok
        PROVE  Said(x, Parse(expandOperatorCommand(a, root).args))
    BY <1>3, <2>1, MonitorSaid, Zenon
  <2>2. ASSUME Parse(Direct(a, root)).ok, ~hasOption(a, "--application")
        PROVE  Parse(expandOperatorCommand(a, root).args).ok
    BY <1>3, <2>2, MonitorAccepted, Zenon
  <2> QED BY <2>1, <2>2, Zenon DEF KeepsChoices
<1>4. CASE a[1] = Word("investigate")
  <2>1. expandOperatorCommand(a, root) = expandTargetOperatorCommand(a, "diagnose", "")
    BY <1>1, <1>4, Zenon DEF expandOperatorCommand
  <2>2. IsWord(a[1])
    BY <1>4, WordIs, Zenon
  <2> DEFINE long == "diagnose"
             output == ""
  <2>3. IsShortFor(a, long, root, output) /\ long \in {"diagnose", "capture"}
    BY <1>4, Zenon DEF IsShortFor
  <2>4. long # "capture"
    OBVIOUS
  <2>5. expandOperatorCommand(a, root) = expandTargetOperatorCommand(a, long, output) /\ Word(output) \in T
    BY <2>1, Zenon
  <2> HIDE DEF long, output
  <2> QED BY <2>2, <2>3, <2>4, <2>5, TargetKeepsChoices, Zenon
<1>5. CASE a[1] = Word("bundle")
  <2>1. expandOperatorCommand(a, root) = expandTargetOperatorCommand(a, "capture", root)
    BY <1>1, <1>5, Zenon DEF expandOperatorCommand
  <2>2. IsWord(a[1])
    BY <1>5, WordIs, Zenon
  <2> DEFINE long == "capture"
  <2>3. IsShortFor(a, long, root, root) /\ long \in {"diagnose", "capture"}
    BY <1>5, Zenon DEF IsShortFor
  <2>4. Word(root) \in T
    BY DEF Composed
  <2>5. expandOperatorCommand(a, root) = expandTargetOperatorCommand(a, long, root)
    BY <2>1, Zenon
  <2> HIDE DEF long
  <2> QED BY <2>2, <2>3, <2>4, <2>5, TargetKeepsChoices, Zenon
<1> QED BY <1>2, <1>3, <1>4, <1>5

\* The arguments considered are numeric.
LEMMA ConsideredAreNumeric ==
  ASSUME NEW root
  PROVE  Numeric(Considered(root))
<1>1. \A t \in Tokens : t.duration \in Nat /\ t.number \in Nat
  BY DEF Tokens
<1>2. \A t \in Composed(root) : t.duration \in Nat /\ t.number \in Nat
  <2>1. \A x : Word(x).duration = 0 /\ Word(x).number = 0
    BY DEF Word
  <2>2. \A x : Option(x).duration = 0 /\ Option(x).number = 0
    BY DEF Word, Option
  <2>3. \A x, f : OptionEquals(x, f).duration = 0 /\ OptionEquals(x, f).number = 0
    BY DEF Word, Option, OptionEquals
  <2>4. \A x : \A n \in Nat : Duration(x, n).duration = n /\ Duration(x, n).number = 0
    BY DEF Word, Duration
  <2>5. 0 \in Nat /\ 50 \in Nat /\ 70 \in Nat /\ 2 \in Nat
    OBVIOUS
  <2> DEFINE N(t) == t.duration \in Nat /\ t.number \in Nat
  <2>6. (\A x : N(Word(x)) /\ N(Option(x))) /\ (\A x, f : N(OptionEquals(x, f))) /\ \A x : \A n \in Nat : N(Duration(x, n))
    <3>1. \A x : N(Word(x)) /\ N(Option(x))
      BY <2>1, <2>2, <2>5, Zenon
    <3>2. \A x, f : N(OptionEquals(x, f))
      BY <2>3, <2>5, Zenon
    <3>3. \A x : \A n \in Nat : N(Duration(x, n))
      BY <2>4, <2>5, Zenon
    <3> QED BY <3>1, <3>2, <3>3
  <2> HIDE DEF N
  <2>7. \A t \in Composed(root) : N(t)
    BY <2>6 DEF Composed
  <2> QED BY <2>7 DEF N
<1>3. Word("").duration \in Nat /\ Word("").number \in Nat
  BY DEF Word
<1> QED BY <1>1, <1>2, <1>3, Zenon DEF Considered, Numeric

\* monitor, investigate and bundle only fill in what the operator left open,
\* for any command line of any length: an option that is given keeps its
\* value, and a command line that the long command accepts is accepted
\* (expandOperatorCommand, expandTargetOperatorCommand and the parsers of the
\* long commands in cli.go).
THEOREM ChoicesAreKept == SessionSpec => []ExpansionKeepsChoices
<1>1. AskedInv => ExpansionKeepsChoices
  <2> SUFFICES ASSUME given \in CommandLines, NoEmptyText, line # <<>>, line[1] \in ShortCommands,
                      NEW runtime \in {x \in {Resolve(line)} : x.ok},
                      NEW expanded \in {x \in {expandOperatorCommand(runtime.args, runtime.settings.root)} : x.ok},
                      NEW r \in {Parse(expanded.args)}
               PROVE  /\ r.ok => \A g \in {options \in ToSet(given.options) : ~Is(options[1], "--config")} :
                            IF Len(g) = 2 THEN r.value[g[1].option] = g[2]
                            ELSE booleanFlag(g[1], g[1].option).value = (g[1].option \in r.on)
                      /\ \A direct \in {Direct(runtime.args, runtime.settings.root)} :
                           Parse(direct).ok /\ ~hasOption(line, "--application") => r.ok
    BY Zenon DEF ExpansionKeepsChoices, AskedInv
  <2> DEFINE a == runtime.args
             root == runtime.settings.root
             T == Considered(root)
  <2>1. runtime = Resolve(line) /\ Resolve(line).ok
    OBVIOUS
  <2>2. ResolvedTo(line, runtime)
    BY <2>1, ResolvedIs, Zenon
  <2>3. extractConfigFlag(line).ok /\ a = extractConfigFlag(line).args /\ Nonempty(root)
    BY <2>2, Zenon DEF ResolvedTo
  <2> HIDE DEF a, root
  <2>4. Tokens \subseteq T /\ Composed(root) \subseteq T /\ Word("") \in T
    BY DEF Considered
  <2>5. Numeric(T)
    BY ConsideredAreNumeric, Zenon
  <2> HIDE DEF T
  <2>6. line \in Seq(Tokens)
    BY LineTyped, Zenon
  <2>7. a \in Seq(Tokens) /\ Keeps(line, a)
    BY <2>3, <2>6, ConfigKeeps, Zenon
  <2>8. a \in Seq(T)
    <3>1. Tokens \subseteq T /\ a \in Seq(Tokens)
      BY <2>4, <2>7, Zenon
    <3> QED BY <3>1
  <2>9. a # <<>> /\ a[1] = line[1]
    <3>1. \A x : IsWord(Word(x))
      BY WordIs, Zenon
    <3>2. IsWord(line[1])
      BY <3>1, Zenon DEF ShortCommands
    <3> QED BY <2>7, <3>2, Zenon DEF Keeps
  <2>10. expanded = expandOperatorCommand(a, root) /\ expanded.ok /\ r = Parse(expanded.args)
    BY DEF a, root
  <2>11. KeepsChoices(T, a, root)
    <3>1. a[1] \in ShortCommands /\ expandOperatorCommand(a, root).ok
      BY <2>9, <2>10, Zenon
    <3> QED BY <2>3, <2>4, <2>5, <2>8, <2>9, <3>1, ExpansionKeeps, Zenon
  <2>12. ASSUME r.ok, NEW g \in ToSet(given.options), ~Is(g[1], "--config") PROVE Said(g, r)
    <3>1. given.options \in Seq(Seq(Tokens))
      BY GroupsOfTheLine, Zenon
    <3>2. PICK i \in 1..Len(given.options) : g = given.options[i]
      BY <2>12, <3>1 DEF ToSet
    <3>3. Held(Tokens, g, line)
      BY <3>2, LineHeld, Zenon
    <3>4. Held(Tokens, g, a)
      BY <2>3, <2>12, <3>3, ConfigHeld, Zenon
    <3>5. Held(T, g, a)
      BY <2>4, <3>4, HeldWider, Zenon
    <3> QED BY <2>10, <2>11, <2>12, <3>5, Zenon DEF KeepsChoices
  <2>13. ASSUME Parse(Direct(a, root)).ok, ~hasOption(line, "--application") PROVE r.ok
    <3>1. ~hasOption(a, "--application")
      BY <2>3, <2>6, <2>13, ExtractedHas, Zenon
    <3> QED BY <2>10, <2>11, <2>13, <3>1, Zenon DEF KeepsChoices
  <2> QED BY <2>12, <2>13, Zenon DEF Said, a, root
<1> QED BY <1>1, AskedInvariance, PTL

=============================================================================
