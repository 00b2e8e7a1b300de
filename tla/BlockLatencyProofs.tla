-------------------------- MODULE BlockLatencyProofs --------------------------
(***************************************************************************)
(* Proofs about BlockLatency: for any number of addresses, cgroups and map *)
(* entries, the programs attribute a completion to its own request while   *)
(* the issue hook is attached, leave no stale entry of the window behind,  *)
(* and count each of their runs.                                           *)
(***************************************************************************)
EXTENDS BlockLatency, FiniteSetTheorems, TLAPS

USE BlockLatencyAssumption

\* The program at a hook runs only if the hook is attached or in doubt.
LEMMA OnlyAttachedRuns ==
  ASSUME NEW hook \in HookStates, NEW ran \in Runs(hook)
  PROVE  /\ ran \in BOOLEAN
         /\ hook = "attached" => ran
         /\ ran => hook \in {"attached", "unknown"}
BY DEF Runs, HookStates

\* An issue leaves the maps alone or is what the issue program does.
LEMMA IssueCases ==
  ASSUME Inv, NEW p \in Requests, NEW metadata \in Metadata, Issue(p, metadata)
  PROVE  \/ /\ UNCHANGED <<counters, request_starts>>
            /\ issueHook # "attached"
         \/ /\ on_block_rq_issue(p, metadata)
            /\ issueHook \in {"attached", "unknown"}
BY OnlyAttachedRuns DEF Issue, Inv, TypeOK, WindowTypeOK

\* Likewise for a completion.
LEMMA CompleteCases ==
  ASSUME Inv, NEW p \in Requests, NEW whole \in BOOLEAN, Complete(p, whole)
  PROVE  \/ /\ UNCHANGED <<counters, cgroup_stats, request_starts>>
            /\ completeHook # "attached"
            /\ mispaired' = mispaired
         \/ /\ on_block_rq_complete(p)
            /\ completeHook \in {"attached", "unknown"}
            /\ mispaired' = mispaired + Bit(p \in DOMAIN request_starts /\ ~Own(p))
<1>1. PICK ran \in Runs(completeHook) :
        /\ IF ran THEN on_block_rq_complete(p)
                  ELSE UNCHANGED <<counters, cgroup_stats, request_starts>>
        /\ mispaired' = mispaired + Bit(ran /\ p \in DOMAIN request_starts /\ ~Own(p))
  BY DEF Complete
<1>2. /\ ran \in BOOLEAN
      /\ completeHook = "attached" => ran
      /\ ran => completeHook \in {"attached", "unknown"}
  BY OnlyAttachedRuns DEF Inv, TypeOK, WindowTypeOK
<1>3. mispaired \in Nat
  BY DEF Inv, TypeOK
<1>4. CASE ran
  BY <1>1, <1>2, <1>4
<1>5. CASE ~ran
  <2>1. mispaired' = mispaired
    BY <1>1, <1>3, <1>5 DEF Bit
  <2> QED
    BY <1>1, <1>2, <1>5, <2>1
<1> QED
  BY <1>2, <1>4, <1>5

\* The requests in flight after an issue and after a completion.
LEMMA IssueInflight ==
  ASSUME Inv, NEW p \in Requests, NEW metadata \in Metadata, Issue(p, metadata)
  PROVE  /\ DOMAIN inflight' = DOMAIN inflight \cup {p}
         /\ \A q \in DOMAIN inflight \ {p} : inflight'[q] = inflight[q]
         /\ inflight'[p].metadata = metadata
         /\ p \in DOMAIN inflight =>
              inflight[p].metadata = metadata /\ inflight'[p].issued = inflight[p].issued
         /\ p \notin DOMAIN inflight => inflight'[p].issued = now'
         /\ now' = now + 1
         /\ UNCHANGED windowVars /\ armed' = armed /\ mispaired' = mispaired
BY DEF Issue

\* A request of which only a part completes stays, with its issue and owner.
LEMMA CompleteInflight ==
  ASSUME Inv, NEW p \in Requests, NEW whole \in BOOLEAN, Complete(p, whole)
  PROVE  /\ p \in DOMAIN inflight
         /\ DOMAIN inflight \ {p} \subseteq DOMAIN inflight'
         /\ DOMAIN inflight' \subseteq DOMAIN inflight
         /\ \A q \in DOMAIN inflight' :
              inflight'[q].issued = inflight[q].issued /\ inflight'[q].metadata = inflight[q].metadata
         /\ \A q \in DOMAIN inflight' :
              inflight'[q] \in [issued : 1 .. now, metadata : Metadata, observed : BOOLEAN, parts : 0 .. MaxParts]
         /\ UNCHANGED windowVars /\ now' = now /\ armed' = armed
<1>1. PICK ran \in Runs(completeHook) :
        inflight' = IF whole THEN [q \in DOMAIN inflight \ {p} |-> inflight[q]]
                    ELSE [inflight EXCEPT ![p].parts = @ + 1, ![p].observed = @ \/ ran]
  BY DEF Complete
<1>2. ran \in BOOLEAN
  BY OnlyAttachedRuns DEF Inv, TypeOK, WindowTypeOK
<1>3. /\ p \in DOMAIN inflight /\ (whole \/ inflight[p].parts < MaxParts)
      /\ UNCHANGED windowVars /\ now' = now /\ armed' = armed
  BY DEF Complete
<1>4. \A q \in DOMAIN inflight :
        inflight[q] \in [issued : 1 .. now, metadata : Metadata, observed : BOOLEAN, parts : 0 .. MaxParts]
  BY DEF Inv, TypeOK
<1>5. CASE whole
  BY <1>1, <1>3, <1>4, <1>5
<1>6. CASE ~whole
  <2>1. /\ DOMAIN inflight' = DOMAIN inflight
        /\ \A q \in DOMAIN inflight \ {p} : inflight'[q] = inflight[q]
        /\ inflight'[p] = [inflight[p] EXCEPT !.parts = @ + 1, !.observed = @ \/ ran]
    BY <1>1, <1>3, <1>6
  <2>2. /\ inflight'[p].issued = inflight[p].issued
        /\ inflight'[p].metadata = inflight[p].metadata
    BY <1>3, <1>4, <2>1
  <2>3. inflight[p].parts + 1 \in 0 .. MaxParts
    BY <1>3, <1>4, <1>6
  <2>4. (inflight[p].observed \/ ran) \in BOOLEAN
    BY <1>2, <1>3, <1>4
  <2>5. inflight'[p] \in [issued : 1 .. now, metadata : Metadata, observed : BOOLEAN, parts : 0 .. MaxParts]
    BY <1>3, <1>4, <2>1, <2>3, <2>4
  <2> QED
    BY <1>3, <1>4, <2>1, <2>2, <2>5
<1> QED
  BY <1>5, <1>6

\* What the issue program stores.
LEMMA IssueStores ==
  ASSUME NEW p \in Requests, NEW metadata \in Metadata, on_block_rq_issue(p, metadata)
  PROVE  \/ Full(p) /\ request_starts' = request_starts
         \/ /\ ~Full(p)
            /\ DOMAIN request_starts' = DOMAIN request_starts \cup {p}
            /\ \A q \in DOMAIN request_starts \ {p} : request_starts'[q] = request_starts[q]
            /\ request_starts'[p] = [timestamp |-> now', cgroup |-> metadata.cgroup,
                                     device |-> metadata.device]
BY DEF on_block_rq_issue, Store

\* What the completion program leaves.
LEMMA CompleteConsumes ==
  ASSUME NEW p \in Requests, on_block_rq_complete(p)
  PROVE  /\ DOMAIN request_starts' = DOMAIN request_starts \ {p}
         /\ \A q \in DOMAIN request_starts \ {p} : request_starts'[q] = request_starts[q]
BY DEF on_block_rq_complete, Consume

\* The values of an indicator.
LEMMA BitIsNat == \A b \in BOOLEAN : Bit(b) \in {0, 1}
BY DEF Bit

-----------------------------------------------------------------------------
(* The types.                                                              *)

\* The programs keep the types of the counters.
LEMMA IssueCounts ==
  ASSUME counters \in [Counters -> Nat], NEW p, NEW metadata, on_block_rq_issue(p, metadata)
  PROVE  /\ counters' \in [Counters -> Nat]
         /\ counters'["issue_seen"] = counters["issue_seen"] + 1
         /\ counters'["complete_seen"] = counters["complete_seen"]
         /\ counters'["duplicate_issue"] =
              counters["duplicate_issue"] + Bit(p \in DOMAIN request_starts)
         /\ counters'["lookup_miss"] = counters["lookup_miss"]
         /\ counters'["completed_latency_events"] = counters["completed_latency_events"]
         /\ counters'["map_full"] = counters["map_full"] + Bit(Full(p))
BY DEF on_block_rq_issue, Counters, Bit

LEMMA CompleteCounts ==
  ASSUME counters \in [Counters -> Nat], NEW p, on_block_rq_complete(p)
  PROVE  /\ counters' \in [Counters -> Nat]
         /\ counters'["issue_seen"] = counters["issue_seen"]
         /\ counters'["complete_seen"] = counters["complete_seen"] + 1
         /\ counters'["duplicate_issue"] = counters["duplicate_issue"]
         /\ counters'["lookup_miss"] =
              counters["lookup_miss"] + Bit(p \notin DOMAIN request_starts)
         /\ counters'["completed_latency_events"] =
              counters["completed_latency_events"] + Bit(p \in DOMAIN request_starts)
         /\ counters'["map_full"] \in {counters["map_full"], counters["map_full"] + 1}
BY DEF on_block_rq_complete, Counters, Bit

\* Every issue keeps the types.
LEMMA IssueType ==
  ASSUME Inv, NEW p \in Requests, NEW metadata \in Metadata, Issue(p, metadata)
  PROVE  TypeOK'
<1>1. now \in Nat /\ now' = now + 1 /\ now' \in 0 .. MaxIssues
  BY DEF Inv, TypeOK, Issue
<1>2. WindowTypeOK' /\ armed' \in 0 .. now' /\ mispaired' \in Nat
  <2>1. UNCHANGED windowVars /\ armed' = armed /\ mispaired' = mispaired
    BY IssueInflight
  <2> QED
    BY <1>1, <2>1 DEF Inv, TypeOK, WindowTypeOK, windowVars
<1>3. observed' \in Nat
  <2>1. PICK bit \in {0, 1} : observed' = observed + bit
    BY DEF Issue, Bit
  <2> QED
    BY <2>1 DEF Inv, TypeOK
<1>4. DOMAIN inflight' \subseteq Requests
  <2>1. DOMAIN inflight' = DOMAIN inflight \cup {p}
    BY IssueInflight
  <2> QED
    BY <2>1 DEF Inv, TypeOK
<1>5. ASSUME NEW q \in DOMAIN inflight'
      PROVE  inflight'[q] \in [issued : 1 .. now', metadata : Metadata, observed : BOOLEAN, parts : 0 .. MaxParts]
  <2>1. CASE q # p
    <3>1. q \in DOMAIN inflight \ {p} /\ inflight'[q] = inflight[q]
      BY <1>5, <2>1, IssueInflight
    <3>2. inflight[q] \in [issued : 1 .. now, metadata : Metadata, observed : BOOLEAN, parts : 0 .. MaxParts]
      BY <3>1 DEF Inv, TypeOK
    <3> QED
      BY <3>1, <3>2, <1>1
  <2>2. CASE q = p
    <3>1. PICK ran \in Runs(issueHook) :
            LET first == p \notin DOMAIN inflight
                before == ~first /\ inflight[p].observed
            IN inflight'[p] = [issued |-> IF first THEN now' ELSE inflight[p].issued,
                               metadata |-> metadata, observed |-> ran \/ before,
                               parts |-> IF first THEN 0 ELSE inflight[p].parts]
      BY IssueInflight DEF Issue
    <3>2. ran \in BOOLEAN
      BY OnlyAttachedRuns DEF Inv, TypeOK, WindowTypeOK
    <3>3. CASE p \notin DOMAIN inflight
      BY <1>1, <2>2, <3>1, <3>2, <3>3
    <3>4. CASE p \in DOMAIN inflight
      <4>1. inflight[p] \in [issued : 1 .. now, metadata : Metadata, observed : BOOLEAN, parts : 0 .. MaxParts]
        BY <3>4 DEF Inv, TypeOK
      <4>2. /\ (ran \/ inflight[p].observed) \in BOOLEAN /\ inflight[p].issued \in 1 .. now'
            /\ inflight[p].parts \in 0 .. MaxParts
        BY <1>1, <3>2, <4>1
      <4> QED
        BY <2>2, <3>1, <3>4, <4>2
    <3> QED
      BY <3>3, <3>4
  <2> QED
    BY <2>1, <2>2
<1>6. /\ counters' \in [Counters -> Nat]
      /\ DOMAIN request_starts' \subseteq Requests
      /\ \A q \in DOMAIN request_starts' : request_starts'[q] \in
           [timestamp : 1 .. now', cgroup : Cgroups \cup {NoCgroup}, device : BOOLEAN]
  <2>1. \A q \in DOMAIN request_starts : request_starts[q] \in
           [timestamp : 1 .. now', cgroup : Cgroups \cup {NoCgroup}, device : BOOLEAN]
    BY <1>1 DEF Inv, TypeOK
  <2>2. CASE UNCHANGED <<counters, request_starts>>
    BY <2>1, <2>2 DEF Inv, TypeOK
  <2>3. CASE on_block_rq_issue(p, metadata)
    <3>1. counters' \in [Counters -> Nat]
      BY <2>3, IssueCounts DEF Inv, TypeOK
    <3>2. CASE Full(p) /\ request_starts' = request_starts
      BY <2>1, <3>1, <3>2 DEF Inv, TypeOK
    <3>3. CASE /\ DOMAIN request_starts' = DOMAIN request_starts \cup {p}
               /\ \A q \in DOMAIN request_starts \ {p} :
                    request_starts'[q] = request_starts[q]
               /\ request_starts'[p] = [timestamp |-> now', cgroup |-> metadata.cgroup,
                                        device |-> metadata.device]
      <4>1. request_starts'[p] \in
              [timestamp : 1 .. now', cgroup : Cgroups \cup {NoCgroup}, device : BOOLEAN]
        BY <1>1, <3>3 DEF Metadata
      <4> QED
        BY <2>1, <3>1, <3>3, <4>1 DEF Inv, TypeOK
    <3> QED
      BY <2>3, <3>2, <3>3, IssueStores
  <2> QED
    BY <2>2, <2>3, IssueCases
<1>7. UNCHANGED <<cgroup_stats>>
  BY DEF Issue
<1> QED
  BY <1>1, <1>2, <1>3, <1>4, <1>5, <1>6, <1>7 DEF Inv, TypeOK

\* Every completion keeps the types.
LEMMA CompleteType ==
  ASSUME Inv, NEW p \in Requests, NEW whole \in BOOLEAN, Complete(p, whole)
  PROVE  TypeOK'
<1>1. /\ p \in DOMAIN inflight
      /\ DOMAIN inflight' \subseteq DOMAIN inflight
      /\ \A q \in DOMAIN inflight' :
           inflight'[q] \in [issued : 1 .. now, metadata : Metadata, observed : BOOLEAN, parts : 0 .. MaxParts]
      /\ UNCHANGED windowVars /\ now' = now /\ armed' = armed
  BY CompleteInflight
<1>2. WindowTypeOK' /\ now' \in 0 .. MaxIssues /\ armed' \in 0 .. now'
  BY <1>1 DEF Inv, TypeOK, WindowTypeOK, windowVars
<1>3. DOMAIN inflight' \subseteq Requests
  BY <1>1 DEF Inv, TypeOK
<1>4. \A q \in DOMAIN inflight' :
        inflight'[q] \in [issued : 1 .. now', metadata : Metadata, observed : BOOLEAN, parts : 0 .. MaxParts]
  BY <1>1 DEF Inv, TypeOK
<1>5. observed' \in Nat
  <2>1. PICK bit \in {0, 1} : observed' = observed + bit
    BY DEF Complete, Bit
  <2> QED
    BY <2>1 DEF Inv, TypeOK
<1>6. CASE /\ UNCHANGED <<counters, cgroup_stats, request_starts>>
           /\ mispaired' = mispaired
  <2>1. /\ DOMAIN request_starts' \subseteq Requests
        /\ \A q \in DOMAIN request_starts' : request_starts'[q] \in
             [timestamp : 1 .. now', cgroup : Cgroups \cup {NoCgroup}, device : BOOLEAN]
        /\ counters' \in [Counters -> Nat]
        /\ DOMAIN cgroup_stats' \subseteq Cgroups
        /\ \A c \in DOMAIN cgroup_stats' : cgroup_stats'[c] \in Nat
        /\ mispaired' \in Nat
    BY <1>1, <1>6 DEF Inv, TypeOK
  <2> QED
    BY <1>2, <1>3, <1>4, <1>5, <2>1 DEF TypeOK
<1>7. CASE /\ on_block_rq_complete(p)
           /\ mispaired' = mispaired + Bit(p \in DOMAIN request_starts /\ ~Own(p))
  <2>1. counters' \in [Counters -> Nat]
    BY <1>7, CompleteCounts DEF Inv, TypeOK
  <2>2. /\ DOMAIN request_starts' = DOMAIN request_starts \ {p}
        /\ \A q \in DOMAIN request_starts \ {p} : request_starts'[q] = request_starts[q]
    BY <1>7, CompleteConsumes
  <2>3. /\ DOMAIN request_starts' \subseteq Requests
        /\ \A q \in DOMAIN request_starts' : request_starts'[q] \in
             [timestamp : 1 .. now', cgroup : Cgroups \cup {NoCgroup}, device : BOOLEAN]
    BY <1>1, <2>2 DEF Inv, TypeOK
  <2>4. mispaired' \in Nat
    BY <1>7 DEF Bit, Inv, TypeOK
  <2>5. /\ DOMAIN cgroup_stats' \subseteq Cgroups
        /\ \A c \in DOMAIN cgroup_stats' : cgroup_stats'[c] \in Nat
    <3>1. /\ DOMAIN cgroup_stats \subseteq Cgroups
          /\ \A c \in DOMAIN cgroup_stats : cgroup_stats[c] \in Nat
      BY DEF Inv, TypeOK
    <3>2. CASE cgroup_stats' = cgroup_stats
      BY <3>1, <3>2
    <3>3. CASE Owned(p) /\ cgroup_stats' = Observe(request_starts[p].cgroup)
      <4> DEFINE c == request_starts[p].cgroup
      <4>1. c \in Cgroups
        BY <3>3 DEF Owned, Inv, TypeOK
      <4> HIDE DEF c
      <4>2. cgroup_stats' = [x \in DOMAIN cgroup_stats \cup {c} |->
              (IF x \in DOMAIN cgroup_stats THEN cgroup_stats[x] ELSE 0) + Bit(x = c)]
        BY <3>3 DEF Observe, c
      <4> QED
        BY <3>1, <4>1, <4>2 DEF Bit
    <3> QED
      BY <1>7, <3>2, <3>3 DEF on_block_rq_complete
  <2> QED
    BY <1>2, <1>3, <1>4, <1>5, <2>1, <2>3, <2>4, <2>5 DEF TypeOK
<1> QED
  BY <1>6, <1>7, CompleteCases

-----------------------------------------------------------------------------
(* Correlation.                                                            *)

\* An issue leaves every entry of a request in flight its own, and makes no
\* entry stale that was not.
LEMMA IssueOwn ==
  ASSUME Inv, NEW p \in Requests, NEW metadata \in Metadata, Issue(p, metadata)
  PROVE  /\ AttributionIsOwn'
         /\ StaleEntriesPredateTheWindow'
         /\ NothingStoredBefore'
<1>1. /\ DOMAIN inflight' = DOMAIN inflight \cup {p}
      /\ \A q \in DOMAIN inflight \ {p} : inflight'[q] = inflight[q]
      /\ inflight'[p].metadata = metadata
      /\ p \in DOMAIN inflight =>
           inflight[p].metadata = metadata /\ inflight'[p].issued = inflight[p].issued
      /\ p \notin DOMAIN inflight => inflight'[p].issued = now'
      /\ now' = now + 1
      /\ issueHook' = issueHook /\ completeHook' = completeHook
      /\ armed' = armed /\ mispaired' = mispaired
  BY IssueInflight DEF windowVars
<1>2. /\ now \in Nat /\ armed \in Nat
      /\ \A q \in DOMAIN inflight : inflight[q].issued \in 1 .. now
      /\ \A q \in DOMAIN request_starts : request_starts[q].timestamp \in 1 .. now
  BY DEF Inv, TypeOK
<1>3. ASSUME UNCHANGED request_starts,
             NEW q \in DOMAIN request_starts, Own(q)
      PROVE  Own(q)'
  BY <1>1, <1>3 DEF Own
<1>4. CASE /\ UNCHANGED <<counters, request_starts>>
           /\ issueHook # "attached"
  BY <1>1, <1>3, <1>4
  DEF AttributionIsOwn, StaleEntriesPredateTheWindow, NothingStoredBefore, Inv
<1>5. CASE /\ on_block_rq_issue(p, metadata)
           /\ issueHook \in {"attached", "unknown"}
  <2>1. CASE Full(p) /\ request_starts' = request_starts
    <3>1. ASSUME NEW q \in DOMAIN request_starts' \cap DOMAIN inflight', issueHook = "attached"
          PROVE  Own(q)'
      <4>1. q # p /\ q \in DOMAIN inflight /\ q \in DOMAIN request_starts
        BY <1>1, <2>1, <3>1 DEF Full
      <4>2. Own(q)
        BY <3>1, <4>1 DEF Inv, AttributionIsOwn
      <4> QED
        BY <1>3, <2>1, <4>1, <4>2
    <3>2. AttributionIsOwn'
      BY <1>1, <3>1 DEF AttributionIsOwn, Inv
    <3>3. StaleEntriesPredateTheWindow'
      BY <1>1, <1>3, <2>1 DEF StaleEntriesPredateTheWindow, Inv
    <3> QED
      BY <1>1, <1>5, <3>2, <3>3 DEF NothingStoredBefore
  <2>2. CASE /\ DOMAIN request_starts' = DOMAIN request_starts \cup {p}
             /\ \A q \in DOMAIN request_starts \ {p} : request_starts'[q] = request_starts[q]
             /\ request_starts'[p] = [timestamp |-> now', cgroup |-> metadata.cgroup,
                                      device |-> metadata.device]
    <3>1. Own(p)'
      <4>1. now' >= inflight'[p].issued
        BY <1>1, <1>2
      <4> QED
        BY <1>1, <2>2, <4>1 DEF Own
    <3>2. ASSUME NEW q \in DOMAIN request_starts \ {p}, Own(q)
          PROVE  Own(q)'
      BY <1>1, <2>2, <3>2 DEF Own
    <3>3. AttributionIsOwn'
      BY <1>1, <2>2, <3>1, <3>2 DEF AttributionIsOwn, Inv
    <3>4. StaleEntriesPredateTheWindow'
      BY <1>1, <2>2, <3>1, <3>2 DEF StaleEntriesPredateTheWindow, Inv
    <3> QED
      BY <1>1, <1>5, <3>3, <3>4 DEF NothingStoredBefore
  <2> QED
    BY <1>5, <2>1, <2>2, IssueStores
<1> QED
  BY <1>4, <1>5, IssueCases

\* A completion consumes an entry or is not seen.
LEMMA CompleteOwn ==
  ASSUME Inv, NEW p \in Requests, NEW whole \in BOOLEAN, Complete(p, whole)
  PROVE  /\ AttributionIsOwn'
         /\ StaleEntriesPredateTheWindow'
         /\ NothingStoredBefore'
<1>1. /\ p \in DOMAIN inflight
      /\ DOMAIN inflight \ {p} \subseteq DOMAIN inflight'
      /\ DOMAIN inflight' \subseteq DOMAIN inflight
      /\ \A q \in DOMAIN inflight' :
           inflight'[q].issued = inflight[q].issued /\ inflight'[q].metadata = inflight[q].metadata
      /\ issueHook' = issueHook /\ completeHook' = completeHook
      /\ now' = now /\ armed' = armed
  BY CompleteInflight DEF windowVars
<1>2. CASE /\ UNCHANGED <<counters, cgroup_stats, request_starts>>
           /\ completeHook # "attached"
           /\ mispaired' = mispaired
  <2>1. ASSUME NEW q \in DOMAIN request_starts \cap DOMAIN inflight', Own(q)
        PROVE  Own(q)'
    BY <1>1, <1>2, <2>1 DEF Own
  <2> QED
    BY <1>1, <1>2, <2>1
    DEF AttributionIsOwn, StaleEntriesPredateTheWindow, NothingStoredBefore, Inv
<1>3. CASE /\ on_block_rq_complete(p)
           /\ mispaired' = mispaired + Bit(p \in DOMAIN request_starts /\ ~Own(p))
  <2>1. /\ DOMAIN request_starts' = DOMAIN request_starts \ {p}
        /\ \A q \in DOMAIN request_starts \ {p} : request_starts'[q] = request_starts[q]
    BY <1>3, CompleteConsumes
  <2>2. ASSUME NEW q \in DOMAIN request_starts', Own(q)
        PROVE  Own(q)'
    BY <1>1, <2>1, <2>2 DEF Own
  <2>3. issueHook = "attached" => mispaired' = mispaired
    BY <1>1, <1>3 DEF Bit, Inv, AttributionIsOwn, TypeOK
  <2>4. AttributionIsOwn'
    BY <1>1, <2>1, <2>2, <2>3 DEF AttributionIsOwn, Inv
  <2>5. StaleEntriesPredateTheWindow'
    BY <1>1, <2>1, <2>2 DEF StaleEntriesPredateTheWindow, Inv
  <2>6. NothingStoredBefore'
    <3>1. ASSUME issueHook = "unattached"
          PROVE  mispaired = 0 /\ DOMAIN request_starts = {}
      BY <3>1 DEF NothingStoredBefore, Inv
    <3>2. ASSUME issueHook = "unattached"
          PROVE  mispaired' = 0
      BY <1>3, <3>1, <3>2 DEF Bit
    <3> QED
      BY <1>1, <2>1, <3>1, <3>2 DEF NothingStoredBefore
  <2> QED
    BY <2>4, <2>5, <2>6
<1> QED
  BY <1>2, <1>3, CompleteCases

-----------------------------------------------------------------------------
(* Accounting.                                                             *)

\* A finite set grows and shrinks by one element at a time.
LEMMA OneElement ==
  ASSUME NEW S, IsFiniteSet(S), NEW p
  PROVE  /\ Cardinality(S) \in Nat
         /\ Cardinality(S \cup {p}) = Cardinality(S) + Bit(p \notin S)
         /\ Cardinality(S \ {p}) = Cardinality(S) - Bit(p \in S)
<1>1. Cardinality(S) \in Nat
  BY FS_CardinalityType
<1>2. Cardinality(S \cup {p}) = IF p \in S THEN Cardinality(S) ELSE Cardinality(S) + 1
  BY FS_AddElement
<1>3. Cardinality(S \ {p}) = IF p \in S THEN Cardinality(S) - 1 ELSE Cardinality(S)
  BY FS_RemoveElement
<1> QED
  BY <1>1, <1>2, <1>3 DEF Bit

\* The map of starts is finite, and changes by one entry at a time.
LEMMA StartsAreFinite ==
  ASSUME TypeOK
  PROVE  /\ IsFiniteSet(DOMAIN request_starts)
         /\ Cardinality(DOMAIN request_starts) \in Nat
         /\ \A p : Cardinality(DOMAIN request_starts \cup {p}) =
                    Cardinality(DOMAIN request_starts) + Bit(p \notin DOMAIN request_starts)
         /\ \A p : Cardinality(DOMAIN request_starts \ {p}) =
                    Cardinality(DOMAIN request_starts) - Bit(p \in DOMAIN request_starts)
<1>1. IsFiniteSet(DOMAIN request_starts)
  BY FS_Subset DEF TypeOK
<1> QED
  BY <1>1, OneElement

\* An issue is counted as seen, and kept, overwritten or lost to a full map.
LEMMA IssueBalance ==
  ASSUME Inv, NEW p \in Requests, NEW metadata \in Metadata, Issue(p, metadata)
  PROVE  ProgramRunsBalance'
<1>1. CASE UNCHANGED <<counters, request_starts>>
  BY <1>1 DEF ProgramRunsBalance, Inv
<1>2. CASE on_block_rq_issue(p, metadata)
  <2>1. TypeOK /\ counters \in [Counters -> Nat] /\ ProgramRunsBalance
    BY DEF Inv, TypeOK
  <2>2. /\ counters'["issue_seen"] = counters["issue_seen"] + 1
        /\ counters'["complete_seen"] = counters["complete_seen"]
        /\ counters'["duplicate_issue"] =
             counters["duplicate_issue"] + Bit(p \in DOMAIN request_starts)
        /\ counters'["lookup_miss"] = counters["lookup_miss"]
        /\ counters'["completed_latency_events"] = counters["completed_latency_events"]
        /\ counters'["map_full"] = counters["map_full"] + Bit(Full(p))
    BY <1>2, <2>1, IssueCounts
  <2>3. \A k \in Counters : counters[k] \in Nat
    BY <2>1
  <2>4. CASE Full(p) /\ request_starts' = request_starts
    <3>1. Bit(p \in DOMAIN request_starts) = 0 /\ Bit(Full(p)) = 1
      BY <2>4 DEF Bit, Full
    <3>2. /\ Cardinality(DOMAIN request_starts') = Cardinality(DOMAIN request_starts)
          /\ Cardinality(DOMAIN request_starts) \in Nat
      BY <2>1, <2>4, StartsAreFinite
    <3> QED
      BY <2>1, <2>2, <2>3, <3>1, <3>2 DEF ProgramRunsBalance, Counters
  <2>5. CASE ~Full(p) /\ DOMAIN request_starts' = DOMAIN request_starts \cup {p}
    <3>1. /\ Bit(Full(p)) = 0
          /\ Bit(p \in DOMAIN request_starts) + Bit(p \notin DOMAIN request_starts) = 1
          /\ Bit(p \in DOMAIN request_starts) \in Nat
          /\ Bit(p \notin DOMAIN request_starts) \in Nat
      BY <2>5 DEF Bit
    <3>2. Cardinality(DOMAIN request_starts') =
            Cardinality(DOMAIN request_starts) + Bit(p \notin DOMAIN request_starts)
      BY <2>1, <2>5, StartsAreFinite
    <3>3. Cardinality(DOMAIN request_starts) \in Nat
      BY <2>1, StartsAreFinite
    <3> QED
      BY <2>1, <2>2, <2>3, <3>1, <3>2, <3>3 DEF ProgramRunsBalance, Counters
  <2> QED
    BY <1>2, <2>4, <2>5, IssueStores
<1> QED
  BY <1>1, <1>2, IssueCases

\* A completion consumes what it counts.
LEMMA CompleteBalance ==
  ASSUME Inv, NEW p \in Requests, NEW whole \in BOOLEAN, Complete(p, whole)
  PROVE  ProgramRunsBalance'
<1>1. CASE UNCHANGED <<counters, cgroup_stats, request_starts>>
  BY <1>1 DEF ProgramRunsBalance, Inv
<1>2. CASE on_block_rq_complete(p)
  <2>1. TypeOK /\ counters \in [Counters -> Nat] /\ ProgramRunsBalance
    BY DEF Inv, TypeOK
  <2>2. /\ counters'["issue_seen"] = counters["issue_seen"]
        /\ counters'["complete_seen"] = counters["complete_seen"] + 1
        /\ counters'["duplicate_issue"] = counters["duplicate_issue"]
        /\ counters'["lookup_miss"] =
             counters["lookup_miss"] + Bit(p \notin DOMAIN request_starts)
        /\ counters'["completed_latency_events"] =
             counters["completed_latency_events"] + Bit(p \in DOMAIN request_starts)
        /\ counters'["map_full"] \in {counters["map_full"], counters["map_full"] + 1}
    BY <1>2, <2>1, CompleteCounts
  <2>3. \A k \in Counters : counters[k] \in Nat
    BY <2>1
  <2>4. /\ Bit(p \in DOMAIN request_starts) + Bit(p \notin DOMAIN request_starts) = 1
        /\ Bit(p \in DOMAIN request_starts) \in Nat
        /\ Bit(p \notin DOMAIN request_starts) \in Nat
    BY DEF Bit
  <2>5. Cardinality(DOMAIN request_starts') =
          Cardinality(DOMAIN request_starts) - Bit(p \in DOMAIN request_starts)
    BY <1>2, <2>1, StartsAreFinite, CompleteConsumes
  <2>6. Cardinality(DOMAIN request_starts) \in Nat
    BY <2>1, StartsAreFinite
  <2> QED
    BY <2>1, <2>2, <2>3, <2>4, <2>5, <2>6 DEF ProgramRunsBalance, Counters
<1> QED
  BY <1>1, <1>2, CompleteCases

-----------------------------------------------------------------------------
(* The account of the report.                                              *)

\* Counts of the same operations number the same pairs.
LEMMA SameOperations ==
  ASSUME NEW f, NEW g, NEW S, \A c \in S : g[c] = f[c]
  PROVE  Numbered(g, S) = Numbered(f, S)
BY DEF Numbered

\* One more operation of a cgroup is one more pair.
LEMMA OneMoreOperation ==
  ASSUME NEW f, NEW g, NEW S, NEW c,
         \A x \in S : f[x] \in Nat,
         \A x \in S \ {c} : g[x] = f[x],
         g[c] = (IF c \in S THEN f[c] ELSE 0) + 1,
         IsFiniteSet(Numbered(f, S))
  PROVE  /\ IsFiniteSet(Numbered(g, S \cup {c}))
         /\ Cardinality(Numbered(g, S \cup {c})) = Cardinality(Numbered(f, S)) + 1
<1> DEFINE n == IF c \in S THEN f[c] ELSE 0
<1>1. n \in Nat /\ g[c] = n + 1
  OBVIOUS
<1>2. 1 .. (n + 1) = (1 .. n) \cup {n + 1}
  BY <1>1
<1>3. <<c, n + 1>> \notin Numbered(f, S)
  <2> SUFFICES ASSUME NEW x \in S, <<c, n + 1>> \in {x} \X (1 .. f[x]) PROVE FALSE
    BY DEF Numbered
  <2>1. x = c /\ n + 1 \in 1 .. f[c] /\ n = f[c]
    OBVIOUS
  <2> QED
    BY <1>1, <2>1
<1>4. ASSUME NEW pair
      PROVE  pair \in Numbered(g, S \cup {c}) <=> pair \in Numbered(f, S) \cup {<<c, n + 1>>}
  <2>1. pair \in Numbered(g, S \cup {c}) <=>
          (\E x \in S \ {c} : pair \in {x} \X (1 .. f[x])) \/ pair \in {c} \X ((1 .. n) \cup {n + 1})
    <3>1. pair \in Numbered(g, S \cup {c}) <=> \E x \in S \cup {c} : pair \in {x} \X (1 .. g[x])
      BY DEF Numbered
    <3>2. (\E x \in S \cup {c} : pair \in {x} \X (1 .. g[x])) <=>
            (\E x \in S \ {c} : pair \in {x} \X (1 .. g[x])) \/ pair \in {c} \X (1 .. g[c])
      BY Zenon
    <3>3. \A x \in S \ {c} : {x} \X (1 .. g[x]) = {x} \X (1 .. f[x])
      OBVIOUS
    <3>4. {c} \X (1 .. g[c]) = {c} \X ((1 .. n) \cup {n + 1})
      BY <1>1, <1>2
    <3> QED
      BY <3>1, <3>2, <3>3, <3>4, Zenon
  <2>2. pair \in {c} \X ((1 .. n) \cup {n + 1}) <=> pair \in {c} \X (1 .. n) \/ pair = <<c, n + 1>>
    OBVIOUS
  <2>3. pair \in Numbered(f, S) <=> \E x \in S : pair \in {x} \X (1 .. f[x])
    BY DEF Numbered
  <2>4. CASE c \in S
    <3>1. n = f[c]
      BY <2>4
    <3>2. (\E x \in S : pair \in {x} \X (1 .. f[x])) <=>
            (\E x \in S \ {c} : pair \in {x} \X (1 .. f[x])) \/ pair \in {c} \X (1 .. n)
      BY <2>4, <3>1, Zenon
    <3> QED
      BY <2>1, <2>2, <2>3, <3>2
  <2>5. CASE c \notin S
    <3>1. 1 .. n = {} /\ S \ {c} = S
      BY <2>5
    <3>2. pair \notin {c} \X (1 .. n)
      BY <3>1
    <3> QED
      BY <2>1, <2>2, <2>3, <3>1, <3>2
  <2> QED
    BY <2>4, <2>5
<1>5. Numbered(g, S \cup {c}) = Numbered(f, S) \cup {<<c, n + 1>>}
  BY <1>4
<1> DEFINE added == <<c, n + 1>>
<1>6. added \notin Numbered(f, S) /\ Numbered(g, S \cup {c}) = Numbered(f, S) \cup {added}
  BY <1>3, <1>5
<1> HIDE DEF added
<1>7. /\ IsFiniteSet(Numbered(f, S) \cup {added})
      /\ Cardinality(Numbered(f, S) \cup {added}) =
           IF added \in Numbered(f, S) THEN Cardinality(Numbered(f, S)) ELSE Cardinality(Numbered(f, S)) + 1
  BY FS_AddElement
<1> QED
  BY <1>6, <1>7

\* An issue that runs the program observes its request.
LEMMA IssueObserves ==
  ASSUME Inv, NEW p \in Requests, NEW metadata \in Metadata, Issue(p, metadata)
  PROVE  /\ cgroup_stats' = cgroup_stats
         /\ \/ /\ UNCHANGED <<counters, request_starts>>
               /\ observed' = observed
               /\ p \in DOMAIN inflight => inflight'[p].observed = inflight[p].observed
            \/ /\ on_block_rq_issue(p, metadata)
               /\ observed' \in {observed, observed + 1}
               /\ inflight'[p].observed
<1>1. PICK ran \in Runs(issueHook) :
        /\ IF ran THEN on_block_rq_issue(p, metadata)
                  ELSE UNCHANGED <<counters, request_starts>>
        /\ LET first == p \notin DOMAIN inflight
               before == ~first /\ inflight[p].observed
           IN
           /\ observed' = observed + Bit(ran /\ ~before)
           /\ inflight'[p] = [issued |-> IF first THEN now' ELSE inflight[p].issued,
                              metadata |-> metadata, observed |-> ran \/ before,
                              parts |-> IF first THEN 0 ELSE inflight[p].parts]
  BY IssueInflight DEF Issue
<1>2. ran \in BOOLEAN /\ observed \in Nat /\ cgroup_stats' = cgroup_stats
  BY OnlyAttachedRuns DEF Inv, TypeOK, WindowTypeOK, Issue
<1>3. p \in DOMAIN inflight => inflight[p].observed \in BOOLEAN
  BY DEF Inv, TypeOK
<1>4. CASE ran
  <2>1. observed' \in {observed, observed + 1}
    BY <1>1, <1>2, <1>4 DEF Bit
  <2>2. inflight'[p].observed = (ran \/ (p \in DOMAIN inflight /\ inflight[p].observed))
    BY <1>1
  <2>3. inflight'[p].observed
    BY <1>4, <2>2, Zenon
  <2> QED
    BY <1>1, <1>2, <1>4, <2>1, <2>3
<1>5. CASE ~ran
  <2>1. observed' = observed
    BY <1>1, <1>2, <1>5 DEF Bit
  <2>2. p \in DOMAIN inflight => inflight'[p].observed = inflight[p].observed
    BY <1>1, <1>3, <1>5
  <2> QED
    BY <1>1, <1>2, <1>5, <2>1, <2>2
<1> QED
  BY <1>2, <1>4, <1>5

\* A completion that runs the program observes the request, too.
LEMMA CompleteObserves ==
  ASSUME Inv, NEW p \in Requests, NEW whole \in BOOLEAN, Complete(p, whole)
  PROVE  \/ /\ UNCHANGED <<counters, cgroup_stats, request_starts, observed, mispaired>>
            /\ \A q \in DOMAIN inflight' : inflight'[q].observed = inflight[q].observed
         \/ /\ on_block_rq_complete(p)
            /\ observed' = observed + Bit(~inflight[p].observed)
            /\ mispaired' = mispaired + Bit(p \in DOMAIN request_starts /\ ~Own(p))
            /\ \A q \in DOMAIN inflight' \ {p} : inflight'[q].observed = inflight[q].observed
<1>1. PICK ran \in Runs(completeHook) :
        /\ IF ran THEN on_block_rq_complete(p)
                  ELSE UNCHANGED <<counters, cgroup_stats, request_starts>>
        /\ observed' = observed + Bit(ran /\ ~inflight[p].observed)
        /\ mispaired' = mispaired + Bit(ran /\ p \in DOMAIN request_starts /\ ~Own(p))
        /\ inflight' = IF whole THEN [q \in DOMAIN inflight \ {p} |-> inflight[q]]
                       ELSE [inflight EXCEPT ![p].parts = @ + 1, ![p].observed = @ \/ ran]
  BY DEF Complete
<1>2. ran \in BOOLEAN /\ observed \in Nat /\ mispaired \in Nat
  BY OnlyAttachedRuns DEF Inv, TypeOK, WindowTypeOK
<1>3. p \in DOMAIN inflight /\ inflight[p].observed \in BOOLEAN
  BY DEF Complete, Inv, TypeOK
<1>4. \A q \in DOMAIN inflight' \ {p} : inflight'[q] = inflight[q]
  BY <1>1
<1>5. ASSUME ~whole
      PROVE  inflight'[p].observed = (inflight[p].observed \/ ran)
  <2>1. inflight[p] \in [issued : 1 .. now, metadata : Metadata, observed : BOOLEAN, parts : 0 .. MaxParts]
    BY <1>3 DEF Inv, TypeOK
  <2>2. inflight'[p] = [inflight[p] EXCEPT !.parts = @ + 1, !.observed = @ \/ ran]
    BY <1>1, <1>3, <1>5
  <2> QED
    BY <2>1, <2>2
<1>6. whole => p \notin DOMAIN inflight'
  BY <1>1
<1>7. CASE ran
  BY <1>1, <1>4, <1>7
<1>8. CASE ~ran
  <2>1. observed' = observed /\ mispaired' = mispaired
    BY <1>1, <1>2, <1>8 DEF Bit
  <2>2. \A q \in DOMAIN inflight' : inflight'[q].observed = inflight[q].observed
    BY <1>3, <1>4, <1>5, <1>6, <1>8
  <2> QED
    BY <1>1, <1>8, <2>1, <2>2
<1> QED
  BY <1>2, <1>7, <1>8

\* The other counters of a run.
LEMMA IssueLosses ==
  ASSUME counters \in [Counters -> Nat], NEW p, NEW metadata, on_block_rq_issue(p, metadata)
  PROVE  /\ counters'["missing_blkcg"] = counters["missing_blkcg"] + Bit(Unowned(metadata))
         /\ counters'["device_unavailable"] = counters["device_unavailable"] + Bit(~metadata.device)
BY DEF on_block_rq_issue, Counters, Bit

LEMMA CompleteLosses ==
  ASSUME counters \in [Counters -> Nat], NEW p, on_block_rq_complete(p)
  PROVE  /\ counters'["missing_blkcg"] = counters["missing_blkcg"]
         /\ counters'["device_unavailable"] = counters["device_unavailable"]
         /\ counters'["map_full"] =
              counters["map_full"] + Bit(Owned(p) /\ ~(Owned(p) /\ HasRoom(request_starts[p].cgroup)))
BY DEF on_block_rq_complete, Counters, Bit

\* An issue keeps ObservedAreCounted: what it observes is stored, or replaces an
\* entry, or meets a full map.
LEMMA IssueIsCounted ==
  ASSUME Inv, ObservedAreCounted, NEW p \in Requests, NEW metadata \in Metadata, Issue(p, metadata)
  PROVE  ObservedAreCounted'
<1>1. /\ DOMAIN inflight' = DOMAIN inflight \cup {p}
      /\ \A q \in DOMAIN inflight \ {p} : inflight'[q] = inflight[q]
      /\ p \in DOMAIN inflight => inflight'[p].issued = inflight[p].issued /\ inflight[p].metadata = inflight'[p].metadata
      /\ p \notin DOMAIN inflight => inflight'[p].issued = now'
      /\ now' = now + 1 /\ mispaired' = mispaired
  BY IssueInflight
<1>2. /\ TypeOK /\ now \in Nat /\ counters \in [Counters -> Nat] /\ observed \in Nat /\ mispaired \in Nat
      /\ \A q \in DOMAIN request_starts : request_starts[q].timestamp \in 1 .. now
  BY DEF Inv, TypeOK
<1>3. \A k \in Counters : counters[k] \in Nat
  BY <1>2
<1>4. CASE /\ UNCHANGED <<counters, request_starts>>
           /\ observed' = observed
           /\ p \in DOMAIN inflight => inflight'[p].observed = inflight[p].observed
  <2>1. ASSUME NEW q \in DOMAIN request_starts \cap DOMAIN inflight', Own(q)'
        PROVE  inflight'[q].observed
    <3>1. CASE q \in DOMAIN inflight
      <4>1. Own(q) /\ inflight'[q].observed = inflight[q].observed
        BY <1>1, <1>4, <2>1, <3>1 DEF Own
      <4> QED
        BY <2>1, <3>1, <4>1 DEF ObservedAreCounted
    <3>2. CASE q \notin DOMAIN inflight
      <4>1. q = p /\ request_starts'[q].timestamp >= now + 1 /\ request_starts'[q] = request_starts[q]
        BY <1>1, <1>4, <2>1, <3>2 DEF Own
      <4>2. request_starts[q].timestamp \in 1 .. now
        BY <1>2, <2>1
      <4> QED
        BY <1>2, <4>1, <4>2
    <3> QED
      BY <3>1, <3>2
  <2> QED
    BY <1>1, <1>4, <2>1 DEF ObservedAreCounted
<1>5. CASE /\ on_block_rq_issue(p, metadata)
           /\ observed' \in {observed, observed + 1}
           /\ inflight'[p].observed
  <2>1. /\ counters'["duplicate_issue"] = counters["duplicate_issue"] + Bit(p \in DOMAIN request_starts)
        /\ counters'["lookup_miss"] = counters["lookup_miss"]
        /\ counters'["completed_latency_events"] = counters["completed_latency_events"]
        /\ counters'["map_full"] = counters["map_full"] + Bit(Full(p))
    BY <1>2, <1>5, IssueCounts
  <2>2. /\ DOMAIN request_starts' \ {p} \subseteq DOMAIN request_starts
        /\ \A q \in DOMAIN request_starts' \ {p} : request_starts'[q] = request_starts[q]
    BY <1>5, IssueStores
  <2>3. Bit(p \in DOMAIN request_starts) + Bit(Full(p)) + Cardinality(DOMAIN request_starts') =
          Cardinality(DOMAIN request_starts) + 1
    <3>1. CASE Full(p) /\ request_starts' = request_starts
      <4>1. Bit(p \in DOMAIN request_starts) = 0 /\ Bit(Full(p)) = 1
        BY <3>1 DEF Bit, Full
      <4>2. Cardinality(DOMAIN request_starts') = Cardinality(DOMAIN request_starts)
        BY <3>1
      <4> QED
        BY <1>2, <4>1, <4>2, StartsAreFinite
    <3>2. CASE ~Full(p) /\ DOMAIN request_starts' = DOMAIN request_starts \cup {p}
      <4>1. Bit(Full(p)) = 0
        BY <3>2 DEF Bit
      <4>2. /\ Bit(p \in DOMAIN request_starts) + Bit(p \notin DOMAIN request_starts) = 1
            /\ Bit(p \in DOMAIN request_starts) \in Nat /\ Bit(p \notin DOMAIN request_starts) \in Nat
        BY DEF Bit
      <4>3. /\ Cardinality(DOMAIN request_starts') =
                 Cardinality(DOMAIN request_starts) + Bit(p \notin DOMAIN request_starts)
            /\ Cardinality(DOMAIN request_starts) \in Nat
        BY <1>2, <3>2, StartsAreFinite
      <4> QED
        BY <4>1, <4>2, <4>3
    <3> QED
      BY <1>5, <3>1, <3>2, IssueStores
  <2>4. Bit(p \in DOMAIN request_starts) \in Nat /\ Bit(Full(p)) \in Nat
    BY DEF Bit
  <2>5. Cardinality(DOMAIN request_starts) \in Nat /\ Cardinality(DOMAIN request_starts') \in Nat
    <3>1. Cardinality(DOMAIN request_starts) \in Nat
      BY <1>2, StartsAreFinite
    <3>2. DOMAIN request_starts' \subseteq Requests
      BY IssueType DEF TypeOK
    <3>3. Cardinality(DOMAIN request_starts') \in Nat
      BY <3>2, FS_Subset, FS_CardinalityType
    <3> QED
      BY <3>1, <3>3
  <2>6. ASSUME NEW q \in DOMAIN request_starts' \cap DOMAIN inflight', Own(q)'
        PROVE  inflight'[q].observed
    <3>1. CASE q = p
      BY <1>5, <3>1
    <3>2. CASE q # p
      <4>1. q \in DOMAIN request_starts \cap DOMAIN inflight /\ Own(q) /\ inflight'[q] = inflight[q]
        BY <1>1, <2>2, <2>6, <3>2 DEF Own
      <4> QED
        BY <4>1 DEF ObservedAreCounted
    <3> QED
      BY <3>1, <3>2
  <2> QED
    BY <1>1, <1>2, <1>3, <1>5, <2>1, <2>3, <2>4, <2>5, <2>6 DEF ObservedAreCounted, Counters
<1> QED
  BY <1>4, <1>5, IssueObserves

\* A completion keeps it: the entry it consumes is counted as an operation, and
\* one that was not observed is a miss or takes the entry of another.
LEMMA CompleteIsCounted ==
  ASSUME Inv, ObservedAreCounted, NEW p \in Requests, NEW whole \in BOOLEAN, Complete(p, whole)
  PROVE  ObservedAreCounted'
<1>1. /\ p \in DOMAIN inflight
      /\ DOMAIN inflight' \subseteq DOMAIN inflight
      /\ \A q \in DOMAIN inflight' :
           inflight'[q].issued = inflight[q].issued /\ inflight'[q].metadata = inflight[q].metadata
  BY CompleteInflight
<1>2. /\ TypeOK /\ counters \in [Counters -> Nat] /\ observed \in Nat /\ mispaired \in Nat
      /\ inflight[p].observed \in BOOLEAN
  BY <1>1 DEF Inv, TypeOK
<1>3. \A k \in Counters : counters[k] \in Nat
  BY <1>2
<1>4. CASE /\ UNCHANGED <<counters, cgroup_stats, request_starts, observed, mispaired>>
           /\ \A q \in DOMAIN inflight' : inflight'[q].observed = inflight[q].observed
  <2>1. ASSUME NEW q \in DOMAIN request_starts \cap DOMAIN inflight', Own(q)'
        PROVE  inflight'[q].observed
    <3>1. Own(q)
      BY <1>1, <1>4, <2>1 DEF Own
    <3> QED
      BY <1>1, <1>4, <2>1, <3>1 DEF ObservedAreCounted
  <2> QED
    BY <1>4, <2>1 DEF ObservedAreCounted
<1>5. CASE /\ on_block_rq_complete(p)
           /\ observed' = observed + Bit(~inflight[p].observed)
           /\ mispaired' = mispaired + Bit(p \in DOMAIN request_starts /\ ~Own(p))
           /\ \A q \in DOMAIN inflight' \ {p} : inflight'[q].observed = inflight[q].observed
  <2>1. /\ counters'["duplicate_issue"] = counters["duplicate_issue"]
        /\ counters'["lookup_miss"] = counters["lookup_miss"] + Bit(p \notin DOMAIN request_starts)
        /\ counters'["completed_latency_events"] =
             counters["completed_latency_events"] + Bit(p \in DOMAIN request_starts)
        /\ counters'["map_full"] \in {counters["map_full"], counters["map_full"] + 1}
    BY <1>2, <1>5, CompleteCounts
  <2>2. /\ DOMAIN request_starts' = DOMAIN request_starts \ {p}
        /\ \A q \in DOMAIN request_starts \ {p} : request_starts'[q] = request_starts[q]
    BY <1>5, CompleteConsumes
  <2>3. /\ Cardinality(DOMAIN request_starts') =
             Cardinality(DOMAIN request_starts) - Bit(p \in DOMAIN request_starts)
        /\ Cardinality(DOMAIN request_starts) \in Nat
    BY <1>2, <2>2, StartsAreFinite
  <2>4. Bit(~inflight[p].observed) <=
          Bit(p \notin DOMAIN request_starts) + Bit(p \in DOMAIN request_starts /\ ~Own(p))
    <3>1. p \in DOMAIN request_starts /\ Own(p) => inflight[p].observed
      BY <1>1 DEF ObservedAreCounted
    <3> QED
      BY <3>1 DEF Bit
  <2>5. /\ Bit(~inflight[p].observed) \in Nat /\ Bit(p \notin DOMAIN request_starts) \in Nat
        /\ Bit(p \in DOMAIN request_starts) \in Nat /\ Bit(p \in DOMAIN request_starts /\ ~Own(p)) \in Nat
    BY DEF Bit
  <2>6. ASSUME NEW q \in DOMAIN request_starts' \cap DOMAIN inflight', Own(q)'
        PROVE  inflight'[q].observed
    <3>1. q # p /\ q \in DOMAIN request_starts \cap DOMAIN inflight /\ Own(q)
      BY <1>1, <2>2, <2>6 DEF Own
    <3> QED
      BY <1>5, <2>6, <3>1 DEF ObservedAreCounted
  <2> QED
    BY <1>2, <1>3, <1>5, <2>1, <2>3, <2>4, <2>5, <2>6 DEF ObservedAreCounted, Counters
<1> QED
  BY <1>4, <1>5, CompleteObserves

\* The entries that will have no aggregate.
LEMMA UnownableIsFinite ==
  ASSUME TypeOK
  PROVE  IsFiniteSet(Unownable) /\ Cardinality(Unownable) \in Nat
<1>1. IsFiniteSet(Unownable)
  BY StartsAreFinite, FS_Subset DEF Unownable
<1> QED
  BY <1>1, FS_CardinalityType

\* An issue stores an unownable entry only with its counter.
LEMMA IssueKeepsOperations ==
  ASSUME Inv, OperationsAreCounted, NEW p \in Requests, NEW metadata \in Metadata, Issue(p, metadata)
  PROVE  OperationsAreCounted'
<1>1. /\ TypeOK /\ counters \in [Counters -> Nat]
      /\ cgroup_stats' = cgroup_stats
      /\ MappedOperations' = MappedOperations /\ UnmappedOperations' = UnmappedOperations
  BY IssueObserves DEF Inv, TypeOK, MappedOperations, UnmappedOperations
<1>2. CASE UNCHANGED <<counters, request_starts>>
  <2>1. Unownable' = Unownable
    BY <1>2 DEF Unownable, Owned
  <2> QED
    BY <1>1, <1>2, <2>1 DEF OperationsAreCounted
<1>3. CASE on_block_rq_issue(p, metadata)
  <2>1. /\ counters'["completed_latency_events"] = counters["completed_latency_events"]
        /\ counters'["map_full"] = counters["map_full"] + Bit(Full(p))
        /\ counters'["missing_blkcg"] = counters["missing_blkcg"] + Bit(Unowned(metadata))
        /\ counters'["device_unavailable"] = counters["device_unavailable"] + Bit(~metadata.device)
    BY <1>1, <1>3, IssueCounts, IssueLosses
  <2>2. /\ Bit(Full(p)) \in Nat /\ Bit(Unowned(metadata)) \in Nat /\ Bit(~metadata.device) \in Nat
        /\ Bit(Unowned(metadata) \/ ~metadata.device) \in Nat
        /\ Bit(Unowned(metadata) \/ ~metadata.device) <= Bit(Unowned(metadata)) + Bit(~metadata.device)
    BY DEF Bit, Metadata
  <2>3. /\ IsFiniteSet(Unownable) /\ Cardinality(Unownable) \in Nat
        /\ Cardinality(Unownable \cup {p}) = Cardinality(Unownable) + Bit(p \notin Unownable)
        /\ Cardinality(Unownable \ {p}) = Cardinality(Unownable) - Bit(p \in Unownable)
    BY <1>1, UnownableIsFinite, OneElement
  <2>4. Cardinality(Unownable') \in Nat
    <3>1. Unownable' \subseteq Requests
      BY IssueType DEF TypeOK, Unownable
    <3> QED
      BY <3>1, FS_Subset, FS_CardinalityType
  <2>5. Cardinality(Unownable') <= Cardinality(Unownable) + Bit(Unowned(metadata) \/ ~metadata.device)
    <3>1. CASE request_starts' = request_starts
      <4>1. Unownable' = Unownable
        BY <3>1 DEF Unownable, Owned
      <4> QED
        BY <2>2, <2>3, <4>1
    <3>2. CASE /\ DOMAIN request_starts' = DOMAIN request_starts \cup {p}
               /\ \A q \in DOMAIN request_starts \ {p} : request_starts'[q] = request_starts[q]
               /\ request_starts'[p] = [timestamp |-> now', cgroup |-> metadata.cgroup, device |-> metadata.device]
      <4>1. Owned(p)' <=> ~(Unowned(metadata) \/ ~metadata.device)
        BY <3>2 DEF Owned, Unowned
      <4>2. CASE Unowned(metadata) \/ ~metadata.device
        <5>1. Unownable' = Unownable \cup {p}
          BY <3>2, <4>1, <4>2 DEF Unownable, Owned
        <5>2. Bit(Unowned(metadata) \/ ~metadata.device) = 1 /\ Bit(p \notin Unownable) \in {0, 1}
          BY <4>2 DEF Bit
        <5> QED
          BY <2>3, <5>1, <5>2
      <4>3. CASE ~(Unowned(metadata) \/ ~metadata.device)
        <5>1. Unownable' = Unownable \ {p}
          BY <3>2, <4>1, <4>3 DEF Unownable, Owned
        <5>2. Bit(p \in Unownable) \in {0, 1}
          BY DEF Bit
        <5> QED
          BY <2>2, <2>3, <5>1, <5>2
      <4> QED
        BY <4>2, <4>3
    <3> QED
      BY <1>3, <3>1, <3>2, IssueStores
  <2>6. Cardinality(MappedOperations) \in Nat /\ Cardinality(UnmappedOperations) \in Nat
    BY FS_CardinalityType DEF OperationsAreCounted
  <2>7. \A k \in Counters : counters[k] \in Nat
    BY <1>1
  <2> QED
    BY <1>1, <2>1, <2>2, <2>3, <2>4, <2>5, <2>6, <2>7 DEF OperationsAreCounted, Counters
<1> QED
  BY <1>2, <1>3, IssueObserves

\* An aggregate takes an operation, of a VM or not.
LEMMA ObserveAddsOne ==
  ASSUME TypeOK, OperationsAreCounted, NEW c \in Cgroups, cgroup_stats' = Observe(c)
  PROVE  /\ IsFiniteSet(MappedOperations') /\ IsFiniteSet(UnmappedOperations')
         /\ Cardinality(MappedOperations') + Cardinality(UnmappedOperations') =
              Cardinality(MappedOperations) + Cardinality(UnmappedOperations) + 1
<1> DEFINE M == DOMAIN cgroup_stats \cap VMCgroups
           U == DOMAIN cgroup_stats \ VMCgroups
<1>0. MappedOperations = Numbered(cgroup_stats, M) /\ UnmappedOperations = Numbered(cgroup_stats, U)
  BY DEF MappedOperations, UnmappedOperations
<1>1. /\ DOMAIN cgroup_stats' = DOMAIN cgroup_stats \cup {c}
      /\ \A x \in DOMAIN cgroup_stats : cgroup_stats[x] \in Nat
      /\ \A x \in DOMAIN cgroup_stats \ {c} : cgroup_stats'[x] = cgroup_stats[x]
      /\ cgroup_stats'[c] = (IF c \in DOMAIN cgroup_stats THEN cgroup_stats[c] ELSE 0) + 1
  BY DEF TypeOK, Observe, Bit
<1>2. /\ IsFiniteSet(Numbered(cgroup_stats, M)) /\ IsFiniteSet(Numbered(cgroup_stats, U))
      /\ Cardinality(Numbered(cgroup_stats, M)) \in Nat /\ Cardinality(Numbered(cgroup_stats, U)) \in Nat
  BY <1>0, FS_CardinalityType DEF OperationsAreCounted
<1>3. CASE c \in VMCgroups
  <2>1. DOMAIN cgroup_stats' \cap VMCgroups = M \cup {c} /\ DOMAIN cgroup_stats' \ VMCgroups = U
    BY <1>1, <1>3
  <2>2. Numbered(cgroup_stats', U) = Numbered(cgroup_stats, U)
    BY <1>1, <1>3, SameOperations
  <2>3. cgroup_stats'[c] = (IF c \in M THEN cgroup_stats[c] ELSE 0) + 1
    BY <1>1, <1>3
  <2>4. (\A x \in M : cgroup_stats[x] \in Nat) /\ (\A x \in M \ {c} : cgroup_stats'[x] = cgroup_stats[x])
    BY <1>1
  <2>5. /\ IsFiniteSet(Numbered(cgroup_stats', M \cup {c}))
        /\ Cardinality(Numbered(cgroup_stats', M \cup {c})) = Cardinality(Numbered(cgroup_stats, M)) + 1
    <3> HIDE DEF M, U
    <3> QED
      BY <1>2, <2>3, <2>4, OneMoreOperation
  <2>6. /\ MappedOperations' = Numbered(cgroup_stats', M \cup {c})
        /\ UnmappedOperations' = Numbered(cgroup_stats, U)
    BY <2>1, <2>2 DEF MappedOperations, UnmappedOperations
  <2> HIDE DEF M, U
  <2> QED
    BY <1>0, <1>2, <2>5, <2>6
<1>4. CASE c \notin VMCgroups
  <2>1. DOMAIN cgroup_stats' \ VMCgroups = U \cup {c} /\ DOMAIN cgroup_stats' \cap VMCgroups = M
    BY <1>1, <1>4
  <2>2. Numbered(cgroup_stats', M) = Numbered(cgroup_stats, M)
    BY <1>1, <1>4, SameOperations
  <2>3. cgroup_stats'[c] = (IF c \in U THEN cgroup_stats[c] ELSE 0) + 1
    BY <1>1, <1>4
  <2>4. (\A x \in U : cgroup_stats[x] \in Nat) /\ (\A x \in U \ {c} : cgroup_stats'[x] = cgroup_stats[x])
    BY <1>1
  <2>5. /\ IsFiniteSet(Numbered(cgroup_stats', U \cup {c}))
        /\ Cardinality(Numbered(cgroup_stats', U \cup {c})) = Cardinality(Numbered(cgroup_stats, U)) + 1
    <3> HIDE DEF M, U
    <3> QED
      BY <1>2, <2>3, <2>4, OneMoreOperation
  <2>6. /\ UnmappedOperations' = Numbered(cgroup_stats', U \cup {c})
        /\ MappedOperations' = Numbered(cgroup_stats, M)
    BY <2>1, <2>2 DEF MappedOperations, UnmappedOperations
  <2> HIDE DEF M, U
  <2> QED
    BY <1>0, <1>2, <2>5, <2>6
<1> QED
  BY <1>3, <1>4

-----------------------------------------------------------------------------
(* The window and the theorems.                                            *)

\* Opening, closing and reading keep the invariant; the only entries they can
\* make stale are those older than the completion hook.
LEMMA WindowInv ==
  ASSUME Inv, OpenOrClose \/ MakeReport
  PROVE  Inv'
<1> USE DEF WindowTypeOK, WindowOrder, HookStates
<1>1. /\ UNCHANGED <<now, inflight, request_starts, cgroup_stats, counters, observed, mispaired>>
      /\ armed' \in 0 .. now
      /\ \/ /\ AttachIssue \/ DetachIssue \/ DetachComplete \/ ReadMaps
            /\ armed' = armed
         \/ AttachComplete /\ armed' = now
  BY DEF OpenOrClose, MakeReport, Inv, TypeOK
<1>2. \A q : Own(q)' <=> Own(q)
  BY <1>1 DEF Own
<1>3. WindowTypeOK' /\ WindowOrder'
  BY <1>1 DEF AttachIssue, AttachComplete, DetachIssue, DetachComplete, ReadMaps, Inv, TypeOK
<1>4. TypeOK'
  BY <1>1, <1>3 DEF Inv, TypeOK
<1>5. NothingStoredBefore' /\ AttributionIsOwn'
  <2>1. CASE AttachIssue
    <3>1. mispaired = 0 /\ DOMAIN request_starts = {}
      BY <2>1 DEF AttachIssue, Inv, NothingStoredBefore
    <3> QED
      BY <1>1, <2>1, <3>1 DEF AttachIssue, NothingStoredBefore, AttributionIsOwn
  <2>2. CASE DetachIssue
    BY <1>1, <2>2 DEF DetachIssue, NothingStoredBefore, AttributionIsOwn
  <2>3. CASE AttachComplete \/ DetachComplete \/ ReadMaps
    BY <1>1, <1>2, <2>3
    DEF AttachComplete, DetachComplete, ReadMaps, NothingStoredBefore, AttributionIsOwn, Inv
  <2> QED
    BY <1>1, <2>1, <2>2, <2>3
<1>6. StaleEntriesPredateTheWindow'
  <2>1. CASE AttachComplete /\ armed' = now
    BY <1>1, <2>1 DEF AttachComplete, StaleEntriesPredateTheWindow, Inv, TypeOK
  <2>2. CASE (AttachIssue \/ DetachIssue \/ DetachComplete \/ ReadMaps) /\ armed' = armed
    BY <1>1, <1>2, <2>2
    DEF AttachIssue, DetachIssue, DetachComplete, ReadMaps, StaleEntriesPredateTheWindow, Inv
  <2> QED
    BY <1>1, <2>1, <2>2
<1>7. ProgramRunsBalance'
  BY <1>1 DEF ProgramRunsBalance, Inv
<1> QED
  BY <1>3, <1>4, <1>5, <1>6, <1>7 DEF Inv

\* The maps are empty and no hook is attached at first.
LEMMA InitInv == Init => Inv
<1> SUFFICES ASSUME Init PROVE Inv
  OBVIOUS
<1>1. /\ DOMAIN inflight = {} /\ DOMAIN request_starts = {} /\ DOMAIN cgroup_stats = {}
      /\ now = 0 /\ armed = 0 /\ observed = 0 /\ mispaired = 0
      /\ counters = [k \in Counters |-> 0]
      /\ issueHook = "unattached" /\ completeHook = "unattached" /\ maps = "unread"
  BY DEF Init, EmptyMap, WindowInit
<1>2. TypeOK /\ WindowOrder
  BY <1>1 DEF TypeOK, WindowTypeOK, WindowOrder, HookStates
<1>3. NothingStoredBefore /\ AttributionIsOwn /\ StaleEntriesPredateTheWindow
  BY <1>1 DEF NothingStoredBefore, AttributionIsOwn, StaleEntriesPredateTheWindow
<1>4. Cardinality(DOMAIN request_starts) = 0
  BY <1>1, FS_EmptySet
<1>5. ProgramRunsBalance
  BY <1>1, <1>4 DEF ProgramRunsBalance, Counters
<1> QED
  BY <1>2, <1>3, <1>5 DEF Inv

\* Every step keeps the invariant.
LEMMA StepInv == Inv /\ [Next]_vars => Inv'
<1> SUFFICES ASSUME Inv, [Next]_vars PROVE Inv'
  OBVIOUS
<1>1. ASSUME NEW p \in Requests, NEW metadata \in Metadata, Issue(p, metadata)
      PROVE  Inv'
  <2>1. UNCHANGED windowVars
    BY <1>1, IssueInflight
  <2>2. WindowOrder'
    BY <2>1 DEF WindowOrder, windowVars, Inv
  <2>3. TypeOK'
    BY <1>1, IssueType
  <2>4. AttributionIsOwn' /\ StaleEntriesPredateTheWindow' /\ NothingStoredBefore'
    BY <1>1, IssueOwn
  <2>5. ProgramRunsBalance'
    BY <1>1, IssueBalance
  <2> QED
    BY <2>2, <2>3, <2>4, <2>5 DEF Inv
<1>2. ASSUME NEW p \in Requests, NEW whole \in BOOLEAN, Complete(p, whole)
      PROVE  Inv'
  <2>1. UNCHANGED windowVars
    BY <1>2, CompleteInflight
  <2>2. WindowOrder'
    BY <2>1 DEF WindowOrder, windowVars, Inv
  <2>3. TypeOK'
    BY <1>2, CompleteType
  <2>4. AttributionIsOwn' /\ StaleEntriesPredateTheWindow' /\ NothingStoredBefore'
    BY <1>2, CompleteOwn
  <2>5. ProgramRunsBalance'
    BY <1>2, CompleteBalance
  <2> QED
    BY <2>2, <2>3, <2>4, <2>5 DEF Inv
<1>3. CASE OpenOrClose \/ MakeReport
  BY <1>3, WindowInv
<1>4. CASE UNCHANGED vars
  <2>1. UNCHANGED <<issueHook, completeHook, maps, now, inflight, request_starts,
                    cgroup_stats, counters, armed, observed, mispaired>>
    BY <1>4 DEF vars, blockVars, windowVars
  <2>2. \A q : Own(q)' <=> Own(q)
    BY <2>1 DEF Own
  <2>3. TypeOK' /\ WindowOrder'
    BY <2>1 DEF TypeOK, WindowTypeOK, WindowOrder, Inv
  <2>4. AttributionIsOwn' /\ StaleEntriesPredateTheWindow' /\ NothingStoredBefore'
    BY <2>1, <2>2
    DEF AttributionIsOwn, StaleEntriesPredateTheWindow, NothingStoredBefore, Inv
  <2>5. ProgramRunsBalance'
    BY <2>1 DEF ProgramRunsBalance, Inv
  <2> QED
    BY <2>3, <2>4, <2>5 DEF Inv
<1> QED
  BY <1>1, <1>2, <1>3, <1>4 DEF Next

\* A completion that is measured for the host only has been counted as one
\* without an owner or a device, or finds the aggregates full.
LEMMA CompleteKeepsOperations ==
  ASSUME Inv, OperationsAreCounted, NEW p \in Requests, NEW whole \in BOOLEAN, Complete(p, whole)
  PROVE  OperationsAreCounted'
<1>1. TypeOK /\ counters \in [Counters -> Nat]
  BY DEF Inv, TypeOK
<1>2. CASE UNCHANGED <<counters, cgroup_stats, request_starts>>
  <2>1. Unownable' = Unownable /\ MappedOperations' = MappedOperations /\ UnmappedOperations' = UnmappedOperations
    BY <1>2 DEF Unownable, Owned, MappedOperations, UnmappedOperations
  <2> QED
    BY <1>2, <2>1 DEF OperationsAreCounted
<1>3. CASE on_block_rq_complete(p)
  <2> DEFINE room == Owned(p) /\ HasRoom(request_starts[p].cgroup)
  <2>1. /\ counters'["completed_latency_events"] =
             counters["completed_latency_events"] + Bit(p \in DOMAIN request_starts)
        /\ counters'["missing_blkcg"] = counters["missing_blkcg"]
        /\ counters'["device_unavailable"] = counters["device_unavailable"]
        /\ counters'["map_full"] = counters["map_full"] + Bit(Owned(p) /\ ~room)
    BY <1>1, <1>3, CompleteCounts, CompleteLosses
  <2>2. Unownable' = Unownable \ {p}
    BY <1>3, CompleteConsumes DEF Unownable, Owned
  <2>3. /\ Cardinality(Unownable') = Cardinality(Unownable) - Bit(p \in Unownable)
        /\ Cardinality(Unownable) \in Nat
    BY <1>1, <2>2, UnownableIsFinite, OneElement
  <2>4. Bit(p \in DOMAIN request_starts) = Bit(p \in Unownable) + Bit(Owned(p))
    BY DEF Bit, Unownable, Owned
  <2>5. /\ IsFiniteSet(MappedOperations') /\ IsFiniteSet(UnmappedOperations')
        /\ Cardinality(MappedOperations') + Cardinality(UnmappedOperations') =
             Cardinality(MappedOperations) + Cardinality(UnmappedOperations) + Bit(room)
    <3>1. /\ IsFiniteSet(MappedOperations) /\ IsFiniteSet(UnmappedOperations)
          /\ Cardinality(MappedOperations) \in Nat /\ Cardinality(UnmappedOperations) \in Nat
      BY FS_CardinalityType DEF OperationsAreCounted
    <3>2. CASE room
      <4>1. cgroup_stats' = Observe(request_starts[p].cgroup)
        BY <1>3, <3>2 DEF on_block_rq_complete
      <4>2. request_starts[p].cgroup \in Cgroups
        BY <1>1, <3>2 DEF TypeOK, Owned
      <4>3. Bit(room) = 1
        BY <3>2 DEF Bit
      <4> HIDE DEF room
      <4> QED
        BY <1>1, <4>1, <4>2, <4>3, ObserveAddsOne
    <3>3. CASE ~room
      <4>1. cgroup_stats' = cgroup_stats
        BY <1>3, <3>3 DEF on_block_rq_complete
      <4>2. MappedOperations' = MappedOperations /\ UnmappedOperations' = UnmappedOperations
        BY <4>1 DEF MappedOperations, UnmappedOperations
      <4>3. Bit(room) = 0
        BY <3>3 DEF Bit
      <4> HIDE DEF room
      <4> QED
        BY <3>1, <4>2, <4>3
    <3> QED
      BY <3>2, <3>3
  <2>6. Bit(Owned(p)) = Bit(room) + Bit(Owned(p) /\ ~room)
    BY DEF Bit
  <2>7. /\ Bit(room) \in Nat /\ Bit(Owned(p) /\ ~room) \in Nat /\ Bit(p \in Unownable) \in Nat
        /\ \A k \in Counters : counters[k] \in Nat
    BY <1>1 DEF Bit
  <2>8. Cardinality(MappedOperations) \in Nat /\ Cardinality(UnmappedOperations) \in Nat
    BY FS_CardinalityType DEF OperationsAreCounted
  <2>9. Cardinality(MappedOperations') \in Nat /\ Cardinality(UnmappedOperations') \in Nat
    BY <2>5, FS_CardinalityType
  <2> HIDE DEF room
  <2> QED
    BY <2>1, <2>3, <2>4, <2>5, <2>6, <2>7, <2>8, <2>9 DEF OperationsAreCounted, Counters
<1> QED
  BY <1>2, <1>3, CompleteCases

\* Once the maps are read nothing changes them.
LEMMA ReportStays ==
  ASSUME Inv, ReportIsOfTheMaps, [Next]_vars
  PROVE  ReportIsOfTheMaps'
<1>1. ASSUME UNCHANGED <<maps, report, counters, cgroup_stats, request_starts>>
      PROVE  ReportIsOfTheMaps'
  BY <1>1 DEF ReportIsOfTheMaps, Report, Operations, Unattributed, Incomplete
<1>2. ASSUME NEW p \in Requests, NEW metadata \in Metadata, Issue(p, metadata)
      PROVE  ReportIsOfTheMaps'
  <2>1. UNCHANGED <<maps, report, cgroup_stats>>
    BY <1>2 DEF Issue, windowVars
  <2>2. maps = "read" => issueHook = "detached"
    BY DEF Inv, WindowOrder
  <2>3. CASE maps = "read"
    <3>1. UNCHANGED <<counters, request_starts>>
      BY <1>2, <2>2, <2>3, IssueCases
    <3> QED
      BY <1>1, <2>1, <3>1
  <2> QED
    BY <2>1, <2>3 DEF ReportIsOfTheMaps
<1>3. ASSUME NEW p \in Requests, NEW whole \in BOOLEAN, Complete(p, whole)
      PROVE  ReportIsOfTheMaps'
  <2>1. UNCHANGED <<maps, report>>
    BY <1>3 DEF Complete, windowVars
  <2>2. maps = "read" => completeHook = "detached"
    BY DEF Inv, WindowOrder
  <2>3. CASE maps = "read"
    <3>1. UNCHANGED <<counters, cgroup_stats, request_starts>>
      BY <1>3, <2>2, <2>3, CompleteCases
    <3> QED
      BY <1>1, <2>1, <3>1
  <2> QED
    BY <2>1, <2>3 DEF ReportIsOfTheMaps
<1>4. CASE OpenOrClose
  <2>1. UNCHANGED <<maps, report, counters, cgroup_stats, request_starts>>
    BY <1>4 DEF OpenOrClose, AttachIssue, AttachComplete, DetachIssue, DetachComplete
  <2> QED
    BY <1>1, <2>1
<1>5. CASE MakeReport
  BY <1>5 DEF MakeReport, ReportIsOfTheMaps, Report, Operations, Unattributed, Incomplete
<1>6. CASE UNCHANGED vars
  BY <1>1, <1>6 DEF vars, windowVars, blockVars
<1> QED
  BY <1>2, <1>3, <1>4, <1>5, <1>6 DEF Next

\* Every step keeps the accounts.
LEMMA StepAccounts ==
  ASSUME Inv, Accounts, [Next]_vars
  PROVE  Accounts'
<1> USE DEF Accounts
<1>1. ReportIsOfTheMaps'
  BY ReportStays
<1>2. ASSUME NEW p \in Requests, NEW metadata \in Metadata, Issue(p, metadata)
      PROVE  ObservedAreCounted' /\ OperationsAreCounted'
  BY <1>2, IssueIsCounted, IssueKeepsOperations
<1>3. ASSUME NEW p \in Requests, NEW whole \in BOOLEAN, Complete(p, whole)
      PROVE  ObservedAreCounted' /\ OperationsAreCounted'
  BY <1>3, CompleteIsCounted, CompleteKeepsOperations
<1>4. ASSUME UNCHANGED <<inflight, request_starts, cgroup_stats, counters, observed, mispaired>>
      PROVE  ObservedAreCounted' /\ OperationsAreCounted'
  <2>1. /\ \A q : Own(q)' <=> Own(q)
        /\ MappedOperations' = MappedOperations /\ UnmappedOperations' = UnmappedOperations
        /\ Unownable' = Unownable
    BY <1>4 DEF Own, MappedOperations, UnmappedOperations, Unownable, Owned
  <2> QED
    BY <1>4, <2>1 DEF ObservedAreCounted, OperationsAreCounted
<1>5. CASE OpenOrClose \/ MakeReport
  <2>1. UNCHANGED <<inflight, request_starts, cgroup_stats, counters, observed, mispaired>>
    BY <1>5 DEF OpenOrClose, MakeReport
  <2> QED
    BY <1>1, <1>4, <2>1
<1>6. CASE UNCHANGED vars
  <2>1. UNCHANGED <<inflight, request_starts, cgroup_stats, counters, observed, mispaired>>
    BY <1>6 DEF vars, blockVars
  <2> QED
    BY <1>1, <1>4, <2>1
<1> QED
  BY <1>1, <1>2, <1>3, <1>5, <1>6 DEF Next

\* Nothing is counted at first.
LEMMA InitAccounts == Init => Accounts
<1> SUFFICES ASSUME Init PROVE Accounts
  OBVIOUS
<1>1. /\ DOMAIN inflight = {} /\ DOMAIN request_starts = {} /\ DOMAIN cgroup_stats = {}
      /\ observed = 0 /\ mispaired = 0 /\ counters = [k \in Counters |-> 0] /\ maps = "unread"
  BY DEF Init, EmptyMap, WindowInit
<1>2. MappedOperations = {} /\ UnmappedOperations = {} /\ Unownable = {}
  BY <1>1 DEF MappedOperations, UnmappedOperations, Numbered, Unownable
<1>3. IsFiniteSet({}) /\ Cardinality({}) = 0
  BY FS_EmptySet
<1>4. ObservedAreCounted
  BY <1>1, <1>3 DEF ObservedAreCounted, Counters
<1>5. OperationsAreCounted
  BY <1>1, <1>2, <1>3 DEF OperationsAreCounted, Counters
<1> QED
  BY <1>1, <1>4, <1>5 DEF Accounts, ReportIsOfTheMaps

\* What the accounts say of the report.
LEMMA AccountsSuffice == Inv /\ Accounts => ReportAccountsForAll
<1> SUFFICES ASSUME Inv, Accounts, maps = "read" PROVE ReportAccountsForAll
  BY DEF ReportAccountsForAll, EveryRequestIsReported, ReportBalances, UnattributedIsExplained
<1> DEFINE a == Cardinality(MappedOperations)
           u == Cardinality(UnmappedOperations)
           completed == counters["completed_latency_events"]
<1>1. /\ a \in Nat /\ u \in Nat /\ Cardinality(DOMAIN request_starts) \in Nat /\ Cardinality(Unownable) \in Nat
      /\ \A k \in Counters : counters[k] \in Nat
      /\ observed \in Nat /\ mispaired \in Nat
  <2>1. a \in Nat /\ u \in Nat
    BY FS_CardinalityType DEF Accounts, OperationsAreCounted
  <2>2. TypeOK
    BY DEF Inv
  <2> QED
    BY <2>1, <2>2, StartsAreFinite, UnownableIsFinite DEF TypeOK
<1>2. /\ report.attributed = a /\ report.unmapped = u /\ report.incomplete = Cardinality(DOMAIN request_starts)
      /\ report.unattributed = (IF completed > a THEN completed - a ELSE 0)
                                 + counters["lookup_miss"] + Cardinality(DOMAIN request_starts)
  BY DEF Accounts, ReportIsOfTheMaps, Report, Operations, MappedOperations, UnmappedOperations,
         Unattributed, Incomplete
<1>3. /\ a + u <= completed
      /\ completed + Cardinality(Unownable) <=
           a + u + counters["missing_blkcg"] + counters["device_unavailable"] + counters["map_full"]
  BY DEF Accounts, OperationsAreCounted
<1>4. /\ observed <= completed + counters["lookup_miss"] + Cardinality(DOMAIN request_starts)
                       + counters["duplicate_issue"] + counters["map_full"] + mispaired
      /\ counters["complete_seen"] = completed + counters["lookup_miss"]
  BY DEF Accounts, ObservedAreCounted, Inv, ProgramRunsBalance
<1>5. /\ completed \in Nat /\ counters["lookup_miss"] \in Nat /\ counters["duplicate_issue"] \in Nat
      /\ counters["map_full"] \in Nat /\ counters["missing_blkcg"] \in Nat
      /\ counters["device_unavailable"] \in Nat /\ counters["complete_seen"] \in Nat
  BY <1>1 DEF Counters
<1> HIDE DEF a, u
<1>6. (IF completed > a THEN completed - a ELSE 0) = completed - a
  <2>1. a + u <= completed /\ a \in Nat /\ u \in Nat /\ completed \in Nat
    BY <1>1, <1>3, <1>5
  <2> HIDE DEF completed
  <2> QED
    BY <2>1
<1> QED
  BY <1>1, <1>2, <1>3, <1>4, <1>5, <1>6
  DEF ReportAccountsForAll, EveryRequestIsReported, ReportBalances, UnattributedIsExplained

\* The invariant of the correlation holds in every behaviour.
THEOREM Invariance == Spec => []Inv
<1>1. Init => Inv
  BY InitInv
<1>2. Inv /\ [Next]_vars => Inv'
  BY StepInv
<1> QED
  BY <1>1, <1>2, PTL DEF Spec

\* For any number of addresses, cgroups and map entries: while the issue hook
\* is attached, a completion is matched with its own issue and owner.
THEOREM CorrelationIsOwn == Spec => []AttributionIsOwn
<1>1. Inv => AttributionIsOwn
  BY DEF Inv
<1> QED
  BY <1>1, Invariance, PTL

\* The stale entries on_block_rq_complete can meet are all from the time
\* between the two attachments.
THEOREM NoStaleEntryOfTheWindow == Spec => []StaleEntriesPredateTheWindow
<1>1. Inv => StaleEntriesPredateTheWindow
  BY DEF Inv
<1> QED
  BY <1>1, Invariance, PTL

\* The diagnostic counters account for every run of the two programs.
THEOREM RunsAreAccounted == Spec => []ProgramRunsBalance
<1>1. Inv => ProgramRunsBalance
  BY DEF Inv
<1> QED
  BY <1>1, Invariance, PTL

\* recordKernelStats and finish, after both programs were detached: the report
\* leaves out no request that a program saw, counts none twice, and every
\* operation without a VM has a counter that says why.
THEOREM ReportIsComplete == Spec => []ReportAccountsForAll
<1>1. Init => Inv /\ Accounts
  BY InitInv, InitAccounts
<1>2. Inv /\ Accounts /\ [Next]_vars => (Inv /\ Accounts)'
  BY StepInv, StepAccounts
<1>3. Inv /\ Accounts => ReportAccountsForAll
  BY AccountsSuffice
<1> QED
  BY <1>1, <1>2, <1>3, PTL DEF Spec

=============================================================================
