---------------------------- MODULE EvidenceProofs ----------------------------
(***************************************************************************)
(* Proofs about where evidence comes from: KernelSession, which reads the  *)
(* kernel's maps, and EvidenceWindow, which samples the processes, judges  *)
(* and keeps what it found.  For any number of VMs, any window, rates and  *)
(* thresholds and whatever fails: a session releases what it opened and    *)
(* claims no more than it read; a summary is what the processes did, and a *)
(* verdict, a selection and a snapshot have the evidence they claim.       *)
(***************************************************************************)
EXTENDS KernelSession, EvidenceWindow, FiniteSetTheorems, SequenceTheorems, TLAPS

-----------------------------------------------------------------------------
(* The session of the kernel source (KernelSession).                       *)

\* No stage reports the absence of an error as its failure.
LEMMA FailuresAreFailures ==
  /\ "none" \notin Failures
  /\ PreflightFailures \cup {"invalid_options"} \subseteq Failures
  /\ LoadFailures \subseteq Failures
  /\ AttachFailures \subseteq Failures
  /\ ReadFailures \subseteq Failures
  /\ "cancelled" \in Failures
  /\ "available" \notin Failures
BY DEF Failures, PreflightFailures, LoadFailures, AttachFailures, ReadFailures

\* The parts of the invariant other than the types.
Parts ==
  /\ LinksFollowStep
  /\ ObjectsFollowStep
  /\ CleanupIsFailedRelease
  /\ StatsAreFrozen
  /\ FailureFollowsStep
  /\ ReportFollowsErrors

\* The invariant holds before the first call.
LEMMA InitInv == Init => Inv
<1>1. NoReport \in Reports
  BY DEF Reports, NoReport
<1>2. Init => TypeOK
  BY <1>1 DEF Init, TypeOK, Steps, LinkStates
<1>3. Init => Parts
  BY DEF Init, Parts, LinksFollowStep, ObjectsFollowStep, CleanupIsFailedRelease,
         StatsAreFrozen, FailureFollowsStep, ReportFollowsErrors
<1> QED
  BY <1>2, <1>3 DEF Inv, Parts

\* Every call keeps the types.
LEMMA StepType == TypeOK /\ [Next]_vars => TypeOK'
<1> SUFFICES ASSUME TypeOK, [Next]_vars PROVE TypeOK'
  OBVIOUS
<1> USE FailuresAreFailures DEF TypeOK, Steps, LinkStates, Releases, links, errors, Failed
<1>1. CASE Preflight
  BY <1>1 DEF Preflight, Proceed, Fail
<1>2. CASE Prepare
  BY <1>2 DEF Prepare, Proceed, Fail
<1>3. CASE StartIssue
  BY <1>3 DEF StartIssue, Proceed, Fail
<1>4. CASE StartComplete
  BY <1>4 DEF StartComplete, Proceed, Fail
<1>5. CASE RollBack
  BY <1>5 DEF RollBack
<1>6. CASE Collect
  BY <1>6 DEF Collect, Proceed, Fail
<1>7. CASE StopIssue
  BY <1>7 DEF StopIssue
<1>8. CASE StopComplete
  BY <1>8 DEF StopComplete
<1>9. CASE ReadStats
  BY <1>9 DEF ReadStats, Proceed, Fail
<1>10. CASE Close
  BY <1>10 DEF Close
<1>11. CASE Aggregate
  BY <1>11 DEF Aggregate, Reports
<1>12. CASE Cancel
  BY <1>12 DEF Cancel
<1>13. CASE UNCHANGED vars
  BY <1>13 DEF vars
<1> QED
  BY <1>1, <1>2, <1>3, <1>4, <1>5, <1>6, <1>7, <1>8, <1>9, <1>10, <1>11, <1>12, <1>13
  DEF Next, Advance, Terminated

\* Every call keeps the other parts.
LEMMA StepParts == TypeOK /\ Parts /\ [Next]_vars => Parts'
<1> SUFFICES ASSUME TypeOK, Parts, [Next]_vars PROVE Parts'
  OBVIOUS
<1> USE FailuresAreFailures
    DEF TypeOK, Parts, LinksFollowStep, ObjectsFollowStep, CleanupIsFailedRelease,
        StatsAreFrozen, FailureFollowsStep, ReportFollowsErrors, Steps, links, errors,
        Failed
<1>1. CASE Preflight
  BY <1>1 DEF Preflight, Proceed, Fail
<1>2. CASE Prepare
  BY <1>2 DEF Prepare, Proceed, Fail
<1>3. CASE StartIssue
  BY <1>3 DEF StartIssue, Proceed, Fail
<1>4. CASE StartComplete
  BY <1>4 DEF StartComplete, Proceed, Fail
<1>5. CASE RollBack
  <2>1. CASE issueLink' = "closed"
    BY <1>5, <2>1 DEF RollBack
  <2>2. CASE issueLink' = "failed"
    BY <1>5, <2>2 DEF RollBack
  <2> QED
    BY <1>5, <2>1, <2>2 DEF RollBack
<1>6. CASE Collect
  BY <1>6 DEF Collect, Proceed, Fail
<1>7. CASE StopIssue
  <2>1. CASE issueLink' = "closed"
    BY <1>7, <2>1 DEF StopIssue
  <2>2. CASE issueLink' = "failed"
    BY <1>7, <2>2 DEF StopIssue
  <2> QED
    BY <1>7, <2>1, <2>2 DEF StopIssue
<1>8. CASE StopComplete
  <2>1. CASE completeLink' = "closed"
    <3>1. cleanup # {} => issueLink = "failed"
      BY <1>8 DEF StopComplete, Releases
    <3> QED
      BY <1>8, <2>1, <3>1 DEF StopComplete
  <2>2. CASE completeLink' = "failed"
    BY <1>8, <2>2 DEF StopComplete
  <2> QED
    BY <1>8, <2>1, <2>2 DEF StopComplete
<1>9. CASE ReadStats
  BY <1>9 DEF ReadStats, Proceed, Fail
<1>10. CASE Close
  <2>1. CASE objects' = "closed"
    BY <1>10, <2>1 DEF Close
  <2>2. CASE objects' = "failed"
    BY <1>10, <2>2 DEF Close
  <2> QED
    BY <1>10, <2>1, <2>2 DEF Close
<1>11. CASE Aggregate
  BY <1>11 DEF Aggregate
<1>12. CASE Cancel
  BY <1>12 DEF Cancel
<1>13. CASE UNCHANGED vars
  BY <1>13 DEF vars
<1> QED
  BY <1>1, <1>2, <1>3, <1>4, <1>5, <1>6, <1>7, <1>8, <1>9, <1>10, <1>11, <1>12, <1>13
  DEF Next, Advance, Terminated

\* Every call, whatever its outcome, and a cancellation keep the invariant.
LEMMA StepInv == Inv /\ [Next]_vars => Inv'
BY StepType, StepParts DEF Inv, Parts

\* Inv is an invariant of the session.
THEOREM Invariance == Safety => []Inv
<1>1. Init => Inv
  BY InitInv
<1>2. Inv /\ [Next]_vars => Inv'
  BY StepInv
<1> QED
  BY <1>1, <1>2, PTL DEF Safety

\* However a collection ends, nothing it acquired is left without a report of it.
THEOREM ReleaseIsComplete == Safety => []NothingLeaksSilently
<1>1. Inv => NothingLeaksSilently
  BY DEF Inv, NothingLeaksSilently, LinksFollowStep, ObjectsFollowStep,
         CleanupIsFailedRelease, ReportFollowsErrors
<1> QED
  BY <1>1, Invariance, PTL

\* An available report stands for a whole window, read and released completely.
THEOREM AvailabilityIsEarned == Safety => []AvailableIsComplete
<1>1. Inv => AvailableIsComplete
  <2> SUFFICES ASSUME Inv, step = "done"
               PROVE  (report.status = "available") <=>
                        /\ stats = "full" /\ issueLink = "closed"
                        /\ completeLink = "closed" /\ objects = "closed"
    BY DEF AvailableIsComplete
  <2>1. report.status = "available" <=> (failure = "none" /\ cleanup = {})
    BY DEF Inv, ReportFollowsErrors
  <2>2. ASSUME report.status = "available"
        PROVE  /\ stats = "full" /\ issueLink = "closed"
               /\ completeLink = "closed" /\ objects = "closed"
    BY <2>1, <2>2 DEF Inv, TypeOK, ObjectsFollowStep, CleanupIsFailedRelease,
                      StatsAreFrozen, FailureFollowsStep
  <2>3. ASSUME stats = "full", issueLink = "closed", completeLink = "closed",
               objects = "closed"
        PROVE  report.status = "available"
    <3>1. cleanup = {}
      BY <2>3 DEF Inv, TypeOK, CleanupIsFailedRelease, Releases
    <3>2. failure = "none"
      BY <2>3 DEF Inv, StatsAreFrozen
    <3> QED
      BY <2>1, <3>1, <3>2
  <2> QED
    BY <2>2, <2>3
<1> QED
  BY <1>1, Invariance, PTL

\* The session starts with an unattached window.
LEMMA InitWindow == Init => Window!WindowInit
BY DEF Init, Window!WindowInit, hook

\* Every call is a step of the window or leaves it alone.
LEMMA StepWindow == Inv /\ [Next]_vars => [Window!WindowNext]_(Window!windowVars)
<1> SUFFICES ASSUME Inv, [Next]_vars
             PROVE  Window!WindowNext \/ UNCHANGED Window!windowVars
  OBVIOUS
<1> USE DEF Window!windowVars, hook, links
<1>1. CASE Preflight \/ Prepare \/ RollBack
  <2>1. CASE Preflight
    BY <2>1 DEF Preflight
  <2>2. CASE Prepare
    BY <2>2 DEF Prepare
  <2>3. CASE RollBack
    <3>1. Window!DetachIssue
      BY <2>3 DEF RollBack, Window!DetachIssue, Inv, LinksFollowStep
    <3> QED
      BY <3>1 DEF Window!WindowNext
  <2> QED
    BY <1>1, <2>1, <2>2, <2>3
<1>2. CASE StartIssue
  <2>1. CASE issueLink' = "open"
    <3>1. Window!AttachIssue
      BY <1>2, <2>1 DEF StartIssue, Window!AttachIssue, Inv, LinksFollowStep
    <3> QED
      BY <3>1 DEF Window!WindowNext
  <2>2. CASE UNCHANGED issueLink
    BY <1>2, <2>2 DEF StartIssue
  <2> QED
    BY <1>2, <2>1, <2>2 DEF StartIssue
<1>3. CASE StartComplete
  <2>1. CASE completeLink' = "open"
    <3>1. Window!AttachComplete
      BY <1>3, <2>1 DEF StartComplete, Window!AttachComplete, Inv, LinksFollowStep
    <3> QED
      BY <3>1 DEF Window!WindowNext
  <2>2. CASE UNCHANGED completeLink
    BY <1>3, <2>2 DEF StartComplete
  <2> QED
    BY <1>3, <2>1, <2>2 DEF StartComplete
<1>4. CASE StopIssue
  <2>1. Window!DetachIssue
    BY <1>4 DEF StopIssue, Window!DetachIssue, Inv, LinksFollowStep
  <2> QED
    BY <2>1 DEF Window!WindowNext
<1>5. CASE StopComplete
  <2>1. Window!DetachComplete
    BY <1>5 DEF StopComplete, Window!DetachComplete, Inv, LinksFollowStep
  <2> QED
    BY <2>1 DEF Window!WindowNext
<1>6. CASE ReadStats
  <2>1. stats = "unread" /\ stats' # "unread"
    BY <1>6 DEF ReadStats, Inv, TypeOK, StatsAreFrozen
  <2>2. Window!ReadMaps
    BY <1>6, <2>1 DEF ReadStats, Window!ReadMaps, Inv, LinksFollowStep
  <2> QED
    BY <2>2 DEF Window!WindowNext
<1>7. CASE Collect
  BY <1>7 DEF Collect
<1>8. CASE Close
  BY <1>8 DEF Close
<1>9. CASE Aggregate
  BY <1>9 DEF Aggregate
<1>10. CASE Cancel
  BY <1>10 DEF Cancel
<1>11. CASE UNCHANGED vars
  BY <1>11 DEF vars
<1> QED
  BY <1>1, <1>2, <1>3, <1>4, <1>5, <1>6, <1>7, <1>8, <1>9, <1>10, <1>11
  DEF Next, Advance, Terminated

\* Failures and cancellation included, the session implements HookWindow.
THEOREM ImplementsHookWindow == Safety => ImplementsWindow
<1>1. Init => Window!WindowInit
  BY InitWindow
<1>2. Inv /\ [Next]_vars => [Window!WindowNext]_(Window!windowVars)
  BY StepWindow
<1> QED
  BY <1>1, <1>2, Invariance, PTL DEF Safety, ImplementsWindow, Window!WindowSpec

-----------------------------------------------------------------------------
(* Induction and recursion over finite sets.                               *)

\* Induction over the naturals, with a set for the predicate: were some m not
\* in it, adding one would map the numbers up to m that are in it into
\* themselves without 0, and be injective.
LEMMA SetInduction ==
  ASSUME NEW S, 0 \in S, \A n \in Nat : n \in S => n + 1 \in S
  PROVE  \A m \in Nat : m \in S
<1> SUFFICES ASSUME NEW m \in Nat, m \notin S PROVE FALSE
  OBVIOUS
<1> DEFINE A == (0 .. m) \cap S
           f == [k \in A |-> k + 1]
<1>1. IsFiniteSet(A) /\ 0 \in A
  <2>1. A \in SUBSET (0..m) /\ 0 \in A
    OBVIOUS
  <2>2. IsFiniteSet(0..m)
    BY FS_Interval
  <2> HIDE DEF A
  <2>3. QED
    BY <2>1, <2>2, FS_Subset, Zenon
<1>2. IsFiniteSet(A \ {0}) /\ Cardinality(A \ {0}) = Cardinality(A) - 1 /\ Cardinality(A) \in Nat
  <2> HIDE DEF A
  <2>2. QED
    BY <1>1, FS_RemoveElement, FS_CardinalityType, Zenon
<1>3. f \in [A -> A \ {0}]
  <2>1. \A k \in A : k + 1 \in A \ {0}
    OBVIOUS
  <2>2. QED
    BY <2>1
<1>4. \E x, y \in A : x # y /\ f[x] = f[y]
  <2>1. Cardinality(A \ {0}) < Cardinality(A)
    BY <1>2
  <2> HIDE DEF f, A
  <2>2. QED
    BY <1>1, <1>2, <2>1, <1>3, FS_PigeonHole, Zenon
<1>5. QED
  BY <1>4

\* The element that the folds of the community modules take first.
Some(s) == CHOOSE x \in s : TRUE

\* A function on the subsets of S that takes one element at a time.
Recurs(g, S, base, rule) ==
  \A s \in SUBSET S : g[s] = IF s = {} THEN base ELSE rule[<<s, g[s \ {Some(s)}]>>]

\* A recursion that takes one element out of a finite set at a time has a
\* solution.
LEMMA SetRecursion ==
  ASSUME NEW S, IsFiniteSet(S), NEW V, NEW base, base \in V, NEW rule, rule \in [(SUBSET S) \X V -> V]
  PROVE  \E g \in [SUBSET S -> V] : Recurs(g, S, base, rule)
<1> DEFINE Small(n) == {s \in SUBSET S : Cardinality(s) <= n}
           Solves(g, n) == \A s \in Small(n) : g[s] = IF s = {} THEN base ELSE rule[<<s, g[s \ {Some(s)}]>>]
           Solved == {n \in Nat : \E g \in [Small(n) -> V] : Solves(g, n)}
<1>1. \A s \in SUBSET S : IsFiniteSet(s) /\ Cardinality(s) \in Nat /\ (Cardinality(s) = 0 <=> s = {})
  BY FS_Subset, FS_CardinalityType, FS_EmptySet
<1>2. \A s \in SUBSET S : s # {} => /\ Some(s) \in s /\ s \ {Some(s)} \in SUBSET S
                                    /\ Cardinality(s \ {Some(s)}) = Cardinality(s) - 1
  <2> TAKE s \in SUBSET S
  <2> HAVE s # {}
  <2>1. Some(s) \in s
    BY DEF Some
  <2>2. Cardinality(s \ {Some(s)}) = Cardinality(s) - 1
    BY <1>1, <2>1, FS_RemoveElement
  <2> QED BY <2>1, <2>2
<1>3. 0 \in Solved
  <2>1. Small(0) = {{}}
    BY <1>1
  <2>2. Solves([s \in Small(0) |-> base], 0)
    BY <2>1
  <2> QED BY <2>2
<1>4. \A n \in Nat : n \in Solved => n + 1 \in Solved
  <2> TAKE n \in Nat
  <2> HAVE n \in Solved
  <2>1. PICK g \in [Small(n) -> V] : Solves(g, n)
    OBVIOUS
  <2> DEFINE h == [s \in Small(n + 1) |-> IF s = {} THEN base ELSE rule[<<s, g[s \ {Some(s)}]>>]]
  <2>2. \A s \in Small(n + 1) : s # {} => s \ {Some(s)} \in Small(n)
    BY <1>1, <1>2
  <2>3. \A s \in Small(n) : s \in Small(n + 1) /\ h[s] = g[s]
    <3>1. Small(n) \subseteq Small(n + 1)
      BY <1>1
    <3>2. \A s \in Small(n + 1) : h[s] = IF s = {} THEN base ELSE rule[<<s, g[s \ {Some(s)}]>>]
      BY Zenon
    <3> HIDE DEF Small, h
    <3> QED BY <2>1, <3>1, <3>2
  <2>4. h \in [Small(n + 1) -> V]
    <3>1. ASSUME NEW s \in Small(n + 1), s # {} PROVE rule[<<s, g[s \ {Some(s)}]>>] \in V
      <4>1. g[s \ {Some(s)}] \in V
        BY <2>1, <2>2, <3>1
      <4> QED BY <4>1
    <3> QED BY <3>1
  <2>5. Solves(h, n + 1)
    <3> TAKE s \in Small(n + 1)
    <3>1. s # {} => h[s \ {Some(s)}] = g[s \ {Some(s)}]
      BY <2>2, <2>3
    <3> HIDE DEF Small
    <3> QED BY <3>1
  <2> HIDE DEF h, Solves, Small
  <2> QED BY <2>4, <2>5
<1>5. Cardinality(S) \in Solved
  <2> HIDE DEF Solved
  <2> QED BY <1>1, <1>3, <1>4, SetInduction
<1>6. Small(Cardinality(S)) = SUBSET S
  <2>1. \A s \in SUBSET S : Cardinality(s) <= Cardinality(S)
    BY FS_Subset
  <2> QED BY <2>1
<1> QED BY <1>5, <1>6 DEF Recurs

\* A finite set that a relation orders totally has a greatest element.
LEMMA Greatest ==
  ASSUME NEW S, IsFiniteSet(S), S # {}, NEW R,
         \A a, b \in S : a # b => <<a, b>> \in R \/ <<b, a>> \in R,
         \A a, b, c \in S : <<a, b>> \in R /\ <<b, c>> \in R => <<a, c>> \in R
  PROVE  \E a \in S : \A b \in S \ {a} : <<a, b>> \in R
<1> DEFINE Top(T) == \E a \in T : \A b \in T \ {a} : <<a, b>> \in R
           Proved == {n \in Nat : \A T \in SUBSET S : Cardinality(T) = n + 1 => Top(T)}
<1>1. \A T \in SUBSET S : IsFiniteSet(T) /\ Cardinality(T) \in Nat
  BY FS_Subset, FS_CardinalityType
<1>2. \A T \in SUBSET S : \A x \in T : Cardinality(T \ {x}) = Cardinality(T) - 1
  BY <1>1, FS_RemoveElement
<1>3. \A T \in SUBSET S : Cardinality(T) # 0 => T # {}
  BY FS_EmptySet
<1>4. 0 \in Proved
  <2> SUFFICES ASSUME NEW T \in SUBSET S, Cardinality(T) = 1 PROVE Top(T)
    OBVIOUS
  <2>1. PICK a \in T : TRUE
    BY <1>3
  <2>2. Cardinality(T \ {a}) = 0 /\ IsFiniteSet(T \ {a})
    BY <1>1, <1>2
  <2>3. T \ {a} = {}
    BY <2>2, FS_EmptySet
  <2> QED BY <2>3
<1>5. \A n \in Nat : n \in Proved => n + 1 \in Proved
  <2> SUFFICES ASSUME NEW n \in Nat, n \in Proved, NEW T \in SUBSET S, Cardinality(T) = (n + 1) + 1
               PROVE  Top(T)
    OBVIOUS
  <2>1. PICK x \in T : TRUE
    BY <1>3
  <2>2. Cardinality(T \ {x}) = n + 1 /\ T \ {x} \in SUBSET S
    BY <1>2
  <2>3. PICK a \in T \ {x} : \A b \in (T \ {x}) \ {a} : <<a, b>> \in R
    BY <2>2
  <2>4. CASE <<a, x>> \in R
    BY <2>3, <2>4
  <2>5. CASE <<x, a>> \in R
    BY <2>1, <2>3, <2>5
  <2> QED BY <2>1, <2>3, <2>4, <2>5
<1>6. PICK n \in Nat : Cardinality(S) = n + 1
  <2>1. Cardinality(S) \in Nat /\ Cardinality(S) # 0
    BY FS_CardinalityType, FS_EmptySet
  <2>2. Cardinality(S) - 1 \in Nat
    BY <2>1
  <2> QED BY <2>1, <2>2
<1>7. n \in Proved
  <2> HIDE DEF Proved
  <2> QED BY <1>4, <1>5, SetInduction
<1> QED BY <1>6, <1>7

-----------------------------------------------------------------------------
(* Sums over finite sets.                                                  *)

\* One that adds one term at a time, as SumFunctionOnSet does.
SumRecurs(g, S, f) == \A s \in SUBSET S : g[s] = IF s = {} THEN 0 ELSE f[Some(s)] + g[s \ {Some(s)}]

\* Functions that recur alike agree.
LEMMA SumAgrees ==
  ASSUME NEW S, IsFiniteSet(S), NEW T \in SUBSET S, NEW f, NEW e, \A x \in T : e[x] = f[x],
         NEW g, SumRecurs(g, S, f), NEW h, SumRecurs(h, T, e)
  PROVE  \A s \in SUBSET T : g[s] = h[s]
<1> DEFINE Agreed == {n \in Nat : \A s \in SUBSET T : Cardinality(s) = n => g[s] = h[s]}
<1>1. \A s \in SUBSET T : IsFiniteSet(s) /\ Cardinality(s) \in Nat /\ (Cardinality(s) = 0 <=> s = {})
  BY FS_Subset, FS_CardinalityType, FS_EmptySet
<1>2. 0 \in Agreed
  BY <1>1 DEF SumRecurs
<1>3. \A n \in Nat : n \in Agreed => n + 1 \in Agreed
  <2> SUFFICES ASSUME NEW n \in Nat, n \in Agreed, NEW s \in SUBSET T, Cardinality(s) = n + 1
               PROVE  g[s] = h[s]
    OBVIOUS
  <2>1. s # {} /\ Some(s) \in s
    BY <1>1 DEF Some
  <2>2. Cardinality(s \ {Some(s)}) = n
    BY <1>1, <2>1, FS_RemoveElement
  <2>3. g[s \ {Some(s)}] = h[s \ {Some(s)}]
    BY <2>2
  <2> QED BY <2>1, <2>3 DEF SumRecurs
<1>4. \A n \in Nat : n \in Agreed
  <2> HIDE DEF Agreed
  <2> QED BY <1>2, <1>3, SetInduction
<1> QED BY <1>1, <1>4

\* A sum is the value of a function that takes one term at a time.
LEMMA SumUnfolded ==
  ASSUME NEW S, IsFiniteSet(S), NEW f, \A x \in S : f[x] \in Nat
  PROVE  \E g \in [SUBSET S -> Nat] : SumFunctionOnSet(f, S) = g[S] /\ SumRecurs(g, S, f)
<1> DEFINE body(g) == [s \in SUBSET S |-> IF s = {} THEN 0 ELSE f[Some(s)] + g[s \ {Some(s)}]]
           rule == [p \in (SUBSET S) \X Nat |-> IF p[1] = {} THEN 0 ELSE f[Some(p[1])] + p[2]]
           sum == CHOOSE g : g = body(g)
<1>1. \A s \in SUBSET S : s # {} => Some(s) \in S
  BY DEF Some
<1>2. rule \in [(SUBSET S) \X Nat -> Nat]
  BY <1>1
<1>3. PICK g \in [SUBSET S -> Nat] : Recurs(g, S, 0, rule)
  <2>1. 0 \in Nat
    OBVIOUS
  <2> HIDE DEF rule
  <2> QED BY <1>2, <2>1, SetRecursion, Zenon
<1>4. g = body(g)
  <2>1. \A s \in SUBSET S : s # {} => rule[<<s, g[s \ {Some(s)}]>>] = f[Some(s)] + g[s \ {Some(s)}]
    BY <1>3
  <2> HIDE DEF rule
  <2> QED BY <1>3, <2>1 DEF Recurs
<1>5. sum = body(sum)
  <2> HIDE DEF body
  <2> QED BY <1>4, Zenon
<1>6. SumFunctionOnSet(f, S) = sum[S]
  BY DEF SumFunctionOnSet, FoldFunctionOnSet, MapThenFoldSet, Some
<1>7. SumRecurs(sum, S, f)
  <2> HIDE DEF sum
  <2> QED BY <1>5 DEF SumRecurs
<1>8. sum = g
  <2>1. SumRecurs(g, S, f)
    <3> HIDE DEF sum, rule
    <3> QED BY <1>4 DEF SumRecurs
  <2>2. \A s \in SUBSET S : sum[s] = g[s]
    <3> HIDE DEF sum, rule, body
    <3> QED BY <1>7, <2>1, SumAgrees
  <2>3. sum = [s \in SUBSET S |-> sum[s]]
    <3> HIDE DEF sum
    <3> QED BY <1>5
  <2> HIDE DEF sum
  <2> QED BY <2>2, <2>3
<1> HIDE DEF sum
<1> QED BY <1>6, <1>7, <1>8

\* The sum of nothing.
LEMMA SumEmpty == ASSUME NEW f PROVE SumFunctionOnSet(f, {}) = 0
<1>1. PICK g \in [SUBSET {} -> Nat] : SumFunctionOnSet(f, {}) = g[{}] /\ SumRecurs(g, {}, f)
  BY FS_EmptySet, SumUnfolded
<1> QED BY <1>1 DEF SumRecurs

\* The sum of natural numbers is one.
LEMMA SumType ==
  ASSUME NEW S, IsFiniteSet(S), NEW f, \A x \in S : f[x] \in Nat
  PROVE  SumFunctionOnSet(f, S) \in Nat
<1>1. PICK g \in [SUBSET S -> Nat] : SumFunctionOnSet(f, S) = g[S] /\ SumRecurs(g, S, f)
  BY SumUnfolded
<1> QED BY <1>1

\* A sum depends on its terms only.
LEMMA SumEqual ==
  ASSUME NEW S, IsFiniteSet(S), NEW f, NEW e, \A x \in S : f[x] \in Nat /\ e[x] = f[x]
  PROVE  SumFunctionOnSet(e, S) = SumFunctionOnSet(f, S)
<1>1. PICK g \in [SUBSET S -> Nat] : SumFunctionOnSet(f, S) = g[S] /\ SumRecurs(g, S, f)
  BY SumUnfolded
<1>2. PICK h \in [SUBSET S -> Nat] : SumFunctionOnSet(e, S) = h[S] /\ SumRecurs(h, S, e)
  BY SumUnfolded
<1>3. g[S] = h[S]
  BY <1>1, <1>2, SumAgrees
<1> QED BY <1>1, <1>2, <1>3

\* What is added last does not matter.
LEMMA SumRemove ==
  ASSUME NEW S, IsFiniteSet(S), NEW f, \A x \in S : f[x] \in Nat, NEW x \in S
  PROVE  SumFunctionOnSet(f, S) = f[x] + SumFunctionOnSet(f, S \ {x})
<1>1. PICK g \in [SUBSET S -> Nat] : SumFunctionOnSet(f, S) = g[S] /\ SumRecurs(g, S, f)
  BY SumUnfolded
<1>2. g[S \ {x}] = SumFunctionOnSet(f, S \ {x})
  <2>1. IsFiniteSet(S \ {x})
    BY FS_Subset
  <2>2. PICK h \in [SUBSET (S \ {x}) -> Nat] : /\ SumFunctionOnSet(f, S \ {x}) = h[S \ {x}]
                                               /\ SumRecurs(h, S \ {x}, f)
    BY <2>1, SumUnfolded
  <2> QED BY <1>1, <2>2, SumAgrees
<1> DEFINE Proved == {n \in Nat : \A s \in SUBSET S : Cardinality(s) = n =>
                                   \A y \in s : g[s] = f[y] + g[s \ {y}]}
<1>3. \A s \in SUBSET S : IsFiniteSet(s) /\ Cardinality(s) \in Nat /\ (Cardinality(s) = 0 <=> s = {})
  BY FS_Subset, FS_CardinalityType, FS_EmptySet
<1>4. 0 \in Proved
  BY <1>3
<1>5. \A n \in Nat : n \in Proved => n + 1 \in Proved
  <2>0. \A n \in Nat : n + 1 \in Nat
    OBVIOUS
  <2> SUFFICES ASSUME NEW n \in Nat, n \in Proved, NEW s \in SUBSET S, Cardinality(s) = n + 1
               PROVE  \A y \in s : g[s] = f[y] + g[s \ {y}]
    BY <2>0, Zenon
  <2> TAKE y \in s
  <2> DEFINE c == Some(s)
  <2>1. c \in s /\ g[s] = f[c] + g[s \ {c}]
    BY <1>1 DEF Some, SumRecurs
  <2>2. CASE y = c
    BY <2>1, <2>2
  <2>3. CASE y # c
    <3>1. Cardinality(s \ {c}) = n /\ Cardinality(s \ {y}) = n
      BY <1>3, <2>1, FS_RemoveElement
    <3>2. g[s \ {c}] = f[y] + g[(s \ {c}) \ {y}]
      BY <2>1, <2>3, <3>1
    <3>3. g[s \ {y}] = f[c] + g[(s \ {y}) \ {c}]
      BY <2>1, <2>3, <3>1
    <3>4. (s \ {c}) \ {y} = (s \ {y}) \ {c}
      OBVIOUS
    <3>5. f[c] \in Nat /\ f[y] \in Nat /\ g[(s \ {y}) \ {c}] \in Nat
      BY <2>1
    <3> DEFINE w == g[(s \ {y}) \ {c}]
    <3>6. g[s \ {c}] = f[y] + w /\ g[s \ {y}] = f[c] + w /\ w \in Nat
      BY <3>2, <3>3, <3>4, <3>5, Zenon
    <3> HIDE DEF c, w
    <3> QED BY <2>1, <3>5, <3>6
  <2> QED BY <2>2, <2>3
<1>6. Cardinality(S) \in Proved
  <2> HIDE DEF Proved
  <2> QED BY <1>3, <1>4, <1>5, SetInduction
<1> QED BY <1>1, <1>2, <1>6

\* No term exceeds its sum.
LEMMA SumMember ==
  ASSUME NEW S, IsFiniteSet(S), NEW f, \A x \in S : f[x] \in Nat, NEW x \in S
  PROVE  f[x] <= SumFunctionOnSet(f, S)
<1>1. IsFiniteSet(S \ {x})
  BY FS_Subset
<1>2. SumFunctionOnSet(f, S \ {x}) \in Nat
  BY <1>1, SumType
<1> QED BY <1>2, SumRemove

LEMMA SumAdd ==
  ASSUME NEW S, IsFiniteSet(S), NEW x, x \notin S, NEW f, \A y \in S \cup {x} : f[y] \in Nat
  PROVE  SumFunctionOnSet(f, S \cup {x}) = SumFunctionOnSet(f, S) + f[x]
<1> DEFINE T == S \cup {x}
<1>1. IsFiniteSet(T)
  BY FS_AddElement
<1>2. T \ {x} = S /\ x \in T /\ \A y \in T : f[y] \in Nat
  OBVIOUS
<1>3. SumFunctionOnSet(f, S) \in Nat
  BY SumType
<1> HIDE DEF T
<1>4. SumFunctionOnSet(f, T) = f[x] + SumFunctionOnSet(f, T \ {x})
  BY <1>1, <1>2, SumRemove
<1>5. SumFunctionOnSet(f, T) = f[x] + SumFunctionOnSet(f, S)
  BY <1>2, <1>4, Zenon
<1>6. SumFunctionOnSet(f, T) = SumFunctionOnSet(f, S) + f[x]
  BY <1>2, <1>3, <1>5
<1> USE DEF T
<1> QED BY <1>6

\* An average is at most the greatest of what is averaged.
LEMMA SumRatio ==
  ASSUME NEW S, IsFiniteSet(S), NEW f, NEW e, \A x \in S : f[x] \in Nat /\ e[x] \in Nat,
         NEW n \in Nat, NEW d \in Nat, \A x \in S : f[x] * d <= n * e[x]
  PROVE  SumFunctionOnSet(f, S) * d <= n * SumFunctionOnSet(e, S)
<1> DEFINE F(s) == SumFunctionOnSet(f, s)
           E(s) == SumFunctionOnSet(e, s)
           Proved == {k \in Nat : \A s \in SUBSET S : Cardinality(s) = k => F(s) * d <= n * E(s)}
<1>1. \A s \in SUBSET S : IsFiniteSet(s) /\ Cardinality(s) \in Nat /\ (Cardinality(s) = 0 <=> s = {})
  BY FS_Subset, FS_CardinalityType, FS_EmptySet
<1>2. 0 \in Proved
  <2>1. F({}) * d <= n * E({})
    BY SumEmpty
  <2> HIDE DEF F, E
  <2> QED BY <1>1, <2>1
<1>3. \A k \in Nat : k \in Proved => k + 1 \in Proved
  <2> SUFFICES ASSUME NEW k \in Nat, k \in Proved, NEW s \in SUBSET S, Cardinality(s) = k + 1
               PROVE  F(s) * d <= n * E(s)
    OBVIOUS
  <2>1. PICK x \in s : TRUE
    BY <1>1
  <2>2. Cardinality(s \ {x}) = k /\ IsFiniteSet(s \ {x})
    <3>1. IsFiniteSet(s)
      BY <1>1
    <3>2. IsFiniteSet(s \ {x})
      BY <3>1, FS_Subset
    <3>3. (k + 1) - 1 = k
      OBVIOUS
    <3> QED BY <2>1, <3>1, <3>2, <3>3, FS_RemoveElement, Zenon
  <2>3. F(s \ {x}) * d <= n * E(s \ {x})
    BY <2>2
  <2>4. F(s) = f[x] + F(s \ {x}) /\ E(s) = e[x] + E(s \ {x})
    BY <1>1, SumRemove
  <2>5. F(s \ {x}) \in Nat /\ E(s \ {x}) \in Nat
    BY <2>2, SumType
  <2>6. f[x] \in Nat /\ e[x] \in Nat /\ f[x] * d <= n * e[x]
    BY <2>1
  <2> HIDE DEF F, E
  <2>7. \A a, b, u, v \in Nat : a * d <= n * u /\ b * d <= n * v => (a + b) * d <= n * (u + v)
    OBVIOUS
  <2> QED BY <2>3, <2>4, <2>5, <2>6, <2>7
<1>4. Cardinality(S) \in Proved
  <2> HIDE DEF Proved
  <2> QED BY <1>1, <1>2, <1>3, SetInduction
<1> QED BY <1>4

-----------------------------------------------------------------------------
(* Rates are ordered like the fractions they are.                          *)

LEMMA MulMonotone == \A a, b, c \in Nat : a <= b => a * c <= b * c
OBVIOUS

\* A common positive factor cancels.
LEMMA MulCancel == ASSUME NEW a \in Nat, NEW b \in Nat, NEW c \in Nat, c # 0, a * c <= b * c PROVE a <= b
<1>1. SUFFICES ASSUME b < a PROVE FALSE
  OBVIOUS
<1>2. PICK k \in Nat : a = b + 1 + k
  <2>1. a - b - 1 \in Nat
    BY <1>1
  <2>2. a = b + 1 + (a - b - 1)
    OBVIOUS
  <2> QED BY <2>1, <2>2
<1>3. a * c = b * c + c + k * c
  BY <1>2
<1>4. k * c \in Nat /\ b * c \in Nat
  OBVIOUS
<1> QED BY <1>3, <1>4

\* The comparison of fractions is transitive.
LEMMA MulTransitive ==
  ASSUME NEW a \in Nat, NEW b \in Nat \ {0}, NEW c \in Nat, NEW d \in Nat \ {0}, NEW e \in Nat,
    NEW f \in Nat \ {0},
         a * d >= c * b, c * f >= e * d
  PROVE  a * f >= e * b
<1>1. (c * b) * f <= (a * d) * f
  BY MulMonotone
<1>2. (e * d) * b <= (c * f) * b
  BY MulMonotone
<1>3. (e * d) * b = (e * b) * d
  OBVIOUS
<1>4. (a * d) * f = (a * f) * d
  OBVIOUS
<1>5. (c * b) * f = (c * f) * b
  OBVIOUS
<1>6. (e * b) * d <= (a * f) * d
  <2>1. (e * b) * d \in Nat /\ (a * f) * d \in Nat /\ (c * f) * b \in Nat
    OBVIOUS
  <2> QED BY <1>1, <1>2, <1>3, <1>4, <1>5, <2>1
<1>7. e * b \in Nat /\ a * f \in Nat
  OBVIOUS
<1>8. e * b <= a * f
  BY <1>6, <1>7, MulCancel
<1> QED BY <1>7, <1>8

\* The parts of a rate.
LEMMA RateFields == \A r \in Rates : r.n \in Nat /\ r.d \in Nat /\ r.d # 0 /\ r = Rate(r.n, r.d)
BY DEF Rates, Rate

\* The rate that is made of two numbers.
LEMMA RateIs ==
  \A n \in Nat, d \in Nat : d # 0 => /\ Rate(n, d) \in Rates /\ Rate(n, d).n = n /\ Rate(n, d).d = d
BY DEF Rates, Rate

\* No rate at all.
LEMMA NilIs == Nil \in Rates /\ Nil.n = 0 /\ Nil.d = 1
BY DEF Rates, Rate, Nil

\* Any two rates compare.
LEMMA AtLeastTotal ==
  ASSUME NEW r \in Rates, NEW s \in Rates
  PROVE  /\ AtLeast(r, r)
         /\ AtLeast(r, s) \/ AtLeast(s, r)
         /\ Exceeds(r, s) => AtLeast(r, s)
<1>1. r.n * s.d \in Nat /\ s.n * r.d \in Nat /\ r.n * r.d \in Nat
  BY RateFields
<1> QED BY <1>1 DEF AtLeast, Exceeds

\* The comparison of rates is transitive.
LEMMA AtLeastTransitive ==
  ASSUME NEW r \in Rates, NEW s \in Rates, NEW t \in Rates, AtLeast(r, s), AtLeast(s, t)
  PROVE  AtLeast(r, t)
<1>1. r.n * s.d >= s.n * r.d /\ s.n * t.d >= t.n * s.d
  BY DEF AtLeast
<1>2. r.n * t.d >= t.n * r.d
  BY <1>1, RateFields, MulTransitive
<1> QED BY <1>2 DEF AtLeast

\* The sum of two rates is a rate.
LEMMA PlusType == ASSUME NEW r \in Rates, NEW s \in Rates PROVE Plus(r, s) \in Rates
<1>1. r.n * s.d + s.n * r.d \in Nat /\ r.d * s.d \in Nat /\ r.d * s.d # 0
  BY RateFields
<1> QED BY <1>1, RateIs DEF Plus

\* The sum of two rates is at least each.
LEMMA PlusAtLeast ==
  ASSUME NEW r \in Rates, NEW s \in Rates
  PROVE  AtLeast(Plus(r, s), r) /\ AtLeast(Plus(r, s), s)
<1>1. /\ Plus(r, s).n = r.n * s.d + s.n * r.d /\ Plus(r, s).d = r.d * s.d
  BY DEF Plus, Rate
<1>2. \A a, b, c, d \in Nat : (a * d + c * b) * b >= a * (b * d) /\ (a * d + c * b) * d >= c * (b * d)
  <2> TAKE a, b, c, d \in Nat
  <2>1. (a * d + c * b) * b = a * (b * d) + (c * b) * b /\ (a * d + c * b) * d = c * (b * d) + (a * d) * d
    OBVIOUS
  <2>2. a * (b * d) \in Nat /\ (c * b) * b \in Nat /\ c * (b * d) \in Nat /\ (a * d) * d \in Nat
    OBVIOUS
  <2> QED BY <2>1, <2>2
<1> QED BY <1>1, <1>2, RateFields DEF AtLeast

\* No rate adds nothing.
LEMMA PlusNil == ASSUME NEW r \in Rates PROVE Plus(r, Nil) = r
BY RateFields DEF Plus, Nil, Rate

\* A multiple of a rate.
LEMMA TimesIs ==
  ASSUME NEW r \in Rates, NEW k \in Nat
  PROVE  Times(k, r) \in Rates /\ (k # 0 => AtLeast(Times(k, r), r))
<1>1. k * r.n \in Nat /\ Times(k, r).n = k * r.n /\ Times(k, r).d = r.d /\ Times(k, r) \in Rates
  BY RateFields, RateIs DEF Times
<1>2. k # 0 => (k * r.n) * r.d >= r.n * r.d
  <2> HAVE k # 0
  <2>1. r.n <= k * r.n
    BY RateFields
  <2> QED BY <1>1, <2>1, RateFields, MulMonotone
<1> QED BY <1>1, <1>2 DEF AtLeast

\* Multiples keep the order.
LEMMA TimesMonotone ==
  ASSUME NEW r \in Rates, NEW s \in Rates, NEW k \in Nat, AtLeast(r, s)
  PROVE  AtLeast(Times(k, r), Times(k, s))
<1>1. Times(k, r).n = k * r.n /\ Times(k, r).d = r.d /\ Times(k, s).n = k * s.n /\ Times(k, s).d = s.d
  BY DEF Times, Rate
<1>2. (s.n * r.d) * k <= (r.n * s.d) * k
  BY RateFields, MulMonotone DEF AtLeast
<1>3. (k * r.n) * s.d = (r.n * s.d) * k /\ (k * s.n) * r.d = (s.n * r.d) * k
  BY RateFields
<1>4. (k * r.n) * s.d \in Nat /\ (k * s.n) * r.d \in Nat
  BY RateFields
<1> QED BY <1>1, <1>2, <1>3, <1>4 DEF AtLeast

\* A finite set of rates has a highest one.
LEMMA HighestIs ==
  ASSUME NEW S \in SUBSET Rates, IsFiniteSet(S), S # {}
  PROVE  Highest(S) \in S /\ \A r \in S : AtLeast(Highest(S), r)
<1> DEFINE R == {p \in S \X S : AtLeast(p[1], p[2])}
<1>1. \A r, s \in S : <<r, s>> \in R <=> AtLeast(r, s)
  OBVIOUS
<1>2. PICK r \in S : \A s \in S \ {r} : <<r, s>> \in R
  <2>1. \A a, b \in S : a # b => <<a, b>> \in R \/ <<b, a>> \in R
    BY <1>1, AtLeastTotal
  <2>2. \A a, b, c \in S : <<a, b>> \in R /\ <<b, c>> \in R => <<a, c>> \in R
    BY <1>1, AtLeastTransitive
  <2> HIDE DEF R
  <2> QED BY <2>1, <2>2, Greatest
<1>3. \A s \in S : AtLeast(r, s)
  BY <1>1, <1>2, AtLeastTotal
<1> QED BY <1>3 DEF Highest

\* And one that adds one rate at a time, as SumOf does.
RateSumRecurs(g, S, f) == \A s \in SUBSET S : g[s] = IF s = {} THEN Nil ELSE Plus(f[Some(s)], g[s \ {Some(s)}])

\* A sum of rates is the value of a function that takes one rate at a time.
LEMMA RateSumUnfolded ==
  ASSUME NEW S, IsFiniteSet(S), NEW f, \A x \in S : f[x] \in Rates
  PROVE  \E g \in [SUBSET S -> Rates] : SumOf(S, f) = g[S] /\ RateSumRecurs(g, S, f)
<1> DEFINE body(g) == [s \in SUBSET S |-> IF s = {} THEN Nil ELSE Plus(f[Some(s)], g[s \ {Some(s)}])]
           rule == [p \in (SUBSET S) \X Rates |-> IF p[1] = {} THEN Nil ELSE Plus(f[Some(p[1])], p[2])]
           sum == CHOOSE g : g = body(g)
<1>1. \A s \in SUBSET S : s # {} => Some(s) \in S
  BY DEF Some
<1>2. rule \in [(SUBSET S) \X Rates -> Rates]
  <2>1. \A p \in (SUBSET S) \X Rates : p[1] # {} => Plus(f[Some(p[1])], p[2]) \in Rates
    BY <1>1, PlusType
  <2> QED BY <2>1, NilIs
<1>3. PICK g \in [SUBSET S -> Rates] : Recurs(g, S, Nil, rule)
  <2> HIDE DEF rule
  <2> QED BY <1>2, NilIs, SetRecursion, Zenon
<1>4. g = body(g)
  <2>1. \A s \in SUBSET S : s # {} => rule[<<s, g[s \ {Some(s)}]>>] = Plus(f[Some(s)], g[s \ {Some(s)}])
    BY <1>3
  <2> HIDE DEF rule
  <2> QED BY <1>3, <2>1 DEF Recurs
<1>5. sum = body(sum)
  <2> HIDE DEF body
  <2> QED BY <1>4, Zenon
<1>6. SumOf(S, f) = sum[S]
  BY DEF SumOf, FoldFunctionOnSet, MapThenFoldSet, Some
<1>7. RateSumRecurs(sum, S, f)
  <2> HIDE DEF sum
  <2> QED BY <1>5 DEF RateSumRecurs
<1>8. \A s \in SUBSET S : sum[s] = g[s]
  <2> DEFINE Agreed == {n \in Nat : \A s \in SUBSET S : Cardinality(s) = n => sum[s] = g[s]}
  <2>1. RateSumRecurs(g, S, f)
    <3> HIDE DEF sum, rule
    <3> QED BY <1>4 DEF RateSumRecurs
  <2>2. \A s \in SUBSET S : IsFiniteSet(s) /\ Cardinality(s) \in Nat /\ (Cardinality(s) = 0 <=> s = {})
    BY FS_Subset, FS_CardinalityType, FS_EmptySet
  <2> HIDE DEF sum, rule, body
  <2>3. 0 \in Agreed
    BY <1>7, <2>1, <2>2 DEF RateSumRecurs
  <2>4. \A n \in Nat : n \in Agreed => n + 1 \in Agreed
    <3> SUFFICES ASSUME NEW n \in Nat, n \in Agreed, NEW s \in SUBSET S, Cardinality(s) = n + 1
                 PROVE  sum[s] = g[s]
      OBVIOUS
    <3>1. s # {} /\ Some(s) \in s
      BY <2>2 DEF Some
    <3>2. Cardinality(s \ {Some(s)}) = n
      BY <2>2, <3>1, FS_RemoveElement
    <3>3. sum[s \ {Some(s)}] = g[s \ {Some(s)}]
      BY <3>2
    <3> QED BY <1>7, <2>1, <3>1, <3>3 DEF RateSumRecurs
  <2>5. \A n \in Nat : n \in Agreed
    <3> HIDE DEF Agreed
    <3> QED BY <2>3, <2>4, SetInduction
  <2> QED BY <2>2, <2>5
<1>9. sum = [s \in SUBSET S |-> sum[s]]
  <2> HIDE DEF sum
  <2> QED BY <1>5
<1> HIDE DEF sum
<1> QED BY <1>6, <1>7, <1>8, <1>9

\* The rates of several VMs together are at least that of each of them.
LEMMA RateSumAtLeast ==
  ASSUME NEW S, IsFiniteSet(S), NEW f, \A x \in S : f[x] \in Rates
  PROVE  SumOf(S, f) \in Rates /\ \A x \in S : AtLeast(SumOf(S, f), f[x])
<1>1. PICK g \in [SUBSET S -> Rates] : SumOf(S, f) = g[S] /\ RateSumRecurs(g, S, f)
  BY RateSumUnfolded
<1> DEFINE Proved == {n \in Nat : \A s \in SUBSET S : Cardinality(s) = n => \A x \in s : AtLeast(g[s], f[x])}
<1>2. \A s \in SUBSET S : IsFiniteSet(s) /\ Cardinality(s) \in Nat /\ (Cardinality(s) = 0 <=> s = {})
  BY FS_Subset, FS_CardinalityType, FS_EmptySet
<1>3. 0 \in Proved
  BY <1>2
<1>4. \A n \in Nat : n \in Proved => n + 1 \in Proved
  <2>0. \A n \in Nat : n + 1 \in Nat /\ (n + 1) - 1 = n
    OBVIOUS
  <2> SUFFICES ASSUME NEW n \in Nat, n \in Proved, NEW s \in SUBSET S, Cardinality(s) = n + 1, NEW x \in s
               PROVE  AtLeast(g[s], f[x])
    BY <2>0, Zenon
  <2> DEFINE c == Some(s)
             t == s \ {c}
  <2>1. c \in s /\ g[s] = Plus(f[c], g[t])
    BY <1>1 DEF Some, RateSumRecurs
  <2>2. Cardinality(t) = n /\ t \in SUBSET S
    <3> HIDE DEF c
    <3> QED BY <1>2, <2>0, <2>1, FS_RemoveElement
  <2>3. f[c] \in Rates /\ g[t] \in Rates /\ g[s] \in Rates /\ f[x] \in Rates
    BY <2>1, <2>2
  <2>4. AtLeast(g[s], f[c]) /\ AtLeast(g[s], g[t])
    BY <2>1, <2>3, PlusAtLeast
  <2>5. x # c => AtLeast(g[t], f[x])
    BY <2>2
  <2> HIDE DEF c, t
  <2> QED BY <2>3, <2>4, <2>5, AtLeastTransitive
<1>5. Cardinality(S) \in Proved
  <2> HIDE DEF Proved
  <2> QED BY <1>2, <1>3, <1>4, SetInduction
<1> QED BY <1>1, <1>5

\* The sum of one rate.
LEMMA RateSumOne == ASSUME NEW x, NEW f, f[x] \in Rates PROVE SumOf({x}, f) = f[x]
<1>1. PICK g \in [SUBSET {x} -> Rates] : SumOf({x}, f) = g[{x}] /\ RateSumRecurs(g, {x}, f)
  BY FS_Singleton, RateSumUnfolded
<1>2. Some({x}) = x /\ {x} \ {x} = {}
  BY DEF Some
<1>3. g[{}] = Nil
  BY <1>1 DEF RateSumRecurs
<1>4. g[{x}] = Plus(f[x], Nil)
  BY <1>1, <1>2, <1>3 DEF RateSumRecurs
<1> QED BY <1>1, <1>4, PlusNil

-----------------------------------------------------------------------------
(* Sequences of which some elements are kept.                              *)

\* A function that is computed along an interval.
Follows(g, n, base, rule) == g[0] = base /\ \A i \in 1..n : g[i] = rule[<<i, g[i - 1]>>]

\* A recursion along an interval has a solution.
LEMMA IntervalRecursion ==
  ASSUME NEW V, NEW base, base \in V, NEW n, n \in Nat, NEW rule, rule \in [(1..n) \X V -> V]
  PROVE  \E g \in [0..n -> V] : Follows(g, n, base, rule)
<1> DEFINE Solved == {m \in Nat : m <= n => \E g \in [0..m -> V] : Follows(g, m, base, rule)}
<1>1. 0 \in Solved
  <2>1. Follows([i \in 0..0 |-> base], 0, base, rule)
    BY DEF Follows
  <2> QED BY <2>1
<1>2. \A m \in Nat : m \in Solved => m + 1 \in Solved
  <2> SUFFICES ASSUME NEW m \in Nat, m \in Solved, m + 1 <= n
               PROVE  \E g \in [0..(m + 1) -> V] : Follows(g, m + 1, base, rule)
    OBVIOUS
  <2>1. PICK g \in [0..m -> V] : Follows(g, m, base, rule)
    OBVIOUS
  <2> DEFINE h == [i \in 0..(m + 1) |-> IF i <= m THEN g[i] ELSE rule[<<m + 1, g[m]>>]]
  <2>2. h \in [0..(m + 1) -> V]
    <3>1. rule[<<m + 1, g[m]>>] \in V
      <4>1. <<m + 1, g[m]>> \in (1..n) \X V
        BY <2>1
      <4> QED BY <4>1
    <3> QED BY <2>1, <3>1
  <2>3. Follows(h, m + 1, base, rule)
    <3>1. \A i \in 0..m : h[i] = g[i]
      OBVIOUS
    <3>2. h[m + 1] = rule[<<m + 1, g[m]>>]
      OBVIOUS
    <3>3. g[0] = base /\ \A i \in 1..m : g[i] = rule[<<i, g[i - 1]>>]
      BY <2>1 DEF Follows
    <3> HIDE DEF h
    <3>4. \A i \in 1..(m + 1) : h[i] = rule[<<i, h[i - 1]>>]
      <4> TAKE i \in 1..(m + 1)
      <4>1. CASE i = m + 1
        <5>1. h[i - 1] = g[m] /\ i - 1 = m
          BY <3>1, <4>1
        <5> QED BY <3>2, <4>1, <5>1
      <4>2. CASE i \in 1..m
        <5>1. h[i] = g[i] /\ h[i - 1] = g[i - 1]
          BY <3>1, <4>2
        <5> QED BY <3>3, <4>2, <5>1
      <4> QED BY <4>1, <4>2
    <3> QED BY <3>1, <3>3, <3>4 DEF Follows
  <2> HIDE DEF h
  <2> QED BY <2>2, <2>3
<1>3. n \in Solved
  <2> HIDE DEF Solved
  <2> QED BY <1>1, <1>2, SetInduction
<1> QED BY <1>3

\* And one that is computed along a sequence, as Keep does.
KeepRecurs(g, seq, set) ==
  /\ g[0] = <<>>
  /\ \A i \in 1..Len(seq) : g[i] = IF seq[i] \in set THEN Append(g[i - 1], seq[i]) ELSE g[i - 1]

\* What is kept of a sequence is the value of a function that looks at one
\* element at a time.
LEMMA KeepUnfolded ==
  ASSUME NEW T, NEW seq, seq \in Seq(T), NEW set
  PROVE  \E g \in [0..Len(seq) -> Seq(T)] : Keep(seq, set) = g[Len(seq)] /\ KeepRecurs(g, seq, set)
<1> DEFINE n == Len(seq)
           body(g) == [i \in 0..Len(seq) |->
                         IF i = 0 THEN <<>>
                         ELSE IF seq[i] \in set THEN Append(g[i - 1], seq[i]) ELSE g[i - 1]]
           rule == [p \in (1..n) \X Seq(T) |-> IF seq[p[1]] \in set THEN Append(p[2], seq[p[1]]) ELSE p[2]]
           kept == CHOOSE g : g = body(g)
<1>1. n \in Nat /\ \A i \in 1..n : seq[i] \in T
  OBVIOUS
<1>2. <<>> \in Seq(T) /\ \A q \in Seq(T), x \in T : Append(q, x) \in Seq(T)
  OBVIOUS
<1>3. rule \in [(1..n) \X Seq(T) -> Seq(T)]
  <2> HIDE DEF n
  <2> QED BY <1>1, <1>2
<1>4. PICK g \in [0..n -> Seq(T)] : Follows(g, n, <<>>, rule)
  <2> HIDE DEF rule, n
  <2> QED BY <1>1, <1>2, <1>3, IntervalRecursion, Zenon
<1>5. \A i \in 1..n : g[i] = IF seq[i] \in set THEN Append(g[i - 1], seq[i]) ELSE g[i - 1]
  <2> HIDE DEF n
  <2> TAKE i \in 1..n
  <2>1. <<i, g[i - 1]>> \in (1..n) \X Seq(T)
    <3>1. i - 1 \in 0..n
      BY <1>1
    <3> QED BY <3>1
  <2>2. rule[<<i, g[i - 1]>>] = IF seq[i] \in set THEN Append(g[i - 1], seq[i]) ELSE g[i - 1]
    BY <2>1
  <2> HIDE DEF rule
  <2> QED BY <1>4, <2>2 DEF Follows
<1>6. g = body(g)
  <2>1. g[0] = <<>>
    BY <1>4 DEF Follows
  <2>2. \A i \in 0..n : i # 0 => i \in 1..n
    BY <1>1
  <2>3. \A i \in 0..n : g[i] = body(g)[i]
    <3> TAKE i \in 0..n
    <3> HIDE DEF rule
    <3>1. body(g)[i] = IF i = 0 THEN <<>> ELSE IF seq[i] \in set THEN Append(g[i - 1], seq[i]) ELSE g[i - 1]
      BY Zenon
    <3> HIDE DEF n, body
    <3> QED BY <1>5, <2>1, <2>2, <3>1
  <2>4. body(g) = [i \in 0..n |-> body(g)[i]]
    BY Zenon
  <2> HIDE DEF body, n
  <2> QED BY <1>4, <2>3, <2>4
<1>7. kept = body(kept)
  <2> HIDE DEF body
  <2> QED BY <1>6, Zenon
<1>8. Keep(seq, set) = kept[n]
  BY DEF Keep
<1>9. KeepRecurs(kept, seq, set)
  <2>1. \A i \in 0..n : kept[i] = IF i = 0 THEN <<>>
                                   ELSE IF seq[i] \in set THEN Append(kept[i - 1], seq[i]) ELSE kept[i - 1]
    <3> HIDE DEF kept
    <3> QED BY <1>7, Zenon
  <2>2. 0 \in 0..n /\ \A i \in 1..n : i \in 0..n /\ i # 0
    <3> HIDE DEF n
    <3> QED BY <1>1
  <2> HIDE DEF kept
  <2>3. kept[0] = <<>>
    BY <2>1, <2>2, Zenon
  <2>4. \A i \in 1..n : kept[i] = IF seq[i] \in set THEN Append(kept[i - 1], seq[i]) ELSE kept[i - 1]
    <3> HIDE DEF n
    <3> QED BY <2>1, <2>2
  <2> QED BY <2>3, <2>4 DEF KeepRecurs
<1>10. kept = [i \in 0..n |-> kept[i]]
  <2> HIDE DEF kept
  <2> QED BY <1>7
<1> HIDE DEF kept, rule, body
<1>11. \A i \in Nat : i <= n => kept[i] \in Seq(T)
  <2> DEFINE Typed == {i \in Nat : i <= n => kept[i] \in Seq(T)}
  <2>1. kept[0] = <<>> /\ \A i \in 1..n : kept[i]
          = IF seq[i] \in set THEN Append(kept[i - 1], seq[i]) ELSE kept[i - 1]
    BY <1>9 DEF KeepRecurs
  <2> HIDE DEF n
  <2>2. 0 \in Typed
    BY <1>2, <2>1
  <2>3. \A i \in Nat : i \in Typed => i + 1 \in Typed
    <3> SUFFICES ASSUME NEW i \in Nat, i \in Typed, i + 1 <= n PROVE kept[i + 1] \in Seq(T)
      OBVIOUS
    <3>1. kept[i] \in Seq(T) /\ i + 1 \in 1..n /\ (i + 1) - 1 = i /\ seq[i + 1] \in T
      BY <1>1
    <3>2. kept[i + 1] = IF seq[i + 1] \in set THEN Append(kept[i], seq[i + 1]) ELSE kept[i]
      BY <2>1, <3>1
    <3> QED BY <1>2, <3>1, <3>2
  <2>4. \A i \in Nat : i \in Typed
    <3> HIDE DEF Typed
    <3> QED BY <2>2, <2>3, SetInduction
  <2> QED BY <2>4
<1>12. kept \in [0..n -> Seq(T)]
  <2> HIDE DEF n
  <2>1. \A i \in 0..n : kept[i] \in Seq(T)
    BY <1>1, <1>11
  <2> QED BY <1>10, <2>1
<1> QED BY <1>8, <1>9, <1>12

\* No two elements name the same section.
Distinct(seq) == \A i, j \in DOMAIN seq : seq[i].section = seq[j].section => i = j

\* What appending does to the elements.
LEMMA AppendIs ==
  ASSUME NEW T, NEW seq \in Seq(T), NEW x \in T
  PROVE  /\ Append(seq, x) \in Seq(T)
         /\ Range(Append(seq, x)) = Range(seq) \cup {x}
         /\ Distinct(seq) /\ (\A q \in Range(seq) : q.section # x.section) => Distinct(Append(seq, x))
<1> DEFINE n == Len(seq)
           app == Append(seq, x)
<1>1. n \in Nat /\ DOMAIN seq = 1..n /\ DOMAIN app = 1..(n + 1)
  OBVIOUS
<1>2. app \in Seq(T) /\ app[n + 1] = x /\ \A i \in 1..n : app[i] = seq[i]
  OBVIOUS
<1> HIDE DEF n, app
<1>3. Range(app) = Range(seq) \cup {x}
  <2>1. \A i \in 1..(n + 1) : i \in 1..n \/ i = n + 1
    BY <1>1
  <2>2. \A i \in 1..n : i \in 1..(n + 1)
    BY <1>1
  <2>3. n + 1 \in 1..(n + 1)
    BY <1>1
  <2> QED BY <1>1, <1>2, <2>1, <2>2, <2>3, Zenon DEF Range
<1>4. ASSUME Distinct(seq), \A q \in Range(seq) : q.section # x.section PROVE Distinct(app)
  <2> SUFFICES ASSUME NEW i \in 1..(n + 1), NEW j \in 1..(n + 1), app[i].section = app[j].section PROVE i = j
    BY <1>1 DEF Distinct
  <2>1. \A k \in 1..n : app[k].section # x.section
    BY <1>1, <1>2, <1>4 DEF Range
  <2>2. i \in 1..n \/ i = n + 1
    BY <1>1
  <2>3. j \in 1..n \/ j = n + 1
    BY <1>1
  <2>4. i \in 1..n /\ j \in 1..n => i = j
    BY <1>1, <1>2, <1>4 DEF Distinct
  <2> QED BY <1>2, <2>1, <2>2, <2>3, <2>4
<1> USE DEF app
<1> QED BY <1>2, <1>3, <1>4

\* The empty sequence.
LEMMA EmptyIs == <<>> \in Seq({}) /\ Range(<<>>) = {} /\ Distinct(<<>>)
BY DEF Range, Distinct

\* What is kept are the elements in the set, of distinct elements distinct ones.
LEMMA KeepIs ==
  ASSUME NEW T, NEW seq, seq \in Seq(T), NEW set
  PROVE  /\ Keep(seq, set) \in Seq(T)
         /\ Range(Keep(seq, set)) = Range(seq) \cap set
         /\ Distinct(seq) => Distinct(Keep(seq, set))
<1> DEFINE n == Len(seq)
<1>1. PICK g \in [0..n -> Seq(T)] : Keep(seq, set) = g[n] /\ KeepRecurs(g, seq, set)
  BY KeepUnfolded
<1>2. n \in Nat /\ DOMAIN seq = 1..n /\ \A i \in 1..n : seq[i] \in T
  OBVIOUS
<1>3. g[0] = <<>> /\ \A i \in 1..n : g[i] = IF seq[i] \in set THEN Append(g[i - 1], seq[i]) ELSE g[i - 1]
  BY <1>1 DEF KeepRecurs
<1> HIDE DEF n
<1> DEFINE Proved == {i \in Nat : i <= n => /\ Range(g[i]) = {seq[j] : j \in 1..i} \cap set
                                            /\ Distinct(seq) => Distinct(g[i])}
<1>4. 0 \in Proved
  <2>1. {seq[j] : j \in 1..0} = {}
    OBVIOUS
  <2> QED BY <1>3, <2>1, EmptyIs
<1>5. \A i \in Nat : i \in Proved => i + 1 \in Proved
  <2> SUFFICES ASSUME NEW i \in Nat, i \in Proved, i + 1 <= n
               PROVE  /\ Range(g[i + 1]) = {seq[j] : j \in 1..(i + 1)} \cap set
                      /\ Distinct(seq) => Distinct(g[i + 1])
    <3>1. \A i \in Nat : i + 1 \in Nat
      OBVIOUS
    <3> QED BY <3>1, Zenon
  <2> DEFINE x == seq[i + 1]
             q == g[i]
  <2>1. /\ i + 1 \in 1..n /\ (i + 1) - 1 = i /\ i \in 0..n /\ i <= n
        /\ \A j \in 1..i : j \in 1..n /\ j # i + 1
    BY <1>2
  <2>2. x \in T /\ q \in Seq(T)
    BY <1>2, <2>1
  <2>3. g[i + 1] = IF x \in set THEN Append(q, x) ELSE q
    BY <1>3, <2>1
  <2>4. Range(q) = {seq[j] : j \in 1..i} \cap set
    BY <2>1
  <2>5. {seq[j] : j \in 1..(i + 1)} = {seq[j] : j \in 1..i} \cup {x}
    <3>1. \A j \in 1..(i + 1) : j \in 1..i \/ j = i + 1
      OBVIOUS
    <3>2. (\A j \in 1..i : j \in 1..(i + 1)) /\ i + 1 \in 1..(i + 1)
      OBVIOUS
    <3> QED BY <3>1, <3>2, Zenon
  <2>6. Distinct(seq) => Distinct(q) /\ \A p \in Range(q) : p.section # x.section
    <3> HAVE Distinct(seq)
    <3>1. \A j \in 1..i : seq[j].section # x.section
      <4> TAKE j \in 1..i
      <4>1. j \in 1..n /\ j # i + 1
        BY <2>1, Zenon
      <4> QED BY <1>2, <2>1, <4>1 DEF Distinct
    <3> HIDE DEF x
    <3> QED BY <2>1, <2>4, <3>1
  <2>7. Append(q, x) \in Seq(T) /\ Range(Append(q, x)) = Range(q) \cup {x}
          /\ (Distinct(seq) => Distinct(Append(q, x)))
    <3> HIDE DEF q, x
    <3> QED BY <2>2, <2>6, AppendIs
  <2> HIDE DEF q, x
  <2>8. CASE x \in set
    BY <2>3, <2>4, <2>5, <2>7, <2>8, Zenon
  <2>9. CASE x \notin set
    BY <2>3, <2>4, <2>5, <2>6, <2>9, Zenon
  <2> QED BY <2>8, <2>9
<1>6. n \in Proved
  <2> HIDE DEF Proved
  <2> QED BY <1>2, <1>4, <1>5, SetInduction
<1>7. n \in 0..n /\ Range(seq) = {seq[j] : j \in 1..n}
  BY <1>2 DEF Range
<1>8. Range(g[n]) = {seq[j] : j \in 1..n} \cap set /\ (Distinct(seq) => Distinct(g[n]))
  <2>1. n <= n
    BY <1>2
  <2> QED BY <1>6, <2>1, Zenon
<1>9. g[n] \in Seq(T)
  BY <1>7
<1> HIDE DEF Proved
<1> QED BY <1>1, <1>7, <1>8, <1>9, Zenon

-----------------------------------------------------------------------------
(* The sampled window.                                                     *)

Processes == [alive : BOOLEAN, owner : Nat, bytes : Nat, calls : Nat]
Readings == [ok : BOOLEAN, bytes : Nat, calls : Nat, at : Nat, owner : Nat]
Samples == [name : Names, seconds : Nat, rates : [ok : BOOLEAN, bytes : Int, calls : Int]]
Amounts == [seconds : Nat, bytes : Nat, calls : Nat]

\* The types of the sampler's state.
SamplingTypes ==
  /\ process \in [Names -> Processes]
  /\ window.targets \in Seq(Names) /\ window.duration \in Nat /\ window.interval \in Nat
  /\ previous \in [Range(window.targets) -> Readings]
  /\ turn \in Nat \ {0}
  /\ elapsed \in Nat /\ elapsed <= window.duration
  /\ samples \in Seq(Samples)
  /\ \A i \in DOMAIN samples : samples[i].rates.ok
       => samples[i].rates.bytes \in Nat /\ samples[i].rates.calls \in Nat
  /\ truth \in [Names -> Amounts]

\* A good reading shows the counters the process still has: between two
\* readings nobody looks.
ReadingsAreCounters ==
  \A name \in Range(window.targets) :
     /\ previous[name].at <= elapsed
     /\ truth[name].seconds <= previous[name].at
     /\ previous[name].ok => /\ previous[name].owner = process[name].owner
                             /\ previous[name].bytes = process[name].bytes
                             /\ previous[name].calls = process[name].calls

\* For a PID that stays with one process, what was really transferred is the
\* sum of the samples the summary is made of.
TruthIsSummed ==
  \A name \in Names :
    process[name].owner = 0 =>
      truth[name] = [seconds |-> SumFunctionOnSet(Seconds, Successful(name)),
                     bytes |-> SumFunctionOnSet(BytesRead, Successful(name)),
                     calls |-> SumFunctionOnSet(CallsRead, Successful(name))]

\* The invariant of the sampler.
SamplingInv == SamplingTypes /\ ReadingsAreCounters /\ TruthIsSummed

\* The names of the VMs are finitely many, in their order.
LEMMA NamesAre == /\ Order \in Seq(Names) /\ Names \subseteq STRING /\ IsFiniteSet(Names)
                  /\ DOMAIN Order = 1..Len(Order)
<1>1. Order \in Seq(STRING) /\ Len(Order) \in Nat /\ DOMAIN Order = 1..Len(Order)
  BY SamplingAssumption
<1>2. \A i \in 1..Len(Order) : Order[i] \in Names
  BY <1>1 DEF Names, Range
<1>3. Names \subseteq STRING
  BY <1>1 DEF Names, Range
<1>4. Order \in Seq(Names)
  BY <1>1, <1>2
<1>5. IsFiniteSet(Names)
  <2>1. Order \in Surjection(1..Len(Order), Names)
    BY <1>1, <1>2 DEF Names, Range, Surjection
  <2>2. IsFiniteSet(1..Len(Order))
    BY <1>1, FS_Interval
  <2> QED BY <2>1, <2>2, FS_Surjection
<1> QED BY <1>1, <1>3, <1>4, <1>5

\* The names in order.
LEMMA SortedIs == ASSUME NEW names PROVE Sorted(names) \in Seq(Names) /\ Range(Sorted(names)) = Names \cap names
BY NamesAre, KeepIs DEF Sorted, Names

\* What is sampled are VMs of the inventory.
LEMMA TargetsAreNames == Known => Targets \in Seq(Names)
<1> SUFFICES ASSUME Known PROVE Targets \in Seq(Names)
  OBVIOUS
<1>1. CASE Observing
  BY <1>1, SortedIs DEF Targets, allRunningPlan
<1>2. CASE ~Observing /\ request.discover
  <2>1. request.victim \in Names
    BY <1>2 DEF Known, Discoverable
  <2>2. Sorted(CandidateTargets(request.victim, disks')) \in Seq(Names)
    BY SortedIs
  <2>3. Targets = <<request.victim>> \o Sorted(CandidateTargets(request.victim, disks'))
    BY <1>2 DEF Targets, SamplingPlan
  <2>4. <<request.victim>> \in Seq(Names)
    BY <2>1
  <2> QED BY <2>2, <2>3, <2>4, ConcatProperties
<1>3. CASE ~Observing /\ ~request.discover
  <2>1. request.suspect \in Names
    BY <1>3 DEF Known, Resolves
  <2> DEFINE front == Sorted(VictimTargets(request.victim))
             back == IF request.suspect \in VictimTargets(request.victim) \cup {None} THEN <<>> ELSE <<request.suspect>>
  <2>2. front \in Seq(Names)
    BY SortedIs
  <2>3. back \in Seq(Names)
    BY <2>1
  <2>4. Targets = front \o back
    BY <1>3 DEF Targets, NewPlan
  <2> HIDE DEF front, back
  <2> QED BY <2>2, <2>3, <2>4, ConcatProperties
<1> QED BY <1>1, <1>2, <1>3

\* It holds before a window is opened.
LEMMA InitSampling == EvidenceInit => SamplingInv
<1> SUFFICES ASSUME EvidenceInit PROVE SamplingInv
  OBVIOUS
<1>1. samples = <<>> /\ previous = <<>> /\ window = NoWindow /\ turn = 1 /\ elapsed = 0
  BY DEF EvidenceInit
<1>2. Range(window.targets) = {} /\ window.targets \in Seq(Names) /\ window.duration \in Nat
        /\ window.interval \in Nat
      /\ elapsed <= window.duration
  BY <1>1 DEF NoWindow, Range
<1>3. process \in [Names -> Processes] /\ \A name \in Names : process[name].owner = 0
  <2>1. \A name \in Names, present \in BOOLEAN : Process(name, present) \in Processes
          /\ Process(name, present).owner = 0
    BY VerdictsAssumption DEF Process, Processes, hasQEMUPID
  <2>2. PICK gone \in SUBSET Stale : process = [name \in Names |-> Process(name, name \notin gone)]
    BY DEF EvidenceInit
  <2>3. \A name \in Names : (name \notin gone) \in BOOLEAN
    OBVIOUS
  <2> QED BY <2>1, <2>2, <2>3
<1>4. truth \in [Names -> Amounts] /\ \A name \in Names :
        truth[name] = [seconds |-> 0, bytes |-> 0, calls |-> 0]
  BY DEF EvidenceInit, Amounts
<1>5. previous \in [Range(window.targets) -> Readings]
  BY <1>1, <1>2
<1>6. \A name \in Names : Successful(name) = {}
  BY <1>1 DEF Successful
<1>7. SamplingTypes
  BY <1>1, <1>2, <1>3, <1>4, <1>5 DEF SamplingTypes
<1>8. TruthIsSummed
  BY <1>4, <1>6, SumEmpty DEF TruthIsSummed
<1> QED BY <1>2, <1>7, <1>8 DEF SamplingInv, ReadingsAreCounters

\* Opening a window keeps it.
LEMMA OpenSampling == SamplingInv /\ request \in Requests /\ Open => SamplingInv'
<1> SUFFICES ASSUME SamplingInv, request \in Requests, Open PROVE SamplingInv'
  OBVIOUS
<1> DEFINE targets == Targets
           fresh == [name \in Names |-> [process[name] EXCEPT !.owner = 0, !.bytes = 0, !.calls = 0]]
<1>1. targets \in Seq(Names)
  BY TargetsAreNames DEF Open
<1>2. validateWindow(request.duration, request.interval)
  BY DEF Open, OpenWindow
<1>3. window' = [targets |-> targets, duration |-> request.duration, interval |-> request.interval]
  BY DEF Open, OpenWindow
<1>4. process' = fresh
  BY DEF Open, OpenWindow
<1>5. previous' = [name \in Range(targets) |-> sampleProcess(process'[name], TRUE, 0)]
  BY DEF Open, OpenWindow
<1>6. turn' = Len(targets) + 1
  BY DEF Open, OpenWindow
<1>7. elapsed' = 0 /\ samples' = <<>>
  BY DEF Open, OpenWindow
<1>8. truth' = [name \in Names |-> [seconds |-> 0, bytes |-> 0, calls |-> 0]]
  BY DEF Open, OpenWindow
<1> HIDE DEF targets
<1>9. request.duration \in Nat /\ request.interval \in Nat
  <2>1. request.duration \in Int /\ request.interval \in Int
    BY EvidenceAssumption
  <2> QED BY <1>2, <2>1 DEF validateWindow
<1>10. window'.targets = targets /\ window'.duration = request.duration /\ window'.interval = request.interval
  BY <1>3
<1>11. process' \in [Names -> Processes]
  <2>1. process \in [Names -> Processes]
    BY DEF SamplingInv, SamplingTypes
  <2>2. \A p \in Processes : [p EXCEPT !.owner = 0, !.bytes = 0, !.calls = 0] \in Processes
    BY DEF Processes
  <2> QED BY <1>4, <2>1, <2>2
<1>12. \A name \in Range(targets) : name \in Names
  BY <1>1 DEF Range
<1>13. \A name \in Range(targets) :
         /\ previous'[name] \in Readings /\ previous'[name].at = 0
         /\ previous'[name].ok => /\ previous'[name].owner = process'[name].owner
                                  /\ previous'[name].bytes = process'[name].bytes
                                  /\ previous'[name].calls = process'[name].calls
  <2> TAKE name \in Range(targets)
  <2>1. previous'[name] = sampleProcess(process'[name], TRUE, 0)
    BY <1>5
  <2>2. process'[name] \in Processes
    BY <1>11, <1>12
  <2>3. \A p \in Processes : LET r == sampleProcess(p, TRUE, 0)
                            IN r \in Readings /\ r.at = 0
                              /\ (r.ok => r.owner = p.owner /\ r.bytes = p.bytes /\ r.calls = p.calls)
    BY DEF sampleProcess, NotRead, Readings, Processes
  <2> QED BY <2>1, <2>2, <2>3
<1>14. previous' \in [Range(targets) -> Readings]
  <2>1. previous' = [name \in Range(targets) |-> previous'[name]]
    BY <1>5
  <2> QED BY <1>13, <2>1
<1>15. truth' \in [Names -> Amounts] /\ \A name \in Names :
         truth'[name] = [seconds |-> 0, bytes |-> 0, calls |-> 0]
  BY <1>8 DEF Amounts
<1>16. SamplingTypes'
  <2>1. turn' \in Nat \ {0}
    BY <1>1, <1>6
  <2>2. elapsed' \in Nat /\ elapsed' <= window'.duration
    BY <1>7, <1>9, <1>10
  <2>3. samples' \in Seq(Samples) /\ DOMAIN samples' = {}
    BY <1>7
  <2>4. window'.targets \in Seq(Names) /\ window'.duration \in Nat /\ window'.interval \in Nat
    BY <1>1, <1>9, <1>10
  <2>5. previous' \in [Range(window'.targets) -> Readings]
    BY <1>10, <1>14
  <2> QED BY <1>11, <1>15, <2>1, <2>2, <2>3, <2>4, <2>5, Zenon DEF SamplingTypes
<1>17. ReadingsAreCounters'
  <2> SUFFICES ASSUME NEW name \in Range(targets)
               PROVE  /\ previous'[name].at <= elapsed'
                      /\ truth'[name].seconds <= previous'[name].at
                      /\ previous'[name].ok => /\ previous'[name].owner = process'[name].owner
                                               /\ previous'[name].bytes = process'[name].bytes
                                               /\ previous'[name].calls = process'[name].calls
    BY <1>10, Zenon DEF ReadingsAreCounters
  <2> QED BY <1>7, <1>12, <1>13, <1>15
<1>18. TruthIsSummed'
  <2>1. \A name \in Names : Successful(name)' = {}
    BY <1>7 DEF Successful
  <2> QED BY <1>15, <2>1, SumEmpty DEF TruthIsSummed
<1> QED BY <1>16, <1>17, <1>18 DEF SamplingInv

\* So does the sleep before the next round.
LEMMA SleepSampling == SamplingInv /\ Sleep => SamplingInv'
<1> SUFFICES ASSUME SamplingInv, Sleep PROVE SamplingInv'
  OBVIOUS
<1>1. /\ elapsed < window.duration /\ turn' = 1
      /\ elapsed' = elapsed + (IF window.interval > window.duration - elapsed
                               THEN window.duration - elapsed ELSE window.interval)
      /\ UNCHANGED <<process, window, previous, samples, truth>>
  BY DEF Sleep
<1>2. elapsed' \in Nat /\ elapsed' <= window.duration /\ elapsed <= elapsed'
  BY <1>1 DEF SamplingInv, SamplingTypes
<1>3. SamplingTypes'
  BY <1>1, <1>2 DEF SamplingInv, SamplingTypes
<1>4. ReadingsAreCounters'
  <2> SUFFICES ASSUME NEW name \in Range(window.targets) PROVE previous[name].at <= elapsed'
    BY <1>1 DEF SamplingInv, ReadingsAreCounters
  <2>1. previous[name].at <= elapsed
    BY DEF SamplingInv, ReadingsAreCounters
  <2>2. previous[name].at \in Nat /\ elapsed \in Nat
    BY DEF SamplingInv, SamplingTypes, Readings
  <2> QED BY <1>2, <2>1, <2>2
<1>5. TruthIsSummed'
  BY <1>1 DEF SamplingInv, TruthIsSummed, Successful, Seconds, BytesRead, CallsRead
<1> QED BY <1>3, <1>4, <1>5 DEF SamplingInv

\* A process that transferred more.
Grown(q, b, c) == [q EXCEPT !.bytes = @ + b, !.calls = @ + c]

\* Its counters are counters.
LEMMA GrownIs ==
  ASSUME NEW q \in Processes, NEW b \in Nat, NEW c \in Nat
  PROVE  /\ Grown(q, b, c) \in Processes
         /\ Grown(q, b, c).owner = q.owner /\ Grown(q, b, c).bytes = q.bytes + b
         /\ Grown(q, b, c).calls = q.calls + c
         /\ q.owner \in Nat /\ q.bytes \in Nat /\ q.calls \in Nat
<1>1. q.owner \in Nat /\ q.bytes \in Nat /\ q.calls \in Nat /\ q.bytes + b \in Nat /\ q.calls + c \in Nat
  BY DEF Processes
<1>2. \A m, n \in Nat : [q EXCEPT !.bytes = m, !.calls = n] \in Processes
  BY DEF Processes
<1>3. Grown(q, b, c) \in Processes
  BY <1>1, <1>2 DEF Grown
<1>4. Grown(q, b, c).owner = q.owner /\ Grown(q, b, c).bytes = q.bytes + b /\ Grown(q, b, c).calls = q.calls + c
  BY DEF Grown, Processes
<1> QED BY <1>1, <1>3, <1>4

\* The counters of a process that works grow, unless no time passes.
LEMMA WorkedIs ==
  ASSUME NEW q \in Processes, NEW time \in Nat, NEW r \in Worked(q, time)
  PROVE  /\ r \in Processes /\ r.owner = q.owner /\ q.bytes <= r.bytes /\ q.calls <= r.calls
         /\ time = 0 => q.bytes = r.bytes /\ q.calls = r.calls
<1>1. PICK w \in Work : r = Grown(q, time * w.bytes, time * w.calls)
  BY DEF Worked, Grown
<1>2. PICK b \in Nat, c \in Nat : r = Grown(q, b, c) /\ (time = 0 => b = 0 /\ c = 0)
  BY <1>1, SamplingAssumption
<1>3. /\ r \in Processes /\ r.owner = q.owner /\ r.bytes = q.bytes + b /\ r.calls = q.calls + c
      /\ q.bytes \in Nat /\ q.calls \in Nat
  BY <1>2, GrownIs
<1> QED BY <1>2, <1>3

\* What became of a process: its counters grow while it is the same.
LEMMA LooksAre ==
  ASSUME NEW p \in Processes, NEW time \in Nat, NEW look \in Looks(p, time)
  PROVE  /\ look[1] \in Processes /\ look[2] \in BOOLEAN
         /\ p.owner <= look[1].owner
         /\ look[1].owner = p.owner => /\ p.bytes <= look[1].bytes /\ p.calls <= look[1].calls
                                       /\ time = 0 => p.bytes = look[1].bytes /\ p.calls = look[1].calls
<1>1. \A q \in Processes : \A r \in Worked(q, time) :
        /\ r \in Processes /\ r.owner = q.owner /\ q.bytes <= r.bytes /\ q.calls <= r.calls
        /\ time = 0 => q.bytes = r.bytes /\ q.calls = r.calls
  BY WorkedIs
<1>2. CASE look = <<[p EXCEPT !.alive = FALSE], FALSE>>
  <2> DEFINE e == [p EXCEPT !.alive = FALSE]
  <2>1. /\ e \in Processes /\ e.owner = p.owner /\ e.bytes = p.bytes /\ e.calls = p.calls
        /\ p.owner \in Nat /\ p.bytes \in Nat /\ p.calls \in Nat
    BY DEF Processes
  <2>2. look[1] = e /\ look[2] = FALSE
    BY <1>2
  <2> HIDE DEF e
  <2>3. p.owner <= look[1].owner
    BY <2>1, <2>2
  <2>4. p.bytes <= look[1].bytes
    BY <2>1, <2>2
  <2>5. p.calls <= look[1].calls
    BY <2>1, <2>2
  <2>6. look[1] \in Processes
    BY <2>1, <2>2
  <2> QED BY <2>1, <2>2, <2>3, <2>4, <2>5, <2>6
<1>3. CASE look \in Replaced(p, time) \X {TRUE}
  <2> DEFINE q == [alive |-> TRUE, owner |-> p.owner + 1, bytes |-> 0, calls |-> 0]
  <2>1. q \in Processes /\ q.owner = p.owner + 1 /\ p.owner \in Nat
    BY DEF Processes
  <2>2. look[1] \in Worked(q, time) /\ look[2] = TRUE
    BY <1>3 DEF Replaced
  <2> HIDE DEF q
  <2>3. look[1] \in Processes /\ look[1].owner = p.owner + 1
    BY <1>1, <2>1, <2>2
  <2>4. p.owner <= look[1].owner /\ look[1].owner # p.owner
    BY <2>1, <2>3
  <2> QED BY <2>2, <2>3, <2>4
<1>4. CASE look \in Worked(p, time) \X BOOLEAN
  <2>1. look[1] \in Worked(p, time) /\ look[2] \in BOOLEAN
    BY <1>4
  <2> DEFINE r == look[1]
  <2>2. /\ r \in Processes /\ r.owner = p.owner /\ p.bytes <= r.bytes /\ p.calls <= r.calls
        /\ time = 0 => p.bytes = r.bytes /\ p.calls = r.calls
    BY <1>1, <2>1
  <2>3. p.owner <= r.owner
    <3>1. p.owner \in Nat
      BY DEF Processes
    <3> QED BY <2>2, <3>1
  <2> HIDE DEF r
  <2>4. look[1] = r
    BY DEF r
  <2> QED BY <2>1, <2>2, <2>3, <2>4, Zenon
<1> QED BY <1>2, <1>3, <1>4 DEF Looks

\* What a reading says of the interval since the last one: it is good exactly
\* if both readings are and time passed, if the PID stayed with its process.
ReadStep(name, p, after, rates) ==
  LET before == previous[name]
      spent == elapsed - before.at
      both == before.ok /\ after.ok
  IN /\ process' = [process EXCEPT ![name] = p]
     /\ samples' = Append(samples, [name |-> name, seconds |-> spent, rates |-> rates])
     /\ previous' = [previous EXCEPT ![name] = after]
     /\ truth' = IF both /\ before.owner = after.owner
                 THEN [truth EXCEPT ![name] = [seconds |-> @.seconds + spent,
                                               bytes |-> @.bytes + (after.bytes - before.bytes),
                                               calls |-> @.calls + (after.calls - before.calls)]]
                 ELSE truth
     /\ name \in Range(window.targets) /\ name \in Names
     /\ p \in Processes /\ process[name].owner <= p.owner
     /\ after \in Readings /\ after.at = elapsed
     /\ after.ok => after.owner = p.owner /\ after.bytes = p.bytes /\ after.calls = p.calls
     /\ rates \in [ok : BOOLEAN, bytes : Int, calls : Int]
     /\ rates.ok => /\ both /\ spent > 0
                    /\ rates.bytes = after.bytes - before.bytes /\ rates.calls = after.calls - before.calls
                    /\ before.bytes <= after.bytes /\ before.calls <= after.calls
     /\ both /\ before.owner = after.owner =>
          /\ before.bytes <= after.bytes /\ before.calls <= after.calls
          /\ spent > 0 => rates.ok
          /\ spent = 0 => after.bytes = before.bytes /\ after.calls = before.calls

\* One read of a process is such a step.
LEMMA ReadIs ==
  ASSUME SamplingTypes, ReadingsAreCounters, Read
  PROVE  /\ \E name, p, after, rates : ReadStep(name, p, after, rates)
         /\ turn' = turn + 1 /\ UNCHANGED <<window, elapsed>>
<1> DEFINE name == window.targets[turn]
           before == previous[name]
           spent == elapsed - before.at
<1>1. name \in Range(window.targets) /\ name \in Names
  <2>1. turn \in DOMAIN window.targets
    BY DEF SamplingTypes, Read, RoundEnded
  <2> QED BY <2>1 DEF SamplingTypes, Range
<1>2. process[name] \in Processes /\ before \in Readings /\ spent \in Nat /\ elapsed \in Nat
  <2>1. process[name] \in Processes /\ before \in Readings
    BY <1>1 DEF SamplingTypes
  <2>2. before.at \in Nat
    BY <2>1 DEF Readings
  <2>3. before.at <= elapsed /\ elapsed \in Nat
    BY <1>1 DEF SamplingTypes, ReadingsAreCounters
  <2> HIDE DEF before
  <2> QED BY <2>1, <2>2, <2>3
<1>3. PICK look \in Looks(process[name], spent) :
         LET p == look[1]
             after == sampleProcess(p, look[2], elapsed)
             rates == ratesForSamples(before, after)
             same == before.ok /\ after.ok /\ before.owner = after.owner
         IN /\ process' = [process EXCEPT ![name] = p]
            /\ samples' = Append(samples, [name |-> name, seconds |-> after.at - before.at, rates |-> rates])
            /\ previous' = [previous EXCEPT ![name] = after]
            /\ truth' = IF same THEN [truth EXCEPT ![name] = [seconds |-> @.seconds + elapsed - before.at,
                                                              bytes |-> @.bytes + after.bytes - before.bytes,
                                                              calls |-> @.calls + after.calls - before.calls]]
                        ELSE truth
  BY DEF Read
<1> DEFINE p == look[1]
           after == sampleProcess(p, look[2], elapsed)
           rates == ratesForSamples(before, after)
<1> HIDE DEF name, before, spent
<1>4. /\ p \in Processes /\ look[2] \in BOOLEAN /\ process[name].owner <= p.owner
      /\ p.owner = process[name].owner => /\ process[name].bytes <= p.bytes /\ process[name].calls <= p.calls
                                          /\ spent = 0 => process[name].bytes = p.bytes
                                               /\ process[name].calls = p.calls
  BY <1>2, LooksAre
<1> HIDE DEF p
<1>5. after \in Readings /\ after.at = elapsed
      /\ (after.ok => after.owner = p.owner /\ after.bytes = p.bytes /\ after.calls = p.calls)
  BY <1>2, <1>4 DEF sampleProcess, NotRead, Readings, Processes
<1> HIDE DEF after
<1>6. before.ok => /\ before.owner = process[name].owner
                   /\ before.bytes = process[name].bytes /\ before.calls = process[name].calls
  BY <1>1 DEF before, ReadingsAreCounters
<1>7. spent = elapsed - before.at /\ spent \in Nat
  BY <1>2 DEF spent
<1>8. before.bytes \in Nat /\ before.calls \in Nat /\ after.bytes \in Nat /\ after.calls \in Nat
        /\ before.at \in Nat
  BY <1>2, <1>5 DEF Readings
<1>9. /\ rates \in [ok : BOOLEAN, bytes : Int, calls : Int]
      /\ rates.ok <=> /\ before.ok /\ after.ok /\ spent > 0
                      /\ before.bytes <= after.bytes /\ before.calls <= after.calls
      /\ rates.ok => rates.bytes = after.bytes - before.bytes /\ rates.calls = after.calls - before.calls
  <2>1. CASE before.ok /\ after.ok
    <3>1. rates = [ok |-> /\ after.at > before.at
                          /\ after.bytes >= before.bytes /\ after.calls >= before.calls,
                   bytes |-> after.bytes - before.bytes, calls |-> after.calls - before.calls]
      BY <2>1 DEF ratesForSamples, CalculateDelta
    <3> HIDE DEF rates
    <3> QED BY <1>2, <1>5, <1>7, <1>8, <2>1, <3>1
  <2>2. CASE ~(before.ok /\ after.ok)
    BY <2>2 DEF ratesForSamples
  <2> QED BY <2>1, <2>2
<1> HIDE DEF rates
<1>10. before.ok /\ after.ok /\ before.owner = after.owner =>
         /\ before.bytes <= after.bytes /\ before.calls <= after.calls
         /\ spent > 0 => rates.ok
         /\ spent = 0 => after.bytes = before.bytes /\ after.calls = before.calls
  BY <1>4, <1>5, <1>6, <1>9
<1>11. truth' = IF before.ok /\ after.ok /\ before.owner = after.owner
                THEN [truth EXCEPT ![name] = [seconds |-> @.seconds + spent,
                                              bytes |-> @.bytes + (after.bytes - before.bytes),
                                              calls |-> @.calls + (after.calls - before.calls)]]
                ELSE truth
  <2>1. truth[name] \in Amounts
    BY <1>1 DEF SamplingTypes
  <2>2. truth[name].seconds \in Nat /\ truth[name].bytes \in Nat /\ truth[name].calls \in Nat
    BY <2>1 DEF Amounts
  <2>3. /\ truth[name].seconds + elapsed - before.at = truth[name].seconds + spent
        /\ truth[name].bytes + after.bytes - before.bytes = truth[name].bytes + (after.bytes - before.bytes)
        /\ truth[name].calls + after.calls - before.calls = truth[name].calls + (after.calls - before.calls)
    BY <1>2, <1>7, <1>8, <2>2
  <2> QED BY <1>3, <2>3, Zenon DEF after, p
<1>12. samples' = Append(samples, [name |-> name, seconds |-> spent, rates |-> rates])
  BY <1>3, <1>5, <1>7 DEF after, p, rates
<1>13. process' = [process EXCEPT ![name] = p] /\ previous' = [previous EXCEPT ![name] = after]
  BY <1>3 DEF after, p
<1>14. ReadStep(name, p, after, rates)
  BY <1>1, <1>4, <1>5, <1>7, <1>9, <1>10, <1>11, <1>12, <1>13, Zenon DEF ReadStep, before, spent
<1>15. turn' = turn + 1 /\ UNCHANGED <<window, elapsed>>
  BY DEF Read
<1> QED BY <1>14, <1>15, Zenon

\* A read keeps the invariant.
LEMMA ReadSampling == SamplingInv /\ Read => SamplingInv'
<1> SUFFICES ASSUME SamplingInv, Read PROVE SamplingInv'
  OBVIOUS
<1>0. SamplingTypes /\ ReadingsAreCounters /\ TruthIsSummed
  BY DEF SamplingInv
<1>1. PICK name, p, after, rates : ReadStep(name, p, after, rates)
  BY <1>0, ReadIs
<1>2. turn' = turn + 1 /\ UNCHANGED <<window, elapsed>>
  BY <1>0, ReadIs
<1> DEFINE before == previous[name]
           spent == elapsed - before.at
           same == before.ok /\ after.ok /\ before.owner = after.owner
           sample == [name |-> name, seconds |-> spent, rates |-> rates]
           n == Len(samples)
<1>3. name \in Range(window.targets) /\ name \in Names /\ p \in Processes /\ after \in Readings
  BY <1>1 DEF ReadStep
<1>4. process' = [process EXCEPT ![name] = p] /\ previous' = [previous EXCEPT ![name] = after]
  BY <1>1 DEF ReadStep
<1>5. samples' = Append(samples, sample)
  BY <1>1 DEF ReadStep
<1>6. truth' = IF same THEN [truth EXCEPT ![name] = [seconds |-> @.seconds + spent,
                                                     bytes |-> @.bytes + (after.bytes - before.bytes),
                                                     calls |-> @.calls + (after.calls - before.calls)]]
               ELSE truth
  BY <1>1 DEF ReadStep
<1>7. after.at = elapsed /\ (after.ok => after.owner = p.owner /\ after.bytes = p.bytes /\ after.calls = p.calls)
  BY <1>1 DEF ReadStep
<1>8. process[name].owner <= p.owner /\ process[name].owner \in Nat
  <2>1. process[name] \in Processes
    BY <1>0, <1>3 DEF SamplingTypes
  <2> QED BY <1>1, <2>1 DEF ReadStep, Processes
<1>9. /\ rates \in [ok : BOOLEAN, bytes : Int, calls : Int]
      /\ rates.ok => /\ before.ok /\ after.ok /\ spent > 0
                     /\ rates.bytes = after.bytes - before.bytes /\ rates.calls = after.calls - before.calls
                     /\ before.bytes <= after.bytes /\ before.calls <= after.calls
  BY <1>1 DEF ReadStep
<1>10. same => /\ before.bytes <= after.bytes /\ before.calls <= after.calls
               /\ spent > 0 => rates.ok
               /\ spent = 0 => after.bytes = before.bytes /\ after.calls = before.calls
  BY <1>1 DEF ReadStep
<1>11. /\ before \in Readings /\ before.at \in Nat /\ before.bytes \in Nat /\ before.calls \in Nat
       /\ after.bytes \in Nat /\ after.calls \in Nat /\ after.at \in Nat
       /\ before.at <= elapsed /\ elapsed \in Nat /\ spent \in Nat
       /\ truth[name].seconds <= before.at
  <2>1. before \in Readings /\ elapsed \in Nat
    BY <1>0, <1>3 DEF SamplingTypes
  <2>2. before.at <= elapsed /\ truth[name].seconds <= before.at
    BY <1>0, <1>3 DEF ReadingsAreCounters
  <2> HIDE DEF before
  <2>3. before.at \in Nat /\ before.bytes \in Nat /\ before.calls \in Nat
    BY <2>1 DEF Readings
  <2>4. after.bytes \in Nat /\ after.calls \in Nat /\ after.at \in Nat
    BY <1>3 DEF Readings
  <2> QED BY <2>1, <2>2, <2>3, <2>4
<1>12. truth[name] \in Amounts /\ truth[name].seconds \in Nat /\ truth[name].bytes \in Nat
         /\ truth[name].calls \in Nat
  <2>1. truth[name] \in Amounts
    BY <1>0, <1>3 DEF SamplingTypes
  <2> QED BY <2>1 DEF Amounts
<1> DEFINE grown == [seconds |-> truth[name].seconds + spent,
                     bytes |-> truth[name].bytes + (after.bytes - before.bytes),
                     calls |-> truth[name].calls + (after.calls - before.calls)]
<1>13. same => grown \in Amounts
  <2> HAVE same
  <2>1. after.bytes - before.bytes \in Nat /\ after.calls - before.calls \in Nat
    BY <1>10, <1>11
  <2> HIDE DEF spent, before
  <2> QED BY <1>11, <1>12, <2>1 DEF Amounts
<1>14. truth' = IF same THEN [truth EXCEPT ![name] = grown] ELSE truth
  BY <1>6, Zenon
<1>15. sample \in Samples
  <2> HIDE DEF spent, before
  <2> QED BY <1>3, <1>9, <1>11 DEF Samples
<1> HIDE DEF before, spent, same, sample, grown
<1>16. samples \in Seq(Samples) /\ n \in Nat
  BY <1>0 DEF SamplingTypes
<1>17. /\ samples' \in Seq(Samples) /\ DOMAIN samples = 1..n /\ DOMAIN samples' = 1..(n + 1)
       /\ samples'[n + 1] = sample /\ \A i \in 1..n : samples'[i] = samples[i]
  BY <1>5, <1>15, <1>16
<1>18. sample.name = name /\ sample.seconds = spent /\ sample.rates = rates
  BY DEF sample
<1> HIDE DEF n
<1>19. SamplingTypes'
  <2>1. process' \in [Names -> Processes]
    BY <1>0, <1>3, <1>4 DEF SamplingTypes
  <2>2. previous' \in [Range(window'.targets) -> Readings]
    BY <1>0, <1>2, <1>3, <1>4 DEF SamplingTypes
  <2>3. truth' \in [Names -> Amounts]
    BY <1>0, <1>3, <1>13, <1>14 DEF SamplingTypes
  <2>4. turn' \in Nat \ {0}
    BY <1>0, <1>2 DEF SamplingTypes
  <2>5. window'.targets \in Seq(Names) /\ window'.duration \in Nat /\ window'.interval \in Nat
        /\ elapsed' \in Nat /\ elapsed' <= window'.duration
    BY <1>0, <1>2 DEF SamplingTypes
  <2>6. \A i \in DOMAIN samples' : samples'[i].rates.ok
          => samples'[i].rates.bytes \in Nat /\ samples'[i].rates.calls \in Nat
    <3> SUFFICES ASSUME NEW i \in 1..(n + 1), samples'[i].rates.ok
                 PROVE  samples'[i].rates.bytes \in Nat /\ samples'[i].rates.calls \in Nat
      BY <1>17
    <3>1. CASE i = n + 1
      BY <1>9, <1>11, <1>17, <1>18, <3>1
    <3>2. CASE i \in 1..n
      <4>1. samples'[i] = samples[i]
        BY <1>17, <3>2
      <4> QED BY <1>0, <1>17, <3>2, <4>1 DEF SamplingTypes
    <3> QED BY <1>16, <3>1, <3>2
  <2> QED BY <1>17, <2>1, <2>2, <2>3, <2>4, <2>5, <2>6, Zenon DEF SamplingTypes
<1>20. ReadingsAreCounters'
  <2> SUFFICES ASSUME NEW other \in Range(window.targets)
               PROVE  /\ previous'[other].at <= elapsed
                      /\ truth'[other].seconds <= previous'[other].at
                      /\ previous'[other].ok => /\ previous'[other].owner = process'[other].owner
                                                /\ previous'[other].bytes = process'[other].bytes
                                                /\ previous'[other].calls = process'[other].calls
    BY <1>2, Zenon DEF ReadingsAreCounters
  <2>1. other \in Names /\ window.targets \in Seq(Names)
    BY <1>0 DEF SamplingTypes, Range
  <2>2. CASE other = name
    <3>1. previous'[other] = after /\ process'[other] = p
      BY <1>0, <1>3, <1>4, <2>2 DEF SamplingTypes
    <3>2. truth'[other].seconds <= elapsed
      <4>1. CASE same
        <5>1. truth'[other] = grown
          BY <1>0, <1>3, <1>14, <2>2, <4>1 DEF SamplingTypes
        <5>2. grown.seconds = truth[name].seconds + spent
          BY DEF grown
        <5> QED BY <1>11, <1>12, <5>1, <5>2 DEF spent
      <4>2. CASE ~same
        BY <1>11, <1>12, <1>14, <2>2, <4>2
      <4> QED BY <4>1, <4>2
    <3> QED BY <1>7, <1>11, <3>1, <3>2
  <2>3. CASE other # name
    <3>1. previous'[other] = previous[other] /\ process'[other] = process[other] /\ truth'[other] = truth[other]
      BY <1>0, <1>3, <1>4, <1>14, <2>1, <2>3 DEF SamplingTypes
    <3> QED BY <1>0, <3>1 DEF ReadingsAreCounters
  <2> QED BY <2>2, <2>3
<1>21. TruthIsSummed'
  <2> SUFFICES ASSUME NEW other \in Names, process'[other].owner = 0
               PROVE  truth'[other] = [seconds |-> SumFunctionOnSet(Seconds', Successful(other)'),
                                       bytes |-> SumFunctionOnSet(BytesRead', Successful(other)'),
                                       calls |-> SumFunctionOnSet(CallsRead', Successful(other)')]
    BY Zenon DEF TruthIsSummed
  <2> DEFINE good == Successful(other)
  <2>1. process[other].owner = 0
    BY <1>0, <1>3, <1>4, <1>8 DEF SamplingTypes
  <2>2. truth[other] = [seconds |-> SumFunctionOnSet(Seconds, good),
                        bytes |-> SumFunctionOnSet(BytesRead, good),
                        calls |-> SumFunctionOnSet(CallsRead, good)]
    BY <1>0, <2>1 DEF TruthIsSummed
  <2>3. good \subseteq 1..n /\ IsFiniteSet(good)
    <3>1. good \subseteq 1..n
      BY <1>17 DEF Successful
    <3>2. IsFiniteSet(1..n)
      BY <1>16, FS_Interval
    <3> QED BY <3>1, <3>2, FS_Subset
  <2>4. \A i \in good : /\ Seconds[i] \in Nat /\ BytesRead[i] \in Nat /\ CallsRead[i] \in Nat
                        /\ Seconds'[i] = Seconds[i] /\ BytesRead'[i] = BytesRead[i]
                             /\ CallsRead'[i] = CallsRead[i]
    <3> TAKE i \in good
    <3>1. i \in 1..n /\ i \in 1..(n + 1) /\ samples[i].rates.ok /\ samples[i] \in Samples
            /\ samples'[i] = samples[i]
      BY <1>16, <1>17, <2>3 DEF Successful
    <3>2. samples[i].rates.bytes \in Nat /\ samples[i].rates.calls \in Nat /\ samples[i].seconds \in Nat
      BY <1>0, <1>17, <3>1 DEF SamplingTypes, Samples
    <3> HIDE DEF good
    <3> QED BY <1>17, <3>1, <3>2 DEF Seconds, BytesRead, CallsRead
  <2>5. Successful(other)' = {i \in 1..(n + 1) : samples'[i].name = other /\ samples'[i].rates.ok /\ samples'[i].seconds > 0}
    BY <1>17 DEF Successful
  <2>6. good = {i \in 1..n : samples[i].name = other /\ samples[i].rates.ok /\ samples[i].seconds > 0}
    BY <1>17 DEF Successful
  <2>7. /\ SumFunctionOnSet(Seconds', good) = SumFunctionOnSet(Seconds, good)
        /\ SumFunctionOnSet(BytesRead', good) = SumFunctionOnSet(BytesRead, good)
        /\ SumFunctionOnSet(CallsRead', good) = SumFunctionOnSet(CallsRead, good)
    <3> HIDE DEF good
    <3> QED BY <2>3, <2>4, SumEqual
  <2> HIDE DEF good
  <2>8. CASE other = name /\ rates.ok
    <3>1. before.ok /\ after.ok /\ spent > 0
          /\ rates.bytes = after.bytes - before.bytes /\ rates.calls = after.calls - before.calls
      BY <1>9, <2>8
    <3>2. samples'[n + 1].name = other /\ samples'[n + 1].rates.ok /\ samples'[n + 1].seconds > 0
      BY <1>17, <1>18, <2>8, <3>1
    <3>3. Successful(other)' = good \cup {n + 1} /\ n + 1 \notin good
      <4>1. n + 1 \notin 1..n /\ \A i \in 1..(n + 1) : i \in 1..n \/ i = n + 1
        BY <1>16
      <4>2. n + 1 \in 1..(n + 1) /\ \A i \in 1..n : i \in 1..(n + 1)
        BY <1>16
      <4>3. \A i \in 1..n : samples'[i] = samples[i]
        BY <1>17
      <4>4. \A i : i \in Successful(other)' <=> i \in good \/ i = n + 1
        BY <2>5, <2>6, <3>2, <4>2, <4>1, <4>3
      <4>5. \A i : i \in Successful(other)' <=> i \in good \cup {n + 1}
        BY <4>4, Zenon
      <4>6. Successful(other)' = good \cup {n + 1}
        BY <4>5, Zenon
      <4> QED BY <2>3, <4>1, <4>6, Zenon
    <3>4. same
      <4>1. process'[name] = p
        BY <1>0, <1>3, <1>4 DEF SamplingTypes
      <4>2. p.owner = 0 /\ process[name].owner = 0
        BY <2>1, <2>8, <4>1
      <4>3. before.owner = process[name].owner
        BY <1>0, <1>3, <3>1 DEF ReadingsAreCounters, before
      <4> QED BY <1>7, <3>1, <4>2, <4>3 DEF same
    <3>5. truth'[other] = grown
      BY <1>0, <1>3, <1>14, <2>8, <3>4 DEF SamplingTypes
    <3>6. /\ Seconds'[n + 1] = spent /\ BytesRead'[n + 1] = after.bytes - before.bytes
          /\ CallsRead'[n + 1] = after.calls - before.calls
      <4>1. n + 1 \in 1..(n + 1)
        BY <1>16
      <4> QED BY <1>17, <1>18, <3>1, <4>1 DEF Seconds, BytesRead, CallsRead
    <3>7. spent \in Nat /\ after.bytes - before.bytes \in Nat /\ after.calls - before.calls \in Nat
      BY <1>9, <1>11, <2>8
    <3>8. \A i \in good \cup {n + 1} : Seconds'[i] \in Nat /\ BytesRead'[i] \in Nat /\ CallsRead'[i] \in Nat
      BY <2>4, <3>6, <3>7, Zenon
    <3>9. /\ SumFunctionOnSet(Seconds', good \cup {n + 1}) = SumFunctionOnSet(Seconds', good) + Seconds'[n + 1]
          /\ SumFunctionOnSet(BytesRead', good \cup {n + 1})
               = SumFunctionOnSet(BytesRead', good) + BytesRead'[n + 1]
          /\ SumFunctionOnSet(CallsRead', good \cup {n + 1})
               = SumFunctionOnSet(CallsRead', good) + CallsRead'[n + 1]
      BY <2>3, <3>3, <3>8, SumAdd
    <3>10. /\ SumFunctionOnSet(Seconds, good) = truth[name].seconds
           /\ SumFunctionOnSet(BytesRead, good) = truth[name].bytes
           /\ SumFunctionOnSet(CallsRead, good) = truth[name].calls
      BY <2>2, <2>8
    <3> QED BY <2>7, <3>3, <3>5, <3>6, <3>9, <3>10, Zenon DEF grown
  <2>9. CASE ~(other = name /\ rates.ok)
    <3>1. Successful(other)' = good
      <4>1. ~(samples'[n + 1].name = other /\ samples'[n + 1].rates.ok)
        BY <1>17, <1>18, <2>9
      <4>2. \A i \in 1..(n + 1) : i \in 1..n \/ i = n + 1
        BY <1>16
      <4>3. \A i \in 1..n : i \in 1..(n + 1) /\ samples'[i] = samples[i]
        BY <1>16, <1>17
      <4> QED BY <2>5, <2>6, <4>1, <4>2, <4>3, Zenon
    <3>2. truth'[other] = truth[other]
      <4>1. CASE other # name
        BY <1>0, <1>3, <1>14, <4>1 DEF SamplingTypes
      <4>2. CASE ~same
        BY <1>14, <4>2
      <4>3. CASE other = name /\ same
        <5>1. spent = 0 /\ after.bytes = before.bytes /\ after.calls = before.calls
          BY <1>10, <1>11, <2>9, <4>3
        <5>2. truth'[other] = grown
          BY <1>0, <1>3, <1>14, <4>3 DEF SamplingTypes
        <5>3. grown = [seconds |-> truth[name].seconds, bytes |-> truth[name].bytes, calls |-> truth[name].calls]
          BY <1>11, <1>12, <5>1 DEF grown
        <5>4. truth[name] = [seconds |-> truth[name].seconds, bytes |-> truth[name].bytes, calls |-> truth[name].calls]
          BY <1>12 DEF Amounts
        <5> QED BY <4>3, <5>2, <5>3, <5>4, Zenon
      <4> QED BY <4>1, <4>2, <4>3
    <3> QED BY <2>2, <2>7, <3>1, <3>2, Zenon
  <2> QED BY <2>8, <2>9
<1> QED BY <1>19, <1>20, <1>21 DEF SamplingInv

\* So does every step of the window.
LEMMA SamplingStep ==
  SamplingInv /\ request \in Requests /\ [EvidenceNext]_evidenceVars => (SamplingInv /\ request \in Requests)'
<1> SUFFICES ASSUME SamplingInv, request \in Requests, [EvidenceNext]_evidenceVars
             PROVE  SamplingInv' /\ (request \in Requests)'
  OBVIOUS
<1>1. UNCHANGED sampling => SamplingInv'
  <2> HAVE UNCHANGED sampling
  <2>0. SamplingTypes /\ ReadingsAreCounters /\ TruthIsSummed
          /\ UNCHANGED <<process, window, previous, turn, elapsed, samples, truth>>
    BY DEF SamplingInv, sampling
  <2>1. SamplingTypes'
    BY <2>0 DEF SamplingTypes
  <2>2. ReadingsAreCounters'
    BY <2>0 DEF ReadingsAreCounters
  <2>3. TruthIsSummed'
    BY <2>0 DEF TruthIsSummed, Successful, Seconds, BytesRead, CallsRead
  <2> QED BY <2>1, <2>2, <2>3 DEF SamplingInv
<1>2. CASE Open
  BY <1>2, OpenSampling DEF Open
<1>3. CASE Refuse
  BY <1>1, <1>3 DEF Refuse
<1>4. CASE Sample
  BY <1>4, SleepSampling, ReadSampling DEF Sample
<1>5. CASE Diagnose
  BY <1>1, <1>5 DEF Diagnose
<1>6. CASE Snapshot
  BY <1>1, <1>6 DEF Snapshot
<1>7. CASE Done \/ UNCHANGED evidenceVars
  BY <1>1, <1>7 DEF Done, evidenceVars
<1> QED BY <1>2, <1>3, <1>4, <1>5, <1>6, <1>7 DEF EvidenceNext

\* What is averaged over time is nowhere above its peak.
LEMMA AverageIs ==
  ASSUME NEW S, IsFiniteSet(S), S # {}, NEW f, NEW e, \A x \in S : f[x] \in Nat /\ e[x] \in Nat /\ e[x] > 0
  PROVE  /\ SumFunctionOnSet(e, S) \in Nat /\ SumFunctionOnSet(e, S) > 0 /\ SumFunctionOnSet(f, S) \in Nat
         /\ Rate(SumFunctionOnSet(f, S), SumFunctionOnSet(e, S)) \in Rates
         /\ Highest({Rate(f[x], e[x]) : x \in S}) \in Rates
         /\ AtLeast(Highest({Rate(f[x], e[x]) : x \in S}), Rate(SumFunctionOnSet(f, S), SumFunctionOnSet(e, S)))
<1> DEFINE n == SumFunctionOnSet(f, S)
           d == SumFunctionOnSet(e, S)
           R == {Rate(f[x], e[x]) : x \in S}
           top == Highest(R)
<1>1. n \in Nat /\ d \in Nat
  BY SumType
<1>2. d > 0
  <2>1. PICK x \in S : TRUE
    OBVIOUS
  <2>2. e[x] <= d
    BY SumMember
  <2> HIDE DEF d
  <2> QED BY <1>1, <2>2
<1>3. R \in SUBSET Rates /\ R # {}
  BY RateIs
<1>4. IsFiniteSet(R)
  <2> DEFINE g == [x \in S |-> Rate(f[x], e[x])]
  <2>1. g \in Surjection(S, R)
    BY DEF Surjection
  <2> QED BY <2>1, FS_Surjection
<1> HIDE DEF n, d
<1>5. top \in R /\ \A r \in R : AtLeast(top, r)
  <2> HIDE DEF R
  <2> QED BY <1>3, <1>4, HighestIs
<1>6. top \in Rates /\ top.n \in Nat /\ top.d \in Nat
  BY <1>3, <1>5, RateFields
<1>7. \A x \in S : f[x] * top.d <= top.n * e[x]
  <2> TAKE x \in S
  <2> HIDE DEF top
  <2>1. AtLeast(top, Rate(f[x], e[x]))
    BY <1>5
  <2>2. top.n * e[x] >= f[x] * top.d
    BY <2>1, Zenon DEF AtLeast, Rate
  <2>3. top.n * e[x] \in Nat /\ f[x] * top.d \in Nat
    BY <1>6
  <2> QED BY <2>2, <2>3
<1>8. n * top.d <= top.n * d
  <2> HIDE DEF top
  <2> QED BY <1>6, <1>7, SumRatio DEF n, d
<1>9. Rate(n, d) \in Rates /\ Rate(n, d).n = n /\ Rate(n, d).d = d
  BY <1>1, <1>2, RateIs
<1>10. AtLeast(top, Rate(n, d))
  <2> HIDE DEF top
  <2>1. top.n * d \in Nat /\ n * top.d \in Nat
    BY <1>1, <1>6
  <2> QED BY <1>8, <1>9, <2>1 DEF AtLeast
<1> QED BY <1>1, <1>2, <1>6, <1>9, <1>10 DEF n, d

\* The types of a summary.
SummaryTypes ==
  [available : BOOLEAN, seconds : Nat, bytes : Rates, calls : Rates, maxBytes : Rates, maxCalls : Rates]

\* The samples a summary is made of are of counters that grew over time.
LEMMA GoodSamples ==
  ASSUME SamplingTypes, NEW name
  PROVE  /\ IsFiniteSet(Successful(name))
         /\ \A i \in Successful(name) : /\ BytesRead[i] \in Nat /\ CallsRead[i] \in Nat
                                        /\ Seconds[i] \in Nat /\ Seconds[i] > 0
<1>1. IsFiniteSet(Successful(name))
  <2>1. DOMAIN samples = 1..Len(samples) /\ Len(samples) \in Nat
    BY DEF SamplingTypes
  <2>2. Successful(name) \subseteq 1..Len(samples)
    BY <2>1 DEF Successful
  <2>3. IsFiniteSet(1..Len(samples))
    BY <2>1, FS_Interval
  <2> QED BY <2>2, <2>3, FS_Subset, Zenon
<1>2. ASSUME NEW i \in Successful(name)
      PROVE  BytesRead[i] \in Nat /\ CallsRead[i] \in Nat /\ Seconds[i] \in Nat /\ Seconds[i] > 0
  <2>1. i \in DOMAIN samples /\ samples[i].rates.ok /\ samples[i].seconds > 0
    BY <1>2 DEF Successful
  <2>2. samples[i] \in Samples
    BY <2>1 DEF SamplingTypes
  <2> QED BY <2>1, <2>2 DEF SamplingTypes, Samples, BytesRead, CallsRead, Seconds
<1> QED BY <1>1, <1>2

\* A summary has its type, and its peaks are no less than its averages.
LEMMA SummaryIs ==
  ASSUME SamplingTypes, NEW name
  PROVE  /\ SummaryOf(name) \in SummaryTypes
         /\ SummaryOf(name).available => /\ AtLeast(SummaryOf(name).maxBytes, SummaryOf(name).bytes)
                                         /\ AtLeast(SummaryOf(name).maxCalls, SummaryOf(name).calls)
<1> DEFINE good == Successful(name)
           s == SummaryOf(name)
<1>1. CASE s = Unavailable
  <2>1. Unavailable \in SummaryTypes /\ ~Unavailable.available
    BY NilIs DEF Unavailable, SummaryTypes
  <2> QED BY <1>1, <2>1
<1>2. CASE s # Unavailable
  <2>1. good # {} /\ s = summarizeSamples(name)
    BY <1>2 DEF SummaryOf, summarizeSamples
  <2>2. IsFiniteSet(good) /\ \A i \in good : /\ BytesRead[i] \in Nat /\ CallsRead[i] \in Nat
                                             /\ Seconds[i] \in Nat /\ Seconds[i] > 0
    BY GoodSamples
  <2> HIDE DEF good
  <2> DEFINE seconds == SumFunctionOnSet(Seconds, good)
             bytes == Rate(SumFunctionOnSet(BytesRead, good), seconds)
             calls == Rate(SumFunctionOnSet(CallsRead, good), seconds)
             maxBytes == Highest({Rate(BytesRead[i], Seconds[i]) : i \in good})
             maxCalls == Highest({Rate(CallsRead[i], Seconds[i]) : i \in good})
  <2>3. seconds \in Nat /\ bytes \in Rates /\ maxBytes \in Rates /\ AtLeast(maxBytes, bytes)
    BY <2>1, <2>2, AverageIs
  <2>4. calls \in Rates /\ maxCalls \in Rates /\ AtLeast(maxCalls, calls)
    BY <2>1, <2>2, AverageIs
  <2>5. s = [available |-> TRUE, seconds |-> seconds, bytes |-> bytes, calls |-> calls,
             maxBytes |-> maxBytes, maxCalls |-> maxCalls]
    BY <2>1, Zenon DEF good, summarizeSamples
  <2> HIDE DEF s, seconds, bytes, calls, maxBytes, maxCalls
  <2>6. s \in SummaryTypes /\ s.bytes = bytes /\ s.calls = calls /\ s.maxBytes = maxBytes
          /\ s.maxCalls = maxCalls
    BY <2>3, <2>4, <2>5 DEF SummaryTypes
  <2> QED BY <2>3, <2>4, <2>6 DEF s
<1> QED BY <1>1, <1>2

\* A summary of a PID that stayed with its process is what was transferred.
LEMMA MeasuredIs == SamplingInv => SummaryIsMeasured
<1> SUFFICES ASSUME SamplingInv, NEW name \in DOMAIN previous, process[name].owner = 0
             PROVE  LET s == SummaryOf(name)
                        t == truth[name]
                    IN /\ s.available <=> t.seconds > 0
                       /\ s.available => /\ s.seconds = t.seconds /\ t.seconds <= window.duration
                                         /\ Same(s.bytes, Rate(t.bytes, t.seconds))
                                              /\ Same(s.calls, Rate(t.calls, t.seconds))
                                         /\ AtLeast(s.maxBytes, s.bytes) /\ AtLeast(s.maxCalls, s.calls)
  BY Zenon DEF SummaryIsMeasured
<1> DEFINE good == Successful(name)
           s == SummaryOf(name)
           t == truth[name]
<1>0. SamplingTypes /\ ReadingsAreCounters /\ TruthIsSummed
  BY DEF SamplingInv
<1>1. name \in Range(window.targets) /\ name \in Names
  BY <1>0 DEF SamplingTypes, Range
<1>2. t = [seconds |-> SumFunctionOnSet(Seconds, good), bytes |-> SumFunctionOnSet(BytesRead, good),
           calls |-> SumFunctionOnSet(CallsRead, good)]
  BY <1>0, <1>1 DEF TruthIsSummed
<1>3. t.seconds = SumFunctionOnSet(Seconds, good) /\ t.bytes = SumFunctionOnSet(BytesRead, good)
      /\ t.calls = SumFunctionOnSet(CallsRead, good)
  BY <1>2
<1>4. t.seconds <= window.duration
  <2>1. truth[name] \in Amounts /\ previous[name] \in Readings
    BY <1>0, <1>1 DEF SamplingTypes
  <2>2. truth[name].seconds \in Nat /\ previous[name].at \in Nat
    BY <2>1 DEF Amounts, Readings
  <2>3. previous[name].at <= elapsed /\ truth[name].seconds <= previous[name].at
    BY <1>0, <1>1 DEF ReadingsAreCounters
  <2>4. elapsed \in Nat /\ window.duration \in Nat /\ elapsed <= window.duration
    BY <1>0 DEF SamplingTypes
  <2> QED BY <2>2, <2>3, <2>4
<1>5. s = summarizeSamples(name)
  BY DEF SummaryOf
<1>6. CASE good = {}
  <2>1. t.seconds = 0
    BY <1>3, <1>6, SumEmpty
  <2>2. ~s.available
    BY <1>5, <1>6 DEF summarizeSamples, Unavailable
  <2> QED BY <2>1, <2>2
<1>7. CASE good # {}
  <2>1. IsFiniteSet(good) /\ \A i \in good : /\ BytesRead[i] \in Nat /\ CallsRead[i] \in Nat
                                             /\ Seconds[i] \in Nat /\ Seconds[i] > 0
    BY <1>0, GoodSamples
  <2>2. /\ s.available /\ s.seconds = SumFunctionOnSet(Seconds, good)
        /\ s.bytes = Rate(SumFunctionOnSet(BytesRead, good), SumFunctionOnSet(Seconds, good))
        /\ s.calls = Rate(SumFunctionOnSet(CallsRead, good), SumFunctionOnSet(Seconds, good))
    BY <1>5, <1>7 DEF summarizeSamples
  <2>3. SumFunctionOnSet(Seconds, good) > 0
    <3> HIDE DEF good
    <3> QED BY <1>7, <2>1, AverageIs
  <2>4. AtLeast(s.maxBytes, s.bytes) /\ AtLeast(s.maxCalls, s.calls) /\ s.bytes \in Rates /\ s.calls \in Rates
    <3>1. s \in SummaryTypes /\ (s.available => AtLeast(s.maxBytes, s.bytes) /\ AtLeast(s.maxCalls, s.calls))
      BY <1>0, SummaryIs
    <3> HIDE DEF s
    <3> QED BY <2>2, <3>1 DEF SummaryTypes
  <2>5. Same(s.bytes, Rate(t.bytes, t.seconds)) /\ Same(s.calls, Rate(t.calls, t.seconds))
    <3>1. s.bytes = Rate(t.bytes, t.seconds) /\ s.calls = Rate(t.calls, t.seconds)
      BY <1>3, <2>2, Zenon
    <3> HIDE DEF s, t
    <3> QED BY <2>4, <3>1, AtLeastTotal DEF Same
  <2> HIDE DEF s, t, good
  <2>6. t.seconds > 0
    BY <1>3, <2>3
  <2> QED BY <1>3, <1>4, <2>2, <2>4, <2>5, <2>6 DEF s, t
<1> QED BY <1>6, <1>7

-----------------------------------------------------------------------------
(* From the request to the diagnosis.                                      *)

\* The request names VMs of the inventory, as its command requires.
IsResolved ==
  IF request.discover THEN Discoverable(request.victim) ELSE Resolves(request.victim, request.suspect)

\* The diagnosis the command makes.
Judgement(impact, kernel, later) ==
  IF request.discover THEN collectDiscoveredNoisyNeighborEvidence(Summaries, impact, kernel, later)
  ELSE collectNoisyNeighborEvidence(Summaries, impact, kernel)

Unfinished == phase # "ended" => snapshot = Nothing /\ (request.tool # "capture" => diagnosis = Nothing)
Resolved == phase = "window" /\ ~Observing => IsResolved
OwnSuspect == diagnosis # Nothing /\ ~request.discover => diagnosis.suspect = request.suspect
Judged ==
  Diagnosed =>
    /\ IsResolved
    /\ \E impact \in IF request.experiment THEN Impacts ELSE {NoExperiment},
          kernel \in IF request.ebpf THEN Kernels ELSE {NoKernel},
          later \in IF request.discover THEN DiskMaps ELSE {disks} :
            diagnosis = Judgement(impact, kernel, later)

\* A diagnosis is the one its command makes of this window's summaries, for VMs
\* that were resolved.
DiagnosisInv == request \in Requests /\ Unfinished /\ Resolved /\ OwnSuspect /\ Judged

\* There is none before the window.
LEMMA InitDiagnosis == EvidenceInit => DiagnosisInv
BY DEF EvidenceInit, DiagnosisInv, Unfinished, Resolved, OwnSuspect, Judged, Diagnosed

\* Nothing changes a judgement but the window.
LEMMA JudgementKept ==
  ASSUME UNCHANGED <<sampling, request, disks>>
  PROVE  \A impact, kernel, later : Judgement(impact, kernel, later)' = Judgement(impact, kernel, later)
<1>1. Summaries' = Summaries
  BY DEF Summaries, SummaryOf, summarizeSamples, Successful, Seconds, BytesRead, CallsRead, sampling
<1> QED BY <1>1 DEF Judgement, collectDiscoveredNoisyNeighborEvidence, collectNoisyNeighborEvidence, Attributed

\* The diagnosis is a judgement.
LEMMA DiagnoseStep == DiagnosisInv /\ Diagnose => DiagnosisInv'
<1> SUFFICES ASSUME DiagnosisInv, Diagnose PROVE DiagnosisInv'
  OBVIOUS
<1>1. /\ phase = "window" /\ ~Observing /\ UNCHANGED <<sampling, request, disks, snapshot>>
      /\ phase' = IF request.tool = "capture" THEN "request" ELSE "ended"
  BY DEF Diagnose
<1>2. PICK impact \in IF request.experiment THEN Impacts ELSE {NoExperiment},
           kernel \in IF request.ebpf THEN Kernels ELSE {NoKernel},
           later \in IF request.discover THEN DiskMaps ELSE {disks} :
             diagnosis' = Judgement(impact, kernel, later)
  BY DEF Diagnose, Judgement
<1>3. IsResolved
  BY <1>1 DEF DiagnosisInv, Resolved
<1>4. \A i, k, l : Judgement(i, k, l)' = Judgement(i, k, l)
  BY <1>1, JudgementKept
<1>5. Judged'
  BY <1>1, <1>2, <1>3, <1>4 DEF Judged, IsResolved
<1>6. OwnSuspect'
  BY <1>1, <1>2 DEF OwnSuspect, Judgement, collectNoisyNeighborEvidence
<1>7. Unfinished'
  BY <1>1 DEF DiagnosisInv, Unfinished
<1>8. Resolved'
  BY <1>1 DEF Resolved
<1> QED BY <1>1, <1>5, <1>6, <1>7, <1>8 DEF DiagnosisInv

\* And it stays one.
LEMMA DiagnosisStep == DiagnosisInv /\ [EvidenceNext]_evidenceVars => DiagnosisInv'
<1> SUFFICES ASSUME DiagnosisInv, [EvidenceNext]_evidenceVars PROVE DiagnosisInv'
  OBVIOUS
<1>1. CASE Open
  <2>1. UNCHANGED <<request, diagnosis, snapshot>> /\ phase = "request" /\ phase' = "window" /\ Known
    BY <1>1 DEF Open
  <2>2. Resolved'
    BY <2>1 DEF Resolved, IsResolved, Known, Observing
  <2> QED BY <2>1, <2>2 DEF DiagnosisInv, Unfinished, OwnSuspect, Judged, Diagnosed
<1>2. CASE Refuse
  <2>1. UNCHANGED <<sampling, request, disks, diagnosis>> /\ phase = "request" /\ phase' = "ended"
    BY <1>2 DEF Refuse
  <2> QED BY <2>1 DEF DiagnosisInv, Unfinished, Resolved, OwnSuspect, Judged, Diagnosed
<1>3. CASE Sample
  <2>1. UNCHANGED <<phase, request, disks, diagnosis, snapshot>> /\ phase = "window"
    BY <1>3 DEF Sample
  <2> QED BY <2>1 DEF DiagnosisInv, Unfinished, Resolved, IsResolved, Observing, OwnSuspect, Judged, Diagnosed
<1>4. CASE Diagnose
  BY <1>4, DiagnoseStep
<1>5. CASE Snapshot
  <2>1. UNCHANGED <<sampling, request, disks, diagnosis>> /\ phase = "window" /\ phase' = "ended" /\ Observing
    BY <1>5 DEF Snapshot
  <2> QED BY <2>1 DEF DiagnosisInv, Unfinished, Resolved, OwnSuspect, Judged, Diagnosed, Observing
<1>6. CASE Done \/ UNCHANGED evidenceVars
  <2>1. UNCHANGED <<sampling, phase, request, disks, diagnosis, snapshot>>
    BY <1>6 DEF Done, evidenceVars
  <2>2. \A i, k, l : Judgement(i, k, l)' = Judgement(i, k, l)
    BY <2>1, JudgementKept
  <2> QED BY <2>1, <2>2 DEF DiagnosisInv, Unfinished, Resolved, IsResolved, Observing, OwnSuspect, Judged,
        Diagnosed
<1> QED BY <1>1, <1>2, <1>3, <1>4, <1>5, <1>6 DEF EvidenceNext

-----------------------------------------------------------------------------
(* Who is ahead, and who dominates.                                        *)

\* The order of the names is total.
LEMMA BeforeIs ==
  /\ \A a, b \in Names : a # b => Before(a, b) \/ Before(b, a)
  /\ \A a, b, c : Before(a, b) /\ Before(b, c) => Before(a, c)
<1>1. DOMAIN Order = 1..Len(Order) /\ Len(Order) \in Nat
  BY NamesAre, SamplingAssumption
<1>2. ASSUME NEW a \in Names, NEW b \in Names, a # b PROVE Before(a, b) \/ Before(b, a)
  <2>1. PICK i, j \in DOMAIN Order : Order[i] = a /\ Order[j] = b
    BY DEF Names, Range
  <2>2. i < j \/ j < i
    BY <1>1, <1>2, <2>1
  <2> QED BY <2>1, <2>2 DEF Before
<1>3. ASSUME NEW a, NEW b, NEW c, Before(a, b), Before(b, c) PROVE Before(a, c)
  <2>1. PICK i, j \in DOMAIN Order : i < j /\ Order[i] = a /\ Order[j] = b
    BY <1>3 DEF Before
  <2>2. PICK k, l \in DOMAIN Order : k < l /\ Order[k] = b /\ Order[l] = c
    BY <1>3 DEF Before
  <2>3. j = k
    BY <2>1, <2>2, SamplingAssumption
  <2>4. i < l
    BY <1>1, <2>1, <2>2, <2>3
  <2> QED BY <2>1, <2>2, <2>4 DEF Before
<1> QED BY <1>2, <1>3

\* To exceed is not to be outweighed.
LEMMA ExceedsIs ==
  ASSUME NEW r \in Rates, NEW s \in Rates, NEW t \in Rates
  PROVE  /\ ~Exceeds(s, r) <=> AtLeast(r, s)
         /\ AtLeast(r, s) /\ Exceeds(s, t) => Exceeds(r, t)
         /\ Exceeds(r, s) /\ AtLeast(s, t) => Exceeds(r, t)
         /\ Exceeds(r, s) => AtLeast(r, s)
         /\ AtLeast(r, s) /\ AtLeast(s, t) => AtLeast(r, t)
         /\ Exceeds(r, s) \/ Exceeds(s, r) \/ (AtLeast(r, s) /\ AtLeast(s, r))
<1>1. AtLeast(r, s) /\ AtLeast(s, t) => AtLeast(r, t)
  BY AtLeastTransitive
<1>2. AtLeast(t, r) /\ AtLeast(r, s) => AtLeast(t, s)
  BY AtLeastTransitive
<1>3. AtLeast(s, t) /\ AtLeast(t, r) => AtLeast(s, r)
  BY AtLeastTransitive
<1>4. AtLeast(r, s) \/ AtLeast(s, r)
  BY AtLeastTotal
<1> QED BY <1>1, <1>2, <1>3, <1>4 DEF Exceeds

\* The first of the candidates is one of them.
LEMMA FirstIs ==
  ASSUME NEW candidates \in SUBSET Names, candidates # {},
         NEW average \in [Names -> Rates], NEW highest \in [Names -> Rates]
  PROVE  First(candidates, average, highest) \in candidates
<1> DEFINE R == {p \in candidates \X candidates : Ahead(p[1], p[2], average, highest)}
<1>1. \A a, b \in candidates : <<a, b>> \in R <=> Ahead(a, b, average, highest)
  OBVIOUS
<1> HIDE DEF R
<1>2. IsFiniteSet(candidates)
  BY NamesAre, FS_Subset
<1>3. \A a \in candidates : a \in Names /\ average[a] \in Rates /\ highest[a] \in Rates
  OBVIOUS
<1>4. ASSUME NEW a \in candidates, NEW b \in candidates, a # b
      PROVE  Ahead(a, b, average, highest) \/ Ahead(b, a, average, highest)
  <2>1. /\ Exceeds(average[a], average[b]) \/ Exceeds(average[b], average[a])
           \/ (AtLeast(average[a], average[b]) /\ AtLeast(average[b], average[a]))
        /\ ~Exceeds(average[b], average[a]) <=> AtLeast(average[a], average[b])
        /\ ~Exceeds(average[a], average[b]) <=> AtLeast(average[b], average[a])
    BY <1>3, ExceedsIs
  <2>2. /\ Exceeds(highest[a], highest[b]) \/ Exceeds(highest[b], highest[a])
           \/ (AtLeast(highest[a], highest[b]) /\ AtLeast(highest[b], highest[a]))
        /\ ~Exceeds(highest[b], highest[a]) <=> AtLeast(highest[a], highest[b])
        /\ ~Exceeds(highest[a], highest[b]) <=> AtLeast(highest[b], highest[a])
    BY <1>3, ExceedsIs
  <2>3. Before(a, b) \/ Before(b, a)
    BY <1>3, <1>4, BeforeIs
  <2> QED BY <2>1, <2>2, <2>3, Zenon DEF Ahead
<1>5. ASSUME NEW a \in candidates, NEW b \in candidates, NEW c \in candidates,
             Ahead(a, b, average, highest), Ahead(b, c, average, highest)
      PROVE  Ahead(a, c, average, highest)
  <2> DEFINE More(f) == (Exceeds(f[a], f[b]) /\ ~Exceeds(f[c], f[b]))
               \/ (~Exceeds(f[b], f[a]) /\ Exceeds(f[b], f[c]))
             Same3(f) == ~Exceeds(f[b], f[a]) /\ ~Exceeds(f[c], f[b])
  <2>1. ASSUME NEW f \in [Names -> Rates]
        PROVE  /\ More(f) => Exceeds(f[a], f[c])
               /\ Same3(f) => ~Exceeds(f[c], f[a])
               /\ Exceeds(f[a], f[b]) => ~Exceeds(f[b], f[a])
               /\ Exceeds(f[b], f[c]) => ~Exceeds(f[c], f[b])
    <3>1. f[a] \in Rates /\ f[b] \in Rates /\ f[c] \in Rates
      OBVIOUS
    <3>2. /\ ~Exceeds(f[b], f[a]) <=> AtLeast(f[a], f[b])
          /\ AtLeast(f[a], f[b]) /\ Exceeds(f[b], f[c]) => Exceeds(f[a], f[c])
          /\ Exceeds(f[a], f[b]) /\ AtLeast(f[b], f[c]) => Exceeds(f[a], f[c])
          /\ AtLeast(f[a], f[b]) /\ AtLeast(f[b], f[c]) => AtLeast(f[a], f[c])
          /\ Exceeds(f[a], f[b]) => AtLeast(f[a], f[b])
      BY <3>1, ExceedsIs
    <3>3. /\ ~Exceeds(f[c], f[b]) <=> AtLeast(f[b], f[c])
          /\ Exceeds(f[b], f[c]) => AtLeast(f[b], f[c])
      BY <3>1, ExceedsIs
    <3>4. ~Exceeds(f[c], f[a]) <=> AtLeast(f[a], f[c])
      BY <3>1, ExceedsIs
    <3> QED BY <3>2, <3>3, <3>4, Zenon
  <2>2. /\ More(average) => Exceeds(average[a], average[c])
        /\ Same3(average) => ~Exceeds(average[c], average[a])
        /\ Exceeds(average[a], average[b]) => ~Exceeds(average[b], average[a])
        /\ Exceeds(average[b], average[c]) => ~Exceeds(average[c], average[b])
    <3> HIDE DEF More, Same3
    <3> QED BY <2>1
  <2>3. /\ More(highest) => Exceeds(highest[a], highest[c])
        /\ Same3(highest) => ~Exceeds(highest[c], highest[a])
        /\ Exceeds(highest[a], highest[b]) => ~Exceeds(highest[b], highest[a])
        /\ Exceeds(highest[b], highest[c]) => ~Exceeds(highest[c], highest[b])
    <3> HIDE DEF More, Same3
    <3> QED BY <2>1
  <2>4. Before(a, b) /\ Before(b, c) => Before(a, c)
    BY BeforeIs
  <2>5. /\ Exceeds(average[a], average[b]) \/ ~Exceeds(average[b], average[a])
        /\ Exceeds(average[b], average[c]) \/ ~Exceeds(average[c], average[b])
    BY <1>5, Zenon DEF Ahead
  <2>6. CASE Exceeds(average[a], average[b]) \/ Exceeds(average[b], average[c])
    <3>1. Exceeds(average[a], average[c])
      BY <2>2, <2>5, <2>6, Zenon
    <3> QED BY <3>1 DEF Ahead
  <2>7. CASE ~Exceeds(average[a], average[b]) /\ ~Exceeds(average[b], average[c])
    <3>1. ~Exceeds(average[c], average[a])
      BY <2>2, <2>5, <2>7, Zenon
    <3>2. /\ Exceeds(highest[a], highest[b]) \/ (~Exceeds(highest[b], highest[a]) /\ Before(a, b))
          /\ Exceeds(highest[b], highest[c]) \/ (~Exceeds(highest[c], highest[b]) /\ Before(b, c))
      BY <1>5, <2>7, Zenon DEF Ahead
    <3>3. Exceeds(highest[a], highest[c]) \/ (~Exceeds(highest[c], highest[a]) /\ Before(a, c))
      BY <2>3, <2>4, <3>2, Zenon
    <3> QED BY <3>1, <3>3 DEF Ahead
  <2> QED BY <2>6, <2>7
<1>6. \A a, b \in candidates : a # b => <<a, b>> \in R \/ <<b, a>> \in R
  BY <1>1, <1>4
<1>7. \A a, b, c \in candidates : <<a, b>> \in R /\ <<b, c>> \in R => <<a, c>> \in R
  BY <1>1, <1>5
<1>8. \E a \in candidates : \A b \in candidates \ {a} : <<a, b>> \in R
  BY <1>2, <1>6, <1>7, Greatest
<1>9. \E a \in candidates : \A b \in candidates \ {a} : Ahead(a, b, average, highest)
  BY <1>1, <1>8
<1> QED BY <1>9, Zenon DEF First

\* Who dominates a rate dominates what is not above it.
LEMMA DominantOver ==
  ASSUME NEW v \in Rates, NEW w \in Rates, NEW s \in Rates, NEW threshold, AtLeast(v, w),
    suspectIsDominant(v, s, threshold)
  PROVE  suspectIsDominant(w, s, threshold)
<1>1. NearZero \in Rates
  BY RateIs DEF NearZero
<1>2. Thresholds.ratio \in Nat
  BY VerdictsAssumption
<1>3. Exceeds(w, NearZero) => Exceeds(v, NearZero)
  BY <1>1, ExceedsIs
<1>4. AtLeast(Times(Thresholds.ratio, v), Times(Thresholds.ratio, w))
  BY <1>2, TimesMonotone
<1>5. Times(Thresholds.ratio, v) \in Rates /\ Times(Thresholds.ratio, w) \in Rates
  BY <1>2, TimesIs
<1>6. AtLeast(s, Times(Thresholds.ratio, v)) => AtLeast(s, Times(Thresholds.ratio, w))
  BY <1>4, <1>5, AtLeastTransitive
<1> QED BY <1>3, <1>6, Zenon DEF suspectIsDominant

\* The rates of the summaries.
LEMMA RatesOf ==
  ASSUME NEW S \in [Names -> SummaryTypes]
  PROVE  /\ BytesOf(S) \in [Names -> Rates] /\ CallsOf(S) \in [Names -> Rates]
         /\ MaxBytesOf(S) \in [Names -> Rates] /\ MaxCallsOf(S) \in [Names -> Rates]
         /\ \A name \in Names : /\ BytesOf(S)[name] = S[name].bytes /\ CallsOf(S)[name] = S[name].calls
                                /\ S[name].available \in BOOLEAN /\ S[name].bytes \in Rates
                                     /\ S[name].calls \in Rates
<1>1. \A name \in Names : S[name] \in SummaryTypes
  OBVIOUS
<1> QED BY <1>1 DEF BytesOf, CallsOf, MaxBytesOf, MaxCallsOf, SummaryTypes

\* A candidate that dominates its competitors dominates the victim.
LEMMA DominatesIs ==
  ASSUME NEW S \in [Names -> SummaryTypes], NEW victim \in Names, NEW candidates \in SUBSET Names,
         NEW name \in Names, NEW average \in [Names -> Rates], NEW threshold,
         Dominates(name, victim, candidates, S, average, threshold), S[victim].available
  PROVE  suspectIsDominant(average[victim], average[name], threshold)
<1> DEFINE others == {n \in {victim} \cup (candidates \ {name}) : S[n].available}
           R == {Nil} \cup {average[n] : n \in others}
<1>1. others \in SUBSET Names /\ IsFiniteSet(others) /\ victim \in others
  <2>1. others \in SUBSET Names /\ victim \in others
    OBVIOUS
  <2> QED BY <2>1, NamesAre, FS_Subset
<1> HIDE DEF others
<1>2. IsFiniteSet({average[n] : n \in others})
  <2> DEFINE g == [n \in others |-> average[n]]
  <2>1. g \in Surjection(others, {average[n] : n \in others})
    BY DEF Surjection
  <2> QED BY <1>1, <2>1, FS_Surjection
<1>3. IsFiniteSet(R) /\ R \in SUBSET Rates /\ R # {}
  <2>1. IsFiniteSet({Nil})
    BY FS_Singleton
  <2>2. IsFiniteSet(R)
    BY <1>2, <2>1, FS_Union
  <2>3. R \in SUBSET Rates
    BY <1>1, NilIs
  <2> QED BY <2>2, <2>3
<1>4. average[victim] \in R
  BY <1>1
<1> HIDE DEF R
<1>5. Highest(R) \in Rates /\ AtLeast(Highest(R), average[victim])
  BY <1>3, <1>4, HighestIs
<1>6. Highest(R) = competingRate(victim, candidates, name, S, average)
  BY Zenon DEF R, others, competingRate
<1>7. suspectIsDominant(Highest(R), average[name], threshold)
  BY <1>6, Zenon DEF Dominates
<1>8. average[victim] \in Rates /\ average[name] \in Rates
  OBVIOUS
<1> QED BY <1>5, <1>7, <1>8, DominantOver

\* Of whom is selected: the evidence the verdict on the pair asks for.
LEMMA SelectedIs ==
  ASSUME NEW S \in [Names -> SummaryTypes], NEW victim \in Names, NEW candidates \in SUBSET Names,
         NEW name, name = selectCandidate(victim, candidates, S), name # None
  PROVE  /\ name \in candidates /\ S[name].available
         /\ AtLeast(S[name].bytes, Thresholds.bytes) \/ AtLeast(S[name].calls, Thresholds.calls)
         /\ S[victim].available =>
              IF AtLeast(S[name].bytes, Thresholds.bytes)
              THEN suspectIsDominant(S[victim].bytes, S[name].bytes, Thresholds.bytes)
              ELSE suspectIsDominant(S[victim].calls, S[name].calls, Thresholds.calls)
<1> DEFINE writers == {n \in candidates : MeaningfulBytes(S[n])}
           callers == {n \in candidates : MeaningfulCalls(S[n])}
           writer == First(writers, BytesOf(S), MaxBytesOf(S))
           caller == First(callers, CallsOf(S), MaxCallsOf(S))
<1>1. CASE writers # {}
  <2>1. name = writer /\ Dominates(writer, victim, candidates, S, BytesOf(S), Thresholds.bytes)
    BY <1>1 DEF selectCandidate
  <2>2. writer \in writers
    <3>1. writers \in SUBSET Names
      OBVIOUS
    <3> HIDE DEF writers
    <3> QED BY <1>1, <3>1, RatesOf, FirstIs
  <2> HIDE DEF writer
  <2>3. name \in candidates /\ name \in Names /\ MeaningfulBytes(S[name])
    BY <2>1, <2>2
  <2>4. S[victim].available => suspectIsDominant(BytesOf(S)[victim], BytesOf(S)[name], Thresholds.bytes)
    BY <2>1, <2>3, RatesOf, DominatesIs
  <2> QED BY <2>3, <2>4, RatesOf DEF MeaningfulBytes, Meaningful
<1>2. CASE writers = {}
  <2>1. name = caller /\ callers # {} /\ Dominates(caller, victim, candidates, S, CallsOf(S), Thresholds.calls)
    BY <1>2 DEF selectCandidate
  <2>2. caller \in callers
    <3>1. callers \in SUBSET Names
      OBVIOUS
    <3> HIDE DEF callers
    <3> QED BY <2>1, <3>1, RatesOf, FirstIs
  <2>3. ~MeaningfulBytes(S[name])
    BY <1>2, <2>1, <2>2
  <2> HIDE DEF caller
  <2>4. name \in candidates /\ name \in Names /\ MeaningfulCalls(S[name])
    BY <2>1, <2>2
  <2>5. S[victim].available => suspectIsDominant(CallsOf(S)[victim], CallsOf(S)[name], Thresholds.calls)
    BY <2>1, <2>4, RatesOf, DominatesIs
  <2> QED BY <2>3, <2>4, <2>5, RatesOf DEF MeaningfulBytes, MeaningfulCalls, Meaningful
<1> QED BY <1>1, <1>2

-----------------------------------------------------------------------------
(* What a diagnosis says.                                                  *)

LEMMA SummariesAre ==
  SamplingTypes => Summaries \in [Names -> SummaryTypes]
    /\ \A name \in Names : Summaries[name] = SummaryOf(name)
BY SummaryIs DEF Summaries

\* A suspect that dominates the victims together dominates each of them.
LEMMA DominantIs ==
  ASSUME NEW S \in [Names -> SummaryTypes], NEW victims \in SUBSET Names, NEW suspect \in Names,
         LET q == finalizeSummary(victims, suspect, S) IN q.victimData /\ q.suspectData /\ Dominant(q)
  PROVE  /\ S[suspect].available /\ suspect # None
         /\ \E name \in victims : S[name].available
         /\ IF AtLeast(S[suspect].bytes, Thresholds.bytes)
            THEN \A name \in victims : S[name].available
              => suspectIsDominant(S[name].bytes, S[suspect].bytes, Thresholds.bytes)
            ELSE /\ AtLeast(S[suspect].calls, Thresholds.calls)
                 /\ \A name \in victims :
                      S[name].available => suspectIsDominant(S[name].calls, S[suspect].calls, Thresholds.calls)
<1> DEFINE measured == {name \in victims : S[name].available}
           q == finalizeSummary(victims, suspect, S)
           bytes == SumOf(measured, BytesOf(S))
           calls == SumOf(measured, CallsOf(S))
<1>1. /\ S[suspect].available /\ suspect # None /\ measured # {}
      /\ q.pressure <=> Meaningful(S[suspect].bytes, Thresholds.bytes)
      /\ q.dominant <=> suspectIsDominant(bytes, S[suspect].bytes, Thresholds.bytes)
      /\ q.callPressure <=> Meaningful(S[suspect].calls, Thresholds.calls)
      /\ q.callDominant <=> suspectIsDominant(calls, S[suspect].calls, Thresholds.calls)
  BY DEF finalizeSummary
<1>2. IsFiniteSet(measured) /\ measured \in SUBSET Names
  <2>1. measured \in SUBSET Names
    OBVIOUS
  <2> HIDE DEF measured
  <2> QED BY <2>1, NamesAre, FS_Subset
<1> HIDE DEF measured
<1>3. bytes \in Rates /\ \A name \in measured : AtLeast(bytes, S[name].bytes) /\ S[name].bytes \in Rates
  <2>1. \A name \in measured : BytesOf(S)[name] \in Rates /\ BytesOf(S)[name] = S[name].bytes
    BY <1>2, RatesOf
  <2> QED BY <1>2, <2>1, RateSumAtLeast
<1>4. calls \in Rates /\ \A name \in measured : AtLeast(calls, S[name].calls) /\ S[name].calls \in Rates
  <2>1. \A name \in measured : CallsOf(S)[name] \in Rates /\ CallsOf(S)[name] = S[name].calls
    BY <1>2, RatesOf
  <2> QED BY <1>2, <2>1, RateSumAtLeast
<1>5. S[suspect].bytes \in Rates /\ S[suspect].calls \in Rates
  BY RatesOf
<1>6. q.dominant => \A name \in measured : suspectIsDominant(S[name].bytes, S[suspect].bytes, Thresholds.bytes)
  <2> HIDE DEF q, bytes
  <2> QED BY <1>1, <1>3, <1>5, DominantOver
<1>7. q.callDominant => \A name \in measured :
        suspectIsDominant(S[name].calls, S[suspect].calls, Thresholds.calls)
  <2> HIDE DEF q, calls
  <2> QED BY <1>1, <1>4, <1>5, DominantOver
<1>8. IF q.pressure THEN q.dominant ELSE q.callPressure /\ q.callDominant
  BY DEF Dominant
<1>9. \A name \in victims : S[name].available => name \in measured
  BY DEF measured
<1>10. \E name \in victims : S[name].available
  BY <1>1 DEF measured
<1> HIDE DEF q
<1> QED BY <1>1, <1>6, <1>7, <1>8, <1>9, <1>10, Zenon DEF Meaningful

\* What is known of a report of VM-attributed latency.
ReportIs(account) ==
  /\ account.ops \in [Names -> Nat]
  /\ account.available /\ account.quality = "available" => account.given /\ account.attributed > 0

\* The report that a collection of the kernel makes is one of those.
LEMMA AttributedIs ==
  ASSUME NEW kernel \in IF request.ebpf THEN Kernels ELSE {NoKernel}, NEW names
  PROVE  ReportIs(Attributed(kernel, names))
<1> DEFINE mappings == [name \in Names |-> IF name \in names THEN Mappings[name] ELSE {}]
<1>1. CASE ~request.ebpf
  BY <1>1 DEF Attributed, NoAttribution, ReportIs
<1>2. CASE request.ebpf
  <2>1. kernel \in Kernels
    BY <1>2
  <2>2. IsFiniteSet(DOMAIN kernel.operations)
          /\ \A cgroup \in DOMAIN kernel.operations : kernel.operations[cgroup] \in Nat
    BY <2>1, EvidenceAssumption
  <2> DEFINE operations == [name \in DOMAIN mappings |-> recordKernelCgroupOperation(kernel, mappings[name])]
  <2>3. operations \in [Names -> Nat]
    <3> SUFFICES ASSUME NEW name \in Names PROVE recordKernelCgroupOperation(kernel, mappings[name]) \in Nat
      OBVIOUS
    <3> DEFINE cgroups == mappings[name] \cap DOMAIN kernel.operations
    <3>1. IsFiniteSet(cgroups) /\ \A cgroup \in cgroups : kernel.operations[cgroup] \in Nat
      <4>1. cgroups \subseteq DOMAIN kernel.operations
        OBVIOUS
      <4> HIDE DEF cgroups
      <4> QED BY <2>2, <4>1, FS_Subset
    <3>2. SumFunctionOnSet(kernel.operations, cgroups) \in Nat
      <4> HIDE DEF cgroups
      <4> QED BY <3>1, SumType
    <3> QED BY <3>2 DEF recordKernelCgroupOperation
  <2> DEFINE summary == finish(kernel, mappings)
             blank == newVMBlockLatencyReport(mappings)
             counted == [blank EXCEPT !.attributed = summary.attributed, !.unattributed = summary.unattributed,
                                     !.ops = summary.ops]
             account == CollectVMBlockLatencyReport(kernel, mappings)
  <2>4. summary.ops = operations
    BY DEF finish
  <2>5. blank.quality = "unavailable" /\ blank.ops \in [Names -> Nat] /\ blank.given
    BY DEF newVMBlockLatencyReport
  <2>6. counted.quality = "unavailable" /\ counted.ops = summary.ops /\ counted.given
          /\ counted.attributed = summary.attributed
    BY DEF newVMBlockLatencyReport
  <2>7. runtimeVMBlockAttributionQuality(summary) = "available" => summary.attributed > 0
    <3> HIDE DEF summary
    <3> QED BY DEF runtimeVMBlockAttributionQuality
  <2>8. \/ account = blank
        \/ account = counted
        \/ account = [counted EXCEPT !.available = TRUE]
        \/ account = [counted EXCEPT !.available = TRUE, !.quality = runtimeVMBlockAttributionQuality(summary)]
    <3> HIDE DEF mappings
    <3> QED BY DEF CollectVMBlockLatencyReport
  <2>9. [counted EXCEPT !.available = TRUE].quality = "unavailable"
          /\ [counted EXCEPT !.available = TRUE].ops = summary.ops
    BY DEF newVMBlockLatencyReport
  <2> DEFINE last == [counted EXCEPT !.available = TRUE, !.quality = runtimeVMBlockAttributionQuality(summary)]
  <2>10. /\ last.quality = runtimeVMBlockAttributionQuality(summary) /\ last.ops = summary.ops /\ last.given
         /\ last.attributed = summary.attributed
    BY DEF newVMBlockLatencyReport
  <2> HIDE DEF summary, blank, counted, last, operations, account
  <2>11. ReportIs(account)
    <3>1. CASE account = last
      BY <2>3, <2>4, <2>7, <2>10, <3>1 DEF ReportIs
    <3>2. CASE account # last
      BY <2>3, <2>4, <2>5, <2>6, <2>8, <2>9, <3>2 DEF ReportIs, last
    <3> QED BY <3>1, <3>2
  <2> QED BY <1>2, <2>11 DEF Attributed, account
<1> QED BY <1>1, <1>2

\* Either command keeps the suspect, the disks and the report it judged by.
LEMMA DiagnosedIs ==
  ASSUME SamplingInv, DiagnosisInv, Diagnosed
  PROVE  LET q == finalizeSummary(Victims, diagnosis.suspect, Summaries)
             basis == newDiagnosisReport(diagnosis.impact, q, Topology(Victims, diagnosis.suspect, diagnosis.disks))
         IN /\ Victims \in SUBSET Names
            /\ diagnosis.verdict = IF request.discover /\ diagnosis.suspect = None THEN "NoDominantCandidate"
                                   ELSE ApplyEBPFVMAttribution(basis, diagnosis.report, Victims, diagnosis.suspect)
            /\ diagnosis.score = IterationScore(request.discover, diagnosis.suspect, q)
            /\ request.discover =>
                 /\ request.victim \in Names /\ Victims = {request.victim} /\ Discoverable(request.victim)
                 /\ diagnosis.suspect = selectCandidate(request.victim, CandidateTargets(request.victim, disks), Summaries)
            /\ ~request.discover => /\ diagnosis.suspect \in Names /\ diagnosis.suspect = request.suspect
            /\ ~request.experiment => ~diagnosis.impact.given
            /\ ReportIs(diagnosis.report)
<1>1. request.discover \in BOOLEAN /\ request.experiment \in BOOLEAN
  BY EvidenceAssumption DEF DiagnosisInv
<1>2. PICK impact \in IF request.experiment THEN Impacts ELSE {NoExperiment},
           kernel \in IF request.ebpf THEN Kernels ELSE {NoKernel},
           later \in IF request.discover THEN DiskMaps ELSE {disks} :
             diagnosis = Judgement(impact, kernel, later)
  BY DEF DiagnosisInv, Judged
<1>3. IsResolved
  BY DEF DiagnosisInv, Judged
<1>4. ~request.experiment => ~impact.given
  BY <1>2 DEF NoExperiment
<1>5. Victims \in SUBSET Names
  BY DEF Victims, VictimTargets, OfTenant
<1>6. \A names : ReportIs(Attributed(kernel, names))
  BY <1>2, AttributedIs
<1>7. CASE request.discover
  <2>1. request.victim \in Names /\ Discoverable(request.victim)
    BY <1>3, <1>7 DEF IsResolved, Discoverable
  <2>2. Victims = {request.victim}
    BY <2>1 DEF Victims, VictimTargets
  <2> DEFINE candidates == CandidateTargets(request.victim, disks)
             selected == selectCandidate(request.victim, candidates, Summaries)
             q == finalizeSummary({request.victim}, selected, Summaries)
             account == Attributed(kernel, {request.victim} \cup candidates)
             basis == newDiagnosisReport(impact, q, Topology({request.victim}, selected, later))
  <2>3. diagnosis = [suspect |-> selected, disks |-> later, report |-> account, impact |-> impact,
                     verdict |-> IF selected = None THEN "NoDominantCandidate"
                                 ELSE ApplyEBPFVMAttribution(basis, account, {request.victim}, selected),
                     score |-> IterationScore(TRUE, selected, q)]
    BY <1>2, <1>7 DEF Judgement, collectDiscoveredNoisyNeighborEvidence
  <2>4. ReportIs(account)
    BY <1>6
  <2> HIDE DEF selected, account
  <2>5. diagnosis.suspect = selected /\ diagnosis.disks = later /\ diagnosis.report = account
          /\ diagnosis.impact = impact
    BY <2>3
  <2>6. /\ diagnosis.verdict = IF selected = None THEN "NoDominantCandidate"
                               ELSE ApplyEBPFVMAttribution(basis, account, {request.victim}, selected)
        /\ diagnosis.score = IterationScore(TRUE, selected, q)
    BY <2>3
  <2>7. request.discover = TRUE
    BY <1>1, <1>7
  <2> QED BY <1>4, <1>5, <2>1, <2>2, <2>4, <2>5, <2>6, <2>7 DEF selected
<1>8. CASE ~request.discover
  <2>1. request.suspect \in Names
    BY <1>3, <1>8 DEF IsResolved, Resolves
  <2> DEFINE q == finalizeSummary(Victims, request.suspect, Summaries)
             account == Attributed(kernel, Victims \cup {request.suspect})
             basis == newDiagnosisReport(impact, q, Topology(Victims, request.suspect, disks))
  <2>2. diagnosis = [suspect |-> request.suspect, disks |-> disks, report |-> account, impact |-> impact,
                     verdict |-> ApplyEBPFVMAttribution(basis, account, Victims, request.suspect),
                     score |-> IterationScore(FALSE, None, q)]
    BY <1>2, <1>8 DEF Judgement, collectNoisyNeighborEvidence, Victims
  <2>3. ReportIs(account)
    BY <1>6
  <2> HIDE DEF account
  <2>4. /\ diagnosis.suspect = request.suspect /\ diagnosis.disks = disks /\ diagnosis.report = account
        /\ diagnosis.impact = impact
    BY <2>2
  <2>5. /\ diagnosis.verdict = ApplyEBPFVMAttribution(basis, account, Victims, request.suspect)
        /\ diagnosis.score = IterationScore(FALSE, None, q)
    BY <2>2
  <2>6. IterationScore(FALSE, None, q) = IterationScore(request.discover, request.suspect, q)
    BY <1>8 DEF IterationScore
  <2> QED BY <1>4, <1>5, <1>8, <2>1, <2>3, <2>4, <2>5, <2>6
<1> QED BY <1>7, <1>8

\* An alarming verdict, before and after the veto.
LEMMA AlarmIs ==
  ASSUME NEW impact, NEW q, NEW topology, NEW account, NEW victims, NEW suspect, NEW verdict,
         verdict = ApplyEBPFVMAttribution(newDiagnosisReport(impact, q, topology), account, victims, suspect),
         verdict \in {"Probable", "LikelyLive"}
  PROVE  /\ Supported(q, topology)
         /\ impact.given => impact.drop > 0 /\ impact.increase > 0
         /\ LET a == AssessEBPFVMAttribution(account, victims, suspect)
            IN a.available /\ a.quality = "available" => a.suspectDominant
<1> DEFINE basis == newDiagnosisReport(impact, q, topology)
           a == AssessEBPFVMAttribution(account, victims, suspect)
           vetoes == a.available /\ a.quality = "available" /\ ~a.suspectDominant
<1>1. verdict = basis /\ ~vetoes
  <2> HIDE DEF basis, a
  <2> QED BY DEF ApplyEBPFVMAttribution, basis, a
<1>2. Supported(q, topology) /\ (impact.given => impact.drop > 0 /\ impact.increase > 0)
  <2>1. CASE impact.given
    <3>1. Verdict(impact, q, topology) \in {"Probable", "LikelyLive"}
      BY <1>1, <2>1 DEF newDiagnosisReport
    <3> QED BY <3>1 DEF Verdict, Slowdown
  <2>2. CASE ~impact.given
    <3>1. LiveVerdict(q, topology) \in {"Probable", "LikelyLive"}
      BY <1>1, <2>2 DEF newDiagnosisReport
    <3> QED BY <2>2, <3>1 DEF LiveVerdict
  <2> QED BY <2>1, <2>2
<1> QED BY <1>1, <1>2

\* A dominant suspect has operations, and no fewer than any victim.
LEMMA OperationsAre ==
  ASSUME NEW account, ReportIs(account), NEW victims \in SUBSET Names, NEW suspect, suspect # None,
         AssessEBPFVMAttribution(account, victims, suspect).suspectDominant
  PROVE  account.ops[suspect] > 0 /\ \A name \in victims : suspect \in Names
           => account.ops[suspect] >= account.ops[name]
<1> DEFINE total == OpsOf(account, victims)
           own == account.ops[suspect]
<1>1. own > 0 /\ (total > 0 => own >= Thresholds.ratio * total)
  BY DEF AssessEBPFVMAttribution
<1>2. account.ops \in [Names -> Nat]
  BY DEF ReportIs
<1>3. IsFiniteSet(victims) /\ \A name \in victims : account.ops[name] \in Nat
  BY <1>2, NamesAre, FS_Subset
<1>4. total \in Nat /\ \A name \in victims : account.ops[name] <= total
  BY <1>3, SumType, SumMember DEF OpsOf
<1> HIDE DEF total
<1>5. ASSUME NEW name \in victims, suspect \in Names PROVE own >= account.ops[name]
  <2>1. own \in Nat
    BY <1>2, <1>5
  <2>2. Thresholds.ratio \in Nat /\ Thresholds.ratio # 0
    BY VerdictsAssumption
  <2>3. total <= Thresholds.ratio * total
    <3> DEFINE k == Thresholds.ratio - 1
    <3>1. k \in Nat /\ Thresholds.ratio = k + 1
      BY <2>2
    <3> HIDE DEF k
    <3>2. Thresholds.ratio * total = k * total + total /\ k * total \in Nat
      BY <1>4, <3>1
    <3> QED BY <1>4, <3>2
  <2>4. Thresholds.ratio * total \in Nat
    BY <1>4, <2>2
  <2>5. account.ops[name] \in Nat /\ account.ops[name] <= total
    BY <1>3, <1>4
  <2> DEFINE bound == Thresholds.ratio * total
  <2> HIDE DEF bound, own
  <2>6. total <= bound /\ bound \in Nat /\ (total > 0 => own >= bound)
    BY <1>1, <2>3, <2>4 DEF bound, own
  <2> QED BY <1>4, <2>1, <2>5, <2>6
<1> QED BY <1>1, <1>5

\* An alert has the evidence its verdict names.
LEMMA AlertIs == SamplingInv /\ DiagnosisInv => AlertIsEvidenced
<1> SUFFICES ASSUME SamplingInv, DiagnosisInv, Diagnosed, diagnosis.verdict \in {"Probable", "LikelyLive"}
             PROVE  LET S == Summaries
                    IN /\ diagnosis.suspect \in Names /\ S[diagnosis.suspect].available
                       /\ \E name \in Victims : S[name].available
                       /\ IF AtLeast(S[diagnosis.suspect].bytes, Thresholds.bytes) THEN Outweighs(S, BytesOf(S), Thresholds.bytes)
                          ELSE Outweighs(S, CallsOf(S), Thresholds.calls)
                       /\ \E name \in Victims :
                            diagnosis.disks[name] \cap diagnosis.disks[diagnosis.suspect] # {}
                       /\ request.discover => disks[request.victim] \cap disks[diagnosis.suspect] # {}
                       /\ diagnosis.impact.given => diagnosis.impact.drop > 0 /\ diagnosis.impact.increase > 0
                       /\ diagnosis.report.available /\ diagnosis.report.quality = "available"
                            => /\ diagnosis.report.ops[diagnosis.suspect] > 0
                               /\ \A name \in Victims :
                                    diagnosis.report.ops[diagnosis.suspect] >= diagnosis.report.ops[name]
  BY Zenon DEF AlertIsEvidenced
<1> DEFINE S == Summaries
           suspect == diagnosis.suspect
           q == finalizeSummary(Victims, suspect, S)
           topology == Topology(Victims, suspect, diagnosis.disks)
           basis == newDiagnosisReport(diagnosis.impact, q, topology)
<1>1. Victims \in SUBSET Names /\ ReportIs(diagnosis.report)
  BY DiagnosedIs
<1>2. diagnosis.verdict = IF request.discover /\ suspect = None THEN "NoDominantCandidate"
                          ELSE ApplyEBPFVMAttribution(basis, diagnosis.report, Victims, suspect)
  BY DiagnosedIs
<1>3. request.discover =>
        /\ request.victim \in Names /\ Victims = {request.victim}
        /\ suspect = selectCandidate(request.victim, CandidateTargets(request.victim, disks), S)
  BY DiagnosedIs
<1>4. ~request.discover => suspect \in Names
  BY DiagnosedIs
<1>5. S \in [Names -> SummaryTypes]
  BY SummariesAre DEF SamplingInv
<1> HIDE DEF S, suspect, q, topology, basis
<1>6. /\ Supported(q, topology)
      /\ diagnosis.impact.given => diagnosis.impact.drop > 0 /\ diagnosis.impact.increase > 0
      /\ LET a == AssessEBPFVMAttribution(diagnosis.report, Victims, suspect)
         IN a.available /\ a.quality = "available" => a.suspectDominant
  <2>1. diagnosis.verdict = ApplyEBPFVMAttribution(basis, diagnosis.report, Victims, suspect)
    BY <1>2
  <2> QED BY <2>1, AlarmIs DEF basis
<1>7. topology.shared /\ q.victimData /\ q.suspectData /\ Dominant(q)
  BY <1>6 DEF Supported
<1>8. suspect # None
  BY <1>7 DEF q, finalizeSummary
<1>9. suspect \in Names /\ (request.discover => suspect \in CandidateTargets(request.victim, disks))
  <2>1. CASE request.discover
    <3>1. CandidateTargets(request.victim, disks) \in SUBSET Names
      BY DEF CandidateTargets
    <3>2. suspect \in CandidateTargets(request.victim, disks)
      BY <1>3, <1>5, <1>8, <2>1, <3>1, SelectedIs
    <3> QED BY <3>1, <3>2
  <2> QED BY <1>4, <2>1
<1>10. /\ S[suspect].available
       /\ \E name \in Victims : S[name].available
       /\ IF AtLeast(S[suspect].bytes, Thresholds.bytes)
          THEN \A name \in Victims : S[name].available
            => suspectIsDominant(S[name].bytes, S[suspect].bytes, Thresholds.bytes)
          ELSE /\ AtLeast(S[suspect].calls, Thresholds.calls)
               /\ \A name \in Victims :
                    S[name].available => suspectIsDominant(S[name].calls, S[suspect].calls, Thresholds.calls)
  BY <1>1, <1>5, <1>7, <1>9, DominantIs DEF q
<1>11. IF AtLeast(S[suspect].bytes, Thresholds.bytes) THEN Outweighs(S, BytesOf(S), Thresholds.bytes)
       ELSE Outweighs(S, CallsOf(S), Thresholds.calls)
  <2>1. \A name \in Names : BytesOf(S)[name] = S[name].bytes /\ CallsOf(S)[name] = S[name].calls
    BY DEF BytesOf, CallsOf
  <2>2. diagnosis.suspect = suspect
    BY DEF suspect
  <2>3. CASE AtLeast(S[suspect].bytes, Thresholds.bytes)
    <3>1. BytesOf(S)[suspect] = S[suspect].bytes /\ \A name \in Victims : BytesOf(S)[name] = S[name].bytes
      BY <1>1, <1>9, <2>1
    <3> QED BY <1>10, <2>2, <2>3, <3>1 DEF Outweighs, suspectIsDominant
  <2>4. CASE ~AtLeast(S[suspect].bytes, Thresholds.bytes)
    <3>1. CallsOf(S)[suspect] = S[suspect].calls /\ \A name \in Victims : CallsOf(S)[name] = S[name].calls
      BY <1>1, <1>9, <2>1
    <3> QED BY <1>10, <2>2, <2>4, <3>1 DEF Outweighs, suspectIsDominant
  <2> QED BY <2>3, <2>4
<1>12. \E name \in Victims : diagnosis.disks[name] \cap diagnosis.disks[suspect] # {}
  <2>1. Union(Victims, diagnosis.disks) \cap diagnosis.disks[suspect] # {}
    BY <1>7, <1>8 DEF topology, Topology, sharesPhysicalDisk
  <2> QED BY <2>1 DEF Union
<1>13. request.discover => disks[request.victim] \cap disks[suspect] # {}
  BY <1>9 DEF CandidateTargets, sharesPhysicalDisk
<1>14. diagnosis.report.available /\ diagnosis.report.quality = "available"
         => /\ diagnosis.report.ops[suspect] > 0
            /\ \A name \in Victims : diagnosis.report.ops[suspect] >= diagnosis.report.ops[name]
  <2> HAVE diagnosis.report.available /\ diagnosis.report.quality = "available"
  <2>1. diagnosis.report.given /\ diagnosis.report.attributed > 0
    BY <1>1 DEF ReportIs
  <2>2. AssessEBPFVMAttribution(diagnosis.report, Victims, suspect).suspectDominant
    <3>1. /\ AssessEBPFVMAttribution(diagnosis.report, Victims, suspect).available
          /\ AssessEBPFVMAttribution(diagnosis.report, Victims, suspect).quality = "available"
      BY <2>1 DEF AssessEBPFVMAttribution
    <3> QED BY <1>6, <3>1
  <2> QED BY <1>1, <1>8, <1>9, <2>2, OperationsAre
<1> QED BY <1>6, <1>9, <1>10, <1>11, <1>12, <1>13, <1>14, Zenon DEF S, suspect

\* The suspect that was selected is the one the verdict can name.
LEMMA SelectionIs == SamplingInv /\ DiagnosisInv => SelectionAgreesWithVerdict
<1> SUFFICES ASSUME SamplingInv, DiagnosisInv, Diagnosed, request.discover, ~request.experiment
             PROVE  IF diagnosis.suspect = None THEN diagnosis.verdict = "NoDominantCandidate"
                    ELSE /\ SummaryOf(request.victim).available
                         /\ diagnosis.disks[request.victim] \cap diagnosis.disks[diagnosis.suspect] # {}
                         /\ ~(diagnosis.report.available /\ diagnosis.report.quality = "available")
                         => diagnosis.verdict = "LikelyLive"
  BY DEF SelectionAgreesWithVerdict
<1> DEFINE S == Summaries
           suspect == diagnosis.suspect
           victim == request.victim
           q == finalizeSummary({victim}, suspect, S)
           topology == Topology({victim}, suspect, diagnosis.disks)
           basis == newDiagnosisReport(diagnosis.impact, q, topology)
<1>1. victim \in Names /\ suspect = selectCandidate(victim, CandidateTargets(victim, disks), S)
      /\ ~diagnosis.impact.given
  BY DiagnosedIs
<1>2. diagnosis.verdict = IF suspect = None THEN "NoDominantCandidate"
                          ELSE ApplyEBPFVMAttribution(basis, diagnosis.report, {victim}, suspect)
  BY DiagnosedIs
<1>3. S \in [Names -> SummaryTypes] /\ S[victim] = SummaryOf(victim)
  BY <1>1, SummariesAre DEF SamplingInv
<1> HIDE DEF S, suspect, q, topology, basis
<1>4. CASE suspect = None
  BY <1>2, <1>4 DEF suspect
<1>5. ASSUME suspect # None, S[victim].available, diagnosis.disks[victim] \cap diagnosis.disks[suspect] # {},
             ~(diagnosis.report.available /\ diagnosis.report.quality = "available")
      PROVE  diagnosis.verdict = "LikelyLive"
  <2>1. /\ suspect \in Names /\ S[suspect].available
        /\ AtLeast(S[suspect].bytes, Thresholds.bytes) \/ AtLeast(S[suspect].calls, Thresholds.calls)
        /\ IF AtLeast(S[suspect].bytes, Thresholds.bytes)
           THEN suspectIsDominant(S[victim].bytes, S[suspect].bytes, Thresholds.bytes)
           ELSE suspectIsDominant(S[victim].calls, S[suspect].calls, Thresholds.calls)
    <3>1. CandidateTargets(victim, disks) \in SUBSET Names
      BY DEF CandidateTargets
    <3> HIDE DEF victim
    <3>2. /\ suspect \in CandidateTargets(victim, disks) /\ S[suspect].available
          /\ AtLeast(S[suspect].bytes, Thresholds.bytes) \/ AtLeast(S[suspect].calls, Thresholds.calls)
          /\ IF AtLeast(S[suspect].bytes, Thresholds.bytes)
             THEN suspectIsDominant(S[victim].bytes, S[suspect].bytes, Thresholds.bytes)
             ELSE suspectIsDominant(S[victim].calls, S[suspect].calls, Thresholds.calls)
      BY <1>1, <1>3, <1>5, <3>1, SelectedIs
    <3> QED BY <3>1, <3>2
  <2> HIDE DEF victim
  <2> DEFINE measured == {name \in {victim} : S[name].available}
  <2>2. measured = {victim} /\ measured # {}
    BY <1>5
  <2>3. SumOf(measured, BytesOf(S)) = S[victim].bytes /\ SumOf(measured, CallsOf(S)) = S[victim].calls
    BY <1>1, <1>3, <2>2, RatesOf, RateSumOne
  <2>4. /\ q.victimData /\ q.suspectData
        /\ q.pressure <=> AtLeast(S[suspect].bytes, Thresholds.bytes)
        /\ q.callPressure <=> AtLeast(S[suspect].calls, Thresholds.calls)
        /\ q.dominant <=> suspectIsDominant(SumOf(measured, BytesOf(S)), S[suspect].bytes, Thresholds.bytes)
        /\ q.callDominant <=> suspectIsDominant(SumOf(measured, CallsOf(S)), S[suspect].calls, Thresholds.calls)
    BY <1>5, <2>1, <2>2 DEF q, finalizeSummary, Meaningful
  <2>5. Dominant(q) /\ ~Quiet(q)
    BY <2>1, <2>3, <2>4, Zenon DEF Dominant, Quiet
  <2>6. topology.shared /\ topology.available
    <3>1. Union({victim}, diagnosis.disks) = diagnosis.disks[victim]
      BY DEF Union
    <3> QED BY <1>5, <3>1 DEF topology, Topology, sharesPhysicalDisk
  <2>7. LiveVerdict(q, topology) = "LikelyLive"
    BY <2>4, <2>5, <2>6 DEF LiveVerdict, Supported
  <2>8. basis = "LikelyLive"
    BY <1>1, <2>7 DEF basis, newDiagnosisReport
  <2>9. LET a == AssessEBPFVMAttribution(diagnosis.report, {victim}, suspect) IN ~(a.available /\ a.quality = "available")
    BY <1>5 DEF AssessEBPFVMAttribution
  <2>10. ApplyEBPFVMAttribution("LikelyLive", diagnosis.report, {victim}, suspect) = "LikelyLive"
    BY <2>9 DEF ApplyEBPFVMAttribution
  <2> QED BY <1>2, <1>5, <2>8, <2>10
<1> QED BY <1>2, <1>3, <1>4, <1>5, Zenon DEF suspect

\* The verdict and the correlations of a snapshot agree.
LEMMA ToolsAgreeIs == SamplingInv /\ DiagnosisInv => ToolsAgree
<1> SUFFICES ASSUME SamplingInv, DiagnosisInv, Diagnosed, diagnosis.verdict = "LikelyLive"
             PROVE  /\ diagnosis.score = "HIGH"
                    /\ request.victim \in Names /\ diagnosis.disks = disks =>
                         {"victim_and_suspect_share_physical_disk", "suspect_qemu_write_pressure_high"} \subseteq
                           Observe(request, request.suspect, Summaries, disks, "whole", "whole", NoAttribution).correlations
  BY DEF ToolsAgree
<1> DEFINE S == Summaries
           suspect == diagnosis.suspect
           q == finalizeSummary(Victims, suspect, S)
           topology == Topology(Victims, suspect, diagnosis.disks)
           basis == newDiagnosisReport(diagnosis.impact, q, topology)
<1>1. diagnosis.verdict = IF request.discover /\ suspect = None THEN "NoDominantCandidate"
                          ELSE ApplyEBPFVMAttribution(basis, diagnosis.report, Victims, suspect)
  BY DiagnosedIs
<1>2. diagnosis.score = IterationScore(request.discover, suspect, q)
  BY DiagnosedIs
<1>3. request.discover =>
        /\ Discoverable(request.victim)
        /\ suspect = selectCandidate(request.victim, CandidateTargets(request.victim, disks), S)
  BY DiagnosedIs
<1>4. ~request.discover => suspect = request.suspect
  BY DiagnosedIs
<1>5. request.discover \in BOOLEAN
  BY EvidenceAssumption DEF DiagnosisInv
<1> HIDE DEF S, suspect, q, topology, basis
<1>6. topology.shared /\ q.victimData /\ q.suspectData /\ Dominant(q)
  <2>1. diagnosis.verdict = ApplyEBPFVMAttribution(basis, diagnosis.report, Victims, suspect)
    BY <1>1
  <2>2. Supported(q, topology)
    BY <2>1, AlarmIs DEF basis
  <2> QED BY <2>2 DEF Supported
<1>7. suspect # None
  BY <1>6 DEF q, finalizeSummary
<1>8. diagnosis.score = "HIGH"
  <2>1. q.pressure \in BOOLEAN /\ q.callPressure \in BOOLEAN
    BY DEF q, finalizeSummary
  <2>2. pairwiseClassification(q) = "HIGH"
    BY <1>6, <2>1 DEF Dominant, pairwiseClassification
  <2> QED BY <1>2, <1>5, <1>7, <2>2 DEF IterationScore
<1>9. ASSUME request.victim \in Names, diagnosis.disks = disks
      PROVE  {"victim_and_suspect_share_physical_disk", "suspect_qemu_write_pressure_high"} \subseteq
               Observe(request, request.suspect, S, disks, "whole", "whole", NoAttribution).correlations
  <2> DEFINE victim == request.victim
             qemu == sanitizeQEMU(q, S)
             storage == buildStorage(victim, suspect, disks)
  <2>1. Victims = {victim}
    BY <1>9 DEF Victims, VictimTargets
  <2>2. suspect = IF request.discover
                  THEN IF request.discover /\ Discoverable(victim)
                       THEN selectCandidate(victim, CandidateTargets(victim, disks), S) ELSE None
                  ELSE request.suspect
    BY <1>3, <1>4
  <2>3. storage.shared
    <3>1. Union({victim}, disks) = disks[victim]
      BY DEF Union
    <3> QED BY <1>6, <1>7, <1>9, <2>1, <3>1 DEF topology, Topology, buildStorage
  <2>4. qemu.pressure /\ qemu.dominant
    <3>1. q.pressure \/ q.callPressure
      BY <1>6 DEF Dominant
    <3>2. q.dominant \/ q.callDominant
      BY <1>6 DEF Dominant
    <3> QED BY <3>1, <3>2 DEF sanitizeQEMU
  <2>5. q = finalizeSummary({victim}, suspect, S)
    BY <2>1 DEF q
  <2> HIDE DEF victim, qemu, storage
  <2>6. \E attribution : Observe(request, request.suspect, S, disks, "whole", "whole", NoAttribution).correlations
                           = buildCorrelations(suspect, storage, qemu, attribution)
    BY <2>2, <2>5, Zenon DEF Observe, victim, qemu, storage
  <2> QED BY <1>7, <2>3, <2>4, <2>6 DEF buildCorrelations, upsertVMAttributionCorrelations
<1> QED BY <1>8, <1>9 DEF S

-----------------------------------------------------------------------------
(* The sections of a snapshot.                                             *)

SectionNames ==
  BaseSections \cup {"discovery", "victim_guest_status", "victim_service_status", "victim_db_status",
                                  "suspect_guest_status", "suspect_service_status", "suspect_db_status",
                                  "ebpf_vm_attribution", "observe_snapshot"}
States == Missing \cup {"measured", "derived"}
\* A section of the evidence and its state.
Sections == [section : SectionNames, state : States]
\* The states a section of the base can be in.
Settled == {"unavailable", "error", "partial", "measured", "derived"}

\* Evidence that names these sections, every one once.
EvidenceIs(e, names) ==
  /\ e \in [sections : Seq(Sections), unavailable : Seq(Sections)]
  /\ Distinct(e.sections)
  /\ Range(e.unavailable) = {q \in Range(e.sections) : q.state \in Missing}
  /\ \A q \in Range(e.sections) : q.section \in names /\ (q.section \in BaseSections => q.state \in Settled)
  /\ \A name \in names : \E q \in Range(e.sections) : q.section = name

\* Nothing was collected yet.
LEMMA BlankIs == EvidenceIs(Blank, {})
BY EmptyIs DEF EvidenceIs, Blank

\* A section that is new is added.
LEMMA AddIs ==
  ASSUME NEW e, NEW names, EvidenceIs(e, names), NEW name \in SectionNames, name \notin names,
         NEW state \in States, name \in BaseSections => state \in Settled
  PROVE  /\ EvidenceIs(addSection(e, name, state), names \cup {name})
         /\ Section(name, state) \in Range(addSection(e, name, state).sections)
<1> DEFINE q == Section(name, state)
           f == addSection(e, name, state)
<1>1. q \in Sections /\ q.section = name /\ q.state = state
  BY DEF Section, Sections
<1> HIDE DEF q
<1>2. e \in [sections : Seq(Sections), unavailable : Seq(Sections)] /\ e.sections \in Seq(Sections)
        /\ e.unavailable \in Seq(Sections)
  BY DEF EvidenceIs
<1>3. f.sections = Append(e.sections, q) /\ f.unavailable
        = IF state \in Missing THEN Append(e.unavailable, q) ELSE e.unavailable
  BY <1>2, Zenon DEF addSection, q
<1>4. f \in [sections : Seq(Sections), unavailable : Seq(Sections)]
  <2>1. \A a, b \in Seq(Sections) :
          [e EXCEPT !.sections = a, !.unavailable = b]
            \in [sections : Seq(Sections), unavailable : Seq(Sections)]
    BY <1>2
  <2>2. Append(e.sections, q) \in Seq(Sections) /\ Append(e.unavailable, q) \in Seq(Sections)
    BY <1>1, <1>2
  <2>3. f = [e EXCEPT !.sections = Append(e.sections, q),
                      !.unavailable = IF state \in Missing THEN Append(e.unavailable, q) ELSE e.unavailable]
    BY <1>2 DEF addSection, q
  <2>4. (IF state \in Missing THEN Append(e.unavailable, q) ELSE e.unavailable) \in Seq(Sections)
    BY <1>2, <2>2
  <2> QED BY <2>1, <2>2, <2>3, <2>4
<1> HIDE DEF f
<1>5. /\ f.sections \in Seq(Sections) /\ Range(f.sections) = Range(e.sections) \cup {q}
      /\ Distinct(f.sections)
  <2>1. \A p \in Range(e.sections) : p.section # q.section
    BY <1>1 DEF EvidenceIs
  <2>2. Distinct(e.sections)
    BY DEF EvidenceIs
  <2> QED BY <1>1, <1>2, <1>3, <2>1, <2>2, AppendIs
<1>6. f.unavailable \in Seq(Sections) /\ Range(f.unavailable) = {p \in Range(f.sections) : p.state \in Missing}
  <2>1. Append(e.unavailable, q) \in Seq(Sections)
          /\ Range(Append(e.unavailable, q)) = Range(e.unavailable) \cup {q}
    BY <1>1, <1>2, AppendIs
  <2>2. Range(e.unavailable) = {p \in Range(e.sections) : p.state \in Missing}
    BY DEF EvidenceIs
  <2>3. CASE state \in Missing
    BY <1>1, <1>3, <1>5, <2>1, <2>2, <2>3
  <2>4. CASE state \notin Missing
    BY <1>1, <1>2, <1>3, <1>5, <2>2, <2>4
  <2> QED BY <2>3, <2>4
<1>7. /\ \A p \in Range(f.sections) : p.section \in names \cup {name}
           /\ (p.section \in BaseSections => p.state \in Settled)
      /\ \A n \in names \cup {name} : \E p \in Range(f.sections) : p.section = n
  BY <1>1, <1>5 DEF EvidenceIs
<1>8. EvidenceIs(f, names \cup {name})
  BY <1>4, <1>5, <1>6, <1>7 DEF EvidenceIs
<1> QED BY <1>5, <1>8 DEF f, q

\* A section is removed.
LEMMA RemoveIs ==
  ASSUME NEW e, NEW names, EvidenceIs(e, names), NEW name
  PROVE  EvidenceIs(removeEvidenceSection(e, name), names \ {name})
<1> DEFINE f == removeEvidenceSection(e, name)
           others == {q \in Range(e.sections) : q.section # name}
<1>0. e \in [sections : Seq(Sections), unavailable : Seq(Sections)]
  BY DEF EvidenceIs
<1>1. /\ f = [e EXCEPT !.sections = Keep(@, others), !.unavailable = Keep(@, others)]
      /\ f.sections = Keep(e.sections, others) /\ f.unavailable = Keep(e.unavailable, others)
  BY <1>0 DEF removeEvidenceSection
<1>2. e.sections \in Seq(Sections) /\ e.unavailable \in Seq(Sections) /\ Distinct(e.sections)
      /\ Range(e.unavailable) = {q \in Range(e.sections) : q.state \in Missing}
      /\ (\A q \in Range(e.sections) : q.section \in names /\ (q.section \in BaseSections => q.state \in Settled))
      /\ (\A n \in names : \E q \in Range(e.sections) : q.section = n)
  BY DEF EvidenceIs
<1> HIDE DEF f
<1>3. f.sections \in Seq(Sections) /\ Range(f.sections) = others /\ Distinct(f.sections)
  BY <1>1, <1>2, KeepIs
<1>4. f.unavailable \in Seq(Sections) /\ Range(f.unavailable) = Range(e.unavailable) \cap others
  BY <1>1, <1>2, KeepIs
<1>5. f \in [sections : Seq(Sections), unavailable : Seq(Sections)]
  <2>1. \A a, b \in Seq(Sections) :
          [e EXCEPT !.sections = a, !.unavailable = b]
            \in [sections : Seq(Sections), unavailable : Seq(Sections)]
    BY <1>0
  <2> QED BY <1>1, <1>3, <1>4, <2>1
<1>6. EvidenceIs(f, names \ {name})
  BY <1>2, <1>3, <1>4, <1>5 DEF EvidenceIs
<1> QED BY <1>6 DEF f

\* Where the elements of two sequences are.
LEMMA ConcatIs ==
  ASSUME NEW T, NEW a \in Seq(T), NEW b \in Seq(T)
  PROVE  /\ a \o b \in Seq(T) /\ Range(a \o b) = Range(a) \cup Range(b)
         /\ Distinct(a) /\ Distinct(b) /\ (\A p \in Range(a), q \in Range(b) : p.section # q.section)
              => Distinct(a \o b)
<1> DEFINE m == Len(a)
           n == Len(b)
           c == a \o b
<1>1. m \in Nat /\ n \in Nat /\ DOMAIN a = 1..m /\ DOMAIN b = 1..n
  OBVIOUS
<1>2. c \in Seq(T) /\ DOMAIN c = 1..(m + n)
  BY ConcatProperties
<1>3. /\ \A i \in 1..m : i \in 1..(m + n) /\ c[i] = a[i]
      /\ \A i \in 1..n : m + i \in 1..(m + n) /\ c[m + i] = b[i]
  BY ConcatProperties
<1> HIDE DEF m, n, c
<1>4. \A k \in 1..(m + n) : k \in 1..m \/ \E i \in 1..n : k = m + i
  <2> TAKE k \in 1..(m + n)
  <2>1. CASE k <= m
    BY <1>1, <2>1
  <2>2. CASE ~(k <= m)
    <3>1. k - m \in 1..n /\ k = m + (k - m)
      BY <1>1, <2>2
    <3> QED BY <3>1
  <2> QED BY <2>1, <2>2
<1>5. Range(c) = Range(a) \cup Range(b)
  <2>1. \A x \in Range(c) : x \in Range(a) \/ x \in Range(b)
    <3> TAKE x \in Range(c)
    <3>1. PICK k \in 1..(m + n) : x = c[k]
      BY <1>2 DEF Range
    <3>2. CASE k \in 1..m
      BY <1>1, <1>3, <3>1, <3>2 DEF Range
    <3>3. CASE \E i \in 1..n : k = m + i
      <4>1. PICK i \in 1..n : k = m + i
        BY <3>3
      <4>2. x = b[i]
        BY <1>3, <3>1, <4>1
      <4> QED BY <1>1, <4>2 DEF Range
    <3> QED BY <1>4, <3>2, <3>3
  <2>2. \A x \in Range(a) : x \in Range(c)
    BY <1>1, <1>2, <1>3 DEF Range
  <2>3. \A x \in Range(b) : x \in Range(c)
    BY <1>1, <1>2, <1>3 DEF Range
  <2> QED BY <2>1, <2>2, <2>3
<1>6. ASSUME Distinct(a), Distinct(b), \A p \in Range(a), q \in Range(b) : p.section # q.section
      PROVE  Distinct(c)
  <2> SUFFICES ASSUME NEW k \in 1..(m + n), NEW l \in 1..(m + n), c[k].section = c[l].section PROVE k = l
    BY <1>2 DEF Distinct
  <2>1. \A i \in 1..m, j \in 1..n : a[i].section # b[j].section
    BY <1>1, <1>6 DEF Range
  <2>2. \A i, j \in 1..m : a[i].section = a[j].section => i = j
    BY <1>1, <1>6 DEF Distinct
  <2>3. \A i, j \in 1..n : b[i].section = b[j].section => i = j
    BY <1>1, <1>6 DEF Distinct
  <2>4. CASE k \in 1..m /\ l \in 1..m
    BY <1>3, <2>2, <2>4
  <2>5. CASE k \in 1..m /\ \E j \in 1..n : l = m + j
    BY <1>3, <2>1, <2>5
  <2>6. CASE (\E i \in 1..n : k = m + i) /\ l \in 1..m
    BY <1>3, <2>1, <2>6
  <2>7. CASE (\E i \in 1..n : k = m + i) /\ \E j \in 1..n : l = m + j
    BY <1>3, <2>3, <2>7
  <2> QED BY <1>4, <2>4, <2>5, <2>6, <2>7
<1> QED BY <1>2, <1>5, <1>6 DEF c

\* The sections of two targets are put together.
LEMMA MergeIs ==
  ASSUME NEW e, NEW names, EvidenceIs(e, names), NEW d, NEW others, EvidenceIs(d, others), names \cap others
    = {}
  PROVE  EvidenceIs(mergeOptionalResult(e, d), names \cup others)
<1> DEFINE f == mergeOptionalResult(e, d)
<1>0. e \in [sections : Seq(Sections), unavailable : Seq(Sections)]
  BY DEF EvidenceIs
<1>1. /\ f = [e EXCEPT !.sections = @ \o d.sections, !.unavailable = @ \o d.unavailable]
      /\ f.sections = e.sections \o d.sections /\ f.unavailable = e.unavailable \o d.unavailable
  BY <1>0 DEF mergeOptionalResult
<1> HIDE DEF f
<1>2. f.sections \in Seq(Sections) /\ Range(f.sections) = Range(e.sections) \cup Range(d.sections)
        /\ Distinct(f.sections)
  <2>1. \A p \in Range(e.sections), q \in Range(d.sections) : p.section # q.section
    BY DEF EvidenceIs
  <2>2. e.sections \in Seq(Sections) /\ d.sections \in Seq(Sections) /\ Distinct(e.sections)
          /\ Distinct(d.sections)
    BY DEF EvidenceIs
  <2> QED BY <1>1, <2>1, <2>2, ConcatIs
<1>3. f.unavailable \in Seq(Sections) /\ Range(f.unavailable) = Range(e.unavailable) \cup Range(d.unavailable)
  <2>1. e.unavailable \in Seq(Sections) /\ d.unavailable \in Seq(Sections)
    BY DEF EvidenceIs
  <2> QED BY <1>1, <2>1, ConcatIs
<1>4. Range(f.unavailable) = {q \in Range(f.sections) : q.state \in Missing}
  BY <1>2, <1>3 DEF EvidenceIs
<1>5. /\ \A q \in Range(f.sections) : q.section \in names \cup others
           /\ (q.section \in BaseSections => q.state \in Settled)
      /\ \A n \in names \cup others : \E q \in Range(f.sections) : q.section = n
  BY <1>2 DEF EvidenceIs
<1>6. f \in [sections : Seq(Sections), unavailable : Seq(Sections)]
  <2>1. \A a, b \in Seq(Sections) :
          [e EXCEPT !.sections = a, !.unavailable = b]
            \in [sections : Seq(Sections), unavailable : Seq(Sections)]
    BY <1>0
  <2> QED BY <1>1, <1>2, <1>3, <2>1
<1>7. EvidenceIs(f, names \cup others)
  BY <1>2, <1>3, <1>4, <1>5, <1>6 DEF EvidenceIs
<1> QED BY <1>7 DEF f

\* Each target adds its three sections.
LEMMA OptionalsAre ==
  ASSUME NEW called \in {OfVictim, OfSuspect}, NEW name, NEW req, NEW answer \in Availability
  PROVE  EvidenceIs(collectTargetOptionals(called, name, req, answer), {called.guest, called.service, called.db})
<1> DEFINE Refusals == States \cup {""}
<1>1. stateForAvailability(answer) \in States
  BY DEF stateForAvailability, Availability, States, Missing
<1>2. \A refusal \in Refusals : (IF refusal # "" THEN refusal ELSE stateForAvailability(answer)) \in States
  BY <1>1
<1>3. /\ GuestRefusal(req) \in Refusals
      /\ \A c, i : ConfiguredRefusal(req, c, i) \in Refusals /\ DatabaseRefusal(c, i) \in Refusals
  BY DEF GuestRefusal, ConfiguredRefusal, DatabaseRefusal, States, Missing
<1>4. /\ called.guest \in SectionNames /\ called.service \in SectionNames /\ called.db \in SectionNames
      /\ called.guest # called.service /\ called.guest # called.db /\ called.service # called.db
      /\ called.guest \notin BaseSections /\ called.service \notin BaseSections /\ called.db \notin BaseSections
  BY DEF OfVictim, OfSuspect, BaseSections, SectionNames
<1> HIDE DEF Refusals
<1> DEFINE configured == name \in req.configured
           guest == Optional(Blank, called.guest, GuestRefusal(req), answer)
           service == Optional(guest, called.service, ConfiguredRefusal(req, configured, req.includeServices), answer)
           db == Optional(service, called.db, DatabaseRefusal(configured, req.includeDB), answer)
<1> HIDE DEF configured
<1>5. EvidenceIs(guest, {called.guest})
  <2> DEFINE state == IF GuestRefusal(req) # "" THEN GuestRefusal(req) ELSE stateForAvailability(answer)
  <2>1. state \in States
    BY <1>2, <1>3
  <2> HIDE DEF state
  <2>2. EvidenceIs(addSection(Blank, called.guest, state), {} \cup {called.guest})
    BY <1>4, <2>1, BlankIs, AddIs
  <2>3. {} \cup {called.guest} = {called.guest}
    OBVIOUS
  <2> QED BY <2>2, <2>3, Zenon DEF Optional, state
<1> HIDE DEF guest
<1>6. EvidenceIs(service, {called.guest, called.service})
  <2> DEFINE refusal == ConfiguredRefusal(req, configured, req.includeServices)
             state == IF refusal # "" THEN refusal ELSE stateForAvailability(answer)
  <2>1. state \in States
    BY <1>2, <1>3
  <2> HIDE DEF state
  <2>2. EvidenceIs(addSection(guest, called.service, state), {called.guest} \cup {called.service})
    <3>1. called.service \notin {called.guest}
      BY <1>4
    <3> QED BY <1>4, <1>5, <2>1, <3>1, AddIs
  <2>3. {called.guest} \cup {called.service} = {called.guest, called.service}
    OBVIOUS
  <2> QED BY <2>2, <2>3, Zenon DEF Optional, state
<1> HIDE DEF service
<1>7. EvidenceIs(db, {called.guest, called.service, called.db})
  <2> DEFINE refusal == DatabaseRefusal(configured, req.includeDB)
             state == IF refusal # "" THEN refusal ELSE stateForAvailability(answer)
  <2>1. state \in States
    BY <1>2, <1>3
  <2> HIDE DEF state
  <2>2. EvidenceIs(addSection(service, called.db, state), {called.guest, called.service} \cup {called.db})
    <3>1. called.db \notin {called.guest, called.service}
      BY <1>4
    <3> QED BY <1>4, <1>6, <2>1, <3>1, AddIs
  <2>3. {called.guest, called.service} \cup {called.db} = {called.guest, called.service, called.db}
    OBVIOUS
  <2> QED BY <2>2, <2>3, Zenon DEF Optional, state
<1> QED BY <1>7, Zenon DEF collectTargetOptionals, configured, guest, service

\* The base is there as a whole or not at all.
Whole(names) == BaseSections \subseteq names \/ BaseSections \cap names = {}

\* What the quality of a snapshot says of its sections.
LEMMA QualityIs ==
  ASSUME NEW e, NEW names, EvidenceIs(e, names), Whole(names), finalizeQuality(e) = "measured"
  PROVE  BaseSections \subseteq {q.section : q \in {r \in Range(e.sections) : r.state \in {"measured", "derived"}}}
<1> DEFINE base == {q.state : q \in {r \in Range(e.sections) : r.section \in BaseSections}}
           all == {q.state : q \in Range(e.sections)}
<1>1. base \cap {"measured", "derived", "partial"} # {} /\ base \cap {"unavailable", "error"} = {}
      /\ all \cap {"partial", "error"} = {}
  <2> HIDE DEF base, all
  <2> QED BY DEF finalizeQuality, base, all
<1>2. BaseSections \subseteq names
  <2>1. PICK q \in Range(e.sections) : q.section \in BaseSections
    BY <1>1
  <2> QED BY <2>1 DEF EvidenceIs, Whole
<1>3. ASSUME NEW name \in BaseSections
      PROVE  \E q \in Range(e.sections) : q.section = name /\ q.state \in {"measured", "derived"}
  <2>1. PICK q \in Range(e.sections) : q.section = name
    BY <1>2 DEF EvidenceIs
  <2>2. q.state \in base /\ q.state \in all
    BY <2>1
  <2>3. q.state \in Settled
    BY <2>1 DEF EvidenceIs
  <2> HIDE DEF base, all
  <2> QED BY <1>1, <2>1, <2>2, <2>3 DEF Settled
<1> QED BY <1>3

\* The state of a section is that of its one entry.
LEMMA StateIs ==
  ASSUME NEW e, NEW names, EvidenceIs(e, names), NEW name, NEW state, Section(name, state) \in Range(e.sections)
  PROVE  StateOf(e, name) = state
<1>1. \A p, q \in Range(e.sections) : p.section = q.section => p = q
  BY DEF EvidenceIs, Distinct, Range
<1>2. Section(name, state).section = name /\ Section(name, state).state = state
  BY DEF Section
<1>3. (CHOOSE q \in Range(e.sections) : q.section = name) = Section(name, state)
  BY <1>1, <1>2
<1> QED BY <1>2, <1>3 DEF StateOf

\* What the projection of a report says of the report.
LEMMA ProjectedIs ==
  ASSUME NEW account, NEW victim, NEW suspect
  PROVE  LET a == ProjectedAttribution(account, victim, suspect)
         IN /\ a.state \in {"measured", "partial", "unavailable"}
            /\ a.state = "measured" => account.quality = "available"
            /\ a.available /\ suspect # None => account.available /\ a.suspectOps = account.ops[suspect]
<1> DEFINE available == /\ account.available /\ account.attributed > 0
                        /\ account.quality \in {"available", "degraded"}
<1> HIDE DEF available
<1>1. ProjectedAttribution(account, victim, suspect) =
        [available |-> available,
         state |-> CASE available /\ account.quality = "available" -> "measured"
                     [] available /\ account.quality = "degraded" -> "partial"
                     [] OTHER -> "unavailable",
         suspectOps |-> IF available /\ suspect # None THEN account.ops[suspect] ELSE 0]
  BY DEF ProjectedAttribution, available
<1>2. available => account.available
  BY DEF available
<1> QED BY <1>1, <1>2

\* Applying a report replaces the section of the attribution.
LEMMA AppliedIs ==
  ASSUME NEW e, NEW names, EvidenceIs(e, names), NEW account, NEW victim, NEW suspect
  PROVE  LET f == ApplyEBPFToSnapshot(e, account, victim, suspect)
         IN /\ EvidenceIs(f, ((names \ {"ebpf_latency"}) \ {"ebpf_vm_attribution"}) \cup {"ebpf_vm_attribution"})
            /\ StateOf(f, "ebpf_vm_attribution") = ProjectedAttribution(account, victim, suspect).state
<1> DEFINE state == ProjectedAttribution(account, victim, suspect).state
           left == (names \ {"ebpf_latency"}) \ {"ebpf_vm_attribution"}
           name == "ebpf_vm_attribution"
           bare == removeEvidenceSection(removeEvidenceSection(e, "ebpf_latency"), "ebpf_vm_attribution")
           f == addSection(bare, name, state)
<1>1. EvidenceIs(bare, left)
  <2>1. EvidenceIs(removeEvidenceSection(e, "ebpf_latency"), names \ {"ebpf_latency"})
    BY RemoveIs
  <2> QED BY <2>1, RemoveIs
<1>2. state \in States
  <2>1. state \in {"measured", "partial", "unavailable"}
    BY ProjectedIs
  <2> HIDE DEF state
  <2> QED BY <2>1 DEF States, Missing
<1>3. name \in SectionNames /\ name \notin BaseSections /\ name \notin left
  BY DEF SectionNames, BaseSections
<1> HIDE DEF bare, left, state, name
<1>4. EvidenceIs(f, left \cup {name}) /\ Section(name, state) \in Range(f.sections)
  BY <1>1, <1>2, <1>3, AddIs
<1>5. StateOf(f, name) = state
  BY <1>4, StateIs
<1>6. ApplyEBPFToSnapshot(e, account, victim, suspect) = f
  BY DEF ApplyEBPFToSnapshot, bare, state, name
<1> QED BY <1>4, <1>5, <1>6 DEF left, state, name

\* A snapshot has every section of the base once, or none, and the quality that
\* follows.
LEMMA ObservedIs ==
  ASSUME NEW req, req.discover \in BOOLEAN, NEW explicit, NEW S, NEW on, NEW host \in Availability,
         NEW answer \in Availability, NEW account
  PROVE  LET o == Observe(req, explicit, S, on, host, answer, account)
         IN /\ \E names : EvidenceIs(o.evidence, names) /\ Whole(names)
            /\ o.quality = finalizeQuality(o.evidence)
            /\ o = [suspect |-> o.suspect, evidence |-> o.evidence, quality |-> o.quality, correlations |-> o.correlations]
            /\ ~req.discover => o.suspect = explicit
<1> DEFINE victim == req.victim
           discover == req.discover
           running == Range(allRunningPlan)
           found == IF discover /\ Discoverable(victim)
                    THEN selectCandidate(victim, CandidateTargets(victim, on), S) ELSE None
           suspect == IF discover THEN found ELSE explicit
           q == finalizeSummary({victim}, suspect, S)
           qemu == sanitizeQEMU(q, S)
           storage == buildStorage(victim, suspect, on)
           t1 == stateForAvailability(host)
           t2 == IF \E name \in running : ~S[name].available THEN "partial" ELSE "measured"
           t3 == CASE ~discover -> "disabled"
                   [] discover /\ ~Discoverable(victim) -> "error"
                   [] discover /\ Discoverable(victim) -> "derived"
           t4 == IF qemu.available THEN "measured" ELSE "unavailable"
           t5 == IF storage.available THEN "derived" ELSE "unavailable"
           s1 == addSection(Blank, "host_status", t1)
           s2 == addSection(s1, "vm_status", t2)
           s3 == addSection(s2, "discovery", t3)
           s4 == addSection(s3, "qemu_evidence", t4)
           s5 == addSection(s4, "storage_topology", t5)
           s6 == mergeOptionalResult(s5, collectTargetOptionals(OfVictim, victim, req, answer))
           s7 == IF suspect = None THEN s6
                 ELSE mergeOptionalResult(s6, collectTargetOptionals(OfSuspect, suspect, req, answer))
           s8 == CASE account.given -> ApplyEBPFToSnapshot(s7, account, victim, suspect)
                   [] ~account.given /\ req.ebpf -> addSection(s7, "ebpf_vm_attribution", "unsupported")
                   [] ~account.given /\ ~req.ebpf -> addSection(s7, "ebpf_vm_attribution", "disabled")
           attribution == IF account.given THEN ProjectedAttribution(account, victim, suspect) ELSE NotProjected
           n5 == {"host_status", "vm_status", "discovery", "qemu_evidence", "storage_topology"}
           n6 == n5 \cup {OfVictim.guest, OfVictim.service, OfVictim.db}
           n7 == n6 \cup {OfSuspect.guest, OfSuspect.service, OfSuspect.db}
<1>1. Observe(req, explicit, S, on, host, answer, account) =
        [suspect |-> suspect, evidence |-> s8, quality |-> finalizeQuality(s8),
         correlations |-> buildCorrelations(suspect, storage, qemu, attribution)]
  BY Zenon DEF Observe
<1>2. /\ t1 \in States /\ t1 \in Settled /\ t2 \in States /\ t2 \in Settled /\ t3 \in States
      /\ t4 \in States /\ t4 \in Settled /\ t5 \in States /\ t5 \in Settled
  <2>1. t1 \in States /\ t1 \in Settled
    BY DEF stateForAvailability, Availability, States, Settled, Missing
  <2>2. t2 \in States /\ t2 \in Settled
    BY DEF States, Settled, Missing
  <2>3. t3 \in States
    BY DEF States, Missing
  <2>4. t4 \in States /\ t4 \in Settled
    BY DEF States, Settled, Missing
  <2>5. t5 \in States /\ t5 \in Settled
    BY DEF States, Settled, Missing
  <2> QED BY <2>1, <2>2, <2>3, <2>4, <2>5
<1> HIDE DEF t1, t2, t3, t4, t5
<1>3. EvidenceIs(s1, {"host_status"})
  <2>1. "host_status" \in SectionNames
    BY DEF SectionNames, BaseSections
  <2>2. EvidenceIs(s1, {} \cup {"host_status"})
    BY <1>2, <2>1, BlankIs, AddIs
  <2>3. {} \cup {"host_status"} = {"host_status"}
    OBVIOUS
  <2> QED BY <2>2, <2>3, Zenon
<1> HIDE DEF s1
<1>4. EvidenceIs(s2, {"host_status", "vm_status"})
  <2>1. "vm_status" \in SectionNames /\ "vm_status" \notin {"host_status"}
    BY DEF SectionNames, BaseSections
  <2>2. EvidenceIs(s2, {"host_status"} \cup {"vm_status"})
    BY <1>2, <1>3, <2>1, AddIs
  <2>3. {"host_status"} \cup {"vm_status"} = {"host_status", "vm_status"}
    OBVIOUS
  <2> QED BY <2>2, <2>3, Zenon
<1> HIDE DEF s2
<1>5. EvidenceIs(s3, {"host_status", "vm_status", "discovery"})
  <2>1. "discovery" \in SectionNames /\ "discovery" \notin {"host_status", "vm_status"}
          /\ "discovery" \notin BaseSections
    BY DEF SectionNames, BaseSections
  <2>2. EvidenceIs(s3, {"host_status", "vm_status"} \cup {"discovery"})
    BY <1>2, <1>4, <2>1, AddIs
  <2>3. {"host_status", "vm_status"} \cup {"discovery"} = {"host_status", "vm_status", "discovery"}
    OBVIOUS
  <2> QED BY <2>2, <2>3, Zenon
<1> HIDE DEF s3
<1>6. EvidenceIs(s4, {"host_status", "vm_status", "discovery", "qemu_evidence"})
  <2>1. "qemu_evidence" \in SectionNames /\ "qemu_evidence" \notin {"host_status", "vm_status", "discovery"}
    BY DEF SectionNames, BaseSections
  <2>2. EvidenceIs(s4, {"host_status", "vm_status", "discovery"} \cup {"qemu_evidence"})
    BY <1>2, <1>5, <2>1, AddIs
  <2>3. {"host_status", "vm_status", "discovery"} \cup {"qemu_evidence"}
          = {"host_status", "vm_status", "discovery", "qemu_evidence"}
    OBVIOUS
  <2> QED BY <2>2, <2>3, Zenon
<1> HIDE DEF s4
<1>7. EvidenceIs(s5, n5)
  <2>1. "storage_topology" \in SectionNames
        /\ "storage_topology" \notin {"host_status", "vm_status", "discovery", "qemu_evidence"}
    BY DEF SectionNames, BaseSections
  <2>2. EvidenceIs(s5, {"host_status", "vm_status", "discovery", "qemu_evidence"} \cup {"storage_topology"})
    BY <1>2, <1>6, <2>1, AddIs
  <2>3. {"host_status", "vm_status", "discovery", "qemu_evidence"} \cup {"storage_topology"} = n5
    OBVIOUS
  <2> QED BY <2>2, <2>3, Zenon
<1> HIDE DEF s5
<1>8. /\ n5 \cap {OfVictim.guest, OfVictim.service, OfVictim.db} = {}
      /\ n6 \cap {OfSuspect.guest, OfSuspect.service, OfSuspect.db} = {}
      /\ "ebpf_vm_attribution" \notin n7 /\ BaseSections \subseteq n5
  BY DEF OfVictim, OfSuspect, BaseSections
<1>9. BaseSections \subseteq n5 /\ BaseSections \subseteq n6 /\ BaseSections \subseteq n7
  BY <1>8
<1> HIDE DEF n5
<1>10. EvidenceIs(s6, n6)
  <2>1. EvidenceIs(collectTargetOptionals(OfVictim, victim, req, answer), {OfVictim.guest, OfVictim.service, OfVictim.db})
    BY OptionalsAre
  <2> QED BY <1>7, <1>8, <2>1, MergeIs
<1> HIDE DEF s6, n6
<1>11. \E names : EvidenceIs(s7, names) /\ BaseSections \subseteq names /\ "ebpf_vm_attribution" \notin names
  <2>1. CASE suspect = None
    <3>1. s7 = s6
      BY <2>1, Zenon
    <3>2. "ebpf_vm_attribution" \notin n6
      BY <1>8
    <3> QED BY <1>9, <1>10, <3>1, <3>2, Zenon
  <2>2. CASE suspect # None
    <3>1. s7 = mergeOptionalResult(s6, collectTargetOptionals(OfSuspect, suspect, req, answer))
      BY <2>2, Zenon
    <3>2. EvidenceIs(collectTargetOptionals(OfSuspect, suspect, req, answer), {OfSuspect.guest, OfSuspect.service, OfSuspect.db})
      BY OptionalsAre
    <3>3. EvidenceIs(mergeOptionalResult(s6, collectTargetOptionals(OfSuspect, suspect, req, answer)), n7)
      BY <1>8, <1>10, <3>2, MergeIs
    <3> HIDE DEF n7, s7
    <3> QED BY <1>8, <1>9, <3>1, <3>3, Zenon
  <2> QED BY <2>1, <2>2
<1> HIDE DEF s7, n7, suspect
<1>12. \E names : EvidenceIs(s8, names) /\ Whole(names)
  <2> DEFINE ebpf == "ebpf_vm_attribution"
  <2>1. PICK names : EvidenceIs(s7, names) /\ BaseSections \subseteq names /\ ebpf \notin names
    BY <1>11
  <2>2. /\ "unsupported" \in States /\ "disabled" \in States
        /\ ebpf \in SectionNames /\ ebpf \notin BaseSections
    BY DEF States, Missing, SectionNames, BaseSections
  <2>3. CASE account.given
    <3>1. s8 = ApplyEBPFToSnapshot(s7, account, victim, suspect)
      BY <2>3
    <3> DEFINE more == ((names \ {"ebpf_latency"}) \ {"ebpf_vm_attribution"}) \cup {"ebpf_vm_attribution"}
    <3>2. EvidenceIs(s8, more)
      BY <2>1, <3>1, AppliedIs
    <3>3. BaseSections \subseteq more
      BY <2>1 DEF BaseSections
    <3> HIDE DEF more
    <3> QED BY <3>2, <3>3, Zenon DEF Whole
  <2>4. CASE ~account.given
    <3>1. s8 = addSection(s7, ebpf, "unsupported") \/ s8 = addSection(s7, ebpf, "disabled")
      BY <2>4
    <3> HIDE DEF s8, ebpf
    <3>2. EvidenceIs(s8, names \cup {ebpf})
      BY <2>1, <2>2, <3>1, AddIs
    <3> QED BY <2>1, <3>2 DEF Whole
  <2> QED BY <2>3, <2>4
<1>13. ~req.discover => suspect = explicit
  BY DEF suspect
<1> HIDE DEF s8, victim, discover, storage, qemu, attribution
<1> QED BY <1>1, <1>12, <1>13

\* A snapshot whose evidence and quality agree.
Agrees(s) ==
  /\ \E names : EvidenceIs(s.evidence, names) /\ Whole(names)
  /\ s.quality \in {finalizeQuality(s.evidence), "unavailable"}
  /\ s = [suspect |-> s.suspect, evidence |-> s.evidence, quality |-> s.quality, correlations |-> s.correlations]

\* The snapshot of a refused observation agrees with itself.
LEMMA UnavailableAgrees ==
  ASSUME NEW suspect
  PROVE  Agrees(NewUnavailableSnapshot(suspect)) /\ NewUnavailableSnapshot(suspect).suspect = suspect
<1> DEFINE e == addSection(Blank, "observe_snapshot", "error")
<1>1. NewUnavailableSnapshot(suspect) =
        [suspect |-> suspect, evidence |-> e, quality |-> "unavailable", correlations |-> {}]
  BY Zenon DEF NewUnavailableSnapshot
<1>2. "observe_snapshot" \in SectionNames /\ "observe_snapshot" \notin BaseSections /\ "error" \in States
  BY DEF SectionNames, BaseSections, States, Missing
<1>3. EvidenceIs(e, {} \cup {"observe_snapshot"})
  BY <1>2, BlankIs, AddIs
<1>4. Whole({} \cup {"observe_snapshot"})
  BY <1>2 DEF Whole
<1> HIDE DEF e
<1> QED BY <1>1, <1>3, <1>4 DEF Agrees

\* Putting a report into a snapshot keeps it in agreement.
LEMMA BundleAgrees ==
  ASSUME NEW s, Agrees(s), NEW req, NEW account
  PROVE  LET b == SnapshotOfBundle(s, req, account)
             a == ProjectedAttribution(account, req.victim, s.suspect)
         IN /\ Agrees(b) /\ b.suspect = s.suspect
            /\ req.ebpf => /\ StateOf(b.evidence, "ebpf_vm_attribution") = a.state
                           /\ b.correlations = upsertVMAttributionCorrelations(s.correlations, s.suspect, a)
<1>1. CASE ~req.ebpf
  BY <1>1 DEF SnapshotOfBundle
<1>2. CASE req.ebpf
  <2> DEFINE a == ProjectedAttribution(account, req.victim, s.suspect)
             e == ApplyEBPFToSnapshot(s.evidence, account, req.victim, s.suspect)
             c == upsertVMAttributionCorrelations(s.correlations, s.suspect, a)
             b == SnapshotOfBundle(s, req, account)
  <2>1. b = [s EXCEPT !.evidence = e, !.quality = finalizeQuality(e), !.correlations = c]
    BY <1>2, Zenon DEF SnapshotOfBundle
  <2>2. s = [suspect |-> s.suspect, evidence |-> s.evidence, quality |-> s.quality, correlations |-> s.correlations]
    BY DEF Agrees
  <2>3. PICK names : EvidenceIs(s.evidence, names) /\ Whole(names)
    BY DEF Agrees
  <2> DEFINE more == ((names \ {"ebpf_latency"}) \ {"ebpf_vm_attribution"}) \cup {"ebpf_vm_attribution"}
  <2>4. EvidenceIs(e, more) /\ StateOf(e, "ebpf_vm_attribution") = a.state
    BY <2>3, AppliedIs
  <2>5. Whole(more)
    BY <2>3 DEF Whole, BaseSections
  <2> HIDE DEF e, c, b, more
  <2>6. b = [suspect |-> s.suspect, evidence |-> e, quality |-> finalizeQuality(e), correlations |-> c]
    BY <2>1, <2>2
  <2>7. Agrees(b) /\ b.suspect = s.suspect /\ b.evidence = e /\ b.correlations = c
    BY <2>4, <2>5, <2>6 DEF Agrees
  <2> QED BY <2>4, <2>7 DEF b, c
<1> QED BY <1>1, <1>2

\* What the evidence of a snapshot that agrees says.
LEMMA AgreesIs ==
  ASSUME NEW s, Agrees(s)
  PROVE  LET sections == s.evidence.sections
             missing == s.evidence.unavailable
         IN /\ \A i, j \in DOMAIN sections : sections[i].section = sections[j].section => i = j
            /\ Range(missing) = {q \in Range(sections) : q.state \in Missing}
            /\ s.quality = "measured" =>
                 BaseSections \subseteq {q.section : q \in {r \in Range(sections) : r.state \in {"measured", "derived"}}}
<1>1. PICK names : EvidenceIs(s.evidence, names) /\ Whole(names)
  BY DEF Agrees
<1>2. s.quality = "measured" => finalizeQuality(s.evidence) = "measured"
  BY DEF Agrees
<1>3. s.quality = "measured" =>
        BaseSections \subseteq {q.section : q \in {r \in Range(s.evidence.sections) : r.state \in {"measured", "derived"}}}
  BY <1>1, <1>2, QualityIs
<1> QED BY <1>1, <1>3 DEF EvidenceIs, Distinct

\* In a bundle: the attribution is that of the diagnosis.
BundleParts(s) ==
  /\ request.tool = "capture" /\ request.ebpf =>
       /\ StateOf(s.evidence, "ebpf_vm_attribution") = "measured" => diagnosis.report.quality = "available"
       /\ "suspect_vm_attributed_io_observed" \in s.correlations =>
            diagnosis.report.available /\ diagnosis.report.ops[s.suspect] > 0
  /\ request.tool = "capture" /\ ~request.discover => s.suspect = diagnosis.suspect

\* Both parts together are what SnapshotIsConsistent says.
LEMMA ConsistentIs == (snapshot # Nothing => Agrees(snapshot) /\ BundleParts(snapshot)) => SnapshotIsConsistent
<1> SUFFICES ASSUME snapshot # Nothing, Agrees(snapshot), BundleParts(snapshot)
             PROVE  LET sections == snapshot.evidence.sections
                        missing == snapshot.evidence.unavailable
                    IN /\ \A i, j \in DOMAIN sections : sections[i].section = sections[j].section => i = j
                       /\ Range(missing) = {q \in Range(sections) : q.state \in Missing}
                       /\ snapshot.quality = "measured" =>
                            BaseSections \subseteq {q.section : q \in {r \in Range(sections) : r.state \in {"measured", "derived"}}}
                       /\ BundleParts(snapshot)
  BY Zenon DEF SnapshotIsConsistent, BundleParts
<1> QED BY AgreesIs

\* The invariant of the snapshot.
SnapshotInv == snapshot # Nothing => phase = "ended" /\ Agrees(snapshot) /\ BundleParts(snapshot)

\* What a bundle makes of a snapshot, for the diagnosis it goes with.
LEMMA BundledIs ==
  ASSUME NEW s, Agrees(s), request.tool = "capture" /\ ~request.discover => s.suspect = diagnosis.suspect
  PROVE  LET b == SnapshotOfBundle(s, request, diagnosis.report) IN Agrees(b) /\ BundleParts(b)
<1> DEFINE b == SnapshotOfBundle(s, request, diagnosis.report)
           a == ProjectedAttribution(diagnosis.report, request.victim, s.suspect)
<1>1. /\ Agrees(b) /\ b.suspect = s.suspect
      /\ request.ebpf => /\ StateOf(b.evidence, "ebpf_vm_attribution") = a.state
                         /\ b.correlations = upsertVMAttributionCorrelations(s.correlations, s.suspect, a)
  BY BundleAgrees
<1>2. /\ a.state = "measured" => diagnosis.report.quality = "available"
      /\ a.available /\ s.suspect # None => diagnosis.report.available
           /\ a.suspectOps = diagnosis.report.ops[s.suspect]
  BY ProjectedIs
<1> HIDE DEF a, b
<1>3. "suspect_vm_attributed_io_observed" \in upsertVMAttributionCorrelations(s.correlations, s.suspect, a)
        => s.suspect # None /\ a.available /\ a.suspectOps > 0
  BY DEF upsertVMAttributionCorrelations
<1>4. BundleParts(b)
  BY <1>1, <1>2, <1>3 DEF BundleParts
<1> QED BY <1>1, <1>4 DEF b

\* The snapshot is taken as such, and kept.
LEMMA SnapshotStep == DiagnosisInv /\ SnapshotInv /\ [EvidenceNext]_evidenceVars => SnapshotInv'
<1> SUFFICES ASSUME DiagnosisInv, SnapshotInv, [EvidenceNext]_evidenceVars, snapshot' # Nothing
             PROVE  phase' = "ended" /\ Agrees(snapshot)' /\ BundleParts(snapshot)'
  BY DEF SnapshotInv
<1>1. CASE Open \/ Sample \/ Diagnose
  <2>1. UNCHANGED snapshot /\ phase # "ended"
    BY <1>1 DEF Open, Sample, Diagnose
  <2> QED BY <2>1 DEF DiagnosisInv, Unfinished
<1>2. CASE Refuse
  <2>1. /\ phase' = "ended" /\ UNCHANGED <<request, diagnosis>> /\ diagnosis # Nothing
        /\ snapshot' = SnapshotOfBundle(NewUnavailableSnapshot(diagnosis.suspect), request, diagnosis.report)
    BY <1>2 DEF Refuse
  <2>2. Agrees(snapshot') /\ BundleParts(snapshot')
    BY <2>1, UnavailableAgrees, BundledIs
  <2>3. BundleParts(snapshot)'
    BY <2>1, <2>2 DEF BundleParts
  <2> QED BY <2>1, <2>2, <2>3
<1>3. CASE Snapshot
  <2>1. phase' = "ended" /\ UNCHANGED <<request, diagnosis>> /\ Observing
    BY <1>3 DEF Snapshot
  <2>2. PICK later \in DiskMaps, answer \in Answers,
          account \in {IF diagnosis = Nothing THEN NoAttribution ELSE diagnosis.report} :
          LET taken == Observe(request, request.suspect, Summaries, later, answer.host, answer.guest, account)
          IN snapshot' = IF diagnosis = Nothing THEN taken ELSE SnapshotOfBundle(taken, request, account)
    BY <1>3 DEF Snapshot
  <2> DEFINE taken == Observe(request, request.suspect, Summaries, later, answer.host, answer.guest, account)
  <2>3. Agrees(taken) /\ (~request.discover => taken.suspect = request.suspect)
    <3>1. answer.host \in Availability /\ answer.guest \in Availability /\ request.discover \in BOOLEAN
      BY EvidenceAssumption DEF DiagnosisInv
    <3>2. /\ \E names : EvidenceIs(taken.evidence, names) /\ Whole(names)
          /\ taken.quality = finalizeQuality(taken.evidence)
          /\ taken = [suspect |-> taken.suspect, evidence |-> taken.evidence, quality |-> taken.quality,
                      correlations |-> taken.correlations]
          /\ ~request.discover => taken.suspect = request.suspect
      BY <3>1, ObservedIs
    <3> HIDE DEF taken
    <3> QED BY <3>2 DEF Agrees
  <2> HIDE DEF taken
  <2>4. CASE diagnosis = Nothing
    <3>1. snapshot' = taken /\ request.tool = "observe"
      BY <2>1, <2>2, <2>4 DEF taken, Observing
    <3> QED BY <2>1, <2>3, <3>1 DEF BundleParts
  <2>5. CASE diagnosis # Nothing
    <3>1. snapshot' = SnapshotOfBundle(taken, request, diagnosis.report)
      BY <2>2, <2>5 DEF taken
    <3>2. ~request.discover => taken.suspect = diagnosis.suspect
      BY <2>3, <2>5 DEF DiagnosisInv, OwnSuspect
    <3>3. Agrees(snapshot') /\ BundleParts(snapshot')
      BY <2>3, <3>1, <3>2, BundledIs
    <3>4. BundleParts(snapshot)'
      BY <2>1, <3>3 DEF BundleParts
    <3> QED BY <2>1, <3>3, <3>4
  <2> QED BY <2>4, <2>5
<1>4. CASE Done \/ UNCHANGED evidenceVars
  <2>1. UNCHANGED <<request, diagnosis, snapshot, phase>>
    BY <1>4 DEF Done, evidenceVars
  <2> QED BY <2>1 DEF SnapshotInv, BundleParts
<1> QED BY <1>1, <1>2, <1>3, <1>4 DEF EvidenceNext

\* The inductive invariant: the sampler's, that of the diagnosis and that of the
\* snapshot.
EvidenceInv == SamplingInv /\ DiagnosisInv /\ SnapshotInv

\* Whatever the processes do and whatever reads fail, the invariant holds: the
\* samples of qemuio add up to what the processes did, a diagnosis is the one
\* that its command makes of them, and a snapshot agrees with itself.
THEOREM EvidenceInvariance == EvidenceSpec => []EvidenceInv
<1>1. EvidenceInit => EvidenceInv
  <2>1. EvidenceInit => SnapshotInv
    BY DEF EvidenceInit, SnapshotInv
  <2> QED BY <2>1, InitSampling, InitDiagnosis DEF EvidenceInv
<1>2. EvidenceInv /\ [EvidenceNext]_evidenceVars => EvidenceInv'
  <2> SUFFICES ASSUME EvidenceInv, [EvidenceNext]_evidenceVars PROVE EvidenceInv'
    OBVIOUS
  <2>1. request \in Requests
    BY DEF EvidenceInv, DiagnosisInv
  <2> QED BY <2>1, SamplingStep, DiagnosisStep, SnapshotStep DEF EvidenceInv
<1> QED BY <1>1, <1>2, PTL DEF EvidenceSpec

\* qemuio.summarizeSamples: the rates of a process that kept its PID are what it
\* wrote and called over the time that was measured, and its peaks are no lower.
THEOREM SummariesAreMeasured == EvidenceSpec => []SummaryIsMeasured
<1>1. EvidenceInv => SummaryIsMeasured
  BY MeasuredIs DEF EvidenceInv
<1> QED BY <1>1, EvidenceInvariance, PTL

\* diagnose.Verdict, LiveVerdict and ApplyEBPFVMAttribution: no alarm without
\* the evidence it stands for, of the rates, the disks, the experiment and the
\* attribution by the kernel.
THEOREM AlertsAreEvidenced == EvidenceSpec => []AlertIsEvidenced
<1>1. EvidenceInv => AlertIsEvidenced
  BY AlertIs DEF EvidenceInv
<1> QED BY <1>1, EvidenceInvariance, PTL

\* discovery.selectCandidate and diagnose.LiveVerdict agree: who is selected is
\* likely, unless the attribution by the kernel vetoes it, and without a
\* selection there is no alarm.
THEOREM SelectionsAgree == EvidenceSpec => []SelectionAgreesWithVerdict
<1>1. EvidenceInv => SelectionAgreesWithVerdict
  BY SelectionIs DEF EvidenceInv
<1> QED BY <1>1, EvidenceInvariance, PTL

\* watch.NewIterationSummary and observe.buildCorrelations agree with the
\* diagnosis: what is likely there scores HIGH and is correlated.
THEOREM WatchAndObserveAgree == EvidenceSpec => []ToolsAgree
<1>1. EvidenceInv => ToolsAgree
  BY ToolsAgreeIs DEF EvidenceInv
<1> QED BY <1>1, EvidenceInvariance, PTL

\* observe.Collect and capture.writeObserveSnapshot: a snapshot lists no section
\* twice, has the quality that its sections add up to, and claims of the kernel's
\* evidence only what the report beside it has.
THEOREM SnapshotsAreConsistent == EvidenceSpec => []SnapshotIsConsistent
<1>1. EvidenceInv => SnapshotIsConsistent
  BY ConsistentIs DEF EvidenceInv, SnapshotInv
<1> QED BY <1>1, EvidenceInvariance, PTL

===============================================================================
