---------------------------- MODULE CommandProofs ----------------------------
(***************************************************************************)
(* Proofs about Session: what the command line asks for.  Probes and       *)
(* guests are only what the command line and the settings ask for, and the *)
(* order of options does not matter, for any command lines.                *)
(***************************************************************************)
EXTENDS Session, FiniteSetTheorems, SequenceTheorems, TLAPS

-----------------------------------------------------------------------------
(* Induction and recursion along the arguments of a command line.           *)

\* Induction over the naturals, with a set for the predicate: were some m not
\* in it, adding one would map the numbers up to m that are in it into
\* themselves without 0, and be injective.
LEMMA SetInduction ==
  ASSUME NEW S, 0 \in S, \A n \in Nat : n \in S => n + 1 \in S
  PROVE  \A m \in Nat : m \in S
<1> SUFFICES ASSUME NEW m \in Nat, m \notin S PROVE FALSE
  OBVIOUS
<1> DEFINE A == (0 .. m) \cap S
           f == [k \in A |-> k + 1]
<1>1. IsFiniteSet(A) /\ 0 \in A
  <2>1. A \in SUBSET (0..m) /\ 0 \in A
    OBVIOUS
  <2>2. IsFiniteSet(0..m)
    BY FS_Interval
  <2> HIDE DEF A
  <2>3. QED
    BY <2>1, <2>2, FS_Subset, Zenon
<1>2. IsFiniteSet(A \ {0}) /\ Cardinality(A \ {0}) = Cardinality(A) - 1 /\ Cardinality(A) \in Nat
  <2> HIDE DEF A
  <2>2. QED
    BY <1>1, FS_RemoveElement, FS_CardinalityType, Zenon
<1>3. f \in [A -> A \ {0}]
  <2>1. \A k \in A : k + 1 \in A \ {0}
    OBVIOUS
  <2>2. QED
    BY <2>1
<1>4. \E x, y \in A : x # y /\ f[x] = f[y]
  <2>1. Cardinality(A \ {0}) < Cardinality(A)
    BY <1>2
  <2> HIDE DEF f, A
  <2>2. QED
    BY <1>1, <1>2, <2>1, <1>3, FS_PigeonHole, Zenon
<1>5. QED
  BY <1>4

\* A function that is computed along an interval.
Follows(g, n, start, rule) == g[0] = start /\ \A i \in 1..n : g[i] = rule[<<i, g[i - 1]>>]

\* A recursion along an interval has a solution.
LEMMA IntervalRecursion ==
  ASSUME NEW V, NEW start, start \in V, NEW n, n \in Nat, NEW rule, rule \in [(1..n) \X V -> V]
  PROVE  \E g \in [0..n -> V] : Follows(g, n, start, rule)
<1> DEFINE Solved == {m \in Nat : m <= n => \E g \in [0..m -> V] : Follows(g, m, start, rule)}
<1>1. 0 \in Solved
  <2>1. Follows([i \in 0..0 |-> start], 0, start, rule)
    BY DEF Follows
  <2> QED BY <2>1
<1>2. \A m \in Nat : m \in Solved => m + 1 \in Solved
  <2> SUFFICES ASSUME NEW m \in Nat, m \in Solved, m + 1 <= n
               PROVE  \E g \in [0..(m + 1) -> V] : Follows(g, m + 1, start, rule)
    OBVIOUS
  <2>1. PICK g \in [0..m -> V] : Follows(g, m, start, rule)
    OBVIOUS
  <2> DEFINE h == [i \in 0..(m + 1) |-> IF i <= m THEN g[i] ELSE rule[<<m + 1, g[m]>>]]
  <2>2. h \in [0..(m + 1) -> V]
    <3>1. rule[<<m + 1, g[m]>>] \in V
      <4>1. <<m + 1, g[m]>> \in (1..n) \X V
        BY <2>1
      <4> QED BY <4>1
    <3> QED BY <2>1, <3>1
  <2>3. Follows(h, m + 1, start, rule)
    <3>1. \A i \in 0..m : h[i] = g[i]
      OBVIOUS
    <3>2. h[m + 1] = rule[<<m + 1, g[m]>>]
      OBVIOUS
    <3>3. g[0] = start /\ \A i \in 1..m : g[i] = rule[<<i, g[i - 1]>>]
      BY <2>1 DEF Follows
    <3> HIDE DEF h
    <3>4. \A i \in 1..(m + 1) : h[i] = rule[<<i, h[i - 1]>>]
      <4> TAKE i \in 1..(m + 1)
      <4>1. CASE i = m + 1
        <5>1. h[i - 1] = g[m] /\ i - 1 = m
          BY <3>1, <4>1
        <5> QED BY <3>2, <4>1, <5>1
      <4>2. CASE i \in 1..m
        <5>1. h[i] = g[i] /\ h[i - 1] = g[i - 1]
          BY <3>1, <4>2
        <5> QED BY <3>3, <4>2, <5>1
      <4> QED BY <4>1, <4>2
    <3> QED BY <3>1, <3>3, <3>4 DEF Follows
  <2> HIDE DEF h
  <2> QED BY <2>2, <2>3
<1>3. n \in Solved
  <2> HIDE DEF Solved
  <2> QED BY <1>1, <1>2, SetInduction
<1> QED BY <1>3

-----------------------------------------------------------------------------
(* The parsers.                                                            *)

\* The options of some arguments.
Texts(T) == {""} \cup {t.option : t \in T}

\* What a parser can have read of them.
ParserStates(T) ==
  [ok : BOOLEAN, pending : Texts(T), seen : SUBSET Texts(T), on : SUBSET Texts(T),
   value : UNION {[D -> T] : D \in SUBSET Texts(T)}]

\* Nothing was read yet.
LEMMA NothingIs ==
  ASSUME NEW T
  PROVE
  /\ Nothing \in ParserStates(T) /\ Nothing.ok /\ Nothing.pending = "" /\ Nothing.seen = {} /\ Nothing.on = {}
  /\ DOMAIN Nothing.value = {}
  /\ Refused \in ParserStates(T) /\ ~Refused.ok
<1> DEFINE none == [o \in {} |-> Word("")]
<1>1. none \in [{} -> T]
  OBVIOUS
<1>2. none \in UNION {[D -> T] : D \in SUBSET Texts(T)}
  <2>1. {} \in SUBSET Texts(T)
    OBVIOUS
  <2> HIDE DEF none
  <2> QED BY <1>1, <2>1
<1>3. DOMAIN none = {}
  OBVIOUS
<1> HIDE DEF none
<1>4. Nothing = [ok |-> TRUE, pending |-> "", seen |-> {}, on |-> {}, value |-> none]
  BY DEF Nothing, none
<1>5. Nothing \in ParserStates(T)
  BY <1>2, <1>4 DEF ParserStates, Texts
<1>6. Refused \in ParserStates(T) /\ ~Refused.ok
  <2> HIDE DEF Nothing
  <2> QED BY <1>5 DEF Refused, ParserStates
<1> QED BY <1>3, <1>4, <1>5, <1>6

\* The three ways to accept an argument.
TakesValue(g, s, t, u) ==
  /\ s.pending # "" /\ IsWord(t) /\ AcceptsValue(g, s.pending, t)
  /\ u = [s EXCEPT !.pending = "", !.seen = @ \cup {s.pending},
                   !.value = [o \in DOMAIN @ \cup {s.pending} |-> IF o = s.pending THEN t ELSE @[o]]]

TakesBoolean(g, s, t, u) ==
  /\ s.pending = "" /\ t.option \in g.booleans /\ t.form # "bad" /\ t.option \notin s.seen
  /\ u = [s EXCEPT !.seen = @ \cup {t.option},
                   !.on = IF t.form \in {"bare", "true"} THEN @ \cup {t.option} ELSE @]

TakesName(g, s, t, u) ==
  /\ s.pending = "" /\ t.option \in Valued(g) /\ t.form = "bare" /\ ~Repeated(g, s, t.option)
  /\ u = [s EXCEPT !.pending = t.option]

\* An argument is refused, or is accepted in one of these ways.
LEMMA ArgumentCases ==
  ASSUME NEW T, NEW g, NEW s \in ParserStates(T), NEW t \in T
  PROVE  LET u == parseArgument(g, s, t)
         IN \/ ~u.ok /\ (u = s \/ u = Refused)
            \/ s.ok /\ (TakesValue(g, s, t, u) \/ TakesBoolean(g, s, t, u) \/ TakesName(g, s, t, u))
<1> DEFINE u == parseArgument(g, s, t)
<1>1. CASE ~s.ok
  BY <1>1 DEF parseArgument
<1>2. CASE s.ok /\ s.pending # ""
  <2>1. u = setValue(g, s, t)
    BY <1>2 DEF parseArgument
  <2> QED BY <1>2, <2>1, NothingIs DEF setValue, TakesValue
<1>3. CASE s.ok /\ s.pending = "" /\ t.option \in g.booleans
  <2>1. u = setKnownBooleanOption(s, t)
    BY <1>3 DEF parseArgument
  <2>2. booleanFlag(t, t.option).ok <=> t.form # "bad"
    BY DEF booleanFlag
  <2>3. booleanFlag(t, t.option).value <=> t.form \in {"bare", "true"}
    BY DEF booleanFlag
  <2> QED BY <1>3, <2>1, <2>2, <2>3, NothingIs DEF setKnownBooleanOption, TakesBoolean
<1>4. CASE s.ok /\ s.pending = "" /\ t.option \notin g.booleans
             /\ t.option \in Valued(g) \ g.booleans /\ t.form = "bare" /\ ~Repeated(g, s, t.option)
  <2>1. u = [s EXCEPT !.pending = t.option]
    BY <1>4 DEF parseArgument
  <2> QED BY <1>4, <2>1 DEF TakesName
<1>5. CASE s.ok /\ s.pending = "" /\ t.option \notin g.booleans
             /\ ~(t.option \in Valued(g) \ g.booleans /\ t.form = "bare" /\ ~Repeated(g, s, t.option))
  <2>1. u = Refused
    BY <1>5 DEF parseArgument
  <2> QED BY <2>1, NothingIs
<1> QED BY <1>1, <1>2, <1>3, <1>4, <1>5

\* What was read remains of its type.
LEMMA ArgumentTyped ==
  ASSUME NEW T, NEW g, NEW s \in ParserStates(T), NEW t \in T
  PROVE  parseArgument(g, s, t) \in ParserStates(T)
<1> DEFINE u == parseArgument(g, s, t)
<1> SUFFICES u \in ParserStates(T)
  OBVIOUS
<1>0. (u = s \/ u = Refused) \/ TakesValue(g, s, t, u) \/ TakesBoolean(g, s, t, u) \/ TakesName(g, s, t, u)
  BY ArgumentCases
<1> HIDE DEF u
<1>1. CASE u = s \/ u = Refused
  BY <1>1, NothingIs
<1>2. CASE TakesValue(g, s, t, u)
  <2> DEFINE v == [o \in DOMAIN s.value \cup {s.pending} |-> IF o = s.pending THEN t ELSE s.value[o]]
  <2>1. PICK D \in SUBSET Texts(T) : s.value \in [D -> T]
    BY DEF ParserStates
  <2>2. s.pending \in Texts(T) /\ D \cup {s.pending} \in SUBSET Texts(T)
    BY DEF ParserStates
  <2>3. v \in [D \cup {s.pending} -> T]
    BY <2>1, <2>2
  <2>4. v \in UNION {[E -> T] : E \in SUBSET Texts(T)}
    <3> HIDE DEF v
    <3> QED BY <2>2, <2>3
  <2>5. u = [s EXCEPT !.pending = "", !.seen = @ \cup {s.pending}, !.value = v]
    BY <1>2 DEF TakesValue
  <2> HIDE DEF v
  <2> QED BY <2>2, <2>4, <2>5 DEF ParserStates, Texts
<1>3. CASE TakesBoolean(g, s, t, u)
  <2>1. t.option \in Texts(T)
    BY DEF Texts
  <2> QED BY <1>3, <2>1 DEF TakesBoolean, ParserStates
<1>4. CASE TakesName(g, s, t, u)
  <2>1. t.option \in Texts(T)
    BY DEF Texts
  <2> QED BY <1>4, <2>1 DEF TakesName, ParserStates
<1> QED BY <1>0, <1>1, <1>2, <1>3, <1>4

\* What a parser read: the states after each of its arguments.
Reads(T, g, args, a) ==
  /\ a \in [0..Len(args) -> ParserStates(T)]
  /\ a[0] = Nothing
  /\ \A i \in 1..Len(args) : a[i] = parseArgument(g, a[i - 1], args[i])

\* The loop over the arguments.
LEMMA ParseUnfolded ==
  ASSUME NEW T, NEW g, NEW args, args \in Seq(T)
  PROVE  \E a : /\ Reads(T, g, args, a)
                /\ parseOptions(g, args)
                     = IF a[Len(args)].ok /\ a[Len(args)].pending = "" THEN a[Len(args)] ELSE Refused
<1> DEFINE n == Len(args)
           body(a) == [i \in 0..Len(args) |-> IF i = 0 THEN Nothing ELSE parseArgument(g, a[i - 1], args[i])]
           rule == [p \in (1..n) \X ParserStates(T) |-> parseArgument(g, p[2], args[p[1]])]
           after == CHOOSE a : a = body(a)
<1>1. n \in Nat /\ \A i \in 1..n : args[i] \in T
  OBVIOUS
<1>2. Nothing \in ParserStates(T)
  BY NothingIs
<1>3. rule \in [(1..n) \X ParserStates(T) -> ParserStates(T)]
  <2>1. \A p \in (1..n) \X ParserStates(T) : parseArgument(g, p[2], args[p[1]]) \in ParserStates(T)
    <3> TAKE p \in (1..n) \X ParserStates(T)
    <3>1. p[2] \in ParserStates(T) /\ args[p[1]] \in T
      BY <1>1
    <3> QED BY <3>1, ArgumentTyped
  <2> HIDE DEF n
  <2> QED BY <2>1
<1>4. PICK a \in [0..n -> ParserStates(T)] : Follows(a, n, Nothing, rule)
  <2> HIDE DEF rule, n
  <2> QED BY <1>1, <1>2, <1>3, IntervalRecursion, Zenon
<1>5. \A i \in 1..n : a[i] = parseArgument(g, a[i - 1], args[i])
  <2> HIDE DEF n
  <2> TAKE i \in 1..n
  <2>1. <<i, a[i - 1]>> \in (1..n) \X ParserStates(T)
    <3>1. i - 1 \in 0..n
      BY <1>1
    <3> QED BY <3>1
  <2>2. rule[<<i, a[i - 1]>>] = parseArgument(g, a[i - 1], args[i])
    BY <2>1
  <2> HIDE DEF rule
  <2> QED BY <1>4, <2>2 DEF Follows
<1>6. a = body(a)
  <2>1. a[0] = Nothing
    BY <1>4 DEF Follows
  <2>2. \A i \in 0..n : i # 0 => i \in 1..n
    BY <1>1
  <2>3. \A i \in 0..n : a[i] = body(a)[i]
    <3> TAKE i \in 0..n
    <3> HIDE DEF rule
    <3>1. body(a)[i] = IF i = 0 THEN Nothing ELSE parseArgument(g, a[i - 1], args[i])
      BY Zenon
    <3> HIDE DEF n, body
    <3> QED BY <1>5, <2>1, <2>2, <3>1
  <2>4. body(a) = [i \in 0..n |-> body(a)[i]]
    BY Zenon
  <2> HIDE DEF body, n
  <2> QED BY <1>4, <2>3, <2>4
<1>7. after = body(after)
  <2> HIDE DEF body
  <2> QED BY <1>6, Zenon
<1>8. parseOptions(g, args) = IF after[n].ok /\ after[n].pending = "" THEN after[n] ELSE Refused
  BY Zenon DEF parseOptions
<1>9. after[0] = Nothing /\ \A i \in 1..n : after[i] = parseArgument(g, after[i - 1], args[i])
  <2>1. \A i \in 0..n : after[i] = IF i = 0 THEN Nothing ELSE parseArgument(g, after[i - 1], args[i])
    <3> HIDE DEF after
    <3> QED BY <1>7, Zenon
  <2>2. 0 \in 0..n /\ \A i \in 1..n : i \in 0..n /\ i # 0
    <3> HIDE DEF n
    <3> QED BY <1>1
  <2> HIDE DEF after
  <2>3. after[0] = Nothing
    BY <2>1, <2>2, Zenon
  <2>4. \A i \in 1..n : after[i] = parseArgument(g, after[i - 1], args[i])
    <3> HIDE DEF n
    <3> QED BY <2>1, <2>2
  <2> QED BY <2>3, <2>4
<1>10. after = [i \in 0..n |-> after[i]]
  <2> HIDE DEF after
  <2> QED BY <1>7
<1> HIDE DEF after, rule, body
<1>11. \A i \in Nat : i <= n => after[i] \in ParserStates(T)
  <2> DEFINE IsTyped == {i \in Nat : i <= n => after[i] \in ParserStates(T)}
  <2> HIDE DEF n
  <2>2. 0 \in IsTyped
    BY <1>2, <1>9
  <2>3. \A i \in Nat : i \in IsTyped => i + 1 \in IsTyped
    <3> SUFFICES ASSUME NEW i \in Nat, i \in IsTyped, i + 1 <= n PROVE after[i + 1] \in ParserStates(T)
      OBVIOUS
    <3>1. after[i] \in ParserStates(T) /\ i + 1 \in 1..n /\ (i + 1) - 1 = i /\ args[i + 1] \in T
      BY <1>1
    <3>2. after[i + 1] = parseArgument(g, after[i], args[i + 1])
      BY <1>9, <3>1
    <3> QED BY <3>1, <3>2, ArgumentTyped
  <2>4. \A i \in Nat : i \in IsTyped
    <3> HIDE DEF IsTyped
    <3> QED BY <2>2, <2>3, SetInduction
  <2> QED BY <2>4
<1>12. after \in [0..n -> ParserStates(T)]
  <2> HIDE DEF n
  <2>1. \A i \in 0..n : after[i] \in ParserStates(T)
    BY <1>1, <1>11
  <2> QED BY <1>10, <2>1
<1>13. Reads(T, g, args, after)
  BY <1>9, <1>12 DEF Reads
<1> QED BY <1>8, <1>13

\* What is refused stays refused.
LEMMA OnceRefused ==
  ASSUME NEW T, NEW g, NEW s \in ParserStates(T), NEW t \in T, ~s.ok
  PROVE  ~parseArgument(g, s, t).ok
<1>1. parseArgument(g, s, t) = s
  BY DEF parseArgument
<1> QED BY <1>1

\* What is read stays acceptable up to the end.
LEMMA ParseAccepts ==
  ASSUME NEW T, NEW g, NEW args, args \in Seq(T), parseOptions(g, args).ok
  PROVE  \E a : /\ Reads(T, g, args, a)
                /\ parseOptions(g, args) = a[Len(args)] /\ a[Len(args)].pending = ""
                /\ \A i \in 0..Len(args) : a[i].ok
<1> DEFINE n == Len(args)
<1>1. PICK a : Reads(T, g, args, a) /\ parseOptions(g, args) = IF a[n].ok /\ a[n].pending = "" THEN a[n] ELSE Refused
  BY ParseUnfolded
<1>2. a[n].ok /\ a[n].pending = "" /\ parseOptions(g, args) = a[n]
  BY <1>1, NothingIs
<1>3. n \in Nat /\ \A i \in 1..n : args[i] \in T
  OBVIOUS
<1>4. \A i \in 1..n : ~a[i - 1].ok => ~a[i].ok
  <2> TAKE i \in 1..n
  <2>1. i - 1 \in 0..n
    BY <1>3
  <2>2. a[i - 1] \in ParserStates(T) /\ a[i] = parseArgument(g, a[i - 1], args[i]) /\ args[i] \in T
    BY <1>1, <1>3, <2>1 DEF Reads
  <2> QED BY <2>2, OnceRefused
<1>5. ASSUME NEW k \in 0..n, ~a[k].ok PROVE FALSE
  <2> DEFINE Failed == {m \in Nat : k + m <= n => ~a[k + m].ok}
  <2> HIDE DEF n
  <2>1. 0 \in Failed
    BY <1>5
  <2>2. \A m \in Nat : m \in Failed => m + 1 \in Failed
    <3> SUFFICES ASSUME NEW m \in Nat, m \in Failed, k + (m + 1) <= n PROVE ~a[k + (m + 1)].ok
      OBVIOUS
    <3>1. k + (m + 1) \in 1..n /\ (k + (m + 1)) - 1 = k + m /\ k + m <= n
      BY <1>3
    <3>2. ~a[k + m].ok
      BY <3>1
    <3> QED BY <1>4, <3>1, <3>2
  <2>3. n - k \in Failed
    <3>1. n - k \in Nat
      BY <1>3
    <3> HIDE DEF Failed
    <3> QED BY <2>1, <2>2, <3>1, SetInduction
  <2>4. k + (n - k) = n /\ n <= n
    BY <1>3
  <2> QED BY <1>2, <2>3, <2>4
<1> QED BY <1>1, <1>2, <1>5

\* One step of an accepted command line.
LEMMA ReadStep ==
  ASSUME NEW T, NEW g, NEW args, args \in Seq(T), NEW a, Reads(T, g, args, a),
         \A i \in 0..Len(args) : a[i].ok, NEW i \in 1..Len(args)
  PROVE  /\ a[i - 1] \in ParserStates(T) /\ a[i] \in ParserStates(T)
         /\ \/ TakesValue(g, a[i - 1], args[i], a[i])
            \/ TakesBoolean(g, a[i - 1], args[i], a[i])
            \/ TakesName(g, a[i - 1], args[i], a[i])
<1>1. Len(args) \in Nat /\ args[i] \in T
  OBVIOUS
<1>2. i - 1 \in 0..Len(args) /\ i \in 0..Len(args)
  BY <1>1
<1>3. a[i - 1] \in ParserStates(T) /\ a[i] \in ParserStates(T)
  BY <1>2 DEF Reads
<1>4. a[i] = parseArgument(g, a[i - 1], args[i]) /\ a[i].ok
  BY <1>2 DEF Reads
<1> QED BY <1>1, <1>3, <1>4, ArgumentCases

\* An option that is given the value false, and one that a text follows.
IsFalse(t) == t.option # "" /\ t.form = "false"
HasText(g, t, x) == t.option # "" /\ t.option \notin g.booleans /\ x.text # ""

\* One step keeps what was seen, and switches on only what it has seen.
LEMMA OnKept ==
  ASSUME NEW T, NEW g, NEW s \in ParserStates(T), NEW t, NEW u,
         TakesValue(g, s, t, u) \/ TakesBoolean(g, s, t, u) \/ TakesName(g, s, t, u)
  PROVE  /\ s.seen \subseteq u.seen
         /\ s.on \subseteq s.seen => u.on \subseteq u.seen
         /\ u.on \subseteq s.on \cup {t.option}
         /\ t.option \in s.seen => u.on = s.on
<1>1. CASE TakesValue(g, s, t, u)
  <2>1. u.seen = s.seen \cup {s.pending} /\ u.on = s.on
    BY <1>1 DEF TakesValue, ParserStates
  <2> QED BY <2>1
<1>2. CASE TakesBoolean(g, s, t, u)
  <2>1. u.seen = s.seen \cup {t.option} /\ (u.on = s.on \cup {t.option} \/ u.on = s.on)
    <3>1. u = [s EXCEPT !.seen = @ \cup {t.option}, !.on = @ \cup {t.option}]
            \/ u = [s EXCEPT !.seen = @ \cup {t.option}, !.on = @]
      BY <1>2 DEF TakesBoolean
    <3> QED BY <3>1 DEF ParserStates
  <2>2. t.option \notin s.seen
    BY <1>2 DEF TakesBoolean
  <2> QED BY <2>1, <2>2
<1>3. CASE TakesName(g, s, t, u)
  <2>1. u.seen = s.seen /\ u.on = s.on
    BY <1>3 DEF TakesName, ParserStates
  <2> QED BY <2>1
<1> QED BY <1>1, <1>2, <1>3

\* What was seen and is off stays so.
LEMMA OffKept ==
  ASSUME NEW T, NEW g, NEW s \in ParserStates(T), NEW t, NEW u, NEW o,
         TakesValue(g, s, t, u) \/ TakesBoolean(g, s, t, u) \/ TakesName(g, s, t, u),
         o \in s.seen, o \notin s.on
  PROVE  o \in u.seen /\ o \notin u.on
<1>1. s.seen \subseteq u.seen /\ u.on \subseteq s.on \cup {t.option}
  BY OnKept
<1>2. t.option \in s.seen => u.on = s.on
  BY OnKept
<1> QED BY <1>1, <1>2

\* A boolean option that is given the value false is known to the parser and
\* stays off.
LEMMA GivenFalse ==
  ASSUME NEW T, NEW g, NEW args, args \in Seq(T), parseOptions(g, args).ok,
         NEW i \in 1..Len(args), IsFalse(args[i])
  PROVE  args[i].option \in g.booleans /\ args[i].option \notin parseOptions(g, args).on
<1> DEFINE n == Len(args)
           o == args[i].option
<1>1. PICK a : /\ Reads(T, g, args, a) /\ parseOptions(g, args) = a[n]
               /\ \A k \in 0..n : a[k].ok
  BY ParseAccepts
<1>2. n \in Nat /\ i \in 1..n
  OBVIOUS
<1>3. \A k \in 1..n : /\ a[k - 1] \in ParserStates(T) /\ a[k] \in ParserStates(T)
                      /\ \/ TakesValue(g, a[k - 1], args[k], a[k])
                         \/ TakesBoolean(g, a[k - 1], args[k], a[k])
                         \/ TakesName(g, a[k - 1], args[k], a[k])
  BY <1>1, ReadStep
<1>4. TakesBoolean(g, a[i - 1], args[i], a[i])
  BY <1>2, <1>3 DEF TakesValue, TakesName, IsWord, IsFalse
<1>5. o \in g.booleans /\ o \notin a[i - 1].seen
  BY <1>4 DEF TakesBoolean
<1> HIDE DEF n
<1> DEFINE OnIsSeen == {k \in Nat : k <= n => a[k].on \subseteq a[k].seen}
<1>6. \A k \in Nat : k \in OnIsSeen
  <2>1. 0 \in OnIsSeen
    BY <1>1, NothingIs DEF Reads
  <2>2. \A k \in Nat : k \in OnIsSeen => k + 1 \in OnIsSeen
    <3> SUFFICES ASSUME NEW k \in Nat, k \in OnIsSeen, k + 1 <= n PROVE a[k + 1].on \subseteq a[k + 1].seen
      <4>1. \A k \in Nat : k + 1 \in Nat
        OBVIOUS
      <4> QED BY <4>1, Zenon
    <3>1. k + 1 \in 1..n /\ (k + 1) - 1 = k /\ a[k].on \subseteq a[k].seen
      BY <1>2
    <3> DEFINE s == a[k]
               t == args[k + 1]
               u == a[k + 1]
    <3>2. /\ s \in ParserStates(T) /\ u \in ParserStates(T)
          /\ TakesValue(g, s, t, u) \/ TakesBoolean(g, s, t, u) \/ TakesName(g, s, t, u)
      BY <1>3, <3>1
    <3> HIDE DEF s, t, u
    <3>3. s.on \subseteq s.seen
      BY <3>1 DEF s
    <3>4. u.on \subseteq u.seen
      BY <3>2, <3>3, OnKept
    <3> QED BY <3>4 DEF u
  <2> HIDE DEF OnIsSeen
  <2> QED BY <2>1, <2>2, SetInduction
<1>7. o \in a[i].seen /\ o \notin a[i].on
  <2>1. i - 1 \in Nat /\ i - 1 <= n
    BY <1>2
  <2>2. o \notin a[i - 1].on
    BY <1>5, <1>6, <2>1
  <2>3. a[i - 1] \in ParserStates(T) /\ args[i].form = "false"
    BY <1>2, <1>3 DEF IsFalse
  <2> QED BY <1>4, <2>2, <2>3 DEF TakesBoolean, ParserStates
<1> DEFINE StaysOff == {m \in Nat : i + m <= n => o \in a[i + m].seen /\ o \notin a[i + m].on}
<1>8. \A m \in Nat : m \in StaysOff
  <2>1. 0 \in StaysOff
    <3>1. i + 0 = i
      BY <1>2
    <3> QED BY <1>7, <3>1
  <2>2. \A m \in Nat : m \in StaysOff => m + 1 \in StaysOff
    <3> SUFFICES ASSUME NEW m \in Nat, m \in StaysOff, i + (m + 1) <= n
                 PROVE  o \in a[i + (m + 1)].seen /\ o \notin a[i + (m + 1)].on
      <4>1. \A m \in Nat : m + 1 \in Nat
        OBVIOUS
      <4> QED BY <4>1, Zenon
    <3>1. i + (m + 1) \in 1..n /\ (i + (m + 1)) - 1 = i + m /\ i + m <= n
      BY <1>2
    <3> DEFINE s == a[i + m]
               t == args[i + (m + 1)]
               u == a[i + (m + 1)]
    <3>2. /\ s \in ParserStates(T) /\ u \in ParserStates(T)
          /\ TakesValue(g, s, t, u) \/ TakesBoolean(g, s, t, u) \/ TakesName(g, s, t, u)
      BY <1>3, <3>1
    <3>3. o \in s.seen /\ o \notin s.on
      BY <3>1
    <3> HIDE DEF s, t, u, o
    <3>4. o \in u.seen /\ o \notin u.on
      BY <3>2, <3>3, OffKept
    <3> QED BY <3>4 DEF u
  <2> HIDE DEF StaysOff
  <2> QED BY <2>1, <2>2, SetInduction
<1>9. o \notin a[n].on
  <2>1. n - i \in Nat /\ i + (n - i) = n /\ n <= n
    BY <1>2
  <2>2. n - i \in StaysOff
    BY <1>8, <2>1
  <2> QED BY <2>1, <2>2
<1> QED BY <1>1, <1>5, <1>9

\* An option is known, and has a text; a word is its value.
IsGiven(g, r, o, text) == o \in Valued(g) /\ Text(r, o) = text
IsValue(g, r, o, x) == o \in Valued(g) /\ o \in DOMAIN r.value /\ r.value[o] = x

\* An option with a value that is not empty is known to the parser, and keeps
\* the value: it cannot be given again.
LEMMA GivenToken ==
  ASSUME NEW T, NEW g, NEW args, args \in Seq(T), parseOptions(g, args).ok,
         NEW i \in 1..Len(args), i + 1 \in 1..Len(args),
         HasText(g, args[i], args[i + 1])
  PROVE  IsValue(g, parseOptions(g, args), args[i].option, args[i + 1])
<1> DEFINE n == Len(args)
           o == args[i].option
           x == args[i + 1]
<1>1. PICK a : /\ Reads(T, g, args, a) /\ parseOptions(g, args) = a[n]
               /\ \A k \in 0..n : a[k].ok
  BY ParseAccepts
<1>2. n \in Nat /\ i \in 1..n /\ i + 1 \in 1..n /\ (i + 1) - 1 = i
  OBVIOUS
<1>3. \A k \in 1..n : /\ a[k - 1] \in ParserStates(T) /\ a[k] \in ParserStates(T)
                      /\ \/ TakesValue(g, a[k - 1], args[k], a[k])
                         \/ TakesBoolean(g, a[k - 1], args[k], a[k])
                         \/ TakesName(g, a[k - 1], args[k], a[k])
  BY <1>1, ReadStep
<1>4. TakesName(g, a[i - 1], args[i], a[i])
  BY <1>2, <1>3, ZenonT(60) DEF TakesValue, TakesBoolean, IsWord, HasText
<1>5. o \in Valued(g) /\ o # "" /\ a[i].pending = o
  <2>1. a[i - 1] \in ParserStates(T)
    BY <1>2, <1>3, SMTT(30)
  <2> QED BY <1>4, <2>1 DEF TakesName, ParserStates, HasText
<1>6. TakesValue(g, a[i], x, a[i + 1]) /\ a[i] \in ParserStates(T)
  <2>1. a[(i + 1) - 1] = a[i]
    BY <1>2
  <2> QED BY <1>2, <1>3, <1>5, <2>1 DEF TakesName, TakesBoolean
<1> HIDE DEF n
<1> DEFINE Has(s) == o \in s.seen /\ o \in DOMAIN s.value /\ s.value[o] = x /\ s.pending # o
           Keeps == {m \in Nat : (i + 1) + m <= n => Has(a[(i + 1) + m])}
<1>7. Has(a[i + 1])
  <2> DEFINE s == a[i]
             u == a[i + 1]
  <2>1. u = [s EXCEPT !.pending = "", !.seen = @ \cup {s.pending},
                      !.value = [p \in DOMAIN s.value \cup {s.pending} |-> IF p = s.pending THEN x ELSE s.value[p]]]
    BY <1>6 DEF TakesValue
  <2>2. s \in ParserStates(T) /\ s.pending = o /\ o # ""
    BY <1>5, <1>6
  <2> HIDE DEF s, u, o, x
  <2>3. /\ u.pending = "" /\ u.seen = s.seen \cup {o}
        /\ u.value = [p \in DOMAIN s.value \cup {o} |-> IF p = o THEN x ELSE s.value[p]]
    BY <2>1, <2>2 DEF ParserStates
  <2>4. Has(u)
    BY <2>2, <2>3
  <2> QED BY <2>4 DEF u
<1>8. \A m \in Nat : m \in Keeps
  <2>1. 0 \in Keeps
    <3>1. (i + 1) + 0 = i + 1
      BY <1>2
    <3> HIDE DEF Has
    <3> QED BY <1>7, <3>1
  <2>2. \A m \in Nat : m \in Keeps => m + 1 \in Keeps
    <3> SUFFICES ASSUME NEW m \in Nat, m \in Keeps, (i + 1) + (m + 1) <= n PROVE Has(a[(i + 1) + (m + 1)])
      <4>1. \A m \in Nat : m + 1 \in Nat
        OBVIOUS
      <4> QED BY <4>1, Zenon
    <3>1. (i + 1) + (m + 1) \in 1..n /\ ((i + 1) + (m + 1)) - 1 = (i + 1) + m /\ (i + 1) + m <= n
      BY <1>2
    <3> DEFINE s == a[(i + 1) + m]
               t == args[(i + 1) + (m + 1)]
               u == a[(i + 1) + (m + 1)]
    <3>2. /\ s \in ParserStates(T) /\ u \in ParserStates(T)
          /\ TakesValue(g, s, t, u) \/ TakesBoolean(g, s, t, u) \/ TakesName(g, s, t, u)
      BY <1>3, <3>1
    <3>3. Has(s)
      <4> HIDE DEF Has
      <4> QED BY <3>1
    <3>5. x.text # "" /\ o # ""
      BY DEF HasText
    <3> HIDE DEF s, t, u, o, x
    <3>4. Has(u)
      <4>1. CASE TakesValue(g, s, t, u)
        <5> DEFINE v == [p \in DOMAIN s.value \cup {s.pending} |-> IF p = s.pending THEN t ELSE s.value[p]]
        <5>1. v[o] = x /\ o \in DOMAIN v
          BY <3>3
        <5>2. u = [s EXCEPT !.pending = "", !.seen = @ \cup {s.pending}, !.value = v]
          BY <4>1 DEF TakesValue
        <5> HIDE DEF v
        <5>3. u.pending = "" /\ u.value = v /\ o \in u.seen
          BY <3>2, <3>3, <5>2 DEF ParserStates
        <5> QED BY <3>5, <5>1, <5>3
      <4>2. CASE TakesBoolean(g, s, t, u)
        BY <3>2, <3>3, <3>5, <4>2 DEF TakesBoolean, ParserStates
      <4>3. CASE TakesName(g, s, t, u)
        <5>1. t.option # o
          BY <3>3, <3>5, <4>3 DEF TakesName, Repeated
        <5> QED BY <3>2, <3>3, <4>3, <5>1 DEF TakesName, ParserStates
      <4> QED BY <3>2, <4>1, <4>2, <4>3
    <3> QED BY <3>4 DEF u
  <2> HIDE DEF Keeps
  <2> QED BY <2>1, <2>2, SetInduction
<1>9. Has(a[n])
  <2>1. n - (i + 1) \in Nat /\ (i + 1) + (n - (i + 1)) = n /\ n <= n
    BY <1>2
  <2>2. n - (i + 1) \in Keeps
    BY <1>8, <2>1
  <2> HIDE DEF Has
  <2> QED BY <2>1, <2>2
<1> QED BY <1>1, <1>5, <1>9 DEF IsValue

\* And so it keeps its text.
LEMMA GivenValue ==
  ASSUME NEW T, NEW g, NEW args, args \in Seq(T), parseOptions(g, args).ok,
         NEW i \in 1..Len(args), i + 1 \in 1..Len(args),
         HasText(g, args[i], args[i + 1])
  PROVE  IsGiven(g, parseOptions(g, args), args[i].option, args[i + 1].text)
<1>1. IsValue(g, parseOptions(g, args), args[i].option, args[i + 1])
  BY GivenToken
<1> QED BY <1>1 DEF Text, IsGiven, IsValue

-----------------------------------------------------------------------------
(* The arguments before they reach a parser.                               *)

\* What is in a concatenation.
LEMMA Concatenated ==
  ASSUME NEW T, NEW v \in Seq(T), NEW w \in Seq(T)
  PROVE  /\ v \o w \in Seq(T)
         /\ Len(v \o w) = Len(v) + Len(w)
         /\ \A k \in 1..Len(v) : (v \o w)[k] = v[k]
         /\ \A k \in 1..Len(w) : (v \o w)[Len(v) + k] = w[k]
OBVIOUS

\* A sequence with what is between two places taken out.
IsCut(args, p, q, u) ==
  /\ \A k \in 1..p : k \in 1..Len(u) /\ u[k] = args[k]
  /\ \A k \in q..Len(args) : k - (q - p - 1) \in 1..Len(u) /\ u[k - (q - p - 1)] = args[k]

\* Where the elements of the rest come from, and where they are in it.
LEMMA CutOut ==
  ASSUME NEW T, NEW args, args \in Seq(T), NEW p \in 0..Len(args), NEW q \in 1..(Len(args) + 1), p < q
  PROVE  LET u == SubSeq(args, 1, p) \o SubSeq(args, q, Len(args))
         IN u \in Seq(T) /\ Len(u) \in Nat /\ IsCut(args, p, q, u)
<1> DEFINE n == Len(args)
           v == SubSeq(args, 1, p)
           w == SubSeq(args, q, n)
           u == v \o w
           d == q - p - 1
<1>1. n \in Nat /\ p \in Nat /\ p <= n /\ q \in Nat /\ q >= 1 /\ q <= n + 1 /\ d \in Nat
  BY SMT
<1>2. v \in Seq(T) /\ Len(v) = p /\ \A k \in 1..p : v[k] = args[k]
  BY <1>1, SMT
<1>3. w \in Seq(T) /\ Len(w) = n - q + 1 /\ \A k \in 1..(n - q + 1) : w[k] = args[q + k - 1]
  BY <1>1, SMT
<1> HIDE DEF n, v, w
<1>4. u \in Seq(T) /\ Len(u) = Len(v) + Len(w)
  BY <1>2, <1>3, Concatenated, Zenon
<1>5. \A k \in 1..Len(v) : u[k] = v[k]
  BY <1>2, <1>3, Concatenated, ZenonT(60)
<1>6. \A k \in 1..Len(w) : u[Len(v) + k] = w[k]
  <2>1. v \in Seq(T) /\ w \in Seq(T)
    BY <1>2, <1>3
  <2>2. \A k \in 1..Len(w) : (v \o w)[Len(v) + k] = w[k]
    BY <2>1, Concatenated
  <2> QED BY <2>2
<1> HIDE DEF u
<1>7. Len(u) = n - d
  BY <1>1, <1>2, <1>3, <1>4
<1>8. \A k \in 1..p : k \in 1..Len(u) /\ u[k] = args[k]
  BY <1>1, <1>2, <1>5, <1>7
<1>9. \A k \in q..n : k - d \in 1..Len(u) /\ u[k - d] = args[k]
  <2> TAKE k \in q..n
  <2>1. k - q + 1 \in 1..(n - q + 1) /\ p + (k - q + 1) = k - d /\ q + (k - q + 1) - 1 = k
    BY <1>1
  <2>2. u[k - d] = args[k]
    <3>1. k - q + 1 \in 1..Len(w)
      BY <1>3, <2>1
    <3>2. u[Len(v) + (k - q + 1)] = w[k - q + 1]
      BY <1>6, <3>1
    <3> QED BY <1>2, <1>3, <2>1, <3>2
  <2>3. k - d \in 1..Len(u)
    BY <1>1, <1>7
  <2> QED BY <2>2, <2>3
<1>10. Len(u) \in Nat
  BY <1>4
<1> QED BY <1>4, <1>8, <1>9, <1>10 DEF IsCut, u, n, v, w

\* An option that is in no way global.
IsOther(t) == t.option \notin {"", "--config", "--json", "--help"}

\* All such options are kept, and the words that follow them.
KeepsOptions(u, v) ==
  \A i \in 1..Len(u) : IsOther(u[i]) =>
    /\ \E j \in 1..Len(v) : v[j] = u[i]
    /\ i + 1 \in 1..Len(u) /\ IsWord(u[i + 1]) =>
         \E j \in 1..Len(v) : j + 1 \in 1..Len(v) /\ v[j] = u[i] /\ v[j + 1] = u[i + 1]

\* If the first of the arguments is a word, it is kept in its place as well.
Keeps(u, v) ==
  /\ KeepsOptions(u, v)
  /\ u # <<>> /\ IsWord(u[1]) => v # <<>> /\ v[1] = u[1]

\* Nothing is lost where nothing is taken out.
LEMMA KeepsItself == ASSUME NEW u PROVE Keeps(u, u)
BY DEF KeepsOptions, Keeps

\* Nothing is lost step by step.
LEMMA KeepsTransitive ==
  ASSUME NEW u, NEW v, NEW w, KeepsOptions(u, v), KeepsOptions(v, w)
  PROVE  KeepsOptions(u, w)
<1> SUFFICES ASSUME NEW i \in 1..Len(u), IsOther(u[i])
             PROVE  /\ \E j \in 1..Len(w) : w[j] = u[i]
                    /\ i + 1 \in 1..Len(u) /\ IsWord(u[i + 1]) =>
                         \E j \in 1..Len(w) : j + 1 \in 1..Len(w) /\ w[j] = u[i] /\ w[j + 1] = u[i + 1]
  BY DEF KeepsOptions
<1>1. PICK j \in 1..Len(v) : v[j] = u[i]
  BY DEF KeepsOptions
<1>2. \E k \in 1..Len(w) : w[k] = u[i]
  <2>1. IsOther(v[j])
    BY <1>1
  <2> QED BY <1>1, <2>1, ZenonT(60) DEF KeepsOptions
<1>3. ASSUME i + 1 \in 1..Len(u), IsWord(u[i + 1])
      PROVE  \E k \in 1..Len(w) : k + 1 \in 1..Len(w) /\ w[k] = u[i] /\ w[k + 1] = u[i + 1]
  <2>1. PICK l \in 1..Len(v) : l + 1 \in 1..Len(v) /\ v[l] = u[i] /\ v[l + 1] = u[i + 1]
    BY <1>3, Zenon DEF KeepsOptions
  <2>2. IsOther(v[l]) /\ IsWord(v[l + 1])
    BY <1>3, <2>1, Zenon
  <2>3. PICK k \in 1..Len(w) : k + 1 \in 1..Len(w) /\ w[k] = v[l] /\ w[k + 1] = v[l + 1]
    BY <2>1, <2>2, Zenon DEF KeepsOptions
  <2> QED BY <2>1, <2>3, Zenon
<1> QED BY <1>2, <1>3, Zenon

\* What is taken out is global: every other option is kept, and the word after
\* it.
LEMMA CutKeepsOptions ==
  ASSUME NEW T, NEW args, args \in Seq(T), NEW p \in 0..Len(args), NEW q \in 1..(Len(args) + 1), p < q - 1,
         \A k \in (p + 1)..(q - 1) : ~IsOther(args[k]),
         ~IsWord(args[p + 1])
  PROVE  LET u == SubSeq(args, 1, p) \o SubSeq(args, q, Len(args))
         IN u \in Seq(T) /\ KeepsOptions(args, u)
<1> DEFINE n == Len(args)
           u == SubSeq(args, 1, p) \o SubSeq(args, q, n)
           d == q - p - 1
<1>1. n \in Nat /\ p \in Nat /\ p <= n /\ q \in Nat /\ q >= 1 /\ q <= n + 1 /\ d \in Nat /\ p < q
  BY SMT
<1>3. u \in Seq(T) /\ Len(u) \in Nat /\ IsCut(args, p, q, u)
  BY <1>1, CutOut, Zenon
<1> HIDE DEF u
<1>2. /\ u \in Seq(T)
      /\ \A k \in 1..p : k \in 1..Len(u) /\ u[k] = args[k]
      /\ \A k \in q..n : k - d \in 1..Len(u) /\ u[k - d] = args[k]
  BY <1>3, Zenon DEF IsCut
<1>4. SUFFICES ASSUME NEW i \in 1..n, IsOther(args[i])
               PROVE  /\ \E j \in 1..Len(u) : u[j] = args[i]
                      /\ i + 1 \in 1..n /\ IsWord(args[i + 1]) =>
                           \E j \in 1..Len(u) : j + 1 \in 1..Len(u) /\ u[j] = args[i] /\ u[j + 1] = args[i + 1]
  <2> HIDE DEF n
  <2> QED BY <1>2 DEF KeepsOptions, u, n
<1> HIDE DEF n, d
<1>5. i \in 1..p \/ i \in q..n
  <2>1. i \notin (p + 1)..(q - 1)
    BY <1>4
  <2> QED BY <1>1, <2>1
<1>6. CASE i \in 1..p
  <2>1. u[i] = args[i] /\ i \in 1..Len(u)
    BY <1>2, <1>6
  <2>2. ASSUME i + 1 \in 1..n, IsWord(args[i + 1]) PROVE i + 1 \in 1..Len(u) /\ u[i + 1] = args[i + 1]
    <3>1. i # p
      BY <2>2
    <3>2. i + 1 \in 1..p
      BY <1>1, <1>6, <3>1
    <3> QED BY <1>2, <3>2
  <2> QED BY <2>1, <2>2
<1>7. CASE i \in q..n
  <2>1. u[i - d] = args[i] /\ i - d \in 1..Len(u)
    BY <1>2, <1>7
  <2>2. ASSUME i + 1 \in 1..n PROVE (i - d) + 1 \in 1..Len(u) /\ u[(i - d) + 1] = args[i + 1]
    <3>1. i + 1 \in q..n /\ (i + 1) - d = (i - d) + 1
      BY <1>1, <1>7, <2>2
    <3> QED BY <1>2, <3>1
  <2> QED BY <2>1, <2>2
<1> QED BY <1>5, <1>6, <1>7

\* And so is a first word.
LEMMA CutKeeps ==
  ASSUME NEW T, NEW args, args \in Seq(T), NEW p \in 0..Len(args), NEW q \in 1..(Len(args) + 1), p < q - 1,
         \A k \in (p + 1)..(q - 1) : ~IsOther(args[k]),
         ~IsWord(args[p + 1])
  PROVE  LET u == SubSeq(args, 1, p) \o SubSeq(args, q, Len(args))
         IN u \in Seq(T) /\ Keeps(args, u)
<1> DEFINE u == SubSeq(args, 1, p) \o SubSeq(args, q, Len(args))
<1>1. u \in Seq(T) /\ KeepsOptions(args, u)
  BY CutKeepsOptions, Zenon
<1>2. Len(args) \in Nat /\ p \in Nat /\ p < q
  BY SMT
<1>3. IsCut(args, p, q, u)
  BY <1>2, CutOut, Zenon
<1> HIDE DEF u
<1>4. ASSUME args # <<>>, IsWord(args[1]) PROVE u # <<>> /\ u[1] = args[1]
  <2>1. p # 0
    BY <1>4
  <2>2. 1 \in 1..p
    BY <1>2, <2>1
  <2>3. 1 \in 1..Len(u) /\ u[1] = args[1]
    BY <1>3, <2>2, Zenon DEF IsCut
  <2> QED BY <1>1, <2>3
<1> QED BY <1>1, <1>4, Zenon DEF Keeps, u

\* A sequence between two others, without the words it began with.
LEMMA MiddleKeeps ==
  ASSUME NEW T, NEW a, a \in Seq(T), NEW m \in 1..(Len(a) + 1), \A k \in 1..(m - 1) : ~IsOther(a[k]),
         NEW v \in Seq(T), NEW w \in Seq(T)
  PROVE  LET u == (v \o SubSeq(a, m, Len(a))) \o w
         IN u \in Seq(T) /\ KeepsOptions(a, u)
<1> DEFINE n == Len(a)
           s == SubSeq(a, m, n)
           x == v \o s
           u == x \o w
           q == Len(v)
           d == q - (m - 1)
<1>1. n \in Nat /\ m \in Nat /\ m >= 1 /\ m <= n + 1 /\ q \in Nat /\ d \in Int /\ Len(w) \in Nat
  BY SMT
<1>2. s \in Seq(T) /\ Len(s) = n - m + 1 /\ \A k \in 1..Len(s) : s[k] = a[m + k - 1]
  BY <1>1, SMT
<1> HIDE DEF n, q, s
<1>3. /\ x \in Seq(T) /\ Len(x) = q + Len(s)
      /\ \A k \in 1..Len(s) : x[q + k] = s[k]
  <2>1. v \in Seq(T) /\ s \in Seq(T)
    BY <1>2
  <2>2. v \o s \in Seq(T) /\ Len(v \o s) = Len(v) + Len(s)
    BY <2>1, Concatenated, Zenon
  <2>3. \A k \in 1..Len(s) : (v \o s)[Len(v) + k] = s[k]
    BY <2>1, Concatenated
  <2> QED BY <2>2, <2>3, Zenon DEF q
<1> HIDE DEF x
<1>4. /\ u \in Seq(T) /\ Len(u) = Len(x) + Len(w)
      /\ \A k \in 1..Len(x) : u[k] = x[k]
  <2>1. x \in Seq(T) /\ w \in Seq(T)
    BY <1>3
  <2>2. x \o w \in Seq(T) /\ Len(x \o w) = Len(x) + Len(w)
    BY <2>1, Concatenated, Zenon
  <2>3. \A k \in 1..Len(x) : (x \o w)[k] = x[k]
    BY <2>1, Concatenated, Zenon
  <2> QED BY <2>2, <2>3, Zenon
<1> HIDE DEF u
<1>5. \A i \in m..n : i + d \in 1..Len(u) /\ u[i + d] = a[i]
  <2> TAKE i \in m..n
  <2>1. i - m + 1 \in 1..Len(s) /\ q + (i - m + 1) = i + d /\ m + (i - m + 1) - 1 = i
    <3>1. /\ i - m + 1 \in 1..(n - m + 1) /\ q + (i - m + 1) = i + d
          /\ m + (i - m + 1) - 1 = i
      BY <1>1
    <3> QED BY <1>2, <3>1, Zenon
  <2>2. x[i + d] = a[i]
    BY <1>2, <1>3, <2>1
  <2>3. i + d \in 1..Len(x)
    <3>1. i + d \in 1..(q + (n - m + 1))
      BY <1>1
    <3> QED BY <1>2, <1>3, <3>1, Zenon
  <2>4. i + d \in 1..Len(u)
    BY <1>1, <1>3, <1>4, <1>2, <2>3
  <2> QED BY <1>4, <2>2, <2>3, <2>4
<1>6. KeepsOptions(a, u)
  <2> SUFFICES ASSUME NEW i \in 1..n, IsOther(a[i])
               PROVE  /\ \E j \in 1..Len(u) : u[j] = a[i]
                      /\ i + 1 \in 1..n /\ IsWord(a[i + 1]) =>
                           \E j \in 1..Len(u) : j + 1 \in 1..Len(u) /\ u[j] = a[i] /\ u[j + 1] = a[i + 1]
    BY DEF KeepsOptions, n
  <2> HIDE DEF d
  <2>1. i \in m..n
    <3>1. i \notin 1..(m - 1)
      OBVIOUS
    <3> QED BY <1>1, <3>1
  <2>2. i + 1 \in 1..n => i + 1 \in m..n /\ (i + 1) + d = (i + d) + 1
    BY <1>1, <2>1
  <2>3. i + d \in 1..Len(u) /\ u[i + d] = a[i]
    BY <1>5, <2>1
  <2>4. i + 1 \in 1..n => (i + d) + 1 \in 1..Len(u) /\ u[(i + d) + 1] = a[i + 1]
    BY <1>5, <2>2
  <2> QED BY <2>3, <2>4
<1> QED BY <1>4, <1>6 DEF u, x, s, n

\* --config and its path are all that is taken out.
LEMMA ConfigKeeps ==
  ASSUME NEW T, NEW args, args \in Seq(T), extractConfigFlag(args).ok
  PROVE  extractConfigFlag(args).args \in Seq(T) /\ Keeps(args, extractConfigFlag(args).args)
<1> DEFINE flags == {i \in DOMAIN args : Is(args[i], "--config") /\ args[i].form = "bare"}
           first == CHOOSE i \in flags : TRUE
           out == extractConfigFlag(args)
<1>1. CASE flags = {}
  <2>1. out.args = args
    BY <1>1 DEF extractConfigFlag
  <2> QED BY <2>1, KeepsItself
<1>2. CASE flags # {} /\ (flags # {first} \/ first = Len(args))
  <2>1. ~out.ok
    BY <1>2 DEF extractConfigFlag
  <2> QED BY <2>1
<1>3. CASE flags # {} /\ ~(flags # {first} \/ first = Len(args))
  <2>1. out = [ok |-> IsWord(args[first + 1]) /\ args[first + 1].text # "",
               path |-> args[first + 1].text, args |-> WithoutFlag(args, first)]
    BY <1>3 DEF extractConfigFlag
  <2>2. first \in flags /\ first # Len(args)
    BY <1>3
  <2>3. IsWord(args[first + 1]) /\ out.args = WithoutFlag(args, first)
    <3> DEFINE x == args[first + 1]
    <3>1. out.ok
      OBVIOUS
    <3> HIDE DEF first, out, x
    <3>2. out.ok = (IsWord(x) /\ x.text # "") /\ out.args = WithoutFlag(args, first)
      BY <2>1 DEF x
    <3>3. IsWord(x)
      BY <3>1, <3>2, Zenon
    <3> QED BY <3>2, <3>3, Zenon DEF x
  <2> HIDE DEF first, out
  <2>4. Len(args) \in Nat /\ DOMAIN args = 1..Len(args)
    OBVIOUS
  <2>5. first \in 1..Len(args) /\ Is(args[first], "--config")
    BY <2>2, <2>4
  <2> DEFINE p == first - 1
             q == first + 2
  <2>6. p \in 0..Len(args) /\ q \in 1..(Len(args) + 1) /\ p < q - 1
    BY <2>2, <2>4, <2>5
  <2>7. \A k \in (p + 1)..(q - 1) : ~IsOther(args[k])
    <3>1. \A k \in (p + 1)..(q - 1) : k = first \/ k = first + 1
      BY <2>5
    <3>2. ~IsOther(args[first]) /\ ~IsOther(args[first + 1])
      BY <2>3, <2>5 DEF IsOther, Is, IsWord
    <3> QED BY <3>1, <3>2
  <2>8. ~IsWord(args[p + 1])
    <3>1. p + 1 = first
      BY <2>5
    <3> QED BY <2>5, <3>1 DEF Is, IsWord
  <2>9. SubSeq(args, 1, p) \o SubSeq(args, q, Len(args)) = WithoutFlag(args, first)
    BY DEF WithoutFlag
  <2> HIDE DEF p, q, flags
  <2>10. WithoutFlag(args, first) \in Seq(T) /\ Keeps(args, WithoutFlag(args, first))
    <3>1. LET u == SubSeq(args, 1, p) \o SubSeq(args, q, Len(args))
          IN u \in Seq(T) /\ Keeps(args, u)
      BY <2>6, <2>7, <2>8, CutKeeps, Zenon
    <3> QED BY <2>9, <3>1, Zenon
  <2> QED BY <2>3, <2>10, Zenon DEF out
<1> QED BY <1>1, <1>2, <1>3, Zenon

\* What is asked for as JSON before the command is asked for after it.
LEMMA RelocateKeeps ==
  ASSUME NEW T, NEW args, args \in Seq(T), relocateLeadingGlobalJSON(args).ok,
         OptionEquals("--json", "true") \in T, OptionEquals("--json", "false") \in T
  PROVE  /\ relocateLeadingGlobalJSON(args).args \in Seq(T)
         /\ Keeps(args, relocateLeadingGlobalJSON(args).args)
<1>1. CASE args = <<>> \/ ~Is(args[1], "--json")
  <2>1. relocateLeadingGlobalJSON(args).args = args
    BY <1>1 DEF relocateLeadingGlobalJSON, Rewritten
  <2> QED BY <2>1, KeepsItself
<1>2. CASE ~(args = <<>> \/ ~Is(args[1], "--json"))
  <2> DEFINE json == booleanFlag(args[1], "--json")
             twice == Len(args) > 1 /\ Is(args[2], "--json")
             last == OptionEquals("--json", IF json.value THEN "true" ELSE "false")
             u == Append(Tail(args), last)
             out == relocateLeadingGlobalJSON(args)
  <2>1. out = IF json.ok /\ ~twice THEN Rewritten(u) ELSE Unreadable
    BY <1>2, Zenon DEF relocateLeadingGlobalJSON
  <2>2. out.args = u
    <3>1. ~Unreadable.ok
      BY DEF Unreadable
    <3>2. out = Rewritten(u)
      <4> HIDE DEF json, twice, u
      <4> QED BY <2>1, <3>1
    <3> HIDE DEF u
    <3> QED BY <3>2 DEF Rewritten
  <2>3. last \in T
    <3> HIDE DEF json
    <3> QED OBVIOUS
  <2> HIDE DEF json, twice, last, out
  <2>4. Len(args) \in Nat /\ Len(args) >= 1 /\ Is(args[1], "--json")
    BY <1>2
  <2>5. u \in Seq(T) /\ Len(u) = Len(args) /\ \A k \in 2..Len(args) : u[k - 1] = args[k]
    <3>1. Tail(args) \in Seq(T) /\ Len(Tail(args)) = Len(args) - 1 /\ \A k \in 1..Len(Tail(args)) : Tail(args)[k] = args[k + 1]
      BY <1>2, HeadTailProperties
    <3> DEFINE v == Tail(args)
    <3> HIDE DEF v
    <3>2. Append(v, last) \in Seq(T) /\ Len(Append(v, last)) = Len(v) + 1 /\ \A k \in 1..Len(v) : Append(v, last)[k] = v[k]
      BY <2>3, <3>1 DEF v
    <3>3. \A k \in 2..Len(args) : k - 1 \in 1..Len(v) /\ (k - 1) + 1 = k
      BY <2>4, <3>1 DEF v
    <3>4. \A k \in 2..Len(args) : u[k - 1] = args[k]
      BY <3>1, <3>2, <3>3 DEF v
    <3>5. Len(u) = Len(args) /\ u \in Seq(T)
      BY <2>4, <3>1, <3>2 DEF v
    <3> QED BY <3>4, <3>5
  <2> HIDE DEF u
  <2>6. KeepsOptions(args, u)
    <3> SUFFICES ASSUME NEW i \in 1..Len(args), IsOther(args[i])
                 PROVE  /\ \E j \in 1..Len(u) : u[j] = args[i]
                        /\ i + 1 \in 1..Len(args) /\ IsWord(args[i + 1]) =>
                             \E j \in 1..Len(u) : j + 1 \in 1..Len(u) /\ u[j] = args[i] /\ u[j + 1] = args[i + 1]
      BY DEF KeepsOptions
    <3>1. i # 1
      BY <2>4 DEF IsOther, Is
    <3>2. i - 1 \in 1..Len(u) /\ u[i - 1] = args[i]
      BY <2>4, <2>5, <3>1
    <3>3. i + 1 \in 1..Len(args) => (i - 1) + 1 \in 1..Len(u) /\ u[(i - 1) + 1] = args[i + 1]
      <4>1. (i - 1) + 1 = (i + 1) - 1 /\ i + 1 >= 2
        OBVIOUS
      <4> QED BY <2>4, <2>5, <4>1
    <3> QED BY <3>2, <3>3
  <2>7. ~IsWord(args[1])
    BY <2>4 DEF Is, IsWord
  <2> QED BY <2>2, <2>5, <2>6, <2>7, Zenon DEF out, Keeps
<1> QED BY <1>1, <1>2

\* A request for help is all that is taken out.
LEMMA StripKeeps ==
  ASSUME NEW T, NEW args, args \in Seq(T), stripHelpFlags(args).ok
  PROVE  stripHelpFlags(args).args \in Seq(T) /\ Keeps(args, stripHelpFlags(args).args)
<1> DEFINE help == {i \in DOMAIN args : Is(args[i], "--help")}
           i == CHOOSE i \in help : TRUE
           out == stripHelpFlags(args)
           u == SubSeq(args, 1, i - 1) \o SubSeq(args, i + 1, Len(args))
<1>1. CASE help = {}
  <2>1. out.args = args
    BY <1>1 DEF stripHelpFlags, Rewritten
  <2> QED BY <2>1, KeepsItself
<1>2. CASE help # {}
  <2>1. out = IF help = {i} /\ args[i].form # "bad"
              THEN [ok |-> TRUE, help |-> booleanFlag(args[i], "--help").value, args |-> u]
              ELSE Unreadable
    BY <1>2, Zenon DEF stripHelpFlags
  <2>2. i \in help
    BY <1>2
  <2> HIDE DEF i
  <2>3. out.args = u
    <3>1. ~Unreadable.ok
      BY DEF Unreadable
    <3> HIDE DEF help, u
    <3> QED BY <2>1, <3>1
  <2>4. Len(args) \in Nat /\ DOMAIN args = 1..Len(args)
    OBVIOUS
  <2>5. i \in 1..Len(args) /\ Is(args[i], "--help")
    BY <2>2, <2>4
  <2> HIDE DEF out
  <2> DEFINE p == i - 1
             q == i + 1
  <2>6. p \in 0..Len(args) /\ q \in 1..(Len(args) + 1) /\ p < q - 1
    BY <2>4, <2>5
  <2>7. \A k \in (p + 1)..(q - 1) : ~IsOther(args[k])
    <3>1. \A k \in (p + 1)..(q - 1) : k = i
      BY <2>5
    <3>2. ~IsOther(args[i])
      BY <2>5 DEF IsOther, Is
    <3> QED BY <3>1, <3>2
  <2>8. ~IsWord(args[p + 1])
    <3>1. p + 1 = i
      BY <2>5
    <3> QED BY <2>5, <3>1 DEF Is, IsWord
  <2>9. SubSeq(args, 1, p) \o SubSeq(args, q, Len(args)) = u
    OBVIOUS
  <2> HIDE DEF p, q, u, help
  <2>10. u \in Seq(T) /\ Keeps(args, u)
    <3>1. LET w == SubSeq(args, 1, p) \o SubSeq(args, q, Len(args))
          IN w \in Seq(T) /\ Keeps(args, w)
      BY <2>6, <2>7, <2>8, CutKeeps, Zenon
    <3> QED BY <2>9, <3>1, Zenon
  <2> QED BY <2>3, <2>10, Zenon DEF out
<1> QED BY <1>1, <1>2, Zenon

\* What is appended changes nothing.
LEMMA PrefixKeeps ==
  ASSUME NEW T, NEW a, NEW v \in Seq(T), NEW w \in Seq(T), KeepsOptions(a, v)
  PROVE  v \o w \in Seq(T) /\ KeepsOptions(a, v \o w)
<1> DEFINE u == v \o w
<1>1. u \in Seq(T) /\ Len(u) = Len(v) + Len(w)
  BY Concatenated, Zenon
<1>2. \A k \in 1..Len(v) : u[k] = v[k]
  BY Concatenated, Zenon
<1>3. Len(v) \in Nat /\ Len(w) \in Nat
  OBVIOUS
<1> HIDE DEF u
<1>4. \A k \in 1..Len(v) : k \in 1..Len(u)
  BY <1>1, <1>3
<1>5. KeepsOptions(v, u)
  <2> SUFFICES ASSUME NEW i \in 1..Len(v)
               PROVE  /\ \E j \in 1..Len(u) : u[j] = v[i]
                      /\ i + 1 \in 1..Len(v) =>
                           \E j \in 1..Len(u) : j + 1 \in 1..Len(u) /\ u[j] = v[i] /\ u[j + 1] = v[i + 1]
    BY DEF KeepsOptions
  <2> QED BY <1>2, <1>4
<1> QED BY <1>1, <1>5, KeepsTransitive DEF u

\* What begins a sequence instead of its words changes nothing either.
LEMMA SuffixKeeps ==
  ASSUME NEW T, NEW a, a \in Seq(T), NEW m \in 1..(Len(a) + 1), \A k \in 1..(m - 1) : ~IsOther(a[k]),
         NEW v \in Seq(T)
  PROVE  LET u == v \o SubSeq(a, m, Len(a)) IN u \in Seq(T) /\ KeepsOptions(a, u)
<1> DEFINE s == SubSeq(a, m, Len(a))
           u == v \o s
<1>1. <<>> \in Seq(T)
  OBVIOUS
<1>2. u \o <<>> \in Seq(T) /\ KeepsOptions(a, u \o <<>>)
  BY <1>1, MiddleKeeps, Zenon
<1>3. u \in Seq(T)
  <2>1. s \in Seq(T)
    BY SMT
  <2> HIDE DEF s
  <2> QED BY <2>1, Concatenated, Zenon
<1>4. u \o <<>> = u
  <2> HIDE DEF u
  <2> QED BY <1>3, ConcatEmptySeq, Zenon
<1> QED BY <1>2, <1>4, Zenon

\* The arguments that the program composes itself.
Composed(root) ==
  {OptionEquals("--json", "true"), OptionEquals("--json", "false"), Word("monitor"), Word("top"), Word("diagnose"),
   Word("capture"), Word("noisy-neighbor"), Word(root), Option("--application"), Option("--victim"), Option("--suspect"),
   Option("--discover-suspects"), Option("--include-ebpf-latency"), Option("--output-dir"), Option("--duration"),
   Option("--every"), Option("--ui-refresh"), Duration("5s", 50), Duration("7s", 70), Duration("200ms", 2)}

\* What a word and an option are.
LEMMA WordIs ==
  ASSUME NEW x
  PROVE  /\ Word(x).option = "" /\ Word(x).text = x /\ Word(x).form = "bare"
         /\ Option(x).option = x /\ Option(x).text = "" /\ Option(x).form = "bare"
         /\ IsWord(Word(x)) /\ ~IsOther(Word(x))
BY DEF Word, Option, IsWord, IsOther

\* A default is made of the arguments considered.
LEMMA DefaultIs ==
  ASSUME NEW T, NEW args, NEW name, NEW value \in Seq(T), Option(name) \in T
  PROVE  Default(args, name, value) \in Seq(T)
<1>1. <<Option(name)>> \in Seq(T) /\ <<>> \in Seq(T)
  OBVIOUS
<1>2. <<Option(name)>> \o value \in Seq(T)
  BY <1>1, Concatenated, Zenon
<1> QED BY <1>1, <1>2 DEF Default

\* A sequence that is extended begins as before.
LEMMA BeginsAsBefore ==
  ASSUME NEW T, NEW v \in Seq(T), NEW w \in Seq(T), NEW x, v # <<>> /\ v[1] = x
  PROVE  v \o w # <<>> /\ (v \o w)[1] = x
<1> DEFINE u == v \o w
<1>1. u \in Seq(T) /\ Len(u) = Len(v) + Len(w) /\ \A k \in 1..Len(v) : u[k] = v[k]
  BY Concatenated, Zenon
<1> HIDE DEF u
<1>2. u # <<>> /\ u[1] = x
  BY <1>1
<1> QED BY <1>2 DEF u

\* The options are kept, behind the name of the long command.
IsExpansion(T, a, long, u) == u \in Seq(T) /\ KeepsOptions(a, u) /\ u[1] = Word(long)

\* investigate and bundle: the long command comes first, and every option that
\* the operator gave follows.
LEMMA TargetKeeps ==
  ASSUME NEW T, NEW root, Composed(root) \subseteq T, NEW a, a \in Seq(T), a # <<>>, IsWord(a[1]),
         NEW long, Word(long) \in T, NEW output, long = "capture" => output = root,
         expandTargetOperatorCommand(a, long, output).ok
  PROVE  IsExpansion(T, a, long, expandTargetOperatorCommand(a, long, output).args)
<1> DEFINE named == Len(a) >= 3 /\ IsWord(a[3])
           m == IF named THEN 4 ELSE 3
           remainder == SubSeq(a, m, Len(a))
           suspect == IF named THEN <<Option("--suspect"), a[3]>> ELSE <<Option("--discover-suspects")>>
           first == <<Word(long), Word("noisy-neighbor"), Option("--victim"), a[2]>>
           latency == Default(remainder, "--include-ebpf-latency", <<>>)
           directory == IF long = "capture" THEN Default(remainder, "--output-dir", <<Word(output)>>) ELSE <<>>
           begin == ((first \o suspect) \o latency) \o directory
           bad == Len(a) < 2 \/ ~IsWord(a[2]) \/ a[2].text = "" \/ (named /\ a[3].text = "")
           out == expandTargetOperatorCommand(a, long, output)
<1>1. out = IF bad THEN Unreadable ELSE Rewritten(begin \o remainder)
  BY Zenon DEF expandTargetOperatorCommand
<1>2. ~bad /\ out.args = begin \o remainder
  <2>1. ~Unreadable.ok /\ Rewritten(begin \o remainder).args = begin \o remainder
    BY Zenon DEF Unreadable, Rewritten
  <2>2. out.ok
    OBVIOUS
  <2> HIDE DEF bad, begin, remainder, out
  <2> QED BY <1>1, <2>1, <2>2
<1> HIDE DEF out
<1>3. Len(a) \in Nat /\ Len(a) >= 2 /\ IsWord(a[2]) /\ a[2] \in T /\ (named => a[3] \in T /\ Len(a) >= 3)
  <2>1. Len(a) \in Nat /\ \A k \in 1..Len(a) : a[k] \in T
    OBVIOUS
  <2>2. ~(Len(a) < 2) /\ IsWord(a[2])
    BY <1>2, Zenon
  <2>3. a[2] \in T /\ Len(a) >= 2
    BY <2>1, <2>2
  <2>4. Len(a) >= 3 => a[3] \in T
    BY <2>1
  <2> QED BY <2>1, <2>2, <2>3, <2>4, Zenon
<1>4. m \in 1..(Len(a) + 1)
  BY <1>3
<1>5. \A k \in 1..(m - 1) : ~IsOther(a[k])
  <2>1. \A k \in 1..(m - 1) : k = 1 \/ k = 2 \/ (named /\ k = 3)
    OBVIOUS
  <2>2. ~IsOther(a[1]) /\ ~IsOther(a[2])
    BY <1>3 DEF IsOther, IsWord
  <2>3. named => ~IsOther(a[3])
    BY DEF IsOther, IsWord
  <2> QED BY <2>1, <2>2, <2>3
<1>6. first \in Seq(T) /\ first # <<>> /\ first[1] = Word(long)
  <2>1. Word("noisy-neighbor") \in T /\ Option("--victim") \in T
    BY DEF Composed
  <2> QED BY <1>3, <2>1
<1>7. suspect \in Seq(T)
  <2>1. Option("--suspect") \in T /\ Option("--discover-suspects") \in T
    BY DEF Composed
  <2> QED BY <1>3, <2>1
<1>8. latency \in Seq(T)
  <2>1. Option("--include-ebpf-latency") \in T /\ <<>> \in Seq(T)
    BY DEF Composed
  <2> QED BY <2>1, DefaultIs, Zenon
<1>9. directory \in Seq(T)
  <2>1. Option("--output-dir") \in T /\ (long = "capture" => <<Word(output)>> \in Seq(T)) /\ <<>> \in Seq(T)
    BY DEF Composed
  <2> QED BY <2>1, DefaultIs, Zenon
<1> HIDE DEF first, suspect, latency, directory
<1>10. begin \in Seq(T) /\ begin # <<>> /\ begin[1] = Word(long)
  <2> DEFINE x == first \o suspect
             y == x \o latency
             z == y \o directory
  <2>1. x \in Seq(T)
    BY <1>6, <1>7, Concatenated, Zenon
  <2>2. x # <<>> /\ x[1] = Word(long)
    BY <1>6, <1>7, BeginsAsBefore, Zenon
  <2> HIDE DEF x
  <2>3. y \in Seq(T)
    BY <1>8, <2>1, Concatenated, Zenon
  <2>4. y # <<>> /\ y[1] = Word(long)
    BY <1>8, <2>1, <2>2, BeginsAsBefore, Zenon
  <2> HIDE DEF y
  <2>5. z \in Seq(T)
    BY <1>9, <2>3, Concatenated, Zenon
  <2>6. z # <<>> /\ z[1] = Word(long)
    BY <1>9, <2>3, <2>4, BeginsAsBefore, Zenon
  <2> QED BY <2>5, <2>6, Zenon DEF x, y, z
<1> HIDE DEF begin, m
<1>11. begin \o remainder \in Seq(T) /\ KeepsOptions(a, begin \o remainder)
  BY <1>4, <1>5, <1>10, SuffixKeeps, Zenon
<1>12. remainder \in Seq(T)
  BY <1>3, <1>4, SMT DEF m
<1> HIDE DEF remainder
<1>13. (begin \o remainder)[1] = Word(long)
  BY <1>10, <1>12, BeginsAsBefore, Zenon
<1> QED BY <1>2, <1>11, <1>13, Zenon DEF out, remainder, IsExpansion

\* The short commands are told apart.
LEMMA ExpandedDiffer ==
  Word("monitor") # Word("investigate") /\ Word("monitor") # Word("bundle") /\ Word("investigate") # Word("bundle")
<1>1. Word("monitor").text = "monitor" /\ Word("investigate").text = "investigate" /\ Word("bundle").text = "bundle"
  BY WordIs, Zenon
<1> QED BY <1>1

\* The options of monitor that the operator left open are appended.
LEMMA MonitorKeeps ==
  ASSUME NEW T, NEW root, Composed(root) \subseteq T, NEW a, a \in Seq(T), a # <<>>, a[1] = Word("monitor")
  PROVE  expandOperatorCommand(a, root).args \in Seq(T) /\ KeepsOptions(a, expandOperatorCommand(a, root).args)
<1> DEFINE start == (<<Word("top")>> \o Tail(a)) \o <<Option("--application")>>
           d1 == Default(start, "--duration", <<Duration("5s", 50)>>)
           d2 == Default(start, "--every", <<Duration("7s", 70)>>)
           d3 == Default(start, "--ui-refresh", <<Duration("200ms", 2)>>)
           d4 == Default(start, "--include-ebpf-latency", <<>>)
<1>1. expandOperatorCommand(a, root) = Rewritten((((start \o d1) \o d2) \o d3) \o d4)
  <2>1. a[1] # Word("investigate") /\ a[1] # Word("bundle")
    BY ExpandedDiffer
  <2> QED BY <2>1, Zenon DEF expandOperatorCommand
<1>2. start \in Seq(T) /\ KeepsOptions(a, start)
  <2> DEFINE w == <<Option("--application")>>
             v == <<Word("top")>>
             s == SubSeq(a, 2, Len(a))
             u == (v \o s) \o w
  <2>1. Tail(a) = s
    BY TailIsSubSeq, Zenon
  <2>2. 2 \in 1..(Len(a) + 1) /\ \A k \in 1..(2 - 1) : ~IsOther(a[k])
    <3>1. ~IsOther(a[1])
      <4>1. ~IsOther(Word("monitor"))
        BY WordIs, Zenon
      <4> QED BY <4>1, Zenon
    <3>2. Len(a) \in Nat /\ Len(a) >= 1
      OBVIOUS
    <3> QED BY <3>1, <3>2
  <2>3. v \in Seq(T) /\ w \in Seq(T)
    <3>1. Word("top") \in T /\ Option("--application") \in T
      BY DEF Composed
    <3> QED BY <3>1
  <2> HIDE DEF v, w
  <2>4. u \in Seq(T) /\ KeepsOptions(a, u)
    BY <2>2, <2>3, MiddleKeeps, Zenon
  <2>5. start = u
    BY <2>1, Zenon DEF u, v, w, start
  <2> QED BY <2>4, <2>5, Zenon
<1> HIDE DEF start
<1>3. d1 \in Seq(T) /\ d2 \in Seq(T) /\ d3 \in Seq(T) /\ d4 \in Seq(T)
  <2>1. /\ Option("--duration") \in T /\ Option("--every") \in T /\ Option("--ui-refresh") \in T
        /\ Option("--include-ebpf-latency") \in T
    BY DEF Composed
  <2>2. /\ <<Duration("5s", 50)>> \in Seq(T) /\ <<Duration("7s", 70)>> \in Seq(T) /\ <<Duration("200ms", 2)>> \in Seq(T)
        /\ <<>> \in Seq(T)
    <3>1. Duration("5s", 50) \in T /\ Duration("7s", 70) \in T /\ Duration("200ms", 2) \in T
      BY DEF Composed
    <3> QED BY <3>1
  <2> QED BY <2>1, <2>2, DefaultIs, Zenon
<1> HIDE DEF d1, d2, d3, d4
<1>4. start \o d1 \in Seq(T) /\ KeepsOptions(a, start \o d1)
  BY <1>2, <1>3, PrefixKeeps, Zenon
<1>5. (start \o d1) \o d2 \in Seq(T) /\ KeepsOptions(a, (start \o d1) \o d2)
  BY <1>3, <1>4, PrefixKeeps, Zenon
<1>6. ((start \o d1) \o d2) \o d3 \in Seq(T) /\ KeepsOptions(a, ((start \o d1) \o d2) \o d3)
  BY <1>3, <1>5, PrefixKeeps, Zenon
<1>7. (((start \o d1) \o d2) \o d3) \o d4 \in Seq(T) /\ KeepsOptions(a, (((start \o d1) \o d2) \o d3) \o d4)
  BY <1>3, <1>6, PrefixKeeps, Zenon
<1> DEFINE u == (((start \o d1) \o d2) \o d3) \o d4
<1> HIDE DEF u
<1>8. Rewritten(u).args = u
  BY DEF Rewritten
<1> QED BY <1>1, <1>7, <1>8, Zenon DEF u

\* What a command line expands to.
IsExpanded(T, a, u) ==
  /\ u \in Seq(T) /\ KeepsOptions(a, u)
  /\ a[1] \notin {Word("monitor"), Word("investigate"), Word("bundle")} => u = a
  /\ a[1] = Word("investigate") => u[1] = Word("diagnose")
  /\ a[1] = Word("bundle") => u[1] = Word("capture")

\* What monitor, investigate and bundle stand for; other commands are left alone.
LEMMA ExpandKeeps ==
  ASSUME NEW T, NEW root, Composed(root) \subseteq T, NEW a, a \in Seq(T), a # <<>>,
         expandOperatorCommand(a, root).ok
  PROVE  IsExpanded(T, a, expandOperatorCommand(a, root).args)
<1> DEFINE out == expandOperatorCommand(a, root)
<1>0. Word("monitor") # Word("investigate") /\ Word("monitor") # Word("bundle") /\ Word("investigate") # Word("bundle")
  BY ExpandedDiffer
<1>1. CASE a[1] = Word("monitor")
  BY <1>0, <1>1, MonitorKeeps, Zenon DEF IsExpanded
<1>2. CASE a[1] = Word("investigate")
  <2>1. out = expandTargetOperatorCommand(a, "diagnose", "")
    BY <1>0, <1>2 DEF expandOperatorCommand
  <2>2. Word("diagnose") \in T /\ IsWord(a[1]) /\ "diagnose" # "capture"
    BY <1>2, WordIs, ZenonT(60) DEF Composed
  <2>3. out.args \in Seq(T) /\ KeepsOptions(a, out.args) /\ out.args[1] = Word("diagnose")
    <3> DEFINE x == expandTargetOperatorCommand(a, "diagnose", "")
    <3>1. x.ok
      BY <2>1, Zenon
    <3>2. IsExpansion(T, a, "diagnose", x.args)
      BY <2>2, <3>1, TargetKeeps, Zenon
    <3> QED BY <2>1, <3>2, Zenon DEF IsExpansion
  <2> HIDE DEF out
  <2>4. a[1] # Word("bundle")
    BY <1>0, <1>2, Zenon
  <2> QED BY <1>2, <2>3, <2>4, Zenon DEF out, IsExpanded
<1>3. CASE a[1] = Word("bundle")
  <2>1. out = expandTargetOperatorCommand(a, "capture", root)
    BY <1>0, <1>3 DEF expandOperatorCommand
  <2>2. Word("capture") \in T /\ IsWord(a[1])
    BY <1>3, WordIs, ZenonT(60) DEF Composed
  <2>3. out.args \in Seq(T) /\ KeepsOptions(a, out.args) /\ out.args[1] = Word("capture")
    <3> DEFINE x == expandTargetOperatorCommand(a, "capture", root)
    <3>1. x.ok
      BY <2>1, Zenon
    <3>2. IsExpansion(T, a, "capture", x.args)
      BY <2>2, <3>1, TargetKeeps, Zenon
    <3> QED BY <2>1, <3>2, Zenon DEF IsExpansion
  <2> HIDE DEF out
  <2>4. a[1] # Word("investigate")
    BY <1>0, <1>3, Zenon
  <2> QED BY <1>3, <2>3, <2>4, Zenon DEF out, IsExpanded
<1>4. CASE a[1] \notin {Word("monitor"), Word("investigate"), Word("bundle")}
  <2>1. out.args = a
    BY <1>4 DEF expandOperatorCommand, Rewritten
  <2> QED BY <1>4, <2>1, KeepsItself DEF Keeps, IsExpanded
<1> QED BY <1>1, <1>2, <1>3, <1>4, Zenon

\* What is left of a command line that is accepted, before it is expanded.
LEMMA ArgumentsAre ==
  ASSUME NEW T, NEW root, NEW a, a \in Seq(T), NEW interactive,
         OptionEquals("--json", "true") \in T, OptionEquals("--json", "false") \in T, Word("monitor") \in T,
         Arguments(a, interactive, root).ok, ~Arguments(a, interactive, root).help
  PROVE  \E u \in Seq(T) : /\ u # <<>> /\ Keeps(a, u)
                           /\ Arguments(a, interactive, root) = expandOperatorCommand(u, root)
<1> DEFINE relocated == relocateLeadingGlobalJSON(a)
           stripped == stripHelpFlags(relocated.args)
           left == IF stripped.args = <<>> /\ interactive THEN <<Word("monitor")>> ELSE stripped.args
           out == Arguments(a, interactive, root)
<1>1. CASE ~relocated.ok \/ ~stripped.ok
  <2>1. out = Unreadable
    <3> HIDE DEF relocated, stripped
    <3> QED BY <1>1, Zenon DEF Arguments, relocated, stripped
  <2> HIDE DEF out
  <2> QED BY <2>1 DEF Unreadable, out
<1>2. CASE relocated.ok /\ stripped.ok /\ (stripped.help \/ left = <<>>)
  <2>1. out = [stripped EXCEPT !.help = TRUE]
    BY <1>2, Zenon DEF Arguments
  <2>2. "help" \in DOMAIN stripped
    <3> DEFINE x == relocated.args
               help == {i \in DOMAIN x : Is(x[i], "--help")}
               i == CHOOSE i \in help : TRUE
               y == [ok |-> TRUE, help |-> booleanFlag(x[i], "--help").value, args |-> SubSeq(x, 1, i - 1) \o SubSeq(x, i + 1, Len(x))]
    <3>1. stripped = Rewritten(x) \/ stripped = y \/ stripped = Unreadable
      <4> HIDE DEF relocated
      <4> QED BY Zenon DEF stripHelpFlags
    <3> HIDE DEF x, i, stripped
    <3> QED BY <3>1 DEF Rewritten, Unreadable
  <2> HIDE DEF stripped
  <2>3. [stripped EXCEPT !.help = TRUE].help
    BY <2>2
  <2> QED BY <2>1, <2>3, Zenon
<1>3. CASE relocated.ok /\ stripped.ok /\ ~(stripped.help \/ left = <<>>)
  <2>1. out = expandOperatorCommand(left, root)
    BY <1>3, Zenon DEF Arguments
  <2>2. relocated.args \in Seq(T) /\ Keeps(a, relocated.args)
    BY <1>3, RelocateKeeps, Zenon
  <2> DEFINE x == relocated.args
  <2> HIDE DEF relocated
  <2>3. stripped.args \in Seq(T) /\ Keeps(relocated.args, stripped.args)
    BY <1>3, <2>2, StripKeeps, Zenon
  <2>4. KeepsOptions(a, stripped.args)
    BY <2>2, <2>3, KeepsTransitive, Zenon DEF Keeps
  <2> HIDE DEF stripped
  <2>5. Keeps(a, stripped.args)
    BY <2>2, <2>3, <2>4, Zenon DEF Keeps
  <2>6. left \in Seq(T) /\ left # <<>> /\ Keeps(a, left)
    <3>1. CASE stripped.args = <<>> /\ interactive
      <4>1. left = <<Word("monitor")>>
        BY <3>1, Zenon
      <4>2. <<Word("monitor")>> \in Seq(T) /\ <<Word("monitor")>> # <<>>
        OBVIOUS
      <4>3. a = <<>> \/ ~IsWord(a[1])
        BY <2>5, <3>1, Zenon DEF Keeps
      <4>4. \A i \in 1..Len(a) : ~IsOther(a[i])
        <5>1. \A i \in 1..Len(a) : IsOther(a[i]) => \E j \in 1..Len(stripped.args) : stripped.args[j] = a[i]
          BY <2>4, Zenon DEF KeepsOptions
        <5>2. 1..Len(stripped.args) = {}
          BY <3>1
        <5> QED BY <5>1, <5>2, Zenon
      <4>5. Keeps(a, left)
        BY <4>3, <4>4, Zenon DEF Keeps, KeepsOptions
      <4> QED BY <4>1, <4>2, <4>5, Zenon
    <3>2. CASE ~(stripped.args = <<>> /\ interactive)
      <4>1. left = stripped.args
        BY <3>2, Zenon
      <4> QED BY <1>3, <2>3, <2>5, <4>1, Zenon
    <3> QED BY <3>1, <3>2, Zenon
  <2> HIDE DEF left
  <2> QED BY <2>1, <2>6, Zenon
<1> QED BY <1>1, <1>2, <1>3, Zenon

\* All of it: what a command that is accepted is left with.
LEMMA ReadKeeps ==
  ASSUME NEW T, NEW a, a \in Seq(T), Composed(Resolve(a).settings.root) \subseteq T, Read(a).ok, ~Read(a).help
  PROVE  /\ Read(a).args \in Seq(T) /\ KeepsOptions(a, Read(a).args)
         /\ Read(a).settings = Resolve(a).settings
         /\ a # <<>> /\ IsWord(a[1]) /\ a[1].text \in {"investigate", "bundle"} => Read(a).args[1].text # "ebpf"
<1> DEFINE runtime == Resolve(a)
           root == runtime.settings.root
           w == Arguments(runtime.args, Interactive, root)
           rewritten == IF runtime.ok THEN w ELSE Unreadable
<1>1. Read(a) = [ok |-> rewritten.ok, help |-> rewritten.help, args |-> rewritten.args, settings |-> runtime.settings]
  BY Zenon DEF Read
<1>2. /\ Read(a).ok = rewritten.ok /\ Read(a).help = rewritten.help /\ Read(a).args = rewritten.args
      /\ Read(a).settings = runtime.settings
  <2> HIDE DEF rewritten, runtime
  <2> DEFINE x == Read(a)
  <2> HIDE DEF x
  <2>1. x = [ok |-> rewritten.ok, help |-> rewritten.help, args |-> rewritten.args, settings |-> runtime.settings]
    BY <1>1 DEF x
  <2>2. /\ x.ok = rewritten.ok /\ x.help = rewritten.help /\ x.args = rewritten.args
        /\ x.settings = runtime.settings
    BY <2>1
  <2> QED BY <2>2 DEF x
<1>3. runtime.ok /\ rewritten = w
  <2>1. ~Unreadable.ok
    BY DEF Unreadable
  <2> HIDE DEF runtime, w
  <2> QED BY <1>2, <2>1, Zenon
<1>4. w.ok /\ ~w.help /\ Read(a).args = w.args
  <2> HIDE DEF rewritten, w
  <2> QED BY <1>2, <1>3, Zenon
<1>5. extractConfigFlag(a).ok /\ runtime.args = extractConfigFlag(a).args
  <2> DEFINE flag == extractConfigFlag(a)
             paths == FirstNonEmpty(<<flag.path, EnvironmentPath, InstalledDefaultPath>>)
             file == IF paths = <<>> THEN [ok |-> TRUE, settings |-> DevelopmentDefaults] ELSE Load(paths[1])
  <2>1. runtime = [ok |-> flag.ok /\ file.ok, args |-> flag.args, settings |-> file.settings]
    BY Zenon DEF Resolve
  <2> HIDE DEF flag, file, runtime
  <2> QED BY <1>3, <2>1 DEF flag
<1> HIDE DEF runtime
<1>6. runtime.args \in Seq(T) /\ Keeps(a, runtime.args)
  BY <1>5, ConfigKeeps, Zenon
<1> DEFINE b == runtime.args
<1> HIDE DEF b, root
<1>7. Composed(root) \subseteq T
  BY DEF root, runtime
<1>8. PICK u \in Seq(T) : u # <<>> /\ Keeps(b, u) /\ w = expandOperatorCommand(u, root)
  <2>1. OptionEquals("--json", "true") \in T /\ OptionEquals("--json", "false") \in T /\ Word("monitor") \in T
    BY <1>7 DEF Composed
  <2>2. b \in Seq(T) /\ Arguments(b, Interactive, root).ok /\ ~Arguments(b, Interactive, root).help
    BY <1>4, <1>6, Zenon DEF b
  <2> QED BY <2>1, <2>2, ArgumentsAre, Zenon DEF b
<1> HIDE DEF w
<1>9. IsExpanded(T, u, w.args)
  <2>1. expandOperatorCommand(u, root).ok
    BY <1>4, <1>8, Zenon
  <2>2. IsExpanded(T, u, expandOperatorCommand(u, root).args)
    BY <1>7, <1>8, <2>1, ExpandKeeps, Zenon
  <2> QED BY <1>8, <2>2, Zenon
<1>10. KeepsOptions(a, w.args)
  <2>1. KeepsOptions(a, b) /\ KeepsOptions(b, u)
    BY <1>6, <1>8, Zenon DEF Keeps, b
  <2> QED BY <1>9, <2>1, KeepsTransitive, Zenon DEF IsExpanded
<1>11. ASSUME a # <<>>, IsWord(a[1]), a[1].text \in {"investigate", "bundle"} PROVE w.args[1].text # "ebpf"
  <2>1. b # <<>> /\ b[1] = a[1]
    BY <1>6, <1>11, Zenon DEF Keeps, b
  <2>2. u[1] = a[1]
    BY <1>8, <1>11, <2>1, Zenon DEF Keeps
  <2>3. CASE u[1] = Word("investigate")
    <3>1. w.args[1] = Word("diagnose")
      BY <1>9, <2>3 DEF IsExpanded
    <3>2. Word("diagnose").text = "diagnose"
      BY WordIs, Zenon
    <3> QED BY <3>1, <3>2
  <2>4. CASE u[1] = Word("bundle")
    <3>1. w.args[1] = Word("capture")
      BY <1>9, <2>4 DEF IsExpanded
    <3>2. Word("capture").text = "capture"
      BY WordIs, Zenon
    <3> QED BY <3>1, <3>2
  <2>5. CASE u[1] = Word("monitor")
    <3>1. Word("monitor").text = "monitor"
      BY WordIs, Zenon
    <3> QED BY <1>11, <2>2, <2>5, <3>1
  <2>6. CASE u[1] \notin {Word("monitor"), Word("investigate"), Word("bundle")}
    <3>1. w.args[1] = a[1]
      BY <1>9, <2>2, <2>6, Zenon DEF IsExpanded
    <3> QED BY <1>11, <3>1
  <2> QED BY <2>3, <2>4, <2>5, <2>6
<1> QED BY <1>2, <1>4, <1>9, <1>10, <1>11, Zenon DEF runtime, IsExpanded

-----------------------------------------------------------------------------
(* What an option that probes are about says, when it was accepted.        *)
\* The option that refuses probes, and the one that names a VM.
NoProbe == OptionEquals("--include-ebpf-latency", "false")
Refuses(a) == \E i \in 1..Len(a) : a[i] = NoProbe
NamesOne(a) == \E i \in 1..(Len(a) - 1) : a[i] = Option("--victim") /\ a[i + 1].text # ""

\* An option has no text of its own.
Textless(T) == \A t \in T : t.option # "" => t.text = ""

\* What the two options are.
LEMMA OptionIs ==
  /\ NoProbe.option = "--include-ebpf-latency" /\ NoProbe.form = "false"
  /\ Option("--victim").option = "--victim" /\ Option("--victim").form = "bare"
BY DEF NoProbe, OptionEquals, Option, Word

\* Neither what is given nor what is composed has such a text.
LEMMA TokensAreTextless ==
  ASSUME NEW root
  PROVE  Textless(Tokens \cup Composed(root))
<1> SUFFICES ASSUME NEW t \in Tokens \cup Composed(root), t.option # "" PROVE t.text = ""
  BY DEF Textless
<1>1. CASE t \in Tokens
  BY <1>1 DEF Tokens
<1>2. CASE t \in Composed(root)
  <2>1. \A x : Word(x).option = "" /\ Option(x).text = ""
    BY WordIs, Zenon
  <2>2. \A x, f : OptionEquals(x, f).text = ""
    BY DEF OptionEquals, Option, Word
  <2>3. \A x, d : Duration(x, d).option = ""
    BY DEF Duration, Word
  <2> QED BY <1>1, <1>2, <2>1, <2>2, <2>3, ZenonT(60) DEF Composed
<1> QED BY <1>1, <1>2

\* A command of one word or of two.
Worded(args) == args # <<>> /\ args[1].text # "" /\ (Len(args) >= 2 => args[2].text # "")

\* The options are behind the words of the command.
LEMMA BehindTheWords ==
  ASSUME NEW T, Textless(T), NEW args, args \in Seq(T), Worded(args)
  PROVE  LET s == SubSeq(args, 3, Len(args))
         IN /\ s \in Seq(T)
            /\ \A j \in 1..Len(args) : args[j].option # "" =>
                 /\ j - 2 \in 1..Len(s) /\ s[j - 2] = args[j]
                 /\ j + 1 \in 1..Len(args) => (j - 2) + 1 \in 1..Len(s) /\ s[(j - 2) + 1] = args[j + 1]
<1> DEFINE n == Len(args)
           s == SubSeq(args, 3, n)
<1>1. n \in Nat /\ \A k \in 1..n : args[k] \in T
  OBVIOUS
<1>2. s \in Seq(T) /\ (n >= 2 => Len(s) = n - 2) /\ \A k \in 1..Len(s) : s[k] = args[k + 2]
  <2>1. s \in Seq(T) /\ Len(s) = (IF 3 <= n THEN n - 3 + 1 ELSE 0) /\ \A k \in 1..(n - 3 + 1) : s[k] = args[3 + k - 1]
    <3>1. 3 \in Int /\ n \in Int /\ \A k \in 3..n : args[k] \in T
      BY <1>1
    <3> HIDE DEF n
    <3> QED BY <3>1, SubSeqProperties
  <2> HIDE DEF s, n
  <2>2. n >= 2 => Len(s) = n - 2
    BY <1>1, <2>1
  <2>3. \A k \in 1..Len(s) : k \in 1..(n - 3 + 1) /\ 3 + k - 1 = k + 2
    BY <1>1, <2>1
  <2> QED BY <2>1, <2>2, <2>3
<1>3. ASSUME NEW j \in 1..n, args[j].option # "" PROVE j >= 3
  <2>1. args[j].text = ""
    BY <1>1, <1>3 DEF Textless
  <2>2. j # 1 /\ j # 2
    <3>1. j = 2 => n >= 2
      BY <1>1
    <3> HIDE DEF n
    <3>2. j # 1
      BY <2>1, Zenon DEF Worded
    <3>3. j # 2
      BY <2>1, <3>1, Zenon DEF Worded, n
    <3> QED BY <3>2, <3>3
  <2> DEFINE t == args[j]
  <2> HIDE DEF t
  <2> QED BY <1>1, <2>2
<1> HIDE DEF s, n
<1>4. ASSUME NEW j \in 1..n, j >= 3
      PROVE  /\ j - 2 \in 1..Len(s) /\ s[j - 2] = args[j]
             /\ j + 1 \in 1..n => (j - 2) + 1 \in 1..Len(s) /\ s[(j - 2) + 1] = args[j + 1]
  <2>1. n >= 3 /\ n >= 2
    BY <1>1, <1>4
  <2>2. j - 2 \in 1..Len(s) /\ (j - 2) + 2 = j
    BY <1>1, <1>2, <1>4, <2>1
  <2>3. j + 1 \in 1..n => (j - 2) + 1 \in 1..Len(s) /\ ((j - 2) + 1) + 2 = j + 1
    BY <1>1, <1>2, <1>4, <2>1
  <2> QED BY <1>2, <2>2, <2>3
<1> QED BY <1>2, <1>3, <1>4, Zenon DEF s, n

\* What the parser of the options makes of a refusal and of a victim.
LEMMA OptionsAreHeard ==
  ASSUME NEW T, Textless(T), NEW a, a \in Seq(T), NEW args, args \in Seq(T), KeepsOptions(a, args),
         Worded(args), NEW g, parseOptions(g, SubSeq(args, 3, Len(args))).ok
  PROVE  LET r == parseOptions(g, SubSeq(args, 3, Len(args)))
         IN /\ Refuses(a) => "--include-ebpf-latency" \in g.booleans /\ "--include-ebpf-latency" \notin r.on
            /\ NamesOne(a) /\ "--victim" \notin g.booleans => "--victim" \in Valued(g) /\ Text(r, "--victim") # ""
<1> DEFINE s == SubSeq(args, 3, Len(args))
           r == parseOptions(g, s)
<1>1. /\ s \in Seq(T)
      /\ \A j \in 1..Len(args) : args[j].option # "" =>
           /\ j - 2 \in 1..Len(s) /\ s[j - 2] = args[j]
           /\ j + 1 \in 1..Len(args) => (j - 2) + 1 \in 1..Len(s) /\ s[(j - 2) + 1] = args[j + 1]
  BY BehindTheWords, ZenonT(60)
<1> HIDE DEF s
<1>2. ASSUME Refuses(a) PROVE "--include-ebpf-latency" \in g.booleans /\ "--include-ebpf-latency" \notin r.on
  <2>1. PICK i \in 1..Len(a) : a[i] = NoProbe
    BY <1>2 DEF Refuses
  <2>2. IsOther(NoProbe) /\ NoProbe.option # "" /\ IsFalse(NoProbe)
    BY OptionIs DEF IsOther, IsFalse
  <2>3. PICK j \in 1..Len(args) : args[j] = NoProbe
    BY <2>1, <2>2, Zenon DEF KeepsOptions
  <2>4. j - 2 \in 1..Len(s) /\ s[j - 2] = NoProbe
    BY <1>1, <2>2, <2>3, Zenon
  <2>5. NoProbe.option \in g.booleans /\ NoProbe.option \notin r.on
    <3> DEFINE k == j - 2
    <3> HIDE DEF k
    <3>1. k \in 1..Len(s) /\ s[k] = NoProbe
      BY <2>4 DEF k
    <3>2. IsFalse(s[k])
      BY <2>2, <3>1, Zenon
    <3>3. s[k].option \in g.booleans /\ s[k].option \notin parseOptions(g, s).on
      <4>1. parseOptions(g, s).ok
        BY DEF s
      <4> QED BY <1>1, <3>1, <3>2, <4>1, GivenFalse, Zenon
    <3> QED BY <3>1, <3>3, Zenon
  <2> QED BY <2>5, OptionIs
<1>3. ASSUME NamesOne(a), "--victim" \notin g.booleans PROVE "--victim" \in Valued(g) /\ Text(r, "--victim") # ""
  <2> DEFINE victim == Option("--victim")
  <2> HIDE DEF victim
  <2>0. victim.option = "--victim"
    BY OptionIs DEF victim
  <2>1. PICK i \in 1..(Len(a) - 1) : a[i] = victim /\ a[i + 1].text # ""
    BY <1>3 DEF NamesOne, victim
  <2>2. IsOther(victim) /\ victim.option # ""
    BY <2>0 DEF IsOther
  <2>3. i \in 1..Len(a) /\ i + 1 \in 1..Len(a) /\ a[i + 1] \in T
    <3>1. Len(a) \in Nat /\ \A k \in 1..Len(a) : a[k] \in T
      OBVIOUS
    <3>2. i \in 1..Len(a) /\ i + 1 \in 1..Len(a)
      BY <3>1
    <3> QED BY <3>1, <3>2
  <2>4. IsWord(a[i + 1])
    BY <2>1, <2>3 DEF IsWord, Textless
  <2>5. PICK j \in 1..Len(args) : j + 1 \in 1..Len(args) /\ args[j] = victim /\ args[j + 1] = a[i + 1]
    BY <2>1, <2>2, <2>3, <2>4, Zenon DEF KeepsOptions
  <2>6. j - 2 \in 1..Len(s) /\ s[j - 2] = victim /\ (j - 2) + 1 \in 1..Len(s) /\ s[(j - 2) + 1] = a[i + 1]
    BY <1>1, <2>2, <2>5, Zenon
  <2>7. victim.option \in Valued(g) /\ Text(r, victim.option) = a[i + 1].text
    <3> DEFINE k == j - 2
    <3> HIDE DEF k
    <3>1. k \in 1..Len(s) /\ s[k] = victim /\ k + 1 \in 1..Len(s) /\ s[k + 1] = a[i + 1]
      BY <2>6 DEF k
    <3>2. HasText(g, s[k], s[k + 1])
      BY <1>3, <2>0, <2>1, <3>1 DEF HasText
    <3>3. IsGiven(g, parseOptions(g, s), s[k].option, s[k + 1].text)
      <4>1. parseOptions(g, s).ok
        BY DEF s
      <4> QED BY <1>1, <3>1, <3>2, <4>1, GivenValue, Zenon
    <3> QED BY <3>1, <3>3, Zenon DEF IsGiven
  <2> QED BY <2>0, <2>1, <2>7
<1> QED BY <1>2, <1>3, Zenon DEF s

\* The commands that there are.
Accepted ==
  {<<"version">>, <<"doctor">>, <<"inventory">>, <<"host">>, <<"guest">>, <<"service">>, <<"db">>, <<"status">>,
   <<"top">>, <<"trace">>, <<"vm">>, <<"diagnose">>, <<"capture">>, <<"watch">>, <<"experiment">>, <<"incidents">>,
   <<"inspect">>} \cup TwoWordCommands

\* The words that a name is made of.
LEMMA NameIs ==
  ASSUME NEW args, args # <<>>
  PROVE  /\ \A x : Name(args) = <<x>> => args[1].text = x
         /\ \A x, y : Name(args) = <<x, y>> => Len(args) >= 2 /\ args[1].text = x /\ args[2].text = y
<1>1. CASE Len(args) >= 2 /\ <<args[1].text, args[2].text>> \in TwoWordCommands
  <2>1. Name(args) = <<args[1].text, args[2].text>>
    BY <1>1, Zenon DEF Name
  <2> HIDE DEF Name
  <2> QED BY <1>1, <2>1
<1>2. CASE ~(Len(args) >= 2 /\ <<args[1].text, args[2].text>> \in TwoWordCommands)
  <2>1. Name(args) = <<args[1].text>>
    BY <1>2, Zenon DEF Name
  <2> QED BY <2>1
<1> QED BY <1>1, <1>2, Zenon

\* Anything else is refused.
LEMMA OthersAreRefused ==
  ASSUME NEW args, Parse(args).ok
  PROVE  args # <<>> /\ Name(args) \in Accepted
<1>1. ~Refused.ok
  BY DEF Refused, Nothing
<1>2. \A x, y : <<>> # <<x>> /\ <<>> # <<x, y>>
  OBVIOUS
<1>3. ASSUME Name(args) \notin Accepted PROVE Parse(args) = Refused
  <2> DEFINE name == Name(args)
  <2> HIDE DEF name
  <2>1. /\ name # <<"version">> /\ name # <<"doctor">> /\ name # <<"inventory">> /\ name # <<"host">> /\ name # <<"guest">>
        /\ name # <<"service">> /\ name # <<"db">> /\ name # <<"status">> /\ name # <<"top">> /\ name # <<"trace">>
        /\ name # <<"vm">> /\ name # <<"diagnose">> /\ name # <<"capture">> /\ name # <<"watch">>
        /\ name # <<"experiment">> /\ name # <<"incidents">> /\ name # <<"inspect">>
    BY <1>3, Zenon DEF Accepted, name
  <2>2. name \notin TwoWordCommands
    BY <1>3, Zenon DEF Accepted, name
  <2>3. /\ name # <<"ebpf", "doctor">> /\ name # <<"ebpf", "block-watch">> /\ name # <<"ebpf", "block-events">>
        /\ name # <<"ebpf", "block-count">> /\ name # <<"ebpf", "block-latency">> /\ name # <<"ebpf", "vm-block-latency">>
        /\ name # <<"observe", "snapshot">> /\ name # <<"observe", "watch">> /\ name # <<"storage", "snapshot">>
        /\ name # <<"storage", "watch">> /\ name # <<"qemu", "io-watch">> /\ name # <<"qemu", "io-summary">>
    BY <2>2, Zenon DEF TwoWordCommands
  <2>4. CASE args = <<>>
    BY <2>1, <2>3, <2>4, Zenon DEF Parse, name
  <2>5. CASE args # <<>>
    BY <2>1, <2>3, <2>5, Zenon DEF Parse, name
  <2> QED BY <2>4, <2>5, Zenon
<1>4. args # <<>>
  <2> SUFFICES ASSUME args = <<>> PROVE FALSE
    OBVIOUS
  <2>1. Name(args) = <<>>
    BY Zenon DEF Name
  <2>2. Name(args) \notin Accepted
    BY <1>2, <2>1, Zenon DEF Accepted, TwoWordCommands
  <2> QED BY <1>1, <1>3, <2>2, Zenon
<1> QED BY <1>1, <1>3, <1>4, Zenon

\* The parsers of the commands that attach probes.
LEMMA ProbeParsers ==
  ASSUME NEW args, args # <<>>
  PROVE  /\ Name(args) = <<"ebpf", "block-events">> => Parse(args) = parseRequiredEBPFDuration(args, "block-events")
         /\ Name(args) = <<"ebpf", "block-count">> => Parse(args) = parseRequiredEBPFDuration(args, "block-count")
         /\ Name(args) = <<"ebpf", "block-latency">> => Parse(args) = parseEBPFBlockLatencyArgs(args)
         /\ Name(args) = <<"ebpf", "vm-block-latency">> => Parse(args) = parseEBPFVMBlockLatencyArgs(args)
         /\ Name(args) = <<"diagnose">> => Parse(args) = parseDiagnoseNoisyNeighborArgs(args)
         /\ Name(args) = <<"capture">> => Parse(args) = parseCaptureNoisyNeighborArgs(args)
<1> DEFINE name == Name(args)
<1> HIDE DEF name
<1>1. name = <<"ebpf", "block-events">> => Parse(args) = parseRequiredEBPFDuration(args, "block-events")
  BY DEF Parse, name
<1>2. name = <<"ebpf", "block-count">> => Parse(args) = parseRequiredEBPFDuration(args, "block-count")
  BY DEF Parse, name
<1>3. name = <<"ebpf", "block-latency">> => Parse(args) = parseEBPFBlockLatencyArgs(args)
  BY DEF Parse, name
<1>4. name = <<"ebpf", "vm-block-latency">> => Parse(args) = parseEBPFVMBlockLatencyArgs(args)
  BY DEF Parse, name
<1>5. name = <<"diagnose">> => Parse(args) = parseDiagnoseNoisyNeighborArgs(args)
  BY DEF Parse, name
<1>6. name = <<"capture">> => Parse(args) = parseCaptureNoisyNeighborArgs(args)
  BY DEF Parse, name
<1> QED BY <1>1, <1>2, <1>3, <1>4, <1>5, <1>6, Zenon DEF name

\* What is required is so, and nothing is changed for it.
LEMMA RequireIs ==
  ASSUME NEW r, NEW c, Require(r, c).ok
  PROVE  c /\ Require(r, c) = r
<1>1. ~Refused.ok
  BY DEF Refused, Nothing
<1> QED BY <1>1, Zenon DEF Require

\* block-events and block-count take a duration and nothing else.
LEMMA DurationOnly ==
  ASSUME NEW args, NEW command2, parseRequiredEBPFDuration(args, command2).ok
  PROVE  parseOptions(Grammar({}, {"--duration"}, {}, {}), SubSeq(args, 3, Len(args))).ok
BY RequireIs, Zenon DEF parseRequiredEBPFDuration

\* block-latency takes a duration and a victim.
LEMMA LatencyOptions ==
  ASSUME NEW args, parseEBPFBlockLatencyArgs(args).ok
  PROVE  LET r == parseOptions(Grammar({}, {"--duration"}, {}, {"--victim", "--suspect"}), SubSeq(args, 3, Len(args)))
         IN r.ok /\ parseEBPFBlockLatencyArgs(args) = r
BY RequireIs, Zenon DEF parseEBPFBlockLatencyArgs

\* The options of vm-block-latency.
VMLatencyGrammar ==
  LET g == Grammar({"--json", "--all-vms"}, {"--duration", "--interval"}, {},
                   {"--device", "--victim", "--suspect", "--output"})
  IN [g EXCEPT !.filled = g.texts]

\* vm-block-latency takes the options above, and no flag about probes.
LEMMA VMLatencyOptions ==
  ASSUME NEW args, parseEBPFVMBlockLatencyArgs(args).ok
  PROVE  parseOptions(VMLatencyGrammar, SubSeq(args, 3, Len(args))).ok
<1>1. parseEBPFVMBlockLatencyArgs(args)
        = LET r == parseOptions(VMLatencyGrammar, SubSeq(args, 3, Len(args)))
          IN Require(r, /\ r.ok /\ StartsWith(args, <<"ebpf", "vm-block-latency">>)
                        /\ "--json" \in r.on
                        /\ IntervalFits(r, 100, 10)
                        /\ "--all-vms" \in r.on => {"--victim", "--suspect"} \cap r.seen = {}
                        /\ Text(r, "--device") \notin {"/", ".", ".."})
  BY Zenon DEF parseEBPFVMBlockLatencyArgs, VMLatencyGrammar
<1> QED BY <1>1, RequireIs, Zenon

\* diagnose and capture share a parser, and are named by two words.
LEMMA TimedTargetOptions ==
  ASSUME NEW args, NEW json,
         NEW r, r = parseTimedTargetOptions(args, 100, 20, TRUE, TRUE, TRUE, TRUE, json), r.ok
  PROVE  \E g : r = parseOptions(g, SubSeq(args, 3, Len(args)))
<1> DEFINE booleans == (IF TRUE THEN {"--discover-suspects"} ELSE {})
                         \cup (IF TRUE THEN {"--include-ebpf-latency"} ELSE {})
                         \cup (IF json THEN {"--json"} ELSE {})
           texts == {"--victim", "--suspect"} \cup (IF TRUE THEN {"--report-dir"} ELSE {})
                      \cup (IF TRUE THEN {"--output", "--output-dir"} ELSE {})
           g == [Grammar(booleans, {"--duration", "--interval"}, {}, texts)
                   EXCEPT !.byValue = {"--victim", "--suspect", "--report-dir"}]
           x == parseOptions(g, SubSeq(args, 3, Len(args)))
           c == /\ x.ok
                /\ Text(x, "--victim") # ""
                /\ OneSuspect(x)
                /\ Text(x, "--suspect") # "" \/ "--discover-suspects" \in x.on
                /\ ~({"--output", "--output-dir"} \subseteq x.seen)
                /\ IntervalFits(x, 100, 20)
<1>1. r = Require(x, c)
  BY Zenon DEF parseTimedTargetOptions
<1> HIDE DEF c
<1>2. r = x
  BY <1>1, RequireIs, Zenon
<1> QED BY <1>2, Zenon

\* What diagnose accepts is what its options say.
LEMMA DiagnoseOptions ==
  ASSUME NEW args, parseDiagnoseNoisyNeighborArgs(args).ok
  PROVE  IsNoisyNeighbor(args) /\ \E g : parseDiagnoseNoisyNeighborArgs(args) = parseOptions(g, SubSeq(args, 3, Len(args)))
<1> DEFINE r == parseTimedTargetOptions(args, 100, 20, TRUE, TRUE, TRUE, TRUE, TRUE)
           c == r.ok /\ IsNoisyNeighbor(args)
<1>1. parseDiagnoseNoisyNeighborArgs(args) = Require(r, c)
  BY Zenon DEF parseDiagnoseNoisyNeighborArgs
<1> HIDE DEF c, r
<1>2. c /\ Require(r, c) = r
  BY <1>1, RequireIs, Zenon
<1>3. r.ok /\ IsNoisyNeighbor(args)
  BY <1>2, Zenon DEF c
<1>4. \E g : r = parseOptions(g, SubSeq(args, 3, Len(args)))
  BY <1>3, TimedTargetOptions, ZenonT(60) DEF r
<1> QED BY <1>1, <1>2, <1>3, <1>4, Zenon

\* What capture accepts is what its options say.
LEMMA CaptureOptions ==
  ASSUME NEW args, parseCaptureNoisyNeighborArgs(args).ok
  PROVE  IsNoisyNeighbor(args) /\ \E g : parseCaptureNoisyNeighborArgs(args) = parseOptions(g, SubSeq(args, 3, Len(args)))
<1> DEFINE r == parseTimedTargetOptions(args, 100, 20, TRUE, TRUE, TRUE, TRUE, FALSE)
           c == /\ r.ok /\ IsNoisyNeighbor(args)
                /\ Text(r, "--output") = "" /\ Text(r, "--output-dir") # ""
<1>1. parseCaptureNoisyNeighborArgs(args) = Require(r, c)
  BY Zenon DEF parseCaptureNoisyNeighborArgs
<1> HIDE DEF c, r
<1>2. c /\ Require(r, c) = r
  BY <1>1, RequireIs, Zenon
<1>3. r.ok /\ IsNoisyNeighbor(args)
  BY <1>2, Zenon DEF c
<1>4. \E g : r = parseOptions(g, SubSeq(args, 3, Len(args)))
  BY <1>3, TimedTargetOptions, ZenonT(60) DEF r
<1> QED BY <1>1, <1>2, <1>3, <1>4, Zenon

\* What was said about probes, by the command.
ProbeAsAsked(a, args) ==
  /\ Name(args) \in {<<"ebpf", "block-events">>, <<"ebpf", "block-count">>} => ~Refuses(a) /\ ~NamesOne(a)
  /\ Name(args) = <<"ebpf", "block-latency">> => ~Refuses(a) /\ (NamesOne(a) => Text(Parse(args), "--victim") # "")
  /\ Name(args) = <<"ebpf", "vm-block-latency">> => ~Refuses(a)
  /\ Name(args) \in {<<"diagnose">>, <<"capture">>} => (Refuses(a) => ~EBPF(Parse(args)))

\* A command without switches.
LEMMA GrammarIs ==
  ASSUME NEW durations, NEW texts
  PROVE  LET g == Grammar({}, durations, {}, texts) IN g.booleans = {} /\ Valued(g) = durations \cup texts
BY DEF Grammar, Valued

\* A command line that is accepted says the same after the rewriting: a command
\* that always probes is refused with --include-ebpf-latency=false, and one that
\* probes on request was not asked to.
LEMMA ProbesAsAsked ==
  ASSUME NEW T, Textless(T), NEW a, a \in Seq(T), NEW args, args \in Seq(T), KeepsOptions(a, args), Parse(args).ok
  PROVE  ProbeAsAsked(a, args)
<1> DEFINE s == SubSeq(args, 3, Len(args))
           r == Parse(args)
           IsHeard(g, x) == /\ Refuses(a) => "--include-ebpf-latency" \in g.booleans /\ "--include-ebpf-latency" \notin x.on
                            /\ NamesOne(a) /\ "--victim" \notin g.booleans => "--victim" \in Valued(g) /\ Text(x, "--victim") # ""
<1>1. args # <<>>
  BY OthersAreRefused, Zenon
<1>2. ASSUME Worded(args), NEW g, parseOptions(g, s).ok PROVE IsHeard(g, parseOptions(g, s))
  BY <1>2, OptionsAreHeard, Zenon
<1> HIDE DEF s
<1>3. ASSUME Name(args) \in TwoWordCommands PROVE Worded(args)
  <2>1. PICK x, y : Name(args) = <<x, y>> /\ x # "" /\ y # ""
    BY <1>3 DEF TwoWordCommands
  <2>2. Len(args) >= 2 /\ args[1].text = x /\ args[2].text = y
    BY <1>1, <2>1, NameIs, Zenon
  <2> QED BY <1>1, <2>1, <2>2, Zenon DEF Worded
<1>4. ASSUME IsNoisyNeighbor(args), NEW x, Name(args) = <<x>>, x # "" PROVE Worded(args)
  <2>1. args[1].text = x
    BY <1>1, <1>4, NameIs, Zenon
  <2>2. args[2].text = "noisy-neighbor"
    BY <1>4, WordIs, ZenonT(60) DEF IsNoisyNeighbor
  <2>3. "noisy-neighbor" # ""
    OBVIOUS
  <2> QED BY <1>1, <1>4, <2>1, <2>2, <2>3, Zenon DEF Worded
<1>5. ASSUME Name(args) \in {<<"ebpf", "block-events">>, <<"ebpf", "block-count">>} PROVE ~Refuses(a) /\ ~NamesOne(a)
  <2> DEFINE g == Grammar({}, {"--duration"}, {}, {})
  <2>1. Worded(args)
    BY <1>3, <1>5, Zenon DEF TwoWordCommands
  <2>2. parseOptions(g, s).ok
    BY <1>1, <1>5, ProbeParsers, DurationOnly, Zenon DEF s
  <2>3. g.booleans = {} /\ Valued(g) = {"--duration"}
    BY GrammarIs
  <2> HIDE DEF g
  <2>4. IsHeard(g, parseOptions(g, s))
    BY <1>2, <2>1, <2>2, Zenon
  <2>5. "--victim" # "--duration"
    OBVIOUS
  <2> QED BY <2>3, <2>4, <2>5, Zenon
<1>6. ASSUME Name(args) = <<"ebpf", "block-latency">> PROVE ~Refuses(a) /\ (NamesOne(a) => Text(r, "--victim") # "")
  <2> DEFINE g == Grammar({}, {"--duration"}, {}, {"--victim", "--suspect"})
  <2>1. Worded(args)
    BY <1>3, <1>6, Zenon DEF TwoWordCommands
  <2>2. parseOptions(g, s).ok /\ r = parseOptions(g, s)
    BY <1>1, <1>6, ProbeParsers, LatencyOptions, Zenon DEF s
  <2>3. g.booleans = {}
    BY GrammarIs
  <2> HIDE DEF g, r
  <2>4. IsHeard(g, r)
    <3>1. IsHeard(g, parseOptions(g, s))
      BY <1>2, <2>1, <2>2, Zenon
    <3> QED BY <2>2, <3>1, Zenon
  <2> QED BY <2>3, <2>4, Zenon
<1>7. ASSUME Name(args) = <<"ebpf", "vm-block-latency">> PROVE ~Refuses(a)
  <2>1. Worded(args)
    BY <1>3, <1>7, Zenon DEF TwoWordCommands
  <2>2. parseOptions(VMLatencyGrammar, s).ok
    BY <1>1, <1>7, ProbeParsers, VMLatencyOptions, Zenon DEF s
  <2>3. "--include-ebpf-latency" \notin VMLatencyGrammar.booleans
    BY DEF VMLatencyGrammar, Grammar
  <2>4. IsHeard(VMLatencyGrammar, parseOptions(VMLatencyGrammar, s))
    BY <1>2, <2>1, <2>2, Zenon
  <2> QED BY <2>3, <2>4, Zenon
<1>8. ASSUME Name(args) \in {<<"diagnose">>, <<"capture">>}, Refuses(a) PROVE ~EBPF(r)
  <2>1. IsNoisyNeighbor(args) /\ \E g : r = parseOptions(g, s)
    BY <1>1, <1>8, ProbeParsers, DiagnoseOptions, CaptureOptions, Zenon DEF s
  <2>2. PICK g : r = parseOptions(g, s)
    BY <2>1
  <2>3. Worded(args)
    <3>1. "diagnose" # "" /\ "capture" # ""
      OBVIOUS
    <3> QED BY <1>4, <1>8, <2>1, <3>1, Zenon
  <2>4. parseOptions(g, s).ok
    BY <2>2, Zenon
  <2> HIDE DEF r
  <2>5. IsHeard(g, parseOptions(g, s))
    BY <1>2, <2>3, <2>4, Zenon
  <2> QED BY <1>8, <2>2, <2>5, Zenon DEF EBPF
<1> QED BY <1>5, <1>6, <1>7, <1>8, Zenon DEF ProbeAsAsked

-----------------------------------------------------------------------------
(* The stages of the commands.                                             *)
\* All stages.
StageNames ==
  {"inventory", "resolve", "select", "cgroups", "load", "explain", "probe", "sample", "diagnose", "write", "loop",
   "save", "formats", "single", "find", "settings", "enabled", "validate", "database", "services", "runner", "target",
   "guest", "observe", "open", "sort", "header", "raw", "screen"}

\* A stage is not among some others; it is after one of another kind.
Lacks(s, y) == s \in Seq(StageNames) /\ \A i \in 1..Len(s) : s[i] # y
IsAfter(s, X, y) == \A i \in 1..Len(s) : s[i] = y => \E j \in 1..(i - 1) : s[j] \in X
IsReady(s, X, y) == s \in Seq(StageNames) /\ IsAfter(s, X, y) /\ \E i \in 1..Len(s) : s[i] \in X

\* What two sequences lack, both of them one after the other lack.
LEMMA LacksBoth ==
  ASSUME NEW s, NEW t, NEW y, Lacks(s, y), Lacks(t, y)
  PROVE  Lacks(s \o t, y)
<1> DEFINE u == s \o t
<1>1. s \in Seq(StageNames) /\ t \in Seq(StageNames)
  BY DEF Lacks
<1>2. /\ u \in Seq(StageNames) /\ Len(u) = Len(s) + Len(t)
      /\ \A k \in 1..Len(s) : u[k] = s[k]
  BY <1>1, Concatenated, Zenon
<1>3. \A k \in 1..Len(t) : u[Len(s) + k] = t[k]
  BY <1>1, Concatenated
<1> HIDE DEF u
<1>4. Len(s) \in Nat /\ Len(t) \in Nat
  BY <1>1
<1>5. \A i \in 1..Len(u) : u[i] # y
  <2> TAKE i \in 1..Len(u)
  <2>1. CASE i <= Len(s)
    BY <1>2, <1>4, <2>1 DEF Lacks
  <2>2. CASE i > Len(s)
    <3>1. i - Len(s) \in 1..Len(t) /\ Len(s) + (i - Len(s)) = i
      BY <1>2, <1>4, <2>2
    <3>2. u[i] = t[i - Len(s)]
      BY <1>3, <3>1
    <3> QED BY <3>1, <3>2 DEF Lacks
  <2> QED BY <1>2, <1>4, <2>1, <2>2
<1> QED BY <1>2, <1>5 DEF Lacks, u

\* What is ready stays so whatever comes after it, and whatever else before it.
LEMMA ReadyThen ==
  ASSUME NEW s, NEW t, NEW X, NEW y, IsReady(s, X, y), t \in Seq(StageNames)
  PROVE  IsReady(s \o t, X, y)
<1> DEFINE u == s \o t
<1>1. s \in Seq(StageNames) /\ t \in Seq(StageNames)
  BY DEF IsReady
<1>2. /\ u \in Seq(StageNames) /\ Len(u) = Len(s) + Len(t)
      /\ \A k \in 1..Len(s) : u[k] = s[k]
  BY <1>1, Concatenated, Zenon
<1> HIDE DEF u
<1>3. Len(s) \in Nat /\ Len(t) \in Nat
  BY <1>1
<1>4. PICK m \in 1..Len(s) : s[m] \in X
  BY DEF IsReady
<1>5. m \in 1..Len(u) /\ u[m] \in X
  BY <1>2, <1>3, <1>4
<1>6. ASSUME NEW i \in 1..Len(u), u[i] = y PROVE \E j \in 1..(i - 1) : u[j] \in X
  <2>1. CASE i <= Len(s)
    <3>1. i \in 1..Len(s) /\ s[i] = y
      BY <1>2, <1>3, <1>6, <2>1
    <3>2. PICK j \in 1..(i - 1) : s[j] \in X
      BY <3>1 DEF IsReady, IsAfter
    <3>3. j \in 1..Len(s)
      BY <3>1
    <3> QED BY <1>2, <3>2, <3>3
  <2>2. CASE i > Len(s)
    <3>1. m \in 1..(i - 1)
      BY <1>3, <2>2
    <3> QED BY <1>5, <3>1
  <2> QED BY <1>3, <2>1, <2>2
<1> QED BY <1>2, <1>5, <1>6 DEF IsReady, IsAfter, u

\* What is lacking before it changes nothing.
LEMMA ThenReady ==
  ASSUME NEW s, NEW t, NEW X, NEW y, Lacks(s, y), IsReady(t, X, y)
  PROVE  IsReady(s \o t, X, y)
<1> DEFINE u == s \o t
<1>1. s \in Seq(StageNames) /\ t \in Seq(StageNames)
  BY DEF IsReady, Lacks
<1>2. /\ u \in Seq(StageNames) /\ Len(u) = Len(s) + Len(t)
      /\ \A k \in 1..Len(s) : u[k] = s[k]
  BY <1>1, Concatenated, Zenon
<1>3. \A k \in 1..Len(t) : u[Len(s) + k] = t[k]
  BY <1>1, Concatenated
<1> HIDE DEF u
<1>4. Len(s) \in Nat /\ Len(t) \in Nat
  BY <1>1
<1>5. PICK m \in 1..Len(t) : t[m] \in X
  BY DEF IsReady
<1>6. Len(s) + m \in 1..Len(u) /\ u[Len(s) + m] \in X
  BY <1>2, <1>3, <1>4, <1>5
<1>7. ASSUME NEW i \in 1..Len(u), u[i] = y PROVE \E j \in 1..(i - 1) : u[j] \in X
  <2>1. ~(i <= Len(s))
    BY <1>2, <1>4, <1>7 DEF Lacks
  <2>2. i - Len(s) \in 1..Len(t) /\ Len(s) + (i - Len(s)) = i
    BY <1>2, <1>4, <2>1
  <2>3. t[i - Len(s)] = y
    BY <1>3, <1>7, <2>2
  <2>4. PICK k \in 1..((i - Len(s)) - 1) : t[k] \in X
    BY <2>2, <2>3 DEF IsReady, IsAfter
  <2>5. k \in 1..Len(t) /\ Len(s) + k \in 1..(i - 1)
    BY <1>4, <2>2, <2>4
  <2>6. u[Len(s) + k] \in X
    BY <1>3, <2>4, <2>5
  <2> QED BY <2>5, <2>6
<1> QED BY <1>2, <1>6, <1>7 DEF IsReady, IsAfter, u

\* A stage that may be left out adds nothing else.
LEMMA IfLacks ==
  ASSUME NEW condition, NEW s, NEW y, Lacks(s, y)
  PROVE  Lacks(If(condition, s), y)
<1>1. Lacks(<<>>, y)
  BY DEF Lacks
<1> QED BY <1>1, Zenon DEF If

\* Left out or not, these are stages.
LEMMA IfTyped ==
  ASSUME NEW condition, NEW s \in Seq(StageNames)
  PROVE  If(condition, s) \in Seq(StageNames)
<1>1. <<>> \in Seq(StageNames)
  OBVIOUS
<1> QED BY <1>1, Zenon DEF If

\* The dispatch of a command to its stages.
LEMMA StagesAre ==
  ASSUME NEW name \in Accepted, NEW r
  PROVE
  /\ name \in {<<"version">>, <<"doctor">>} => Stages(name, r) = <<"write">>
  /\ name \in {<<"ebpf", "doctor">>, <<"ebpf", "block-watch">>} => Stages(name, r) = <<"write">>
  /\ name = <<"ebpf", "block-events">> => Stages(name, r) = <<"formats", "probe">>
  /\ name = <<"ebpf", "block-count">> => Stages(name, r) = <<"probe", "write">>
  /\ name = <<"ebpf", "block-latency">> =>
       Stages(name, r) = If(Text(r, "--victim") # "", PlanStages \o <<"single">>) \o <<"probe", "write">>
  /\ name = <<"ebpf", "vm-block-latency">> => Stages(name, r) = runEBPFVMBlockLatency(r)
  /\ name = <<"vm">> => Stages(name, r) = runVMStorageStats(r)
  /\ name = <<"inventory">> => Stages(name, r) = runInventory
  /\ name = <<"inspect">> => Stages(name, r) = runInspect
  /\ name = <<"host">> => Stages(name, r) = runHostStatus
  /\ name = <<"guest">> => Stages(name, r) = runGuestStatus
  /\ name = <<"service">> => Stages(name, r) = runServiceStatus
  /\ name = <<"db">> => Stages(name, r) = runDBStatus
  /\ name = <<"observe", "snapshot">> => Stages(name, r) = runObserveSnapshot
  /\ name = <<"observe", "watch">> => Stages(name, r) = runObserveWatch(r)
  /\ name = <<"status">> => Stages(name, r) = runStatus(r)
  /\ name = <<"trace">> => Stages(name, r) = runTracePlan
  /\ name \in {<<"storage", "snapshot">>, <<"storage", "watch">>} => Stages(name, r) = runStorageCommand(name[2])
  /\ name = <<"qemu", "io-watch">> => Stages(name, r) = runQEMUIOWatch
  /\ name = <<"qemu", "io-summary">> => Stages(name, r) = runQEMUIOSummary
  /\ name = <<"diagnose">> => Stages(name, r) = runNoisyNeighborDiagnosis(r)
  /\ name = <<"capture">> => Stages(name, r) = runCaptureCommand(r)
  /\ name = <<"experiment">> => Stages(name, r) = runExperimentSummary
  /\ name = <<"incidents">> => Stages(name, r) = runIncidentExplanation
  /\ name = <<"watch">> => Stages(name, r) = <<"header", "loop">>
  /\ name = <<"top">> => Stages(name, r) = runTop(r)
<1>1. name \in {<<"version">>, <<"doctor">>} => Stages(name, r) = <<"write">>
  BY DEF Stages, runStages
<1>2. name \in {<<"ebpf", "doctor">>, <<"ebpf", "block-watch">>} => Stages(name, r) = <<"write">>
  <2>1. name = <<"ebpf", "doctor">> => Stages(name, r) = runEBPFCommand("doctor", r)
    BY DEF Stages, runStages
  <2>2. name = <<"ebpf", "block-watch">> => Stages(name, r) = runEBPFCommand("block-watch", r)
    BY DEF Stages, runStages
  <2>3. runEBPFCommand("doctor", r) = <<"write">> /\ runEBPFCommand("block-watch", r) = <<"write">>
    BY DEF runEBPFCommand
  <2> QED BY <2>1, <2>2, <2>3, Zenon
<1>3. name = <<"ebpf", "block-events">> => Stages(name, r) = <<"formats", "probe">>
  BY DEF Stages, runStages, runEBPFCommand
<1>4. name = <<"ebpf", "block-count">> => Stages(name, r) = <<"probe", "write">>
  BY DEF Stages, runStages, runEBPFCommand
<1>5. name = <<"ebpf", "block-latency">> =>
        Stages(name, r) = If(Text(r, "--victim") # "", PlanStages \o <<"single">>) \o <<"probe", "write">>
  <2>1. name = <<"ebpf", "block-latency">> => Stages(name, r) = runEBPFCommand("block-latency", r)
    BY DEF Stages, runStages
  <2>2. runEBPFCommand("block-latency", r) = If(Text(r, "--victim") # "", PlanStages \o <<"single">>) \o <<"probe", "write">>
    BY DEF runEBPFCommand
  <2> QED BY <2>1, <2>2, Zenon
<1>6. name = <<"ebpf", "vm-block-latency">> => Stages(name, r) = runEBPFVMBlockLatency(r)
  BY DEF Stages, runStages
<1>7. name = <<"vm">> => Stages(name, r) = runVMStorageStats(r)
  BY DEF Stages, runStages
<1>8. name = <<"inventory">> => Stages(name, r) = runInventory
  BY DEF Stages, runStages
<1>9. name = <<"inspect">> => Stages(name, r) = runInspect
  BY DEF Stages, runStages
<1>10. name = <<"host">> => Stages(name, r) = runHostStatus
  BY DEF Stages, runStages
<1>11. name = <<"guest">> => Stages(name, r) = runGuestStatus
  BY DEF Stages, runStages
<1>12. name = <<"service">> => Stages(name, r) = runServiceStatus
  BY DEF Stages, runStages
<1>13. name = <<"db">> => Stages(name, r) = runDBStatus
  BY DEF Stages, runStages
<1>14. name = <<"observe", "snapshot">> => Stages(name, r) = runObserveSnapshot
  BY DEF Stages, runStages
<1>15. name = <<"observe", "watch">> => Stages(name, r) = runObserveWatch(r)
  BY DEF Stages, runStages
<1>16. name = <<"status">> => Stages(name, r) = runStatus(r)
  BY DEF Stages, runStages
<1>17. name = <<"trace">> => Stages(name, r) = runTracePlan
  BY DEF Stages, runStages
<1>18. name \in {<<"storage", "snapshot">>, <<"storage", "watch">>} => Stages(name, r) = runStorageCommand(name[2])
  BY DEF Stages, runStages
<1>19. name = <<"qemu", "io-watch">> => Stages(name, r) = runQEMUIOWatch
  BY DEF Stages, runStages
<1>20. name = <<"qemu", "io-summary">> => Stages(name, r) = runQEMUIOSummary
  BY DEF Stages, runStages
<1>21. name = <<"diagnose">> => Stages(name, r) = runNoisyNeighborDiagnosis(r)
  BY DEF Stages, runStages
<1>22. name = <<"capture">> => Stages(name, r) = runCaptureCommand(r)
  BY DEF Stages, runStages
<1>23. name = <<"experiment">> => Stages(name, r) = runExperimentSummary
  BY DEF Stages, runStages
<1>24. name = <<"incidents">> => Stages(name, r) = runIncidentExplanation
  BY DEF Stages, runStages
<1>25. name = <<"watch">> => Stages(name, r) = <<"header", "loop">>
  BY DEF Stages, runStages
<1>26. name = <<"top">> => Stages(name, r) = runTop(r)
  BY DEF Stages, runStages
<1> QED BY <1>1, <1>2, <1>3, <1>4, <1>5, <1>6, <1>7, <1>8, <1>9, <1>10, <1>11, <1>12, <1>13, <1>14, <1>15, <1>16, <1>17, <1>18, <1>19, <1>20, <1>21, <1>22, <1>23, <1>24, <1>25, <1>26, ZenonT(60)

\* The stages that neither probe nor ask a guest.
LEMMA LiteralsLack ==
  ASSUME NEW y, y \in {"probe", "guest"}
  PROVE  /\ Lacks(PlanStages, y) /\ Lacks(TargetStages, y) /\ Lacks(<<"single">>, y) /\ Lacks(<<"formats">>, y)
         /\ Lacks(<<"write">>, y) /\ Lacks(<<"loop">>, y) /\ Lacks(<<"sample">>, y) /\ Lacks(<<"save">>, y)
         /\ Lacks(<<"load">>, y) /\ Lacks(<<"explain">>, y) /\ Lacks(<<"open">>, y) /\ Lacks(<<"raw">>, y)
         /\ Lacks(<<"screen">>, y) /\ Lacks(<<"services">>, y)
         /\ Lacks(<<"sample", "write">>, y) /\ Lacks(<<"save", "write">>, y) /\ Lacks(<<"sample", "diagnose">>, y)
         /\ Lacks(<<"header", "loop">>, y) /\ Lacks(runInspect, y) /\ Lacks(runInventory, y)
         /\ Lacks(runExperimentSummary, y) /\ Lacks(runIncidentExplanation, y) /\ Lacks(runHostStatus, y)
         /\ Lacks(runObserveSnapshot, y) /\ Lacks(<<"inventory", "sample", "sort", "write">>, y)
<1>1. Lacks(PlanStages, y) /\ Lacks(TargetStages, y) /\ Lacks(<<"single">>, y) /\ Lacks(<<"formats">>, y)
  BY DEF Lacks, PlanStages, TargetStages, StageNames
<1>2. Lacks(<<"write">>, y) /\ Lacks(<<"loop">>, y) /\ Lacks(<<"sample">>, y) /\ Lacks(<<"save">>, y)
  BY DEF Lacks, StageNames
<1>3. Lacks(<<"load">>, y) /\ Lacks(<<"explain">>, y) /\ Lacks(<<"open">>, y) /\ Lacks(<<"raw">>, y)
  BY DEF Lacks, StageNames
<1>4. Lacks(<<"screen">>, y) /\ Lacks(<<"services">>, y)
  BY DEF Lacks, StageNames
<1>5. Lacks(<<"sample", "write">>, y) /\ Lacks(<<"save", "write">>, y) /\ Lacks(<<"sample", "diagnose">>, y)
  BY DEF Lacks, StageNames
<1>6. Lacks(<<"header", "loop">>, y) /\ Lacks(runInspect, y) /\ Lacks(runInventory, y)
  BY DEF Lacks, StageNames, runInspect, runInventory
<1>7. Lacks(runExperimentSummary, y) /\ Lacks(runIncidentExplanation, y) /\ Lacks(runHostStatus, y)
  BY DEF Lacks, StageNames, runExperimentSummary, runIncidentExplanation, runHostStatus
<1>8. Lacks(runObserveSnapshot, y) /\ Lacks(<<"inventory", "sample", "sort", "write">>, y)
  BY DEF Lacks, StageNames, runObserveSnapshot
<1> QED BY <1>1, <1>2, <1>3, <1>4, <1>5, <1>6, <1>7, <1>8, Zenon

\* Probes come after the VMs were found, guests after the settings were looked at.
LEMMA LiteralsAre ==
  /\ Lacks(<<"probe">>, "guest") /\ Lacks(<<"probe", "write">>, "guest") /\ Lacks(<<"formats", "probe">>, "guest")
  /\ <<"probe">> \in Seq(StageNames) /\ <<"probe", "write">> \in Seq(StageNames)
  /\ IsReady(PlanStages, {"resolve", "select"}, "probe") /\ IsReady(TargetStages, {"resolve", "select"}, "probe")
  /\ IsReady(loadGuestTarget, {"enabled"}, "guest") /\ IsReady(loadGuestTarget, {"validate"}, "guest")
  /\ IsReady(loadDatabaseTarget, {"database"}, "guest")
  /\ Lacks(loadGuestTarget, "probe") /\ Lacks(loadDatabaseTarget, "probe") /\ Lacks(Ask, "probe")
<1>1. Lacks(<<"probe">>, "guest") /\ Lacks(<<"probe", "write">>, "guest") /\ Lacks(<<"formats", "probe">>, "guest")
  BY DEF Lacks, StageNames
<1>2. <<"probe">> \in Seq(StageNames) /\ <<"probe", "write">> \in Seq(StageNames)
  BY DEF StageNames
<1>3. IsReady(PlanStages, {"resolve", "select"}, "probe")
  BY DEF IsReady, IsAfter, PlanStages, StageNames
<1>4. IsReady(TargetStages, {"resolve", "select"}, "probe")
  BY DEF IsReady, IsAfter, TargetStages, StageNames
<1>5. IsReady(loadGuestTarget, {"enabled"}, "guest")
  BY DEF IsReady, IsAfter, loadGuestTarget, StageNames
<1>6. IsReady(loadGuestTarget, {"validate"}, "guest")
  BY DEF IsReady, IsAfter, loadGuestTarget, StageNames
<1>7. IsReady(loadDatabaseTarget, {"database"}, "guest")
  BY DEF IsReady, IsAfter, loadDatabaseTarget, StageNames
<1>8. Lacks(loadGuestTarget, "probe") /\ Lacks(loadDatabaseTarget, "probe") /\ Lacks(Ask, "probe")
  BY DEF Lacks, loadGuestTarget, loadDatabaseTarget, Ask, StageNames
<1> QED BY <1>1, <1>2, <1>3, <1>4, <1>5, <1>6, <1>7, <1>8, Zenon

\* A diagnosis probes if it was not refused, and when it knows whom.
LEMMA EvidenceOrder ==
  ASSUME NEW r
  PROVE  /\ Lacks(EvidenceStages(r), "guest") /\ (~EBPF(r) => Lacks(EvidenceStages(r), "probe"))
         /\ IsReady(EvidenceStages(r), {"resolve", "select"}, "probe")
<1> DEFINE report == Text(r, "--report-dir") # ""
           load == If(report, <<"load">>)
           before == If(report /\ ~Discovers(r), <<"explain">>)
           probe == If(EBPF(r), <<"probe">>)
           after == If(report /\ Discovers(r), <<"explain">>)
           X == {"resolve", "select"}
           s1 == load \o before
           s2 == s1 \o PlanStages
           s3 == s2 \o probe
           s4 == s3 \o <<"sample", "diagnose">>
           s5 == s4 \o after
<1>1. EvidenceStages(r) = s5
  BY Zenon DEF EvidenceStages
<1>2. ASSUME NEW y \in {"probe", "guest"}
      PROVE  Lacks(load, y) /\ Lacks(before, y) /\ Lacks(PlanStages, y) /\ Lacks(<<"sample", "diagnose">>, y) /\ Lacks(after, y)
  BY <1>2, LiteralsLack, IfLacks, Zenon
<1>3. Lacks(probe, "guest") /\ (~EBPF(r) => Lacks(probe, "probe")) /\ probe \in Seq(StageNames)
  <2>1. Lacks(probe, "guest") /\ probe \in Seq(StageNames)
    BY LiteralsAre, IfLacks, IfTyped, Zenon
  <2>2. ~EBPF(r) => probe = <<>>
    BY Zenon DEF If
  <2>3. Lacks(<<>>, "probe")
    BY DEF Lacks
  <2> QED BY <2>1, <2>2, <2>3, Zenon
<1> HIDE DEF load, before, probe, after, s5
<1>4. ASSUME NEW y, y = "guest" \/ (y = "probe" /\ ~EBPF(r)) PROVE Lacks(s5, y)
  <2>1. y \in {"probe", "guest"} /\ Lacks(probe, y)
    BY <1>3, <1>4, Zenon
  <2>2. Lacks(s1, y)
    BY <1>2, <2>1, LacksBoth, Zenon
  <2> HIDE DEF s1
  <2>3. Lacks(s2, y)
    BY <1>2, <2>1, <2>2, LacksBoth, Zenon
  <2> HIDE DEF s2
  <2>4. Lacks(s3, y)
    BY <2>1, <2>3, LacksBoth, Zenon
  <2> HIDE DEF s3
  <2>5. Lacks(s4, y)
    BY <1>2, <2>1, <2>4, LacksBoth, Zenon
  <2> HIDE DEF s4
  <2> QED BY <1>2, <2>1, <2>5, LacksBoth, Zenon DEF s5
<1>5. IsReady(s5, X, "probe")
  <2>1. Lacks(s1, "probe")
    BY <1>2, LacksBoth, Zenon
  <2> HIDE DEF s1
  <2>2. IsReady(s2, X, "probe")
    BY <2>1, LiteralsAre, ThenReady, Zenon
  <2> HIDE DEF s2
  <2>3. IsReady(s3, X, "probe")
    BY <1>3, <2>2, ReadyThen, Zenon
  <2> HIDE DEF s3
  <2>4. <<"sample", "diagnose">> \in Seq(StageNames) /\ after \in Seq(StageNames)
    BY <1>2, Zenon DEF Lacks
  <2>5. IsReady(s4, X, "probe")
    BY <2>3, <2>4, ReadyThen, Zenon
  <2> HIDE DEF s4
  <2> QED BY <2>4, <2>5, ReadyThen, Zenon DEF s5
<1> QED BY <1>1, <1>4, <1>5, Zenon

\* The commands that attach probes.
ProbeNames ==
  {<<"ebpf", "block-events">>, <<"ebpf", "block-count">>, <<"ebpf", "block-latency">>, <<"ebpf", "vm-block-latency">>,
   <<"diagnose">>, <<"capture">>}

\* Most commands neither probe nor ask a guest.
Quiet(s) == Lacks(s, "probe") /\ Lacks(s, "guest")

\* Two such sequences, one after the other.
LEMMA QuietBoth ==
  ASSUME NEW s, NEW t, Quiet(s), Quiet(t)
  PROVE  Quiet(s \o t)
BY LacksBoth, Zenon DEF Quiet

\* Such a sequence, perhaps left out.
LEMMA QuietIf ==
  ASSUME NEW condition, NEW s, Quiet(s)
  PROVE  Quiet(If(condition, s))
BY IfLacks, Zenon DEF Quiet

\* The stages that are so.
LEMMA QuietLiterals ==
  /\ Quiet(PlanStages) /\ Quiet(TargetStages) /\ Quiet(<<"write">>) /\ Quiet(<<"loop">>) /\ Quiet(<<"sample">>)
  /\ Quiet(<<"save">>) /\ Quiet(<<"open">>) /\ Quiet(<<"raw">>) /\ Quiet(<<"screen">>) /\ Quiet(<<"sample", "write">>)
  /\ Quiet(<<"header", "loop">>) /\ Quiet(runInspect) /\ Quiet(runInventory) /\ Quiet(runExperimentSummary)
  /\ Quiet(runIncidentExplanation) /\ Quiet(runHostStatus) /\ Quiet(runObserveSnapshot)
  /\ Quiet(<<"inventory", "sample", "sort", "write">>)
BY LiteralsLack, Zenon DEF Quiet

\* The commands that are so.
LEMMA QuietStages ==
  ASSUME NEW name \in Accepted, NEW r, name \notin ProbeNames, name \notin {<<"guest">>, <<"service">>, <<"db">>}
  PROVE  Quiet(Stages(name, r))
<1>1. ASSUME name \in {<<"version">>, <<"doctor">>, <<"ebpf", "doctor">>, <<"ebpf", "block-watch">>}
      PROVE  Quiet(Stages(name, r))
  BY <1>1, StagesAre, QuietLiterals, Zenon
<1>2. ASSUME name \in {<<"inventory">>, <<"inspect">>, <<"host">>, <<"observe", "snapshot">>, <<"experiment">>,
                       <<"incidents">>, <<"watch">>}
      PROVE  Quiet(Stages(name, r))
  BY <1>2, StagesAre, QuietLiterals, Zenon
<1>3. CASE name = <<"vm">>
  <2>1. Quiet((TargetStages \o <<"sample">>) \o If("--output" \in r.seen, <<"save">>))
    BY QuietLiterals, QuietIf, QuietBoth, Zenon
  <2>2. Quiet(runVMStorageStats(r))
    BY <2>1, QuietLiterals, QuietBoth, Zenon DEF runVMStorageStats
  <2> QED BY <1>3, <2>2, StagesAre, Zenon
<1>4. CASE name = <<"observe", "watch">>
  <2>1. Quiet(runObserveWatch(r))
    BY QuietLiterals, QuietIf, QuietBoth, Zenon DEF runObserveWatch
  <2> QED BY <1>4, <2>1, StagesAre, Zenon
<1>5. CASE name = <<"status">>
  <2>1. Quiet(runStatus(r))
    BY QuietLiterals, Zenon DEF runStatus
  <2> QED BY <1>5, <2>1, StagesAre, Zenon
<1>6. CASE name = <<"trace">>
  <2>1. Quiet(runTracePlan)
    BY QuietLiterals, QuietBoth, Zenon DEF runTracePlan
  <2> QED BY <1>6, <2>1, StagesAre, Zenon
<1>7. CASE name \in {<<"storage", "snapshot">>, <<"storage", "watch">>}
  <2>1. Quiet(PlanStages \o <<"sample">>)
    BY QuietLiterals, QuietBoth, Zenon
  <2>2. Quiet(runStorageCommand(name[2]))
    BY <2>1, QuietLiterals, QuietBoth, Zenon DEF runStorageCommand
  <2> QED BY <1>7, <2>2, StagesAre, Zenon
<1>8. CASE name = <<"qemu", "io-watch">>
  <2>1. Quiet(runQEMUIOWatch)
    BY QuietLiterals, QuietBoth, Zenon DEF runQEMUIOWatch
  <2> QED BY <1>8, <2>1, StagesAre, Zenon
<1>9. CASE name = <<"qemu", "io-summary">>
  <2>1. Quiet(runQEMUIOSummary)
    BY QuietLiterals, QuietBoth, Zenon DEF runQEMUIOSummary
  <2> QED BY <1>9, <2>1, StagesAre, Zenon
<1>10. CASE name = <<"top">>
  <2>1. Quiet((<<"raw">> \o If("--application" \in r.on, <<"screen">>)) \o <<"loop">>)
    BY QuietLiterals, QuietIf, QuietBoth, Zenon
  <2>2. Quiet(runTop(r))
    BY <2>1, QuietLiterals, Zenon DEF runTop
  <2> QED BY <1>10, <2>2, StagesAre, Zenon
<1>11. name \in {<<"version">>, <<"doctor">>, <<"ebpf", "doctor">>, <<"ebpf", "block-watch">>, <<"inventory">>,
                 <<"inspect">>, <<"host">>, <<"observe", "snapshot">>, <<"experiment">>, <<"incidents">>, <<"watch">>,
                 <<"vm">>, <<"observe", "watch">>, <<"status">>, <<"trace">>, <<"storage", "snapshot">>,
                 <<"storage", "watch">>, <<"qemu", "io-watch">>, <<"qemu", "io-summary">>, <<"top">>}
  BY Zenon DEF Accepted, TwoWordCommands, ProbeNames
<1> QED BY <1>1, <1>2, <1>3, <1>4, <1>5, <1>6, <1>7, <1>8, <1>9, <1>10, <1>11, Zenon

\* A command that probes first finds the VMs it is about, and asks no guest.
LEMMA ProbeOrder ==
  ASSUME NEW name \in Accepted, NEW r
  PROVE  /\ name \in ProbeNames => Lacks(Stages(name, r), "guest")
         /\ name = <<"ebpf", "block-latency">> /\ Text(r, "--victim") # "" =>
              IsReady(Stages(name, r), {"resolve", "select"}, "probe")
         /\ name = <<"ebpf", "vm-block-latency">> => IsReady(Stages(name, r), {"resolve", "select"}, "probe")
         /\ name \in {<<"diagnose">>, <<"capture">>} =>
              /\ IsReady(Stages(name, r), {"resolve", "select"}, "probe")
              /\ ~EBPF(r) => Lacks(Stages(name, r), "probe")
<1> DEFINE s == Stages(name, r)
           X == {"resolve", "select"}
<1>1. CASE name \in {<<"ebpf", "block-events">>, <<"ebpf", "block-count">>}
  <2>1. s = <<"formats", "probe">> \/ s = <<"probe", "write">>
    BY <1>1, StagesAre, Zenon
  <2>2. Lacks(s, "guest")
    BY <2>1, LiteralsAre, Zenon
  <2>3. name \notin {<<"ebpf", "block-latency">>, <<"ebpf", "vm-block-latency">>, <<"diagnose">>, <<"capture">>}
    BY <1>1
  <2> HIDE DEF s
  <2> QED BY <2>2, <2>3, Zenon DEF s
<1>2. CASE name = <<"ebpf", "block-latency">>
  <2> DEFINE known == Text(r, "--victim") # ""
             t == PlanStages \o <<"single">>
  <2>1. s = If(known, t) \o <<"probe", "write">>
    BY <1>2, StagesAre, Zenon
  <2>2. Lacks(t, "guest")
    BY LiteralsLack, LacksBoth, Zenon
  <2>3. IsReady(t, X, "probe")
    <3>1. <<"single">> \in Seq(StageNames)
      BY DEF StageNames
    <3> QED BY <3>1, LiteralsAre, ReadyThen, Zenon
  <2> HIDE DEF t
  <2>4. Lacks(s, "guest")
    BY <2>1, <2>2, LiteralsAre, IfLacks, LacksBoth, Zenon
  <2>5. known => IsReady(s, X, "probe")
    <3>1. IsReady(t \o <<"probe", "write">>, X, "probe")
      BY <2>3, LiteralsAre, ReadyThen, Zenon
    <3>2. known => If(known, t) = t
      BY Zenon DEF If
    <3> QED BY <2>1, <3>1, <3>2, Zenon
  <2>6. name \notin {<<"ebpf", "vm-block-latency">>, <<"diagnose">>, <<"capture">>}
    BY <1>2
  <2> HIDE DEF s
  <2> QED BY <2>4, <2>5, <2>6, Zenon DEF s
<1>3. CASE name = <<"ebpf", "vm-block-latency">>
  <2> DEFINE save == If("--output" \in r.seen, <<"save">>)
             s1 == TargetStages \o <<"probe">>
             s2 == s1 \o save
  <2>1. s = s2 \o <<"write">>
    BY <1>3, StagesAre, Zenon DEF runEBPFVMBlockLatency
  <2>2. Lacks(save, "guest") /\ Lacks(<<"write">>, "guest") /\ save \in Seq(StageNames) /\ <<"write">> \in Seq(StageNames)
    BY LiteralsLack, IfLacks, Zenon DEF Lacks
  <2> HIDE DEF save
  <2>3. Lacks(s1, "guest")
    BY LiteralsLack, LiteralsAre, LacksBoth, Zenon
  <2>4. IsReady(s1, X, "probe")
    BY LiteralsAre, ReadyThen, Zenon
  <2> HIDE DEF s1
  <2>5. Lacks(s2, "guest")
    BY <2>2, <2>3, LacksBoth, Zenon
  <2>6. IsReady(s2, X, "probe")
    BY <2>2, <2>4, ReadyThen, Zenon
  <2> HIDE DEF s2
  <2>7. Lacks(s, "guest")
    BY <2>1, <2>2, <2>5, LacksBoth, Zenon
  <2>8. IsReady(s, X, "probe")
    BY <2>1, <2>2, <2>6, ReadyThen, Zenon
  <2>9. name \notin {<<"ebpf", "block-latency">>, <<"diagnose">>, <<"capture">>}
    BY <1>3
  <2> HIDE DEF s
  <2> QED BY <2>7, <2>8, <2>9, Zenon DEF s
<1>4. CASE name \in {<<"diagnose">>, <<"capture">>}
  <2> DEFINE e == EvidenceStages(r)
             save == If({"--output", "--output-dir"} \cap r.seen # {}, <<"save">>)
  <2>1. s = (e \o save) \o <<"write">> \/ s = e \o <<"save", "write">>
    BY <1>4, StagesAre, Zenon DEF runNoisyNeighborDiagnosis, runCaptureCommand
  <2>2. ASSUME NEW y \in {"probe", "guest"} PROVE Lacks(save, y) /\ Lacks(<<"write">>, y) /\ Lacks(<<"save", "write">>, y)
    BY <2>2, LiteralsLack, IfLacks, Zenon
  <2> HIDE DEF save, e
  <2>3. ASSUME NEW y, y = "guest" \/ (y = "probe" /\ ~EBPF(r)) PROVE Lacks(s, y)
    <3>1. y \in {"probe", "guest"} /\ Lacks(e, y)
      BY <2>3, EvidenceOrder, Zenon DEF e
    <3>2. Lacks(e \o save, y)
      BY <2>2, <3>1, LacksBoth, Zenon
    <3>3. Lacks((e \o save) \o <<"write">>, y)
      BY <2>2, <3>1, <3>2, LacksBoth, Zenon
    <3>4. Lacks(e \o <<"save", "write">>, y)
      BY <2>2, <3>1, LacksBoth, Zenon
    <3> QED BY <2>1, <3>3, <3>4, Zenon
  <2>4. IsReady(s, X, "probe")
    <3>1. IsReady(e, X, "probe")
      BY EvidenceOrder, Zenon DEF e
    <3>2. save \in Seq(StageNames) /\ <<"write">> \in Seq(StageNames) /\ <<"save", "write">> \in Seq(StageNames)
      BY <2>2, Zenon DEF Lacks
    <3>3. IsReady(e \o save, X, "probe")
      BY <3>1, <3>2, ReadyThen, Zenon
    <3>4. IsReady((e \o save) \o <<"write">>, X, "probe")
      BY <3>2, <3>3, ReadyThen, Zenon
    <3>5. IsReady(e \o <<"save", "write">>, X, "probe")
      BY <3>1, <3>2, ReadyThen, Zenon
    <3> QED BY <2>1, <3>4, <3>5, Zenon
  <2>5. name \notin {<<"ebpf", "block-latency">>, <<"ebpf", "vm-block-latency">>}
    BY <1>4
  <2> HIDE DEF s
  <2> QED BY <2>3, <2>4, <2>5, Zenon DEF s
<1>5. CASE name \notin ProbeNames
  BY <1>5, Zenon DEF ProbeNames
<1> QED BY <1>1, <1>2, <1>3, <1>4, <1>5, Zenon DEF ProbeNames

\* A command that asks a guest first looks at the settings, and does not probe.
LEMMA GuestOrder ==
  ASSUME NEW name \in Accepted, NEW r
  PROVE  /\ name \in {<<"guest">>, <<"service">>, <<"db">>} => Lacks(Stages(name, r), "probe")
         /\ name \in {<<"guest">>, <<"service">>} =>
              IsReady(Stages(name, r), {"enabled"}, "guest") /\ IsReady(Stages(name, r), {"validate"}, "guest")
         /\ name = <<"db">> => IsReady(Stages(name, r), {"database"}, "guest")
<1> DEFINE s == Stages(name, r)
<1>0. Ask \in Seq(StageNames) /\ <<"services">> \in Seq(StageNames)
  BY LiteralsAre, LiteralsLack, Zenon DEF Lacks
<1>1. CASE name = <<"guest">>
  <2>1. s = loadGuestTarget \o Ask
    BY <1>1, StagesAre, Zenon DEF runGuestStatus
  <2>2. Lacks(s, "probe") /\ IsReady(s, {"enabled"}, "guest") /\ IsReady(s, {"validate"}, "guest")
    BY <1>0, <2>1, LiteralsAre, LacksBoth, ReadyThen, Zenon
  <2>3. name # <<"db">>
    BY <1>1
  <2> HIDE DEF s
  <2> QED BY <2>2, <2>3, Zenon DEF s
<1>2. CASE name = <<"service">>
  <2> DEFINE t == loadGuestTarget \o <<"services">>
  <2>1. s = t \o Ask
    BY <1>2, StagesAre, Zenon DEF runServiceStatus
  <2>2. Lacks(t, "probe") /\ IsReady(t, {"enabled"}, "guest") /\ IsReady(t, {"validate"}, "guest")
    BY <1>0, LiteralsAre, LiteralsLack, LacksBoth, ReadyThen, Zenon
  <2> HIDE DEF t
  <2>3. Lacks(s, "probe") /\ IsReady(s, {"enabled"}, "guest") /\ IsReady(s, {"validate"}, "guest")
    BY <1>0, <2>1, <2>2, LiteralsAre, LacksBoth, ReadyThen, Zenon
  <2>4. name # <<"db">>
    BY <1>2
  <2> HIDE DEF s
  <2> QED BY <2>3, <2>4, Zenon DEF s
<1>3. CASE name = <<"db">>
  <2>1. s = loadDatabaseTarget \o Ask
    BY <1>3, StagesAre, Zenon DEF runDBStatus
  <2>2. Lacks(s, "probe") /\ IsReady(s, {"database"}, "guest")
    BY <1>0, <2>1, LiteralsAre, LacksBoth, ReadyThen, Zenon
  <2>3. name \notin {<<"guest">>, <<"service">>}
    BY <1>3
  <2> HIDE DEF s
  <2> QED BY <2>2, <2>3, Zenon DEF s
<1>4. CASE name \notin {<<"guest">>, <<"service">>, <<"db">>}
  BY <1>4, Zenon
<1> QED BY <1>1, <1>2, <1>3, <1>4, Zenon

\* Whether a VM has to be found first.
Needed(a) == Verb(a) \in {"investigate", "bundle"} \/ NamesOne(a)

\* What is lacking does not occur.
LEMMA Occurs ==
  ASSUME NEW s, NEW y, Lacks(s, y)
  PROVE  ~\E i \in 1..Len(s) : s[i] = y
BY DEF Lacks

\* The stages of a command that is accepted.
LEMMA LaunchOrder ==
  ASSUME NEW a, a \in Seq(Tokens), Read(a).ok, ~Read(a).help, Parse(Read(a).args).ok
  PROVE  LET name == Name(Read(a).args)
             s == Stages(name, Parse(Read(a).args))
         IN /\ s \in Seq(StageNames)
            /\ (\E i \in 1..Len(s) : s[i] = "probe") =>
                 ~Refuses(a) /\ (Needed(a) => IsReady(s, {"resolve", "select"}, "probe"))
            /\ (\E i \in 1..Len(s) : s[i] = "guest") =>
                 /\ name # <<"db">> => IsReady(s, {"enabled"}, "guest") /\ IsReady(s, {"validate"}, "guest")
                 /\ name = <<"db">> => IsReady(s, {"database"}, "guest")
<1> DEFINE args == Read(a).args
           name == Name(args)
           r == Parse(args)
           s == Stages(name, r)
           T == Tokens \cup Composed(Resolve(a).settings.root)
           Launches(y) == \E i \in 1..Len(s) : s[i] = y
<1>1. Textless(T) /\ a \in Seq(T) /\ Composed(Resolve(a).settings.root) \subseteq T
  <2>1. Textless(T)
    BY TokensAreTextless, Zenon
  <2>2. Tokens \subseteq T /\ Composed(Resolve(a).settings.root) \subseteq T
    OBVIOUS
  <2> HIDE DEF T
  <2>3. a \in Seq(T)
    <3>1. a \in [1..Len(a) -> Tokens] /\ Len(a) \in Nat
      OBVIOUS
    <3>2. a \in [1..Len(a) -> T]
      BY <2>2, <3>1
    <3> QED BY <3>1, <3>2
  <2> QED BY <2>1, <2>2, <2>3, Zenon
<1> HIDE DEF T
<1>2. /\ args \in Seq(T) /\ KeepsOptions(a, args)
      /\ a # <<>> /\ IsWord(a[1]) /\ a[1].text \in {"investigate", "bundle"} => args[1].text # "ebpf"
  BY <1>1, ReadKeeps, Zenon
<1> HIDE DEF args
<1>3. args # <<>> /\ name \in Accepted
  BY OthersAreRefused, Zenon DEF args
<1>4. ProbeAsAsked(a, args)
  BY <1>1, <1>2, ProbesAsAsked, Zenon DEF args
<1>5. ASSUME Verb(a) \in {"investigate", "bundle"} PROVE args[1].text # "ebpf"
  <2>1. a # <<>> /\ a[1].text \in {"investigate", "bundle"}
    <3>1. "" \notin {"investigate", "bundle"}
      OBVIOUS
    <3> QED BY <1>5, <3>1, Zenon DEF Verb
  <2>2. a[1] \in T
    <3>1. Len(a) \in Nat /\ Len(a) >= 1 /\ \A i \in 1..Len(a) : a[i] \in T
      BY <1>1, <2>1
    <3> QED BY <3>1
  <2>3. IsWord(a[1])
    BY <1>1, <2>1, <2>2 DEF Textless, IsWord
  <2> QED BY <1>2, <2>1, <2>3, Zenon
<1>6. ASSUME NEW y, name = <<"ebpf", y>> PROVE args[1].text = "ebpf"
  BY <1>3, <1>6, NameIs, Zenon
<1>7. /\ name \notin ProbeNames => Lacks(s, "probe")
      /\ name \notin {<<"guest">>, <<"service">>, <<"db">>} => Lacks(s, "guest")
  BY <1>3, QuietStages, ProbeOrder, GuestOrder, Zenon DEF Quiet
<1>8. s \in Seq(StageNames)
  <2>1. CASE name \in ProbeNames
    BY <1>3, <2>1, ProbeOrder, Zenon DEF Lacks
  <2>2. CASE name \notin ProbeNames
    BY <1>7, <2>2, Zenon DEF Lacks
  <2> QED BY <2>1, <2>2
<1>9. ASSUME Launches("probe") PROVE ~Refuses(a) /\ (Needed(a) => IsReady(s, {"resolve", "select"}, "probe"))
  <2>0. name \in ProbeNames /\ ~Lacks(s, "probe")
    BY <1>7, <1>9, Occurs, Zenon
  <2>1. CASE name \in {<<"ebpf", "block-events">>, <<"ebpf", "block-count">>}
    <3>1. ~Refuses(a) /\ ~NamesOne(a)
      BY <1>4, <2>1, Zenon DEF ProbeAsAsked
    <3>2. Verb(a) \notin {"investigate", "bundle"}
      BY <1>5, <1>6, <2>1, Zenon
    <3> QED BY <3>1, <3>2, Zenon DEF Needed
  <2>2. CASE name = <<"ebpf", "block-latency">>
    <3>1. ~Refuses(a) /\ (NamesOne(a) => Text(r, "--victim") # "")
      BY <1>4, <2>2, Zenon DEF ProbeAsAsked
    <3>2. Verb(a) \notin {"investigate", "bundle"}
      BY <1>5, <1>6, <2>2, Zenon
    <3>3. Text(r, "--victim") # "" => IsReady(s, {"resolve", "select"}, "probe")
      BY <1>3, <2>2, ProbeOrder, Zenon
    <3> QED BY <3>1, <3>2, <3>3, Zenon DEF Needed
  <2>3. CASE name = <<"ebpf", "vm-block-latency">>
    BY <1>3, <1>4, <2>3, ProbeOrder, Zenon DEF ProbeAsAsked
  <2>4. CASE name \in {<<"diagnose">>, <<"capture">>}
    <3>1. Refuses(a) => ~EBPF(r)
      BY <1>4, <2>4, Zenon DEF ProbeAsAsked
    <3>2. IsReady(s, {"resolve", "select"}, "probe") /\ (~EBPF(r) => Lacks(s, "probe"))
      BY <1>3, <2>4, ProbeOrder, Zenon
    <3> QED BY <2>0, <3>1, <3>2, Zenon
  <2> QED BY <2>0, <2>1, <2>2, <2>3, <2>4, Zenon DEF ProbeNames
<1>10. ASSUME Launches("guest")
       PROVE  /\ name # <<"db">> => IsReady(s, {"enabled"}, "guest") /\ IsReady(s, {"validate"}, "guest")
              /\ name = <<"db">> => IsReady(s, {"database"}, "guest")
  <2>1. name \in {<<"guest">>, <<"service">>, <<"db">>}
    BY <1>7, <1>10, Occurs, Zenon
  <2> QED BY <1>3, <2>1, GuestOrder, Zenon
<1> QED BY <1>8, <1>9, <1>10, Zenon DEF args

-----------------------------------------------------------------------------
(* The arguments of a command line: its option groups, one after another.  *)
Flattens(U, S, f) ==
  /\ f \in [0..Len(S) -> Seq(U)] /\ f[0] = <<>> /\ f[Len(S)] = FlattenSeq(S)
  /\ \A i \in 1..Len(S) : f[i] = f[i - 1] \o S[i]

\* The lists are appended one by one.
LEMMA FlattenSteps ==
  ASSUME NEW U, NEW S \in Seq(Seq(U))
  PROVE  \E f : Flattens(U, S, f)
<1> DEFINE n == Len(S)
           rule == [p \in (1..n) \X Seq(U) |-> p[2] \o S[p[1]]]
<1>1. n \in Nat /\ \A i \in 1..n : S[i] \in Seq(U)
  OBVIOUS
<1>2. <<>> \in Seq(U)
  OBVIOUS
<1>3. rule \in [(1..n) \X Seq(U) -> Seq(U)]
  <2>1. \A p \in (1..n) \X Seq(U) : p[2] \o S[p[1]] \in Seq(U)
    <3> TAKE p \in (1..n) \X Seq(U)
    <3>1. p[2] \in Seq(U) /\ S[p[1]] \in Seq(U)
      BY <1>1
    <3> QED BY <3>1, Concatenated, Zenon
  <2> HIDE DEF n
  <2> QED BY <2>1, Zenon
<1>4. PICK f \in [0..n -> Seq(U)] : Follows(f, n, <<>>, rule)
  <2> HIDE DEF rule, n
  <2> QED BY <1>1, <1>2, <1>3, IntervalRecursion, Zenon
<1>5. f[0] = <<>>
  BY <1>4, Zenon DEF Follows
<1>6. \A i \in 1..n : i - 1 \in 0..n /\ f[i - 1] \in Seq(U) /\ f[i] = f[i - 1] \o S[i]
  <2> TAKE i \in 1..n
  <2>1. i - 1 \in 0..n
    BY <1>1
  <2> HIDE DEF n
  <2>2. f[i - 1] \in Seq(U)
    BY <1>4, <2>1, Zenon
  <2>3. f[i] = rule[<<i, f[i - 1]>>]
    <3> HIDE DEF rule
    <3> QED BY <1>4, Zenon DEF Follows
  <2>4. rule[<<i, f[i - 1]>>] = f[i - 1] \o S[i]
    <3>1. <<i, f[i - 1]>> \in (1..n) \X Seq(U) /\ <<i, f[i - 1]>>[1] = i /\ <<i, f[i - 1]>>[2] = f[i - 1]
      BY <2>2
    <3> QED BY <3>1, Zenon
  <2> QED BY <2>1, <2>2, <2>3, <2>4, Zenon
<1> HIDE DEF rule
<1>7. FlattenSeq(S) = f[n]
  <2>1. CASE n = 0
    <3>1. FlattenSeq(S) = S
      BY <2>1, Zenon DEF FlattenSeq
    <3>2. S = <<>>
      BY <2>1
    <3> HIDE DEF n
    <3> QED BY <1>5, <2>1, <3>1, <3>2, Zenon
  <2>2. CASE n # 0
    <3> DEFINE body(g) == [i \in 1..Len(S) |-> IF i = 1 THEN S[i] ELSE g[i - 1] \o S[i]]
               flat == CHOOSE g : g = body(g)
               h == [i \in 1..n |-> f[i]]
    <3>1. h = body(h)
      <4>1. \A i \in 1..n : h[i] = IF i = 1 THEN S[i] ELSE h[i - 1] \o S[i]
        <5> TAKE i \in 1..n
        <5>1. CASE i = 1
          <6>1. f[1] = <<>> \o S[1] /\ S[1] \in Seq(U) /\ 1 \in 1..n
            <7>1. 1 - 1 = 0 /\ 1 \in 1..n
              BY <1>1, <5>1
            <7>2. f[1] = f[1 - 1] \o S[1] /\ S[1] \in Seq(U)
              BY <1>1, <1>6, <7>1, Zenon
            <7> QED BY <1>5, <7>1, <7>2
          <6>2. <<>> \o S[1] = S[1]
            BY <6>1, ConcatEmptySeq, Zenon
          <6> HIDE DEF n
          <6> QED BY <5>1, <6>1, <6>2
        <5>2. CASE i # 1
          <6>1. i - 1 \in 1..n
            BY <1>1, <5>2
          <6> HIDE DEF n
          <6> QED BY <1>6, <5>2, <6>1
        <5> QED BY <5>1, <5>2
      <4>2. h = [i \in 1..n |-> h[i]]
        <5> HIDE DEF n
        <5> QED OBVIOUS
      <4>3. body(h) = [i \in 1..n |-> body(h)[i]]
        <5> HIDE DEF h
        <5> QED BY Zenon
      <4>4. \A i \in 1..n : body(h)[i] = IF i = 1 THEN S[i] ELSE h[i - 1] \o S[i]
        <5> HIDE DEF h
        <5> QED BY Zenon
      <4> HIDE DEF h, body, n
      <4> QED BY <4>1, <4>2, <4>3, <4>4, ZenonT(60)
    <3> HIDE DEF h
    <3>2. flat = body(flat)
      <4> HIDE DEF body
      <4> QED BY <3>1, Zenon
    <3>3. FlattenSeq(S) = flat[n]
      <4>1. FlattenSeq(S) = flat[Len(S)]
        BY <2>2, Zenon DEF FlattenSeq
      <4> QED BY <4>1, Zenon
    <3> HIDE DEF flat
    <3>4. \A i \in 1..n : flat[i] = IF i = 1 THEN S[i] ELSE flat[i - 1] \o S[i]
      BY <3>2, Zenon
    <3> DEFINE Rights == {k \in Nat : k < n => flat[k + 1] = f[k + 1]}
    <3> HIDE DEF body, n
    <3>5. 0 \in Rights
      <4>1. 1 \in 1..n /\ 1 - 1 = 0
        BY <1>1, <2>2
      <4>2. f[1] = <<>> \o S[1] /\ S[1] \in Seq(U)
        BY <1>1, <1>5, <1>6, <4>1
      <4>3. f[1] = S[1]
        BY <4>2, ConcatEmptySeq, Zenon
      <4>4. flat[1] = S[1]
        BY <3>4, <4>1
      <4> QED BY <4>3, <4>4
    <3>6. \A k \in Nat : k \in Rights => k + 1 \in Rights
      <4> SUFFICES ASSUME NEW k \in Nat, k \in Rights, k + 1 < n PROVE flat[(k + 1) + 1] = f[(k + 1) + 1]
        OBVIOUS
      <4>1. (k + 1) + 1 \in 1..n /\ (k + 1) + 1 # 1 /\ ((k + 1) + 1) - 1 = k + 1 /\ k < n
        BY <1>1
      <4>2. flat[k + 1] = f[k + 1]
        BY <4>1
      <4>3. f[(k + 1) + 1] = f[k + 1] \o S[(k + 1) + 1]
        BY <1>6, <4>1
      <4>4. flat[(k + 1) + 1] = flat[k + 1] \o S[(k + 1) + 1]
        BY <3>4, <4>1
      <4> QED BY <4>2, <4>3, <4>4, Zenon
    <3>7. \A k \in Nat : k \in Rights
      <4> HIDE DEF Rights
      <4> QED BY <3>5, <3>6, SetInduction, Zenon
    <3>8. n - 1 \in Nat /\ n - 1 < n /\ (n - 1) + 1 = n
      BY <1>1, <2>2
    <3>9. flat[n] = f[n]
      BY <3>7, <3>8
    <3> QED BY <3>3, <3>9, Zenon
  <2> QED BY <2>1, <2>2
<1>8. Flattens(U, S, f)
  BY <1>4, <1>5, <1>6, <1>7, Zenon DEF Flattens, n
<1> QED BY <1>8, Zenon

\* The last of some lists.
LEMMA FlattenTyped ==
  ASSUME NEW U, NEW S \in Seq(Seq(U))
  PROVE  FlattenSeq(S) \in Seq(U)
<1>1. PICK f : Flattens(U, S, f)
  BY FlattenSteps, Zenon
<1>2. Len(S) \in 0..Len(S)
  OBVIOUS
<1> QED BY <1>1, <1>2, Zenon DEF Flattens

-----------------------------------------------------------------------------
(* The inductive invariant of a run: what is planned and was performed.    *)
\* A stage was performed or will be.
Planned(y) == y \in done \/ \E i \in 1..Len(todo) : todo[i] = y

\* Before y is performed, one of X is.
Preceded(X, y) ==
  /\ y \in done => X \cap done # {}
  /\ X \cap done = {} => IsAfter(todo, X, y)

\* Probes are planned for a command line that does not refuse them, behind the
\* stage that finds the VMs if it names one; guests are asked behind the stages
\* that look at the settings; and what these stages found holds.
AskedInv ==
  /\ given \in CommandLines
  /\ todo \in Seq(StageNames) /\ deferred \in Seq(Undoings)
  /\ phase = "start" => todo = <<>> /\ done = {}
  /\ Planned("probe") => ~Refuses(line) /\ (Needed(line) => Preceded({"resolve", "select"}, "probe"))
  /\ Planned("guest") =>
       /\ command.settings = Resolve(line).settings
       /\ command.name # <<"db">> => Preceded({"enabled"}, "guest") /\ Preceded({"validate"}, "guest")
       /\ command.name = <<"db">> => Preceded({"database"}, "guest")
  /\ "enabled" \in done => EffectiveObservability(command.settings).guest.enabled
  /\ "validate" \in done => Validate(command.settings)
  /\ "database" \in done =>
       /\ EffectiveObservability(command.settings).guest.transport = "ssh"
       /\ EffectiveObservability(command.settings).guest.hosts # ""

\* A command line is made of tokens.
LEMMA LineTyped == ASSUME given \in CommandLines PROVE line \in Seq(Tokens)
<1>1. given.verb \in Seq(Tokens) /\ given.options \in Seq(OptionGroups)
  BY CommandsAssumption
<1>2. OptionGroups \subseteq Seq(Tokens)
  BY DEF OptionGroups
<1>3. given.options \in Seq(Seq(Tokens))
  BY <1>1, <1>2
<1>4. FlattenSeq(given.options) \in Seq(Tokens)
  BY <1>3, FlattenTyped, Zenon
<1> QED BY <1>1, <1>4, Concatenated, Zenon DEF line

\* It holds before the command line is read.
LEMMA AskedInit == Init => AskedInv
<1> SUFFICES ASSUME Init PROVE AskedInv
  OBVIOUS
<1>1. given \in CommandLines /\ todo = <<>> /\ deferred = <<>> /\ done = {}
  BY DEF Init
<1>2. \A y : ~Planned(y)
  BY <1>1 DEF Planned
<1>3. <<>> \in Seq(StageNames) /\ <<>> \in Seq(Undoings)
  OBVIOUS
<1>4. \A y : y \notin done
  BY <1>1
<1> QED BY <1>1, <1>2, <1>3, <1>4, Zenon DEF AskedInv

\* It holds when a command was accepted, or the command line was refused.
LEMMA AskedRun ==
  ASSUME AskedInv, Run
  PROVE  AskedInv'
<1>1. given' = given /\ done' = done /\ phase = "start" /\ todo = <<>> /\ done = {} /\ line' = line
  <2>1. UNCHANGED <<given, done, terminal>> /\ phase = "start"
    BY Zenon DEF Run
  <2>2. todo = <<>> /\ done = {}
    BY <2>1, Zenon DEF AskedInv
  <2>3. given' = given /\ done' = done
    BY <2>1
  <2> QED BY <2>1, <2>2, <2>3 DEF line
<1>2. given \in CommandLines
  BY Zenon DEF AskedInv
<1>6. line \in Seq(Tokens)
  BY <1>2, LineTyped, Zenon
<1> DEFINE rewritten == Read(line)
           r == Parse(rewritten.args)
<1>3. phase' \in {"ended", "run"}
  BY Zenon DEF Run
<1>4. CASE todo' = todo /\ deferred' = deferred
  <2>1. todo' = <<>> /\ done' = {}
    BY <1>1, <1>4
  <2>2. \A y : ~Planned(y)'
    BY <2>1 DEF Planned
  <2>3. todo' \in Seq(StageNames) /\ deferred' \in Seq(Undoings)
    BY <1>4, Zenon DEF AskedInv
  <2>4. phase' # "start"
    BY <1>3
  <2>5. \A y : y \notin done'
    BY <2>1
  <2> QED BY <1>1, <1>2, <2>2, <2>3, <2>4, <2>5, Zenon DEF AskedInv
<1>5. CASE /\ rewritten.ok /\ ~rewritten.help /\ r.ok
           /\ command' = [name |-> Name(rewritten.args), options |-> r, settings |-> rewritten.settings]
           /\ todo' = Stages(Name(rewritten.args), r)
           /\ deferred' = Summaries(Name(rewritten.args), r)
  <2> DEFINE name == Name(rewritten.args)
             s == Stages(name, r)
  <2>1. /\ s \in Seq(StageNames)
        /\ (\E i \in 1..Len(s) : s[i] = "probe") =>
             ~Refuses(line) /\ (Needed(line) => IsReady(s, {"resolve", "select"}, "probe"))
        /\ (\E i \in 1..Len(s) : s[i] = "guest") =>
             /\ name # <<"db">> => IsReady(s, {"enabled"}, "guest") /\ IsReady(s, {"validate"}, "guest")
             /\ name = <<"db">> => IsReady(s, {"database"}, "guest")
    BY <1>6, <1>5, LaunchOrder, Zenon
  <2>2. rewritten.settings = Resolve(line).settings
    BY Zenon DEF Read
  <2>3. command'.name = name /\ command'.settings = Resolve(line).settings
    <3> HIDE DEF rewritten, name
    <3>1. command'.name = name /\ command'.settings = rewritten.settings
      BY <1>5 DEF name
    <3> QED BY <2>2, <3>1 DEF rewritten
  <2>4. todo' = s /\ done' = {}
    BY <1>1, <1>5
  <2>5. deferred' \in Seq(Undoings)
    <3>1. <<>> \in Seq(Undoings) /\ <<"summary">> \in Seq(Undoings)
      BY DEF Undoings
    <3> QED BY <1>5, <3>1, Zenon DEF Summaries, If
  <2> HIDE DEF s, name
  <2>6. ASSUME NEW X, NEW y, IsReady(s, X, y) PROVE Preceded(X, y)'
    BY <2>4, <2>6 DEF Preceded, IsReady
  <2>7. ASSUME NEW y, Planned(y)' PROVE \E i \in 1..Len(s) : s[i] = y
    BY <2>4, <2>7 DEF Planned
  <2>8. \A y : y \notin done'
    BY <2>4
  <2>9. phase' # "start"
    BY <1>3
  <2>10. Planned("probe")' => ~Refuses(line)' /\ (Needed(line)' => Preceded({"resolve", "select"}, "probe")')
    BY <1>1, <2>1, <2>6, <2>7, Zenon
  <2>11. Planned("guest")' =>
           /\ command'.settings = Resolve(line)'.settings
           /\ command'.name # <<"db">> => Preceded({"enabled"}, "guest")' /\ Preceded({"validate"}, "guest")'
           /\ command'.name = <<"db">> => Preceded({"database"}, "guest")'
    BY <1>1, <2>1, <2>3, <2>6, <2>7, Zenon
  <2> QED BY <1>1, <1>2, <2>1, <2>4, <2>5, <2>8, <2>9, <2>10, <2>11, Zenon DEF AskedInv
<1> QED BY <1>4, <1>5, Zenon DEF Run

\* The stage before a database is asked wants its machine to be reachable.
LEMMA DatabaseSelected ==
  ASSUME Selected("database")
  PROVE  /\ EffectiveObservability(command.settings).guest.transport = "ssh"
         /\ EffectiveObservability(command.settings).guest.hosts # ""
<1> DEFINE asked == EffectiveObservability(command.settings).guest
<1> SUFFICES asked.transport = "ssh" /\ asked.hosts # ""
  BY Zenon
<1>1. asked.transport = "ssh"
  BY Zenon DEF Selected, DatabaseReachable
<1>2. asked.hosts # ""
  BY Zenon DEF Selected, DatabaseReachable
<1> QED BY <1>1, <1>2, Zenon

\* One stage is performed.
LEMMA AskedPerform ==
  ASSUME AskedInv, Perform
  PROVE  AskedInv'
<1> DEFINE h == Head(todo)
<1>1. /\ phase = "run" /\ todo # <<>> /\ Selected(h) /\ done' = done \cup {h} /\ todo' = Tail(todo)
      /\ deferred' = Deferred(h) \o deferred
      /\ UNCHANGED <<given, command, phase, failed>>
  BY Zenon DEF Perform
<1>2. given' = given /\ command' = command /\ phase' = "run" /\ line' = line
  BY <1>1 DEF line
<1>3. todo \in Seq(StageNames) /\ deferred \in Seq(Undoings) /\ given \in CommandLines
  BY Zenon DEF AskedInv
<1>4. /\ h \in StageNames /\ todo' \in Seq(StageNames) /\ Len(todo') = Len(todo) - 1 /\ Len(todo) \in Nat
      /\ \A i \in 1..Len(todo') : todo'[i] = todo[i + 1]
      /\ h = todo[1]
  <2> DEFINE s == todo
  <2> HIDE DEF s
  <2>1. s \in Seq(StageNames) /\ s # <<>>
    BY <1>1, <1>3 DEF s
  <2>2. /\ Head(s) \in StageNames /\ Tail(s) \in Seq(StageNames) /\ Len(Tail(s)) = Len(s) - 1
        /\ \A i \in 1..Len(Tail(s)) : Tail(s)[i] = s[i + 1]
    BY <2>1, HeadTailProperties
  <2>3. Head(s) = s[1] /\ Len(s) \in Nat
    BY <2>1
  <2> QED BY <1>1, <2>2, <2>3 DEF s
<1>5. deferred' \in Seq(Undoings)
  <2>1. Deferred(h) \in Seq(Undoings)
    <3>1. <<>> \in Seq(Undoings) /\ <<"cook">> \in Seq(Undoings) /\ <<"unscreen">> \in Seq(Undoings) /\ <<"close">> \in Seq(Undoings)
      BY DEF Undoings
    <3> HIDE DEF h
    <3>2. Deferred(h) \in {<<>>, <<"cook">>, <<"unscreen">>, <<"close">>}
      BY DEF Deferred
    <3> QED BY <3>1, <3>2
  <2> QED BY <1>1, <1>3, <2>1, Concatenated, Zenon
<1> HIDE DEF h
<1>6. ASSUME NEW y, Planned(y)' PROVE Planned(y)
  <2>1. CASE y \in done
    BY <2>1 DEF Planned
  <2>2. CASE y = h
    <3>1. 1 \in 1..Len(todo)
      BY <1>1, <1>3
    <3> QED BY <1>4, <2>2, <3>1 DEF Planned
  <2>3. CASE \E i \in 1..Len(todo') : todo'[i] = y
    <3>1. PICK i \in 1..Len(todo') : todo'[i] = y
      BY <2>3
    <3>2. i + 1 \in 1..Len(todo) /\ todo[i + 1] = y
      BY <1>4, <3>1
    <3> QED BY <3>2 DEF Planned
  <2> QED BY <1>1, <1>6, <2>1, <2>2, <2>3 DEF Planned
<1>7. ASSUME NEW X, NEW y, Preceded(X, y) PROVE Preceded(X, y)'
  <2>1. ASSUME y \in done' PROVE X \cap done' # {}
    <3>1. CASE y \in done
      BY <1>1, <1>7, <3>1 DEF Preceded
    <3>2. CASE y = h
      <4>1. X \cap done # {}
        <5> SUFFICES ASSUME X \cap done = {} PROVE FALSE
          OBVIOUS
        <5>1. IsAfter(todo, X, y)
          BY <1>7, Zenon DEF Preceded
        <5>2. 1 \in 1..Len(todo) /\ todo[1] = y
          BY <1>1, <1>3, <1>4, <3>2
        <5> QED BY <5>1, <5>2 DEF IsAfter
      <4> QED BY <1>1, <4>1
    <3> QED BY <1>1, <2>1, <3>1, <3>2
  <2>2. ASSUME X \cap done' = {} PROVE IsAfter(todo', X, y)
    <3>1. X \cap done = {} /\ h \notin X
      BY <1>1, <2>2
    <3>2. IsAfter(todo, X, y)
      BY <1>7, <3>1, Zenon DEF Preceded
    <3> SUFFICES ASSUME NEW i \in 1..Len(todo'), todo'[i] = y PROVE \E j \in 1..(i - 1) : todo'[j] \in X
      BY DEF IsAfter
    <3>3. i + 1 \in 1..Len(todo) /\ todo[i + 1] = y
      BY <1>4
    <3>4. PICK j \in 1..((i + 1) - 1) : todo[j] \in X
      BY <3>2, <3>3 DEF IsAfter
    <3>5. j # 1
      BY <1>4, <3>1, <3>4
    <3>6. j - 1 \in 1..(i - 1) /\ j - 1 \in 1..Len(todo') /\ (j - 1) + 1 = j
      BY <3>4, <3>5
    <3>7. todo'[j - 1] = todo[j]
      BY <1>4, <3>6
    <3> QED BY <3>4, <3>6, <3>7
  <2> QED BY <2>1, <2>2, Zenon DEF Preceded
<1>8. Planned("probe")' => ~Refuses(line)' /\ (Needed(line)' => Preceded({"resolve", "select"}, "probe")')
  BY <1>2, <1>6, <1>7, Zenon DEF AskedInv
<1>9. Planned("guest")' =>
        /\ command'.settings = Resolve(line)'.settings
        /\ command'.name # <<"db">> => Preceded({"enabled"}, "guest")' /\ Preceded({"validate"}, "guest")'
        /\ command'.name = <<"db">> => Preceded({"database"}, "guest")'
  BY <1>2, <1>6, <1>7, Zenon DEF AskedInv
<1>10. "enabled" \in done' => EffectiveObservability(command'.settings).guest.enabled
  <2>1. CASE "enabled" \in done
    BY <1>2, <2>1, Zenon DEF AskedInv
  <2>2. CASE h = "enabled"
    BY <1>1, <1>2, <2>2, Zenon DEF Selected
  <2> QED BY <1>1, <2>1, <2>2
<1>11. "validate" \in done' => Validate(command'.settings)
  <2>1. CASE "validate" \in done
    BY <1>2, <2>1, Zenon DEF AskedInv
  <2>2. CASE h = "validate"
    BY <1>1, <1>2, <2>2, Zenon DEF Selected, ValidateWithInventory
  <2> QED BY <1>1, <2>1, <2>2
<1>12. "database" \in done' =>
         /\ EffectiveObservability(command'.settings).guest.transport = "ssh"
         /\ EffectiveObservability(command'.settings).guest.hosts # ""
  <2>1. CASE "database" \in done
    BY <1>2, <2>1, Zenon DEF AskedInv
  <2>2. CASE h = "database"
    <3>1. /\ EffectiveObservability(command.settings).guest.transport = "ssh"
          /\ EffectiveObservability(command.settings).guest.hosts # ""
      <4>1. Selected("database")
        BY <1>1, <2>2, Zenon
      <4> HIDE DEF h
      <4> QED BY <4>1, DatabaseSelected, Zenon
    <3>2. command' = command
      BY <1>2
    <3>3. EffectiveObservability(command'.settings).guest.transport = "ssh"
      BY <3>1, <3>2
    <3>4. EffectiveObservability(command'.settings).guest.hosts # ""
      BY <3>1, <3>2
    <3> QED BY <3>3, <3>4
  <2> QED BY <1>1, <2>1, <2>2
<1>13. phase' # "start"
  BY <1>2
<1> QED BY <1>2, <1>3, <1>4, <1>5, <1>8, <1>9, <1>10, <1>11, <1>12, <1>13, Zenon DEF AskedInv

\* What is only given up or undone plans nothing new.
LEMMA AskedLess ==
  ASSUME AskedInv, given' = given, command' = command, phase' = phase \/ phase' = "ended",
         todo' = todo \/ todo' = <<>>,
         done' = done \/ (phase # "start" /\ \E x \in Undoings : done' = done \cup {x}), deferred' \in Seq(Undoings)
  PROVE  AskedInv'
<1>1. line' = line
  BY DEF line
<1>2. \A y \in StageNames : y \in done' <=> y \in done
  <2>1. \A y \in StageNames : y \notin Undoings
    BY DEF StageNames, Undoings
  <2> QED BY <2>1
<1>3. /\ given \in CommandLines /\ todo' \in Seq(StageNames)
      /\ phase = "start" => todo = <<>> /\ done = {}
  <2>1. given \in CommandLines /\ todo \in Seq(StageNames) /\ (phase = "start" => todo = <<>> /\ done = {})
    BY Zenon DEF AskedInv
  <2>2. <<>> \in Seq(StageNames)
    OBVIOUS
  <2> QED BY <2>1, <2>2
<1>4. phase' = "start" => todo' = <<>> /\ done' = {}
  BY <1>3
<1>5. ASSUME NEW y \in StageNames, Planned(y)' PROVE Planned(y)
  <2>1. CASE todo' = todo
    BY <1>2, <1>5, <2>1 DEF Planned
  <2>2. CASE todo' = <<>>
    BY <1>2, <1>5, <2>2 DEF Planned
  <2> QED BY <2>1, <2>2
<1>6. ASSUME NEW X, NEW y \in StageNames, Preceded(X, y) PROVE Preceded(X, y)'
  <2>1. y \in done' => X \cap done' # {}
    BY <1>2, <1>6 DEF Preceded
  <2>2. X \cap done' = {} => X \cap done = {}
    OBVIOUS
  <2>3. IsAfter(todo, X, y) => IsAfter(todo', X, y)
    BY DEF IsAfter
  <2> QED BY <1>6, <2>1, <2>2, <2>3, Zenon DEF Preceded
<1>7. "probe" \in StageNames /\ "guest" \in StageNames /\ "enabled" \in StageNames /\ "validate" \in StageNames
        /\ "database" \in StageNames
  BY DEF StageNames
<1>8. Planned("probe")' => ~Refuses(line)' /\ (Needed(line)' => Preceded({"resolve", "select"}, "probe")')
  BY <1>1, <1>5, <1>6, <1>7, Zenon DEF AskedInv
<1>9. Planned("guest")' =>
        /\ command'.settings = Resolve(line)'.settings
        /\ command'.name # <<"db">> => Preceded({"enabled"}, "guest")' /\ Preceded({"validate"}, "guest")'
        /\ command'.name = <<"db">> => Preceded({"database"}, "guest")'
  BY <1>1, <1>5, <1>6, <1>7, Zenon DEF AskedInv
<1>10. /\ "enabled" \in done' => EffectiveObservability(command'.settings).guest.enabled
       /\ "validate" \in done' => Validate(command'.settings)
       /\ "database" \in done' =>
            /\ EffectiveObservability(command'.settings).guest.transport = "ssh"
            /\ EffectiveObservability(command'.settings).guest.hosts # ""
  BY <1>2, <1>7, Zenon DEF AskedInv
<1> QED BY <1>3, <1>4, <1>8, <1>9, <1>10, Zenon DEF AskedInv

\* Every step of a run keeps it.
LEMMA AskedStep ==
  ASSUME AskedInv, Run \/ Perform \/ Fail \/ (\E works \in BOOLEAN : Undo(works)) \/ End \/ UNCHANGED vars
  PROVE  AskedInv'
<1>0. deferred \in Seq(Undoings) /\ <<>> \in Seq(Undoings)
  <2>1. <<>> \in Seq(Undoings)
    OBVIOUS
  <2> QED BY <2>1, Zenon DEF AskedInv
<1>1. CASE Run
  BY <1>1, AskedRun, Zenon
<1>2. CASE Perform
  BY <1>2, AskedPerform, Zenon
<1>3. CASE Fail
  <2>1. given' = given /\ command' = command /\ phase' = phase /\ todo' = <<>> /\ done' = done
    BY <1>3 DEF Fail
  <2>2. deferred' = <<>> \/ deferred' = deferred
    BY <1>3, Zenon DEF Fail
  <2> QED BY <1>0, <2>1, <2>2, AskedLess, Zenon
<1>4. ASSUME NEW works \in BOOLEAN, Undo(works) PROVE AskedInv'
  <2>1. /\ phase = "run" /\ deferred # <<>> /\ deferred' = Tail(deferred)
        /\ done' = (IF works THEN done \cup {Head(deferred)} ELSE done)
        /\ UNCHANGED <<given, command, phase, todo>>
    BY <1>4, Zenon DEF Undo
  <2>2. Head(deferred) \in Undoings /\ Tail(deferred) \in Seq(Undoings)
    <3> DEFINE s == deferred
    <3> HIDE DEF s
    <3>1. s \in Seq(Undoings) /\ s # <<>>
      BY <1>0, <2>1 DEF s
    <3>2. Head(s) \in Undoings /\ Tail(s) \in Seq(Undoings)
      BY <3>1, HeadTailProperties
    <3> QED BY <3>2 DEF s
  <2>3. done' = done \/ \E x \in Undoings : done' = done \cup {x}
    BY <2>1, <2>2, Zenon
  <2>4. given' = given /\ command' = command /\ phase' = phase /\ todo' = todo /\ phase # "start"
    BY <2>1
  <2>5. deferred' \in Seq(Undoings)
    BY <2>1, <2>2, Zenon
  <2> QED BY <2>3, <2>4, <2>5, AskedLess, Zenon
<1>5. CASE End
  <2>1. given' = given /\ command' = command /\ phase' = "ended" /\ todo' = todo /\ done' = done /\ deferred' = deferred
    BY <1>5 DEF End
  <2> QED BY <1>0, <2>1, AskedLess, Zenon
<1>6. CASE UNCHANGED vars
  <2>1. given' = given /\ command' = command /\ phase' = phase /\ todo' = todo /\ done' = done /\ deferred' = deferred
    BY <1>6 DEF vars
  <2> QED BY <1>0, <2>1, AskedLess, Zenon
<1> QED BY <1>1, <1>2, <1>3, <1>4, <1>5, <1>6, Zenon

\* So are the defaults.
LEMMA DevelopmentTyped == SettingsTyped(DevelopmentDefaults)
<1>1. /\ DevelopmentDefaults.observability = FALSE /\ DevelopmentDefaults.guest = NoGuest
  BY DEF DevelopmentDefaults
<1>2. NoGuest.enabled = FALSE
  BY DEF NoGuest
<1>3. DevelopmentDefaults.observability \in BOOLEAN /\ NoGuest.enabled \in BOOLEAN
  BY <1>1, <1>2
<1> QED BY <1>1, <1>3, Zenon DEF SettingsTyped

\* The settings in force are of their type.
LEMMA SettingsInForce ==
  ASSUME NEW a
  PROVE  SettingsTyped(Resolve(a).settings)
<1> DEFINE flag == extractConfigFlag(a)
           paths == FirstNonEmpty(<<flag.path, EnvironmentPath, InstalledDefaultPath>>)
           file == IF paths = <<>> THEN [ok |-> TRUE, settings |-> DevelopmentDefaults] ELSE Load(paths[1])
<1>1. SettingsTyped(DevelopmentDefaults)
  BY DevelopmentTyped, Zenon
<1>2. \A path : SettingsTyped(Load(path).settings)
  <2> TAKE path
  <2>1. Load(path).settings = IF path \in DOMAIN Files THEN Files[path].settings ELSE DevelopmentDefaults
    BY DEF Load
  <2> QED BY <1>1, <2>1, SettingsAssumption, Zenon
<1>3. Resolve(a).settings = file.settings
  <2>1. Resolve(a) = [ok |-> flag.ok /\ file.ok, args |-> flag.args, settings |-> file.settings]
    BY Zenon DEF Resolve
  <2> HIDE DEF flag, file
  <2> QED BY <2>1
<1>4. SettingsTyped(file.settings)
  <2>1. CASE paths = <<>>
    <3>1. file = [ok |-> TRUE, settings |-> DevelopmentDefaults]
      BY <2>1, Zenon
    <3> HIDE DEF file
    <3>2. file.settings = DevelopmentDefaults
      BY <3>1
    <3> QED BY <1>1, <3>2, Zenon
  <2>2. CASE paths # <<>>
    <3>1. file = Load(paths[1])
      BY <2>2, Zenon
    <3> QED BY <1>2, <3>1, Zenon
  <2> QED BY <2>1, <2>2
<1> QED BY <1>3, <1>4, Zenon

\* What a guest was configured to be, if it is more than nothing.
LEMMA ConfiguredGuest ==
  ASSUME NEW settings, SettingsTyped(settings),
         EffectiveObservability(settings).guest.enabled \/ EffectiveObservability(settings).guest.transport = "ssh"
  PROVE  settings.observability /\ EffectiveObservability(settings) = settings
<1>1. CASE settings.observability
  BY <1>1, Zenon DEF EffectiveObservability
<1>2. CASE ~settings.observability
  <2>1. EffectiveObservability(settings) = [settings EXCEPT !.host = NoHost, !.guest = NoGuest, !.services = <<>>, !.databases = <<>>]
    BY <1>2, Zenon DEF EffectiveObservability
  <2>2. "guest" \in DOMAIN settings
    BY DEF SettingsTyped, DevelopmentDefaults
  <2>3. EffectiveObservability(settings).guest = NoGuest
    BY <2>1, <2>2
  <2>4. ~NoGuest.enabled /\ NoGuest.transport # "ssh"
    BY DEF NoGuest
  <2> QED BY <2>3, <2>4
<1> QED BY <1>1, <1>2

\* Probes and guests are only what was asked for.
LEMMA AskedSafe == AskedInv => ProbesAreAskedFor
<1> SUFFICES ASSUME AskedInv PROVE ProbesAreAskedFor
  OBVIOUS
<1>1. line \in Seq(Tokens) /\ Len(line) \in Nat /\ DOMAIN line = 1..Len(line)
  <2>1. line \in Seq(Tokens)
    BY LineTyped, Zenon DEF AskedInv
  <2> QED BY <2>1
<1>2. ASSUME "probe" \in done
      PROVE  /\ OptionEquals("--include-ebpf-latency", "false") \notin ToSet(line)
             /\ Verb(line) \in {"investigate", "bundle"} \/ NamesVictim => {"resolve", "select"} \cap done # {}
  <2>1. ~Refuses(line) /\ (Needed(line) => Preceded({"resolve", "select"}, "probe"))
    BY <1>2, Zenon DEF AskedInv, Planned
  <2>2. OptionEquals("--include-ebpf-latency", "false") \notin ToSet(line)
    <3> DEFINE s == line
    <3> HIDE DEF s
    <3>1. DOMAIN s = 1..Len(s) /\ ~Refuses(s)
      BY <1>1, <2>1 DEF s
    <3>2. NoProbe \notin ToSet(s)
      BY <3>1 DEF Refuses, ToSet
    <3> QED BY <3>2, Zenon DEF NoProbe, s
  <2>3. NamesVictim => NamesOne(line)
    BY Zenon DEF NamesVictim, NamesOne
  <2> QED BY <1>2, <2>1, <2>2, <2>3, Zenon DEF Needed, Preceded
<1>3. ASSUME "guest" \in done
      PROVE  \A inForce \in {Resolve(line).settings} :
               /\ inForce.observability /\ inForce.guest.transport = "ssh" /\ inForce.guest.hosts # ""
               /\ command.name # <<"db">> => inForce.guest.enabled
  <2> DEFINE settings == Resolve(line).settings
  <2>1. /\ command.settings = settings
        /\ command.name # <<"db">> => Preceded({"enabled"}, "guest") /\ Preceded({"validate"}, "guest")
        /\ command.name = <<"db">> => Preceded({"database"}, "guest")
    BY <1>3, Zenon DEF AskedInv, Planned
  <2>2. SettingsTyped(settings)
    BY SettingsInForce, Zenon
  <2> HIDE DEF settings
  <2>3. CASE command.name # <<"db">>
    <3>1. "enabled" \in done /\ "validate" \in done
      <4>1. {"enabled"} \cap done # {} /\ {"validate"} \cap done # {}
        BY <1>3, <2>1, <2>3, Zenon DEF Preceded
      <4> QED BY <4>1
    <3>2. EffectiveObservability(settings).guest.enabled /\ Validate(settings)
      BY <2>1, <3>1, Zenon DEF AskedInv
    <3>3. settings.observability /\ EffectiveObservability(settings) = settings
      BY <2>2, <3>2, ConfiguredGuest, Zenon
    <3>4. settings.guest.enabled
      BY <3>2, <3>3, Zenon
    <3>5. validateGuestObservability(settings.guest)
      BY <3>2, <3>3, Zenon DEF Validate
    <3>6. settings.guest.transport = "ssh" /\ settings.guest.hosts # ""
      BY <3>4, <3>5, Zenon DEF validateGuestObservability
    <3> QED BY <3>3, <3>4, <3>6, Zenon DEF settings
  <2>4. CASE command.name = <<"db">>
    <3>1. "database" \in done
      <4>1. {"database"} \cap done # {}
        BY <1>3, <2>1, <2>4, Zenon DEF Preceded
      <4> QED BY <4>1
    <3>2. EffectiveObservability(settings).guest.transport = "ssh" /\ EffectiveObservability(settings).guest.hosts # ""
      BY <2>1, <3>1, Zenon DEF AskedInv
    <3>3. settings.observability /\ EffectiveObservability(settings) = settings
      BY <2>2, <3>2, ConfiguredGuest, Zenon
    <3>4. settings.observability /\ settings.guest.transport = "ssh" /\ settings.guest.hosts # ""
      BY <3>2, <3>3, Zenon
    <3>5. command.name # <<"db">> => settings.guest.enabled
      BY <2>4, Zenon
    <3>6. settings = Resolve(line).settings
      BY Zenon DEF settings
    <3>7. TAKE inForce \in {Resolve(line).settings}
    <3>8. inForce = settings
      BY <3>6
    <3> QED BY <3>4, <3>5, <3>8
  <2> QED BY <2>3, <2>4
<1> QED BY <1>2, <1>3, Zenon DEF ProbesAreAskedFor

\* The stages that lead to a probe or a guest stay planned in every run.
LEMMA AskedInvariance == SessionSpec => []AskedInv
<1>1. SessionInit => AskedInv
  BY AskedInit, Zenon DEF SessionInit
<1>2. AskedInv /\ [SessionNext]_sessionVars => AskedInv'
  <2> SUFFICES ASSUME AskedInv, [SessionNext]_sessionVars PROVE AskedInv'
    OBVIOUS
  <2>1. CASE Starts
    BY <2>1, AskedStep, Zenon DEF Starts
  <2>2. CASE Performs
    BY <2>2, AskedStep, Zenon DEF Performs
  <2>3. CASE Fails
    BY <2>3, AskedStep, Zenon DEF Fails
  <2>4. CASE Ends
    <3>1. Ended => UNCHANGED vars
      BY Zenon DEF Ended
    <3> QED
      BY <2>4, <3>1, AskedStep, Zenon DEF Ends
  <2>5. CASE Shows
    <3>1. UNCHANGED vars
      BY <2>5 DEF Shows
    <3> QED
      BY <3>1, AskedStep, Zenon
  <2>6. CASE Traces
    <3>1. UNCHANGED vars
      BY <2>6 DEF Traces
    <3> QED
      BY <3>1, AskedStep, Zenon
  <2>7. CASE UNCHANGED sessionVars
    <3>1. UNCHANGED vars
      BY <2>7 DEF sessionVars
    <3> QED
      BY <3>1, AskedStep, Zenon
  <2> QED
    BY <2>1, <2>2, <2>3, <2>4, <2>5, <2>6, <2>7, Zenon DEF SessionNext
<1> QED
  BY <1>1, <1>2, PTL DEF SessionSpec

\* Nothing is probed that the command line does not ask for, and no guest is
\* asked under settings that do not provide for it: whatever the order of the
\* options, for any command line that the parsers accept (expandOperatorCommand,
\* parseOptions and the order of the calls in the commands of cli.go).
THEOREM ProbesOnlyAsAsked == SessionSpec => []ProbesAreAskedFor
BY AskedInvariance, AskedSafe, PTL
-----------------------------------------------------------------------------
\* Induction over the sequences of a set, with a set for the predicate.
LEMMA AppendInduction ==
  ASSUME NEW T, NEW S, <<>> \in S, \A s \in Seq(T) : \A e \in T : s \in S => s \o <<e>> \in S
  PROVE  \A s \in Seq(T) : s \in S
<1> DEFINE L == {n \in Nat : \A s \in Seq(T) : Len(s) = n => s \in S}
<1>1. 0 \in L
  <2>1. \A s \in Seq(T) : Len(s) = 0 => s = <<>>
    BY EmptySeq
  <2> QED BY <2>1
<1>2. \A n \in Nat : n \in L => n + 1 \in L
  <2> SUFFICES ASSUME NEW n \in Nat, n \in L, NEW s \in Seq(T), Len(s) = n + 1 PROVE s \in S
    <3>1. \A n \in Nat : n + 1 \in Nat
      OBVIOUS
    <3> QED BY <3>1, Zenon
  <2>1. s # <<>>
    BY EmptySeq
  <2>2. PICK p \in Seq(T), e \in T : s = Append(p, e)
    BY <2>1, SequenceEmptyOrAppend, Zenon
  <2>3. s = p \o <<e>> /\ Len(p) + 1 = Len(s) /\ Len(p) \in Nat
    BY <2>2, AppendIsConcat, AppendProperties, LenProperties
  <2>4. Len(p) = n
    BY <2>3
  <2>5. p \in S
    BY <2>4
  <2> HIDE DEF L
  <2> QED BY <2>3, <2>5
<1>3. \A n \in Nat : n \in L
  <2> HIDE DEF L
  <2> QED BY <1>1, <1>2, SetInduction, Zenon
<1>4. \A s \in Seq(T) : Len(s) \in Nat
  BY LenProperties
<1> QED BY <1>3, <1>4, Zenon

\* The states of a parser that reads some arguments in a state it is in.
ReadsFrom(T, g, s, args, a) ==
  /\ a \in [0..Len(args) -> ParserStates(T)]
  /\ a[0] = s
  /\ \A i \in 1..Len(args) : a[i] = parseArgument(g, a[i - 1], args[i])

After(T, g, s, args) == (CHOOSE a : ReadsFrom(T, g, s, args, a))[Len(args)]

\* There are such states.
LEMMA CanRead ==
  ASSUME NEW T, NEW g, NEW s \in ParserStates(T), NEW args \in Seq(T)
  PROVE  \E a : ReadsFrom(T, g, s, args, a)
<1> DEFINE n == Len(args)
           rule == [p \in (1..n) \X ParserStates(T) |-> parseArgument(g, p[2], args[p[1]])]
<1>1. n \in Nat /\ \A i \in 1..n : args[i] \in T
  OBVIOUS
<1>3. rule \in [(1..n) \X ParserStates(T) -> ParserStates(T)]
  <2>1. \A p \in (1..n) \X ParserStates(T) : parseArgument(g, p[2], args[p[1]]) \in ParserStates(T)
    <3> TAKE p \in (1..n) \X ParserStates(T)
    <3>1. p[2] \in ParserStates(T) /\ args[p[1]] \in T
      BY <1>1
    <3> QED BY <3>1, ArgumentTyped
  <2> HIDE DEF n
  <2> QED BY <2>1
<1>4. PICK a \in [0..n -> ParserStates(T)] : Follows(a, n, s, rule)
  <2> HIDE DEF rule, n
  <2> QED BY <1>1, <1>3, IntervalRecursion, Zenon
<1>5. \A i \in 1..n : a[i] = parseArgument(g, a[i - 1], args[i])
  <2> HIDE DEF n
  <2> TAKE i \in 1..n
  <2>1. <<i, a[i - 1]>> \in (1..n) \X ParserStates(T)
    <3>1. i - 1 \in 0..n
      BY <1>1
    <3> QED BY <3>1
  <2>2. rule[<<i, a[i - 1]>>] = parseArgument(g, a[i - 1], args[i])
    BY <2>1
  <2> HIDE DEF rule
  <2> QED BY <1>4, <2>2 DEF Follows
<1>6. a[0] = s
  BY <1>4, Zenon DEF Follows
<1> QED BY <1>4, <1>5, <1>6, Zenon DEF ReadsFrom

\* They are determined by the first.
LEMMA ReadsAlike ==
  ASSUME NEW T, NEW g, NEW s, NEW args \in Seq(T), NEW a, NEW b,
         ReadsFrom(T, g, s, args, a), ReadsFrom(T, g, s, args, b)
  PROVE  a[Len(args)] = b[Len(args)]
<1> DEFINE n == Len(args)
           Same == {i \in Nat : i <= n => a[i] = b[i]}
<1>0. n \in Nat
  OBVIOUS
<1> HIDE DEF n
<1>1. 0 \in Same
  BY DEF ReadsFrom
<1>2. \A i \in Nat : i \in Same => i + 1 \in Same
  <2> SUFFICES ASSUME NEW i \in Nat, i \in Same, i + 1 <= n PROVE a[i + 1] = b[i + 1]
    OBVIOUS
  <2>1. i + 1 \in 1..n /\ (i + 1) - 1 = i /\ a[i] = b[i]
    BY <1>0
  <2> QED BY <2>1 DEF ReadsFrom, n
<1>3. n \in Same
  <2> HIDE DEF Same
  <2> QED BY <1>0, <1>1, <1>2, SetInduction
<1> QED BY <1>0, <1>3 DEF n

\* The state after one argument more, and after none.
LEMMA AfterIs ==
  ASSUME NEW T, NEW g, NEW s \in ParserStates(T), NEW args \in Seq(T), NEW a, ReadsFrom(T, g, s, args, a)
  PROVE  After(T, g, s, args) = a[Len(args)]
<1> DEFINE b == CHOOSE b : ReadsFrom(T, g, s, args, b)
<1>1. ReadsFrom(T, g, s, args, b)
  BY Zenon
<1>2. After(T, g, s, args) = b[Len(args)]
  BY Zenon DEF After
<1> HIDE DEF b
<1>3. b[Len(args)] = a[Len(args)]
  <2>1. ReadsFrom(T, g, s, args, a)
    OBVIOUS
  <2> QED BY <1>1, <2>1, ReadsAlike, SMT
<1> QED BY <1>2, <1>3

\* A parser that has read nothing is where it was.
LEMMA AfterNone ==
  ASSUME NEW T, NEW g, NEW s \in ParserStates(T)
  PROVE  After(T, g, s, <<>>) = s
<1>1. <<>> \in Seq(T) /\ Len(<<>>) = 0
  OBVIOUS
<1>2. ReadsFrom(T, g, s, <<>>, [i \in 0..0 |-> s])
  <2>1. [i \in 0..0 |-> s] \in [0..0 -> ParserStates(T)] /\ [i \in 0..0 |-> s][0] = s /\ \A i : i \notin 1..0
    OBVIOUS
  <2> QED BY <1>1, <2>1, Zenon DEF ReadsFrom
<1>3. After(T, g, s, <<>>) = [i \in 0..0 |-> s][Len(<<>>)]
  BY <1>1, <1>2, AfterIs, Zenon
<1> QED BY <1>1, <1>3

\* One argument more.
LEMMA AfterMore ==
  ASSUME NEW T, NEW g, NEW s \in ParserStates(T), NEW args \in Seq(T), NEW t \in T
  PROVE  /\ After(T, g, s, args) \in ParserStates(T)
         /\ After(T, g, s, args \o <<t>>) = parseArgument(g, After(T, g, s, args), t)
<1> DEFINE n == Len(args)
           more == args \o <<t>>
<1>1. PICK a : ReadsFrom(T, g, s, args, a)
  BY CanRead, Zenon
<1>2. After(T, g, s, args) = a[n]
  BY <1>1, AfterIs, Zenon
<1>3. n \in Nat /\ more \in Seq(T) /\ Len(more) = n + 1 /\ more[n + 1] = t /\ \A i \in 1..n : more[i] = args[i]
  OBVIOUS
<1> HIDE DEF n, more
<1>4. a \in [0..n -> ParserStates(T)] /\ a[0] = s /\ \A i \in 1..n : a[i] = parseArgument(g, a[i - 1], args[i])
  BY <1>1, Zenon DEF ReadsFrom, n
<1>5. a[n] \in ParserStates(T)
  BY <1>3, <1>4
<1>6. parseArgument(g, a[n], t) \in ParserStates(T)
  BY <1>5, ArgumentTyped, Zenon
<1> DEFINE b == [i \in 0..(n + 1) |-> IF i <= n THEN a[i] ELSE parseArgument(g, a[n], t)]
<1>7. /\ b \in [0..(n + 1) -> ParserStates(T)] /\ b[n + 1] = parseArgument(g, a[n], t)
      /\ \A i \in 0..n : b[i] = a[i]
  BY <1>3, <1>4, <1>6
<1> HIDE DEF b
<1>8. ReadsFrom(T, g, s, more, b)
  <2>1. b[0] = s
    BY <1>3, <1>4, <1>7
  <2>2. \A i \in 1..(n + 1) : b[i] = parseArgument(g, b[i - 1], more[i])
    <3> TAKE i \in 1..(n + 1)
    <3>1. CASE i \in 1..n
      <4>1. i \in 0..n /\ i - 1 \in 0..n
        BY <1>3, <3>1
      <4> QED BY <1>3, <1>4, <1>7, <3>1, <4>1
    <3>2. CASE i = n + 1
      <4>1. i - 1 = n /\ n \in 0..n
        BY <1>3, <3>2
      <4> QED BY <1>3, <1>7, <3>2, <4>1
    <3> QED BY <1>3, <3>1, <3>2
  <2> QED BY <1>3, <1>7, <2>1, <2>2, Zenon DEF ReadsFrom
<1>9. After(T, g, s, more) = b[n + 1]
  <2>1. After(T, g, s, more) = b[Len(more)]
    BY <1>3, <1>8, AfterIs, Zenon
  <2> QED BY <1>3, <2>1
<1> QED BY <1>2, <1>5, <1>7, <1>9 DEF more

\* One argument.
LEMMA AfterOne ==
  ASSUME NEW T, NEW g, NEW s \in ParserStates(T), NEW t \in T
  PROVE  After(T, g, s, <<t>>) = parseArgument(g, s, t)
<1>1. <<>> \in Seq(T) /\ <<>> \o <<t>> = <<t>>
  OBVIOUS
<1>2. After(T, g, s, <<>> \o <<t>>) = parseArgument(g, After(T, g, s, <<>>), t)
  BY <1>1, AfterMore, Zenon
<1>3. After(T, g, s, <<>>) = s
  BY AfterNone, Zenon
<1> QED BY <1>1, <1>2, <1>3

\* What was read stays typed, and what was refused stays refused.
LEMMA AfterTyped ==
  ASSUME NEW T, NEW g, NEW s \in ParserStates(T), NEW args \in Seq(T)
  PROVE  /\ After(T, g, s, args) \in ParserStates(T)
         /\ After(T, g, s, args).ok => s.ok
<1> DEFINE R == {x \in Seq(T) : After(T, g, s, x) \in ParserStates(T) /\ (After(T, g, s, x).ok => s.ok)}
<1>1. <<>> \in R
  BY AfterNone, EmptySeq
<1>2. \A x \in Seq(T) : \A t \in T : x \in R => x \o <<t>> \in R
  <2> SUFFICES ASSUME NEW x \in Seq(T), NEW t \in T, x \in R PROVE x \o <<t>> \in R
    OBVIOUS
  <2> DEFINE u == After(T, g, s, x)
             v == After(T, g, s, x \o <<t>>)
  <2>1. x \o <<t>> \in Seq(T)
    OBVIOUS
  <2>2. u \in ParserStates(T) /\ v = parseArgument(g, u, t) /\ (u.ok => s.ok)
    BY AfterMore
  <2> HIDE DEF u, v
  <2>3. v \in ParserStates(T) /\ (v.ok => s.ok)
    BY <2>2, ArgumentTyped, OnceRefused
  <2> QED BY <2>1, <2>3 DEF v
<1>3. \A x \in Seq(T) : x \in R
  <2> HIDE DEF R
  <2> QED BY <1>1, <1>2, AppendInduction, Zenon
<1> QED BY <1>3, Zenon

\* Some arguments and then others.
LEMMA AfterBoth ==
  ASSUME NEW T, NEW g, NEW s \in ParserStates(T), NEW p \in Seq(T), NEW q \in Seq(T)
  PROVE  After(T, g, s, p \o q) = After(T, g, After(T, g, s, p), q)
<1> DEFINE m == After(T, g, s, p)
           R == {x \in Seq(T) : After(T, g, s, p \o x) = After(T, g, m, x)}
<1>0. m \in ParserStates(T)
  BY AfterTyped, Zenon
<1> HIDE DEF m
<1>1. <<>> \in R
  BY <1>0, AfterNone, ConcatEmptySeq, EmptySeq DEF m
<1>2. \A x \in Seq(T) : \A t \in T : x \in R => x \o <<t>> \in R
  <2> SUFFICES ASSUME NEW x \in Seq(T), NEW t \in T, x \in R PROVE x \o <<t>> \in R
    OBVIOUS
  <2>1. x \o <<t>> \in Seq(T) /\ p \o x \in Seq(T) /\ <<t>> \in Seq(T)
    OBVIOUS
  <2>2. p \o (x \o <<t>>) = (p \o x) \o <<t>>
    BY <2>1, ConcatAssociative
  <2>3. After(T, g, s, p \o (x \o <<t>>)) = parseArgument(g, After(T, g, s, p \o x), t)
    <3>1. After(T, g, s, (p \o x) \o <<t>>) = parseArgument(g, After(T, g, s, p \o x), t)
      BY <2>1, AfterMore, Zenon
    <3> QED BY <2>2, <3>1
  <2>4. After(T, g, m, x \o <<t>>) = parseArgument(g, After(T, g, m, x), t)
    BY <1>0, AfterMore, Zenon
  <2>5. After(T, g, s, p \o x) = After(T, g, m, x)
    OBVIOUS
  <2> QED BY <2>1, <2>3, <2>4, <2>5, Zenon
<1>3. \A x \in Seq(T) : x \in R
  <2> HIDE DEF R
  <2> QED BY <1>1, <1>2, AppendInduction, Zenon
<1> QED BY <1>3, Zenon DEF m

\* What a parser says of its arguments.
Completed(e) == IF e.ok /\ e.pending = "" THEN e ELSE Refused

\* A parse is the state after all arguments, if no value is missing.
LEMMA ParseIs ==
  ASSUME NEW T, NEW g, NEW args \in Seq(T)
  PROVE  parseOptions(g, args) = Completed(After(T, g, Nothing, args))
<1>1. PICK a : /\ Reads(T, g, args, a)
               /\ parseOptions(g, args)
                     = IF a[Len(args)].ok /\ a[Len(args)].pending = "" THEN a[Len(args)] ELSE Refused
  BY ParseUnfolded, Zenon
<1>2. ReadsFrom(T, g, Nothing, args, a)
  BY <1>1, Zenon DEF Reads, ReadsFrom
<1>3. After(T, g, Nothing, args) = a[Len(args)]
  BY <1>2, NothingIs, AfterIs, Zenon
<1> QED BY <1>1, <1>3, Zenon DEF Completed
-----------------------------------------------------------------------------
(* Groups of arguments: an option alone, or an option and its value.       *)
IsGroup(T, x) ==
  /\ x \in Seq(T) /\ ~IsWord(x[1])
  /\ Len(x) = 1 \/ (Len(x) = 2 /\ x[1].form = "bare" /\ IsWord(x[2]) /\ x[2].text # "")

\* The options of a parser are not the empty name, and are of one kind.
Proper(g) == "" \notin g.booleans \cup Valued(g) /\ g.booleans \cap Valued(g) = {}

\* A parser can take a group, and has not taken one of this option.
Takes(g, x) ==
  \/ Len(x) = 1 /\ x[1].option \in g.booleans /\ x[1].form # "bad"
  \/ Len(x) = 2 /\ x[1].option \in Valued(g) /\ AcceptsValue(g, x[1].option, x[2])
Fresh(g, s, x) == IF Len(x) = 1 THEN x[1].option \notin s.seen ELSE ~Repeated(g, s, x[1].option)
Good(g, s, x) == Takes(g, x) /\ Fresh(g, s, x)

With(s, x) ==
  IF Len(x) = 1
  THEN [s EXCEPT !.seen = @ \cup {x[1].option},
                 !.on = IF x[1].form \in {"bare", "true"} THEN @ \cup {x[1].option} ELSE @]
  ELSE [s EXCEPT !.seen = @ \cup {x[1].option},
                 !.value = [o \in DOMAIN @ \cup {x[1].option} |-> IF o = x[1].option THEN x[2] ELSE @[o]]]

\* A parser between two options, and one that has failed if no word follows.
Ready(g, s) == s.ok /\ s.pending = "" /\ s.seen \subseteq g.booleans \cup DOMAIN s.value
Failed(e) == ~(e.ok /\ e.pending = "")

\* A group is its tokens.
LEMMA GroupIs ==
  ASSUME NEW T, NEW x, IsGroup(T, x)
  PROVE  /\ x \in Seq(T) /\ Len(x) \in {1, 2} /\ x # <<>> /\ x[1] \in T /\ x[1].option # ""
         /\ Len(x) = 1 => x = <<x[1]>>
         /\ Len(x) = 2 => x = <<x[1]>> \o <<x[2]>> /\ x[2] \in T /\ x[2].option = "" /\ x[2].text # "" /\ x[1].form = "bare"
<1>1. x \in Seq(T) /\ Len(x) \in {1, 2} /\ x[1].option # ""
  BY Zenon DEF IsGroup, IsWord
<1>2. x # <<>> /\ x[1] \in T
  <2> DEFINE n == Len(x)
  <2> HIDE DEF n
  <2>0. n \in {1, 2}
    BY <1>1, Zenon DEF n
  <2>1. 1 \in 1..n /\ n # 0
    BY <2>0
  <2>2. x[1] \in T
    BY <1>1, <2>1, ElementOfSeq, Zenon DEF n
  <2>3. Len(x) # 0
    BY <2>1, Zenon DEF n
  <2> QED BY <2>2, <2>3, EmptySeq
<1>3. Len(x) = 1 => x = <<x[1]>>
  <2> DEFINE y == <<x[1]>>
  <2>1. y \in Seq(T) /\ Len(y) = 1 /\ y[1] = x[1]
    BY <1>2
  <2> HIDE DEF y
  <2>2. ASSUME Len(x) = 1 PROVE x = y
    <3>1. \A i \in 1..Len(x) : x[i] = y[i]
      BY <2>1, <2>2
    <3> QED BY <1>1, <2>1, <2>2, <3>1, SeqEqual, Zenon
  <2> QED BY <2>2 DEF y
<1>4. ASSUME Len(x) = 2 PROVE x = <<x[1]>> \o <<x[2]>> /\ x[2] \in T
  <2> DEFINE y == <<x[1]>> \o <<x[2]>>
  <2>1. x[2] \in T
    <3>1. 2 \in 1..Len(x)
      BY <1>4
    <3> QED BY <1>1, <3>1, ElementOfSeq, Zenon
  <2>2. y \in Seq(T) /\ Len(y) = 2 /\ y[1] = x[1] /\ y[2] = x[2]
    BY <1>2, <2>1
  <2> HIDE DEF y
  <2>3. \A i \in 1..Len(x) : x[i] = y[i]
    BY <1>4, <2>2
  <2>4. x = y
    BY <1>1, <1>4, <2>2, <2>3, SeqEqual, Zenon
  <2> QED BY <2>1, <2>4 DEF y
<1>5. Len(x) = 2 => x[2].option = "" /\ x[2].text # "" /\ x[1].form = "bare"
  <2>1. Len(x) = 2 => Len(x) # 1
    OBVIOUS
  <2> QED BY <2>1, Zenon DEF IsGroup, IsWord
<1> QED BY <1>1, <1>2, <1>3, <1>4, <1>5, Zenon

\* What a parser makes of a group.
LEMMA GroupRead ==
  ASSUME NEW T, NEW g, Proper(g), NEW s \in ParserStates(T), Ready(g, s), NEW x, IsGroup(T, x)
  PROVE  /\ Good(g, s, x) => After(T, g, s, x) = With(s, x)
         /\ ~Good(g, s, x) => Failed(After(T, g, s, x))
<1> DEFINE t == x[1]
           u == parseArgument(g, s, t)
<1>1. /\ x \in Seq(T) /\ Len(x) \in {1, 2} /\ t \in T /\ t.option # ""
      /\ Len(x) = 1 => x = <<t>>
      /\ Len(x) = 2 => x = <<t>> \o <<x[2]>> /\ x[2] \in T /\ x[2].option = "" /\ x[2].text # "" /\ t.form = "bare"
  BY GroupIs, Zenon
<1>2. s.ok /\ s.pending = ""
  BY DEF Ready
<1>3. u \in ParserStates(T)
  BY <1>1, ArgumentTyped, Zenon
<1>4. ~u.ok \/ TakesBoolean(g, s, t, u) \/ TakesName(g, s, t, u)
  <2>1. \/ ~u.ok /\ (u = s \/ u = Refused)
        \/ s.ok /\ (TakesValue(g, s, t, u) \/ TakesBoolean(g, s, t, u) \/ TakesName(g, s, t, u))
    BY <1>1, ArgumentCases, Zenon
  <2> HIDE DEF u, t
  <2> QED BY <1>2, <2>1, Zenon DEF TakesValue
<1>5. CASE Len(x) = 1
  <2>1. After(T, g, s, x) = u
    <3>1. After(T, g, s, <<t>>) = u
      BY <1>1, AfterOne, Zenon
    <3> QED BY <1>1, <1>5, <3>1, Zenon
  <2>2. CASE Good(g, s, x)
    <3>1. t.option \in g.booleans /\ t.form # "bad" /\ t.option \notin s.seen
      BY <1>5, <2>2 DEF Good, Takes, Fresh
    <3>2. u = setKnownBooleanOption(s, t)
      BY <1>2, <3>1 DEF parseArgument
    <3>3. u = [s EXCEPT !.seen = @ \cup {t.option},
                        !.on = IF t.form \in {"bare", "true"} THEN @ \cup {t.option} ELSE @]
      <4> HIDE DEF u, t
      <4>1. booleanFlag(t, t.option).ok <=> t.form # "bad"
        BY DEF booleanFlag
      <4>2. booleanFlag(t, t.option).value <=> t.form \in {"bare", "true"}
        BY DEF booleanFlag
      <4> QED BY <3>1, <3>2, <4>1, <4>2 DEF setKnownBooleanOption
    <3>4. With(s, x) = [s EXCEPT !.seen = @ \cup {t.option},
                        !.on = IF t.form \in {"bare", "true"} THEN @ \cup {t.option} ELSE @]
      BY <1>5, Zenon DEF With
    <3> HIDE DEF u, t
    <3> QED BY <2>1, <2>2, <3>3, <3>4
  <2>3. CASE ~Good(g, s, x)
    <3>1. ~TakesBoolean(g, s, t, u)
      BY <1>5, <2>3 DEF TakesBoolean, Good, Takes, Fresh
    <3>2. TakesName(g, s, t, u) => u.pending = t.option
      <4> HIDE DEF u, t
      <4> QED BY DEF TakesName, ParserStates
    <3> HIDE DEF u, t
    <3> QED BY <1>1, <1>4, <2>1, <2>3, <3>1, <3>2 DEF Failed
  <2> QED BY <2>2, <2>3
<1>6. CASE Len(x) = 2
  <2> DEFINE y == x[2]
             v == parseArgument(g, u, y)
  <2>1. y \in T /\ y.option = "" /\ y.text # "" /\ t.form = "bare" /\ x = <<t>> \o <<y>>
    BY <1>1, <1>6, Zenon
  <2>2. After(T, g, s, x) = v
    <3>1. <<t>> \in Seq(T)
      <4>1. t \in T
        BY <1>1, Zenon
      <4> HIDE DEF t
      <4> QED BY <4>1
    <3>2. After(T, g, s, <<t>> \o <<y>>) = parseArgument(g, After(T, g, s, <<t>>), y)
      BY <2>1, <3>1, AfterMore, Zenon
    <3>3. After(T, g, s, <<t>>) = u
      BY <1>1, AfterOne, Zenon
    <3> HIDE DEF u, t, y
    <3> QED BY <2>1, <3>2, <3>3 DEF v
  <2>3. \/ ~v.ok
        \/ u.ok /\ (TakesValue(g, u, y, v) \/ TakesBoolean(g, u, y, v) \/ TakesName(g, u, y, v))
    <3> HIDE DEF u
    <3> QED BY <1>3, <2>1, ArgumentCases, Zenon
  <2>4. ~TakesBoolean(g, u, y, v) /\ ~TakesName(g, u, y, v)
    <3> HIDE DEF u, v, y
    <3> QED BY <2>1, Zenon DEF TakesBoolean, TakesName, Proper
  <2>5. CASE Good(g, s, x)
    <3>1. t.option \in Valued(g) \ g.booleans /\ ~Repeated(g, s, t.option) /\ AcceptsValue(g, t.option, y)
      <4>1. Len(x) # 1
        BY <1>6
      <4>2. t.option \in Valued(g) /\ ~Repeated(g, s, t.option) /\ AcceptsValue(g, t.option, y)
        BY <2>5, <4>1, Zenon DEF Good, Takes, Fresh
      <4> HIDE DEF t, y
      <4> QED BY <4>2 DEF Proper
    <3>2. u = [s EXCEPT !.pending = t.option]
      <4>1. t.option \notin g.booleans
        BY <3>1
      <4> QED BY <1>2, <2>1, <3>1, <4>1 DEF parseArgument
    <3>3. v = setValue(g, u, y)
      <4> HIDE DEF u, t, y
      <4>1. u.ok /\ u.pending # ""
        BY <1>1, <1>2, <3>2 DEF ParserStates
      <4> QED BY <4>1 DEF parseArgument, v
    <3> DEFINE w == [o \in DOMAIN s.value \cup {t.option} |-> IF o = t.option THEN y ELSE s.value[o]]
    <3>4. v = [u EXCEPT !.pending = "", !.seen = @ \cup {t.option}, !.value = w]
      <4> HIDE DEF u, t, y, v
      <4>1. u.pending = t.option /\ u.value = s.value
        BY <3>2 DEF ParserStates
      <4>2. v = [u EXCEPT !.pending = "", !.seen = @ \cup {u.pending},
                          !.value = [o \in DOMAIN @ \cup {u.pending} |-> IF o = u.pending THEN y ELSE @[o]]]
        BY <2>1, <3>1, <3>3, <4>1 DEF setValue, IsWord
      <4> QED BY <4>1, <4>2
    <3>5. With(s, x) = [s EXCEPT !.seen = @ \cup {t.option}, !.value = w]
      BY <1>6 DEF With
    <3> HIDE DEF u, t, y, v, w
    <3>6. [u EXCEPT !.pending = "", !.seen = @ \cup {t.option}, !.value = w] = [s EXCEPT !.seen = @ \cup {t.option}, !.value = w]
      BY <1>2, <3>2 DEF ParserStates
    <3> QED BY <2>2, <2>5, <3>4, <3>5, <3>6
  <2>6. CASE ~Good(g, s, x)
    <3>1. ASSUME TakesValue(g, u, y, v), u.ok PROVE FALSE
      <4>1. u.pending # "" /\ AcceptsValue(g, u.pending, y)
        BY <3>1, Zenon DEF TakesValue
      <4>2. TakesName(g, s, t, u)
        <5>1. TakesBoolean(g, s, t, u) => u.pending = ""
          <6> HIDE DEF u, t
          <6> QED BY DEF TakesBoolean, ParserStates
        <5> HIDE DEF u, t, y
        <5> QED BY <1>4, <3>1, <4>1, <5>1, Zenon
      <4>3. u.pending = t.option /\ t.option \in Valued(g) /\ ~Repeated(g, s, t.option)
        <5> HIDE DEF u, t
        <5> QED BY <4>2 DEF TakesName, ParserStates
      <4>4. Takes(g, x) /\ Fresh(g, s, x)
        <5>1. Len(x) # 1
          BY <1>6
        <5>2. AcceptsValue(g, t.option, y)
          <6> HIDE DEF u, t, y
          <6> QED BY <4>1, <4>3
        <5> HIDE DEF u
        <5> QED BY <1>6, <4>3, <5>1, <5>2, Zenon DEF Takes, Fresh
      <4> QED BY <2>6, <4>4, Zenon DEF Good
    <3> HIDE DEF u, v, y
    <3> QED BY <2>2, <2>3, <2>4, <2>6, <3>1, Zenon DEF Failed
  <2> QED BY <2>5, <2>6
<1> QED BY <1>1, <1>5, <1>6

\* What has failed is not mended by an option.
LEMMA StaysFailed ==
  ASSUME NEW T, NEW g, NEW e \in ParserStates(T), Failed(e), NEW q \in Seq(T), q # <<>> => ~IsWord(q[1])
  PROVE  Failed(After(T, g, e, q))
<1>1. CASE q = <<>>
  BY <1>1, AfterNone
<1>2. CASE q # <<>>
  <2> DEFINE h == q[1]
             r == SubSeq(q, 2, Len(q))
             u == parseArgument(g, e, h)
  <2>1. Len(q) \in Nat \ {0} /\ h \in T
    BY <1>2, EmptySeq, ElementOfSeq
  <2>2. r \in Seq(T) /\ q = <<h>> \o r /\ <<h>> \in Seq(T)
    <3>1. 1 \in 1..Len(q) /\ Len(q) \in 1..Len(q)
      BY <2>1
    <3>2. SubSeq(q, 1, Len(q)) = <<h>> \o SubSeq(q, 1 + 1, Len(q))
      BY <3>1, SubSeqRecursiveFirst, Zenon
    <3>3. SubSeq(q, 1, Len(q)) = q
      BY SubSeqFull, Zenon
    <3>4. r \in Seq(T)
      BY SMT
    <3> QED BY <2>1, <3>2, <3>3, <3>4
  <2>3. After(T, g, e, <<h>>) = u /\ u \in ParserStates(T)
    BY <2>1, AfterOne, ArgumentTyped
  <2>4. ~u.ok
    <3>1. CASE ~e.ok
      BY <2>1, <3>1, OnceRefused, Zenon
    <3>2. CASE e.ok /\ e.pending # ""
      <4>1. u = setValue(g, e, h)
        BY <3>2 DEF parseArgument
      <4>2. u = Refused
        BY <1>2, <4>1, Zenon DEF setValue
      <4> HIDE DEF u
      <4> QED BY <4>2, NothingIs
    <3> QED BY <3>1, <3>2 DEF Failed
  <2> HIDE DEF u, r, h
  <2>5. After(T, g, e, q) = After(T, g, u, r)
    <3>1. After(T, g, e, <<h>> \o r) = After(T, g, After(T, g, e, <<h>>), r)
      <4>1. <<h>> \in Seq(T) /\ r \in Seq(T)
        BY <2>2, Zenon
      <4> HIDE DEF h, r
      <4> QED BY <4>1, AfterBoth, Zenon
    <3> QED BY <2>2, <2>3, <3>1
  <2>6. ~After(T, g, u, r).ok
    BY <2>2, <2>3, <2>4, AfterTyped, Zenon
  <2> QED BY <2>5, <2>6 DEF Failed
<1> QED BY <1>1, <1>2

\* A parser knows of every option with a value that it has seen what it was.
LEMMA AfterReady ==
  ASSUME NEW T, NEW g, NEW args \in Seq(T)
  PROVE  After(T, g, Nothing, args).seen \subseteq g.booleans \cup DOMAIN After(T, g, Nothing, args).value
<1> DEFINE Knows(s) == s.seen \subseteq g.booleans \cup DOMAIN s.value
           R == {x \in Seq(T) : Knows(After(T, g, Nothing, x))}
<1>1. <<>> \in R
  <2>1. After(T, g, Nothing, <<>>) = Nothing
    BY NothingIs, AfterNone, Zenon
  <2>2. Nothing.seen = {}
    BY NothingIs, Zenon
  <2> QED BY <2>1, <2>2, EmptySeq
<1>2. \A x \in Seq(T) : \A t \in T : x \in R => x \o <<t>> \in R
  <2> SUFFICES ASSUME NEW x \in Seq(T), NEW t \in T, x \in R PROVE x \o <<t>> \in R
    OBVIOUS
  <2> DEFINE s == After(T, g, Nothing, x)
             u == After(T, g, Nothing, x \o <<t>>)
  <2>1. x \o <<t>> \in Seq(T)
    OBVIOUS
  <2>2. s \in ParserStates(T) /\ u = parseArgument(g, s, t) /\ Knows(s)
    <3>1. Nothing \in ParserStates(T)
      BY NothingIs, Zenon
    <3>2. s \in ParserStates(T) /\ u = parseArgument(g, s, t)
      BY <3>1, AfterMore, Zenon
    <3> QED BY <3>2
  <2> HIDE DEF s, u
  <2>3. \/ u = s \/ u = Refused
        \/ TakesValue(g, s, t, u) \/ TakesBoolean(g, s, t, u) \/ TakesName(g, s, t, u)
    BY <2>2, ArgumentCases
  <2>4. Knows(Refused)
    BY DEF Refused, Nothing
  <2>5. TakesValue(g, s, t, u) => Knows(u)
    <3> SUFFICES ASSUME TakesValue(g, s, t, u) PROVE Knows(u)
      OBVIOUS
    <3> DEFINE v == [o \in DOMAIN s.value \cup {s.pending} |-> IF o = s.pending THEN t ELSE s.value[o]]
    <3>1. u = [s EXCEPT !.pending = "", !.seen = @ \cup {s.pending}, !.value = v]
      BY DEF TakesValue
    <3>2. DOMAIN v = DOMAIN s.value \cup {s.pending}
      OBVIOUS
    <3> HIDE DEF v
    <3>3. u.seen = s.seen \cup {s.pending} /\ u.value = v
      BY <2>2, <3>1 DEF ParserStates
    <3> QED BY <2>2, <3>2, <3>3
  <2>6. TakesBoolean(g, s, t, u) => Knows(u)
    <3> SUFFICES ASSUME TakesBoolean(g, s, t, u) PROVE Knows(u)
      OBVIOUS
    <3>1. u.seen = s.seen \cup {t.option} /\ u.value = s.value /\ t.option \in g.booleans
      BY <2>2 DEF TakesBoolean, ParserStates
    <3> QED BY <2>2, <3>1
  <2>7. TakesName(g, s, t, u) => Knows(u)
    BY <2>2 DEF TakesName, ParserStates
  <2>8. Knows(u)
    <3> HIDE DEF Knows
    <3> QED BY <2>2, <2>3, <2>4, <2>5, <2>6, <2>7
  <2> QED BY <2>1, <2>8 DEF u
<1>3. \A x \in Seq(T) : x \in R
  <2> HIDE DEF R
  <2> QED BY <1>1, <1>2, AppendInduction, Zenon
<1> QED BY <1>3, Zenon

\* A parser that took a group.
IsWith(T, g, s, x, w) ==
  /\ w \in ParserStates(T) /\ Ready(g, w)
  /\ w.ok = s.ok /\ w.pending = s.pending /\ w.seen = s.seen \cup {x[1].option}
  /\ Len(x) = 1 => /\ x[1].option \in g.booleans /\ x[1].option \notin Valued(g) /\ w.value = s.value
                   /\ w.on = IF x[1].form \in {"bare", "true"} THEN s.on \cup {x[1].option} ELSE s.on
  /\ Len(x) = 2 => /\ x[1].option \in Valued(g) /\ x[1].option \notin g.booleans /\ w.on = s.on
                   /\ w.value = [p \in DOMAIN s.value \cup {x[1].option} |-> IF p = x[1].option THEN x[2] ELSE s.value[p]]

\* A group that is taken changes its own option alone.
LEMMA WithIs ==
  ASSUME NEW T, NEW g, Proper(g), NEW s \in ParserStates(T), Ready(g, s), NEW x, IsGroup(T, x), Good(g, s, x)
  PROVE  IsWith(T, g, s, x, With(s, x))
<1> DEFINE w == With(s, x)
           t == x[1]
           o == t.option
<1>1. Len(x) \in {1, 2} /\ t \in T /\ x \in Seq(T)
  BY GroupIs, Zenon
<1>2. w \in ParserStates(T)
  <2>1. After(T, g, s, x) = w
    BY GroupRead, Zenon
  <2>2. After(T, g, s, x) \in ParserStates(T)
    BY <1>1, AfterTyped, Zenon
  <2> QED BY <2>1, <2>2, Zenon
<1>3. s.ok /\ s.pending = "" /\ s.seen \subseteq g.booleans \cup DOMAIN s.value
  BY DEF Ready
<1>4. ASSUME Len(x) = 1 PROVE IsWith(T, g, s, x, w)
  <2>1. w = [s EXCEPT !.seen = @ \cup {o}, !.on = IF t.form \in {"bare", "true"} THEN @ \cup {o} ELSE @]
    BY <1>4, Zenon DEF With
  <2>2. o \in g.booleans
    <3>1. Len(x) # 2
      BY <1>4
    <3> QED BY <3>1, Zenon DEF Good, Takes
  <2>3. o \notin Valued(g)
    BY <2>2 DEF Proper
  <2> HIDE DEF w, t
  <2>4. /\ w.ok = s.ok /\ w.pending = s.pending /\ w.seen = s.seen \cup {o} /\ w.value = s.value
        /\ w.on = IF t.form \in {"bare", "true"} THEN s.on \cup {o} ELSE s.on
    BY <2>1 DEF ParserStates
  <2>5. Ready(g, w)
    BY <1>3, <2>2, <2>4 DEF Ready
  <2> HIDE DEF o
  <2> QED BY <1>2, <1>4, <2>2, <2>3, <2>4, <2>5 DEF IsWith, o, t
<1>5. ASSUME Len(x) = 2 PROVE IsWith(T, g, s, x, w)
  <2> DEFINE v == [p \in DOMAIN s.value \cup {o} |-> IF p = o THEN x[2] ELSE s.value[p]]
  <2>0. Len(x) # 1
    BY <1>5
  <2>1. w = [s EXCEPT !.seen = @ \cup {o}, !.value = v]
    BY <2>0, Zenon DEF With
  <2>2. o \in Valued(g)
    BY <2>0, Zenon DEF Good, Takes
  <2>3. o \notin g.booleans
    BY <2>2 DEF Proper
  <2>6. DOMAIN v = DOMAIN s.value \cup {o}
    OBVIOUS
  <2> HIDE DEF w, t, v
  <2>4. w.ok = s.ok /\ w.pending = s.pending /\ w.seen = s.seen \cup {o} /\ w.value = v /\ w.on = s.on
    BY <2>1 DEF ParserStates
  <2>5. Ready(g, w)
    BY <1>3, <2>4, <2>6 DEF Ready
  <2> QED BY <1>2, <1>5, <2>2, <2>3, <2>4, <2>5 DEF IsWith, t, v
<1>6. IsWith(T, g, s, x, w)
  BY <1>1, <1>4, <1>5
<1> QED BY <1>6, Zenon

\* Two groups can be taken in either order.
LEMMA Exchange ==
  ASSUME NEW T, NEW g, Proper(g), NEW s \in ParserStates(T), Ready(g, s), NEW x, IsGroup(T, x), NEW y, IsGroup(T, y),
         Good(g, s, x), Good(g, With(s, x), y)
  PROVE  Good(g, s, y) /\ Good(g, With(s, y), x) /\ With(With(s, x), y) = With(With(s, y), x)
<1> DEFINE w == With(s, x)
           v == With(s, y)
           o == x[1].option
           p == y[1].option
<1>0. IsWith(T, g, s, x, w)
  BY WithIs, Zenon
<1>1. /\ w \in ParserStates(T) /\ Ready(g, w)
      /\ w.ok = s.ok /\ w.pending = s.pending /\ w.seen = s.seen \cup {o}
      /\ Len(x) = 1 => /\ o \in g.booleans /\ o \notin Valued(g) /\ w.value = s.value
                       /\ w.on = IF x[1].form \in {"bare", "true"} THEN s.on \cup {o} ELSE s.on
      /\ Len(x) = 2 => /\ o \in Valued(g) /\ o \notin g.booleans /\ w.on = s.on
                       /\ w.value = [q \in DOMAIN s.value \cup {o} |-> IF q = o THEN x[2] ELSE s.value[q]]
  BY <1>0 DEF IsWith
<1>2. /\ Len(x) \in {1, 2} /\ Len(y) \in {1, 2} /\ x[1] \in T /\ y[1] \in T /\ o # "" /\ p # ""
      /\ Len(x) = 2 => x[2] \in T /\ x[2].text # ""
      /\ Len(y) = 2 => y[2] \in T /\ y[2].text # ""
  BY GroupIs, Zenon
<1>3. Takes(g, x) /\ Takes(g, y) /\ Fresh(g, s, x) /\ Fresh(g, w, y)
  BY Zenon DEF Good
<1>4. /\ Len(x) = 1 => o \in g.booleans /\ o \notin Valued(g)
      /\ Len(x) = 2 => o \in Valued(g) /\ o \notin g.booleans
      /\ Len(y) = 1 => p \in g.booleans /\ p \notin Valued(g)
      /\ Len(y) = 2 => p \in Valued(g) /\ p \notin g.booleans
  <2>1. p \in g.booleans => p \notin Valued(g)
    BY DEF Proper
  <2>2. Len(y) = 1 => p \in g.booleans
    <3>1. Len(y) = 1 => Len(y) # 2
      OBVIOUS
    <3> QED BY <1>3, <3>1, Zenon DEF Takes
  <2>3. Len(y) = 2 => p \in Valued(g)
    <3>1. Len(y) = 2 => Len(y) # 1
      OBVIOUS
    <3> QED BY <1>3, <3>1, Zenon DEF Takes
  <2> QED BY <1>1, <2>1, <2>2, <2>3, Zenon
<1>5. s.seen \subseteq g.booleans \cup DOMAIN s.value
  BY DEF Ready
<1>6. /\ Len(x) = 1 => o \notin s.seen
      /\ Len(x) = 2 => ~Repeated(g, s, o)
      /\ Len(y) = 1 => p \notin w.seen
      /\ Len(y) = 2 => ~Repeated(g, w, p)
  <2>1. Len(x) = 2 => Len(x) # 1
    OBVIOUS
  <2>2. Len(y) = 2 => Len(y) # 1
    OBVIOUS
  <2> QED BY <1>3, <2>1, <2>2, Zenon DEF Fresh
<1> HIDE DEF w, v, o, p
<1>7. o # p
  <2> SUFFICES ASSUME o = p PROVE FALSE
    OBVIOUS
  <2>1. CASE Len(x) = 1
    BY <1>1, <1>2, <1>4, <1>6, <2>1
  <2>2. CASE Len(x) = 2
    <3>1. Len(y) = 2
      BY <1>2, <1>4, <2>2
    <3>2. w.value[o] = x[2] /\ o \in w.seen
      <4>1. w.value = [q \in DOMAIN s.value \cup {o} |-> IF q = o THEN x[2] ELSE s.value[q]]
        BY <1>1, <2>2, Zenon
      <4> QED BY <1>1, <4>1
    <3>3. Repeated(g, w, o)
      <4>1. w.value[o].text # ""
        BY <1>2, <2>2, <3>2
      <4> QED BY <3>2, <4>1, Zenon DEF Repeated
    <3> QED BY <1>6, <3>1, <3>3
  <2> QED BY <1>2, <2>1, <2>2
<1>8. ASSUME NEW f, NEW z, NEW q, z # q, z \notin g.booleans
      PROVE  LET u == [k \in DOMAIN s.value \cup {q} |-> IF k = q THEN f ELSE s.value[k]]
             IN z \in s.seen => u[z] = s.value[z]
  BY <1>5, <1>8
<1>9. Good(g, s, y)
  <2>1. Fresh(g, s, y)
    <3>1. CASE Len(y) = 1
      BY <1>1, <1>6, <3>1 DEF Fresh, p
    <3>2. CASE Len(y) = 2
      <4>1. p \notin g.booleans /\ ~Repeated(g, w, p)
        BY <1>4, <1>6, <3>2, Zenon
      <4>2. p \in s.seen => p \in w.seen /\ w.value[p] = s.value[p]
        <5>1. CASE Len(x) = 1
          BY <1>1, <5>1
        <5>2. CASE Len(x) = 2
          <6>1. w.value = [q \in DOMAIN s.value \cup {o} |-> IF q = o THEN x[2] ELSE s.value[q]]
            BY <1>1, <5>2, Zenon
          <6> QED BY <1>1, <1>7, <1>8, <4>1, <6>1
        <5> QED BY <1>2, <5>1, <5>2
      <4>3. ~Repeated(g, s, p)
        BY <4>1, <4>2, Zenon DEF Repeated
      <4>4. Len(y) # 1
        BY <3>2
      <4> QED BY <4>3, <4>4, Zenon DEF Fresh, p
    <3> QED BY <1>2, <3>1, <3>2
  <2> QED BY <1>3, <2>1, Zenon DEF Good
<1>10. /\ v \in ParserStates(T)
       /\ v.ok = s.ok /\ v.pending = s.pending /\ v.seen = s.seen \cup {p}
       /\ Len(y) = 1 => /\ v.value = s.value
                        /\ v.on = IF y[1].form \in {"bare", "true"} THEN s.on \cup {p} ELSE s.on
       /\ Len(y) = 2 => /\ v.on = s.on
                        /\ v.value = [q \in DOMAIN s.value \cup {p} |-> IF q = p THEN y[2] ELSE s.value[q]]
  <2>1. IsWith(T, g, s, y, v)
    BY <1>9, WithIs, Zenon DEF v
  <2> QED BY <2>1 DEF IsWith, p
<1>11. Good(g, v, x)
  <2>1. Fresh(g, v, x)
    <3>1. CASE Len(x) = 1
      BY <1>6, <1>7, <1>10, <3>1 DEF Fresh, o
    <3>2. CASE Len(x) = 2
      <4>1. o \notin g.booleans /\ ~Repeated(g, s, o)
        BY <1>4, <1>6, <3>2, Zenon
      <4>2. o \in v.seen => o \in s.seen /\ v.value[o] = s.value[o]
        <5>1. CASE Len(y) = 1
          BY <1>7, <1>10, <5>1
        <5>2. CASE Len(y) = 2
          <6>1. v.value = [q \in DOMAIN s.value \cup {p} |-> IF q = p THEN y[2] ELSE s.value[q]]
            BY <1>10, <5>2, Zenon
          <6> QED BY <1>7, <1>8, <1>10, <4>1, <6>1
        <5> QED BY <1>2, <5>1, <5>2
      <4>3. ~Repeated(g, v, o)
        BY <4>1, <4>2, Zenon DEF Repeated
      <4>4. Len(x) # 1
        BY <3>2
      <4> QED BY <4>3, <4>4, Zenon DEF Fresh, o
    <3> QED BY <1>2, <3>1, <3>2
  <2> QED BY <1>3, <2>1, Zenon DEF Good
<1> DEFINE wy == With(w, y)
           vx == With(v, x)
<1>12. /\ wy \in ParserStates(T)
       /\ wy.ok = w.ok /\ wy.pending = w.pending /\ wy.seen = w.seen \cup {p}
       /\ Len(y) = 1 => /\ wy.value = w.value
                        /\ wy.on = IF y[1].form \in {"bare", "true"} THEN w.on \cup {p} ELSE w.on
       /\ Len(y) = 2 => /\ wy.on = w.on
                        /\ wy.value = [q \in DOMAIN w.value \cup {p} |-> IF q = p THEN y[2] ELSE w.value[q]]
  <2>1. Good(g, w, y)
    BY Zenon DEF w
  <2>2. IsWith(T, g, w, y, wy)
    BY <1>1, <2>1, WithIs, Zenon
  <2> QED BY <2>2 DEF IsWith, p
<1>13. /\ vx \in ParserStates(T)
       /\ vx.ok = v.ok /\ vx.pending = v.pending /\ vx.seen = v.seen \cup {o}
       /\ Len(x) = 1 => /\ vx.value = v.value
                        /\ vx.on = IF x[1].form \in {"bare", "true"} THEN v.on \cup {o} ELSE v.on
       /\ Len(x) = 2 => /\ vx.on = v.on
                        /\ vx.value = [q \in DOMAIN v.value \cup {o} |-> IF q = o THEN x[2] ELSE v.value[q]]
  <2>1. Ready(g, v)
    <3>1. IsWith(T, g, s, y, v)
      BY <1>9, WithIs, Zenon DEF v
    <3> QED BY <3>1, Zenon DEF IsWith
  <2>2. IsWith(T, g, v, x, vx)
    BY <1>10, <1>11, <2>1, WithIs, Zenon
  <2> QED BY <2>2 DEF IsWith, o
<1> HIDE DEF wy, vx
<1>14. wy.value = vx.value /\ wy.on = vx.on
  <2>1. CASE Len(x) = 1 /\ Len(y) = 1
    BY <1>1, <1>10, <1>12, <1>13, <2>1
  <2>2. CASE Len(x) = 1 /\ Len(y) = 2
    <3>1. wy.on = vx.on
      BY <1>1, <1>10, <1>12, <1>13, <2>2
    <3>2. w.value = s.value /\ vx.value = v.value
      BY <1>1, <1>13, <2>2, Zenon
    <3>3. /\ v.value = [q \in DOMAIN s.value \cup {p} |-> IF q = p THEN y[2] ELSE s.value[q]]
          /\ wy.value = [q \in DOMAIN w.value \cup {p} |-> IF q = p THEN y[2] ELSE w.value[q]]
      BY <1>10, <1>12, <2>2, Zenon
    <3>4. wy.value = vx.value
      BY <3>2, <3>3, Zenon
    <3> QED BY <3>1, <3>4, Zenon
  <2>3. CASE Len(x) = 2 /\ Len(y) = 1
    <3>1. wy.on = vx.on
      BY <1>1, <1>10, <1>12, <1>13, <2>3
    <3>2. v.value = s.value /\ wy.value = w.value
      BY <1>10, <1>12, <2>3, Zenon
    <3>3. /\ w.value = [q \in DOMAIN s.value \cup {o} |-> IF q = o THEN x[2] ELSE s.value[q]]
          /\ vx.value = [q \in DOMAIN v.value \cup {o} |-> IF q = o THEN x[2] ELSE v.value[q]]
      BY <1>1, <1>13, <2>3, Zenon
    <3>4. wy.value = vx.value
      BY <3>2, <3>3, Zenon
    <3> QED BY <3>1, <3>4, Zenon
  <2>4. CASE Len(x) = 2 /\ Len(y) = 2
    <3>1. wy.on = vx.on
      BY <1>1, <1>10, <1>12, <1>13, <2>4
    <3>2. /\ w.value = [q \in DOMAIN s.value \cup {o} |-> IF q = o THEN x[2] ELSE s.value[q]]
          /\ v.value = [q \in DOMAIN s.value \cup {p} |-> IF q = p THEN y[2] ELSE s.value[q]]
          /\ wy.value = [q \in DOMAIN w.value \cup {p} |-> IF q = p THEN y[2] ELSE w.value[q]]
          /\ vx.value = [q \in DOMAIN v.value \cup {o} |-> IF q = o THEN x[2] ELSE v.value[q]]
      BY <1>1, <1>10, <1>12, <1>13, <2>4, Zenon
    <3> DEFINE D == (DOMAIN s.value \cup {o}) \cup {p}
               m == [q \in D |-> IF q = p THEN y[2] ELSE IF q = o THEN x[2] ELSE s.value[q]]
    <3>3. wy.value = m
      BY <3>2
    <3>4. vx.value = m
      BY <1>7, <3>2
    <3> QED BY <3>1, <3>3, <3>4
  <2> QED BY <1>2, <2>1, <2>2, <2>3, <2>4
<1>15. wy = vx
  <2>1. wy.ok = vx.ok /\ wy.pending = vx.pending /\ wy.seen = vx.seen
    BY <1>1, <1>10, <1>12, <1>13
  <2>2. wy = [ok |-> wy.ok, pending |-> wy.pending, seen |-> wy.seen, on |-> wy.on, value |-> wy.value]
    BY <1>12 DEF ParserStates
  <2>3. vx = [ok |-> vx.ok, pending |-> vx.pending, seen |-> vx.seen, on |-> vx.on, value |-> vx.value]
    BY <1>13 DEF ParserStates
  <2> QED BY <1>14, <2>1, <2>2, <2>3, Zenon
<1> QED BY <1>9, <1>11, <1>15, Zenon DEF wy, vx, w, v

\* The parser of a command does not tell the order of two groups.
Swaps(g, m, x, y, q) == parseOptions(g, m \o ((x \o y) \o q)) = parseOptions(g, m \o ((y \o x) \o q))

\* Two neighbouring groups may be read in either order.
LEMMA SwapParse ==
  ASSUME NEW T, NEW g, Proper(g), NEW m \in Seq(T), NEW x, IsGroup(T, x), NEW y, IsGroup(T, y),
         NEW q \in Seq(T), q # <<>> => ~IsWord(q[1])
  PROVE  Swaps(g, m, x, y, q)
<1>0. ASSUME NEW e \in ParserStates(T), NEW p \in Seq(T), NEW r \in Seq(T)
      PROVE  After(T, g, e, p \o r) = After(T, g, After(T, g, e, p), r)
  <2>1. e \in ParserStates(T) /\ p \in Seq(T) /\ r \in Seq(T)
    OBVIOUS
  <2> QED BY <2>1, AfterBoth
<1> DEFINE s == After(T, g, Nothing, m)
           Reach(a, b) == After(T, g, s, (a \o b) \o q)
<1>1. x \in Seq(T) /\ y \in Seq(T) /\ x # <<>> /\ y # <<>> /\ ~IsWord(x[1]) /\ ~IsWord(y[1])
  BY GroupIs, Zenon DEF IsGroup
<1>2. s \in ParserStates(T) /\ s.seen \subseteq g.booleans \cup DOMAIN s.value
  <2>1. s \in ParserStates(T)
    BY NothingIs, AfterTyped, Zenon
  <2> QED BY <2>1, AfterReady, Zenon
<1> HIDE DEF s
<1>3. ASSUME NEW a, NEW b, IsGroup(T, a), IsGroup(T, b)
      PROVE  /\ parseOptions(g, m \o ((a \o b) \o q)) = Completed(Reach(a, b))
             /\ Reach(a, b) \in ParserStates(T)
             /\ Failed(Reach(a, b)) \/
                  (Good(g, s, a) /\ Good(g, With(s, a), b) /\ Reach(a, b) = After(T, g, With(With(s, a), b), q))
  <2>1. /\ a \in Seq(T) /\ b \in Seq(T) /\ a # <<>> /\ b # <<>> /\ ~IsWord(a[1]) /\ ~IsWord(b[1])
        /\ Len(a) \in Nat \ {0} /\ Len(b) \in Nat \ {0}
    BY <1>3, GroupIs, EmptySeq, Zenon DEF IsGroup
  <2>2. a \o b \in Seq(T) /\ (a \o b) \o q \in Seq(T) /\ b \o q \in Seq(T)
    BY <2>1, Concatenated, Zenon
  <2>3. m \o ((a \o b) \o q) \in Seq(T)
    BY <2>2, Concatenated, Zenon
  <2>4. parseOptions(g, m \o ((a \o b) \o q)) = Completed(Reach(a, b))
    <3>1. After(T, g, Nothing, m \o ((a \o b) \o q)) = Reach(a, b)
      <4>1. Nothing \in ParserStates(T)
        BY NothingIs, Zenon
      <4>2. m \in Seq(T) /\ (a \o b) \o q \in Seq(T)
        BY <2>2, Zenon
      <4>3. After(T, g, Nothing, m \o ((a \o b) \o q)) = After(T, g, After(T, g, Nothing, m), (a \o b) \o q)
        BY <1>0, <4>1, <4>2, Zenon
      <4> QED BY <4>3, Zenon DEF s
    <3>2. parseOptions(g, m \o ((a \o b) \o q)) = Completed(After(T, g, Nothing, m \o ((a \o b) \o q)))
      BY <2>3, ParseIs, Zenon
    <3> QED BY <3>1, <3>2, Zenon
  <2>5. Reach(a, b) \in ParserStates(T)
    BY <1>2, <2>2, AfterTyped, Zenon
  <2>6. (a \o b) \o q = a \o (b \o q)
    BY <2>1, ConcatAssociative
  <2>7. b \o q # <<>> /\ (b \o q)[1] = b[1] /\ a \o (b \o q) # <<>> /\ (a \o (b \o q))[1] = a[1]
    BY <2>1, <2>2, BeginsAsBefore, Zenon
  <2>8. CASE Failed(s)
    <3>1. Failed(After(T, g, s, a \o (b \o q)))
      BY <1>2, <2>1, <2>2, <2>6, <2>7, <2>8, StaysFailed, Zenon
    <3> QED BY <2>4, <2>5, <2>6, <3>1, Zenon
  <2>9. CASE ~Failed(s)
    <3>0. Ready(g, s)
      BY <1>2, <2>9, Zenon DEF Ready, Failed
    <3> DEFINE u == After(T, g, s, a)
    <3>1. Reach(a, b) = After(T, g, u, b \o q) /\ u \in ParserStates(T)
      <4>1. After(T, g, s, a \o (b \o q)) = After(T, g, u, b \o q)
        <5>1. s \in ParserStates(T) /\ a \in Seq(T) /\ b \o q \in Seq(T)
          BY <1>2, <2>1, <2>2, Zenon
        <5> QED BY <1>0, <5>1, Zenon
      <4>2. u \in ParserStates(T)
        BY <1>2, <2>1, AfterTyped, Zenon
      <4> QED BY <2>6, <4>1, <4>2, Zenon
    <3>2. CASE ~Good(g, s, a)
      <4>1. Failed(u)
        BY <1>2, <1>3, <3>0, <3>2, GroupRead, Zenon
      <4> HIDE DEF u
      <4>2. Failed(After(T, g, u, b \o q))
        BY <2>1, <2>2, <2>7, <3>1, <4>1, StaysFailed, Zenon
      <4> QED BY <2>4, <2>5, <3>1, <4>2, Zenon
    <3>3. CASE Good(g, s, a)
      <4>1. u = With(s, a) /\ Ready(g, u)
        <5>1. u = With(s, a)
          BY <1>2, <1>3, <3>0, <3>3, GroupRead, Zenon
        <5>2. IsWith(T, g, s, a, With(s, a))
          BY <1>2, <1>3, <3>0, <3>3, WithIs, Zenon
        <5> QED BY <5>1, <5>2, Zenon DEF IsWith
      <4> HIDE DEF u
      <4> DEFINE v == After(T, g, u, b)
      <4>2. After(T, g, u, b \o q) = After(T, g, v, q) /\ v \in ParserStates(T)
        <5>1. q \in Seq(T)
          OBVIOUS
        <5>2. After(T, g, u, b \o q) = After(T, g, v, q)
          BY <2>1, <3>1, <5>1, AfterBoth
        <5>3. v \in ParserStates(T)
          BY <2>1, <3>1, AfterTyped, Zenon
        <5> QED BY <5>2, <5>3, Zenon
      <4>3. CASE ~Good(g, u, b)
        <5>1. Failed(v)
          BY <1>3, <3>1, <4>1, <4>3, GroupRead, Zenon
        <5> HIDE DEF v
        <5>2. Failed(After(T, g, v, q))
          BY <4>2, <5>1, StaysFailed, Zenon
        <5> QED BY <2>4, <2>5, <3>1, <4>2, <5>2, Zenon
      <4>4. CASE Good(g, u, b)
        <5>1. v = With(u, b)
          BY <1>3, <3>1, <4>1, <4>4, GroupRead, Zenon
        <5> QED BY <2>4, <2>5, <3>1, <3>3, <4>1, <4>2, <4>4, <5>1, Zenon
      <4> QED BY <4>3, <4>4
    <3> QED BY <3>2, <3>3
  <2> QED BY <2>8, <2>9
<1>4. ASSUME NEW e, Failed(e) PROVE Completed(e) = Refused
  BY <1>4, Zenon DEF Failed, Completed
<1>5. ASSUME NEW a, NEW b, IsGroup(T, a), IsGroup(T, b), ~Failed(Reach(a, b)) PROVE Reach(a, b) = Reach(b, a)
  <2>1. Good(g, s, a) /\ Good(g, With(s, a), b) /\ Reach(a, b) = After(T, g, With(With(s, a), b), q)
    BY <1>3, <1>5, Zenon
  <2>2. Ready(g, s)
    <3>1. ~Failed(s)
      <4> SUFFICES ASSUME Failed(s) PROVE FALSE
        OBVIOUS
      <4>1. a \in Seq(T) /\ b \in Seq(T) /\ a # <<>> /\ ~IsWord(a[1])
        BY <1>5, GroupIs, Zenon DEF IsGroup
      <4>2. a \o b \in Seq(T) /\ (a \o b) \o q \in Seq(T)
        BY <4>1, Concatenated, Zenon
      <4>3. ((a \o b) \o q)[1] = a[1]
        <5>1. a \o b # <<>> /\ (a \o b)[1] = a[1]
          BY <4>1, BeginsAsBefore, Zenon
        <5> QED BY <4>2, <5>1, BeginsAsBefore
      <4>4. Failed(Reach(a, b))
        BY <1>2, <4>1, <4>2, <4>3, StaysFailed, Zenon
      <4> QED BY <1>5, <4>4, Zenon
    <3> QED BY <1>2, <3>1, Zenon DEF Ready, Failed
  <2>3. Good(g, s, b) /\ Good(g, With(s, b), a) /\ With(With(s, a), b) = With(With(s, b), a)
    <3>1. IsGroup(T, a) /\ IsGroup(T, b)
      BY <1>5, Zenon
    <3> QED BY <1>2, <2>1, <2>2, <3>1, Exchange
  <2>4. After(T, g, With(With(s, b), a), q) = Reach(b, a)
    <3>1. With(s, b) \in ParserStates(T) /\ Ready(g, With(s, b))
      <4>1. IsWith(T, g, s, b, With(s, b))
        BY <1>2, <1>5, <2>2, <2>3, WithIs, Zenon
      <4> QED BY <4>1, Zenon DEF IsWith
    <3>2. After(T, g, s, b) = With(s, b) /\ After(T, g, With(s, b), a) = With(With(s, b), a)
      BY <1>2, <1>5, <2>2, <2>3, <3>1, GroupRead, Zenon
    <3>3. a \in Seq(T) /\ b \in Seq(T)
      BY <1>5, GroupIs, Zenon
    <3>4. b \o a \in Seq(T)
      BY <3>3, Concatenated, Zenon
    <3>5. Reach(b, a) = After(T, g, After(T, g, s, b \o a), q)
      <4>1. q \in Seq(T)
        OBVIOUS
      <4>2. s \in ParserStates(T) /\ b \o a \in Seq(T)
        BY <1>2, <3>4, Zenon
      <4> QED BY <4>1, <4>2, AfterBoth, Zenon
    <3>6. After(T, g, s, b \o a) = After(T, g, After(T, g, s, b), a)
      BY <1>2, <3>3, AfterBoth
    <3> QED BY <3>2, <3>5, <3>6, Zenon
  <2> QED BY <2>1, <2>3, <2>4, Zenon
<1>6. Completed(Reach(x, y)) = Completed(Reach(y, x))
  <2>1. CASE ~Failed(Reach(x, y))
    BY <1>5, <2>1, Zenon
  <2>2. CASE ~Failed(Reach(y, x))
    BY <1>5, <2>2, Zenon
  <2>3. CASE Failed(Reach(x, y)) /\ Failed(Reach(y, x))
    BY <1>4, <2>3, Zenon
  <2> QED BY <2>1, <2>2, <2>3, Zenon
<1>7. /\ parseOptions(g, m \o ((x \o y) \o q)) = Completed(Reach(x, y))
      /\ parseOptions(g, m \o ((y \o x) \o q)) = Completed(Reach(y, x))
  <2> HIDE DEF Reach
  <2> QED BY <1>3, Zenon
<1> QED BY <1>6, <1>7, Zenon DEF Swaps
-----------------------------------------------------------------------------
(* Arguments of a kind, and what is around one of them.                    *)

\* Two sequences, one after the other.
IsJoin(v, w, u) ==
  /\ Len(u) = Len(v) + Len(w)
  /\ \A k \in 1..Len(v) : u[k] = v[k]
  /\ \A k \in 1..Len(w) : u[Len(v) + k] = w[k]

\* Behind the first list come the places of the second.
LEMMA Joined ==
  ASSUME NEW T, NEW v \in Seq(T), NEW w \in Seq(T)
  PROVE  v \o w \in Seq(T) /\ IsJoin(v, w, v \o w)
BY Concatenated DEF IsJoin

\* Three sequences, one after the other.
LEMMA Associative ==
  ASSUME NEW T, NEW s, s \in Seq(T), NEW t, t \in Seq(T), NEW u, u \in Seq(T)
  PROVE  (s \o t) \o u = s \o (t \o u)
BY ConcatAssociative

\* The rest of a concatenation, from a place in its first part on.
LEMMA SuffixOf ==
  ASSUME NEW T, NEW a \in Seq(T), NEW b \in Seq(T), NEW k \in 1..(Len(a) + 1)
  PROVE  /\ SubSeq(a, k, Len(a)) \in Seq(T) /\ Len(SubSeq(a, k, Len(a))) = Len(a) - k + 1
         /\ SubSeq(a \o b, k, Len(a \o b)) = SubSeq(a, k, Len(a)) \o b
<1> DEFINE n == Len(a)
           m == Len(b)
           c == a \o b
           d == SubSeq(a, k, n)
           e == SubSeq(c, k, n + m)
<1>1. n \in Nat /\ m \in Nat /\ k \in Nat /\ k >= 1 /\ k <= n + 1
  OBVIOUS
<1>0. c \in Seq(T) /\ IsJoin(a, b, c)
  BY Joined, Zenon
<1>2. c \in Seq(T) /\ Len(c) = n + m /\ \A i \in 1..n : c[i] = a[i]
  BY <1>0, Zenon DEF IsJoin
<1>3. \A i \in 1..m : c[n + i] = b[i]
  BY <1>0, Zenon DEF IsJoin
<1>4. \A i \in 1..n : a[i] \in T
  OBVIOUS
<1>5. \A i \in 1..m : b[i] \in T
  OBVIOUS
<1> HIDE DEF c
<1>6. d \in Seq(T) /\ Len(d) = n - k + 1 /\ \A i \in 1..(n - k + 1) : d[i] = a[k + i - 1]
  BY <1>1, <1>4
<1>7. e \in Seq(T) /\ Len(e) = n + m - k + 1 /\ \A i \in 1..(n + m - k + 1) : e[i] = c[k + i - 1]
  <2>1. \A i \in 1..(n + m) : c[i] \in T
    BY <1>2
  <2> HIDE DEF n, m
  <2> QED BY <1>1, <2>1
<1> HIDE DEF d, e, n, m
<1>8. d \o b \in Seq(T) /\ Len(d \o b) = Len(d) + Len(b) /\ \A i \in 1..Len(d) : (d \o b)[i] = d[i]
  <2>1. IsJoin(d, b, d \o b) /\ d \o b \in Seq(T)
    BY <1>6, Joined, Zenon
  <2> QED BY <2>1, Zenon DEF IsJoin
<1>9. \A i \in 1..Len(b) : (d \o b)[Len(d) + i] = b[i]
  <2>1. IsJoin(d, b, d \o b)
    BY <1>6, Joined, Zenon
  <2> QED BY <2>1, Zenon DEF IsJoin
<1>10. Len(d \o b) = n + m - k + 1
  BY <1>1, <1>6, <1>8 DEF m
<1>11. \A i \in 1..Len(e) : e[i] = (d \o b)[i]
  <2> TAKE i \in 1..Len(e)
  <2>1. CASE i <= n - k + 1
    <3>1. i \in 1..Len(d) /\ i \in 1..(n - k + 1) /\ i \in 1..(n + m - k + 1) /\ k + i - 1 \in 1..n
      BY <1>1, <1>6, <1>7, <2>1
    <3>2. e[i] = c[k + i - 1] /\ c[k + i - 1] = a[k + i - 1] /\ d[i] = a[k + i - 1] /\ (d \o b)[i] = d[i]
      BY <1>2, <1>6, <1>7, <1>8, <3>1, Zenon
    <3> QED BY <3>2, Zenon
  <2>2. CASE ~(i <= n - k + 1)
    <3> DEFINE j == i - (n - k + 1)
    <3>1. j \in 1..m /\ i \in 1..(n + m - k + 1) /\ k + i - 1 = n + j /\ Len(d) + j = i
      BY <1>1, <1>6, <1>7, <2>2
    <3> HIDE DEF j
    <3>2. e[i] = c[n + j] /\ c[n + j] = b[j]
      BY <1>3, <1>7, <3>1, Zenon
    <3>3. (d \o b)[i] = b[j]
      BY <1>9, <3>1, Zenon DEF m
    <3> QED BY <3>2, <3>3, Zenon
  <2> QED BY <2>1, <2>2
<1>12. e = d \o b
  BY <1>7, <1>8, <1>10, <1>11, SeqEqual, Zenon
<1> QED BY <1>2, <1>6, <1>12, Zenon DEF d, e, n, m, c

\* The two parts of a concatenation.
LEMMA PartsOf ==
  ASSUME NEW T, NEW a \in Seq(T), NEW b \in Seq(T)
  PROVE  /\ SubSeq(a \o b, 1, Len(a)) = a
         /\ SubSeq(a \o b, Len(a) + 1, Len(a \o b)) = b
<1>1. Len(a) + 1 \in 1..(Len(a) + 1) /\ SubSeq(a, Len(a) + 1, Len(a)) = <<>>
  OBVIOUS
<1>2. SubSeq(a \o b, Len(a) + 1, Len(a \o b)) = <<>> \o b
  BY <1>1, SuffixOf
<1>3. <<>> \o b = b
  BY ConcatEmptySeq
<1>4. SubSeq(a \o b, 1, Len(a)) = a
  <2>1. CASE Len(a) = 0
    BY <2>1
  <2>2. CASE Len(a) # 0
    <3>1. 1 \in 1..Len(a) /\ Len(a) \in 1..Len(a)
      BY <2>2
    <3>2. SubSeq(a \o b, 1, Len(a)) = SubSeq(a, 1, Len(a))
      BY <3>1, SubSeqOfConcat1, Zenon
    <3> QED BY <3>2, SubSeqFull, Zenon
  <2> QED BY <2>1, <2>2
<1> QED BY <1>2, <1>3, <1>4, Zenon

\* An argument between others, and what is left without it, and without it and the next.
Around(a, f, b) == a \o (<<f>> \o b)

IsAround(T, a, f, b, s) ==
  /\ s \in Seq(T) /\ Len(s) = Len(a) + 1 + Len(b) /\ s[Len(a) + 1] = f
  /\ \A i \in 1..Len(a) : s[i] = a[i]
  /\ \A i \in 1..Len(b) : s[Len(a) + 1 + i] = b[i]
  /\ SubSeq(s, 1, Len(a)) = a
  /\ SubSeq(s, Len(a) + 2, Len(s)) = b
  /\ SubSeq(s, Len(a) + 3, Len(s)) = SubSeq(b, 2, Len(b))

\* The places of a list around one argument.
LEMMA AroundIs ==
  ASSUME NEW T, NEW a \in Seq(T), NEW f \in T, NEW b \in Seq(T)
  PROVE  IsAround(T, a, f, b, Around(a, f, b))
<1> DEFINE n == Len(a)
           c == <<f>> \o b
           s == Around(a, f, b)
           d == a \o <<f>>
<1>0. n \in Nat /\ Len(b) \in Nat /\ <<f>> \in Seq(T) /\ Len(<<f>>) = 1 /\ <<f>>[1] = f
  OBVIOUS
<1>1. c \in Seq(T) /\ IsJoin(<<f>>, b, c)
  BY <1>0, Joined, Zenon
<1>2. \A i \in 1..Len(b) : c[Len(<<f>>) + i] = b[i]
  BY <1>1, Zenon DEF IsJoin
<1>3. Len(c) = 1 + Len(b) /\ c[1] = f /\ \A i \in 1..Len(b) : c[1 + i] = b[i]
  BY <1>0, <1>1, <1>2 DEF IsJoin
<1> HIDE DEF c
<1>14. s = a \o c
  BY Zenon DEF Around, c
<1>4. s \in Seq(T) /\ IsJoin(a, c, s)
  BY <1>1, <1>14, Joined, Zenon
<1>5. \A i \in 1..Len(c) : s[n + i] = c[i]
  BY <1>4, Zenon DEF IsJoin
<1>6. SubSeq(s, 1, n) = a
  BY <1>1, PartsOf, Zenon DEF Around, c
<1>7. s = d \o b /\ d \in Seq(T) /\ Len(d) = n + 1
  <2>1. s = d \o b
    BY <1>0, Associative DEF Around
  <2>2. d \in Seq(T) /\ IsJoin(a, <<f>>, d)
    BY <1>0, Joined, Zenon
  <2> QED BY <1>0, <2>1, <2>2 DEF IsJoin
<1>8. SubSeq(s, n + 2, Len(s)) = b
  <2>1. SubSeq(d \o b, Len(d) + 1, Len(d \o b)) = b
    BY <1>7, PartsOf, Zenon
  <2>2. Len(d) + 1 = n + 2
    BY <1>0, <1>7
  <2> QED BY <1>7, <2>1, <2>2, Zenon
<1> HIDE DEF n, d, s
<1>9. s[n + 1] = f /\ Len(s) = n + 1 + Len(b)
  BY <1>0, <1>3, <1>4, <1>5 DEF IsJoin, n
<1>10. \A i \in 1..Len(b) : s[n + 1 + i] = b[i]
  <2> TAKE i \in 1..Len(b)
  <2>1. 1 + i \in 1..Len(c) /\ n + 1 + i = n + (1 + i)
    BY <1>0, <1>3
  <2> QED BY <1>3, <1>5, <2>1
<1>11. SubSeq(s, n + 3, Len(s)) = SubSeq(b, 2, Len(b))
  <2>1. CASE b = <<>>
    <3>1. Len(b) = 0
      BY <2>1
    <3>2. SubSeq(b, 2, Len(b)) = <<>>
      BY <2>1
    <3>3. n + 3 > Len(s) /\ n + 3 \in Int /\ Len(s) \in Int
      BY <1>0, <1>9, <3>1
    <3>4. SubSeq(s, n + 3, Len(s)) = <<>>
      BY <3>3, SubSeqEmpty
    <3> QED BY <3>2, <3>4, Zenon
  <2>2. CASE b # <<>>
    <3> DEFINE e == <<b[1]>>
               r == SubSeq(b, 2, Len(b))
    <3>1. b[1] \in T /\ 1 \in 1..Len(b) /\ Len(b) \in 1..Len(b)
      BY <2>2
    <3>2. b = e \o r
      <4>1. SubSeq(b, 1, Len(b)) = <<b[1]>> \o SubSeq(b, 1 + 1, Len(b))
        BY <3>1, SubSeqRecursiveFirst
      <4>2. SubSeq(b, 1, Len(b)) = b
        BY SubSeqFull, Zenon
      <4> QED BY <4>1, <4>2
    <3>3. r \in Seq(T) /\ e \in Seq(T) /\ Len(e) = 1
      BY <3>1
    <3> HIDE DEF r, e
    <3>4. d \o e \in Seq(T) /\ IsJoin(d, e, d \o e)
      BY <1>7, <3>3, Joined, Zenon
    <3>5. s = (d \o e) \o r
      <4> HIDE DEF d
      <4>1. s = d \o (e \o r)
        BY <1>7, <3>2, Zenon
      <4>2. d \in Seq(T) /\ e \in Seq(T) /\ r \in Seq(T)
        BY <1>7, <3>3, Zenon
      <4>3. (d \o e) \o r = d \o (e \o r)
        BY <4>2, ConcatAssociative
      <4> QED BY <4>1, <4>3, Zenon
    <3>6. SubSeq((d \o e) \o r, Len(d \o e) + 1, Len((d \o e) \o r)) = r
      BY <3>3, <3>4, PartsOf, Zenon
    <3>7. Len(d \o e) + 1 = n + 3
      BY <1>0, <1>7, <3>3, <3>4 DEF IsJoin
    <3> QED BY <3>5, <3>6, <3>7, Zenon DEF r
  <2> QED BY <2>1, <2>2
<1>12. \A i \in 1..n : s[i] = a[i]
  BY <1>4, Zenon DEF IsJoin, n
<1> QED BY <1>4, <1>6, <1>8, <1>9, <1>10, <1>11, <1>12, Zenon DEF IsAround, s, n

\* All but the first of some arguments.
IsRest(T, b, r) ==
  /\ r \in Seq(T) /\ Len(r) = Len(b) - 1 /\ b[1] \in T /\ 1 \in 1..Len(b)
  /\ b = <<b[1]>> \o r
  /\ \A i \in 1..Len(r) : i + 1 \in 1..Len(b) /\ r[i] = b[i + 1]

\* What is left of a list without its first argument.
LEMMA RestIs ==
  ASSUME NEW T, NEW b \in Seq(T), b # <<>>
  PROVE  IsRest(T, b, SubSeq(b, 2, Len(b)))
<1> DEFINE r == SubSeq(b, 2, Len(b))
<1>1. b[1] \in T /\ 1 \in 1..Len(b) /\ Len(b) \in 1..Len(b)
  OBVIOUS
<1>2. b = <<b[1]>> \o r
  <2>1. SubSeq(b, 1, Len(b)) = <<b[1]>> \o SubSeq(b, 1 + 1, Len(b))
    BY <1>1, SubSeqRecursiveFirst
  <2>2. SubSeq(b, 1, Len(b)) = b
    BY SubSeqFull, Zenon
  <2> QED BY <2>1, <2>2
<1>3. /\ r \in Seq(T) /\ Len(r) = Len(b) - 1
      /\ \A i \in 1..Len(r) : i + 1 \in 1..Len(b) /\ r[i] = b[i + 1]
  <2> DEFINE n == Len(b)
  <2>1. n \in Nat \ {0} /\ \A i \in 1..n : b[i] \in T
    OBVIOUS
  <2>2. r = SubSeq(b, 2, n)
    OBVIOUS
  <2> HIDE DEF n, r
  <2>3. r \in Seq(T) /\ Len(r) = n - 1 /\ \A i \in 1..(n - 1) : r[i] = b[2 + i - 1]
    BY <2>1, <2>2
  <2>4. \A i \in 1..Len(r) : i + 1 \in 1..n /\ r[i] = b[i + 1]
    <3> TAKE i \in 1..Len(r)
    <3>1. i \in 1..(n - 1) /\ 2 + i - 1 = i + 1 /\ i + 1 \in 1..n
      BY <2>1, <2>3
    <3>2. r[i] = b[2 + i - 1]
      BY <2>3, <3>1, Zenon
    <3> QED BY <3>1, <3>2, Zenon
  <2> QED BY <2>3, <2>4, Zenon DEF n
<1> QED BY <1>1, <1>2, <1>3, Zenon DEF IsRest

\* Some argument is of the kind, and two are.
Has(X, s) == \E i \in 1..Len(s) : s[i] \in X
Two(X, s) == \E i, j \in 1..Len(s) : i # j /\ s[i] \in X /\ s[j] \in X

\* What is had is had in a part.
LEMMA HasBoth ==
  ASSUME NEW T, NEW X, NEW a \in Seq(T), NEW b \in Seq(T)
  PROVE  /\ Has(X, a \o b) <=> Has(X, a) \/ Has(X, b)
         /\ Two(X, a \o b) <=> Two(X, a) \/ Two(X, b) \/ (Has(X, a) /\ Has(X, b))
<1> DEFINE c == a \o b
           n == Len(a)
           m == Len(b)
<1>1. n \in Nat /\ m \in Nat
  OBVIOUS
<1>0. c \in Seq(T) /\ IsJoin(a, b, c)
  BY Joined, Zenon
<1>2. c \in Seq(T) /\ Len(c) = n + m /\ \A i \in 1..n : c[i] = a[i]
  BY <1>0, Zenon DEF IsJoin
<1>3. \A i \in 1..m : c[n + i] = b[i]
  BY <1>0, Zenon DEF IsJoin
<1> HIDE DEF c, n, m
<1>4. /\ \A i \in 1..n : i \in 1..Len(c) /\ c[i] = a[i]
      /\ \A i \in 1..m : n + i \in 1..Len(c) /\ c[n + i] = b[i]
      /\ \A i \in 1..m : n + i \notin 1..n
      /\ \A i, j \in 1..m : i # j => n + i # n + j
      /\ \A i \in 1..n : \A j \in 1..m : i # n + j
      /\ \A i \in 1..Len(c) : i \in 1..n \/ \E j \in 1..m : i = n + j
  <2>1. \A i \in 1..Len(c) : i \notin 1..n => i - n \in 1..m /\ i = n + (i - n)
    BY <1>1, <1>2
  <2> QED BY <1>1, <1>2, <1>3, <2>1
<1>5. /\ Has(X, a) <=> \E i \in 1..n : a[i] \in X
      /\ Has(X, b) <=> \E i \in 1..m : b[i] \in X
      /\ Has(X, c) <=> \E i \in 1..Len(c) : c[i] \in X
      /\ Two(X, a) <=> \E i, j \in 1..n : i # j /\ a[i] \in X /\ a[j] \in X
      /\ Two(X, b) <=> \E i, j \in 1..m : i # j /\ b[i] \in X /\ b[j] \in X
      /\ Two(X, c) <=> \E i, j \in 1..Len(c) : i # j /\ c[i] \in X /\ c[j] \in X
  BY Zenon DEF Has, Two, n, m
<1>6. Has(X, c) <=> Has(X, a) \/ Has(X, b)
  BY <1>4, <1>5, Zenon
<1>7. Two(X, a) \/ Two(X, b) \/ (Has(X, a) /\ Has(X, b)) => Two(X, c)
  <2>1. Two(X, a) => Two(X, c)
    BY <1>4, <1>5, Zenon
  <2>2. Two(X, b) => Two(X, c)
    BY <1>4, <1>5, Zenon
  <2>3. Has(X, a) /\ Has(X, b) => Two(X, c)
    BY <1>4, <1>5, Zenon
  <2> QED BY <2>1, <2>2, <2>3
<1>8. ASSUME Two(X, c) PROVE Two(X, a) \/ Two(X, b) \/ (Has(X, a) /\ Has(X, b))
  <2>1. PICK i, j \in 1..Len(c) : i # j /\ c[i] \in X /\ c[j] \in X
    BY <1>5, <1>8, Zenon
  <2>2. CASE i \in 1..n /\ j \in 1..n
    BY <1>4, <1>5, <2>1, <2>2, Zenon
  <2>3. CASE i \in 1..n /\ j \notin 1..n
    <3>1. PICK l \in 1..m : j = n + l
      BY <1>4, <2>3, Zenon
    <3> QED BY <1>4, <1>5, <2>1, <2>3, <3>1, Zenon
  <2>4. CASE i \notin 1..n /\ j \in 1..n
    <3>1. PICK l \in 1..m : i = n + l
      BY <1>4, <2>4, Zenon
    <3> QED BY <1>4, <1>5, <2>1, <2>4, <3>1, Zenon
  <2>5. CASE i \notin 1..n /\ j \notin 1..n
    <3>1. PICK l \in 1..m : i = n + l
      BY <1>4, <2>5, Zenon
    <3>2. PICK k \in 1..m : j = n + k
      BY <1>4, <2>5, Zenon
    <3>3. l # k /\ b[l] \in X /\ b[k] \in X
      BY <1>4, <2>1, <3>1, <3>2, Zenon
    <3> QED BY <1>5, <3>3, Zenon
  <2> QED BY <2>2, <2>3, <2>4, <2>5
<1> QED BY <1>6, <1>7, <1>8, Zenon DEF c

\* One argument.
LEMMA HasOne ==
  ASSUME NEW X, NEW f
  PROVE  (Has(X, <<f>>) <=> f \in X) /\ ~Two(X, <<f>>)
<1> DEFINE s == <<f>>
<1>1. Len(s) = 1 /\ s[1] = f /\ \A i : i \in 1..1 <=> i = 1
  OBVIOUS
<1> HIDE DEF s
<1>2. (Has(X, s) <=> f \in X) /\ ~Two(X, s)
  BY <1>1 DEF Has, Two
<1> QED BY <1>2 DEF s

\* No argument is of a kind if the list is empty.
LEMMA HasNone ==
  ASSUME NEW X
  PROVE  ~Has(X, <<>>) /\ ~Two(X, <<>>)
<1>1. Len(<<>>) = 0 /\ \A i : i \notin 1..0
  OBVIOUS
<1> QED BY <1>1, Zenon DEF Has, Two

\* The one argument of the kind, and what is around it.
Lone(T, X, s, a, f, b) ==
  /\ a \in Seq(T) /\ f \in T /\ f \in X /\ b \in Seq(T) /\ ~Has(X, a) /\ ~Has(X, b)
  /\ s = Around(a, f, b)

\* A list around the one argument of a kind has no other.
LEMMA LoneOne ==
  ASSUME NEW T, NEW X, NEW s \in Seq(T), Has(X, s), ~Two(X, s)
  PROVE  \E a, f, b : Lone(T, X, s, a, f, b)
<1>1. PICK i \in 1..Len(s) : s[i] \in X
  BY Zenon DEF Has
<1> DEFINE a == SubSeq(s, 1, i - 1)
           f == s[i]
           b == SubSeq(s, i + 1, Len(s))
<1>2. a \in Seq(T) /\ f \in T /\ b \in Seq(T) /\ <<f>> \in Seq(T)
  OBVIOUS
<1>3. s = Around(a, f, b)
  <2>1. i \in i..Len(s) /\ i \in 1..Len(s) /\ Len(s) \in i..Len(s) /\ Len(s) \in (i - 1)..Len(s)
    OBVIOUS
  <2>2. SubSeq(s, i, Len(s)) = <<s[i]>> \o SubSeq(s, i + 1, Len(s))
    BY <2>1, SubSeqRecursiveFirst, Zenon
  <2>3. 1 \in 1..(Len(s) + 1) /\ i - 1 \in (1 - 1)..Len(s) /\ (i - 1) + 1 = i
    BY <1>1
  <2>4. SubSeq(s, 1, i - 1) \o SubSeq(s, (i - 1) + 1, Len(s)) = SubSeq(s, 1, Len(s))
    BY <2>1, <2>3, ConcatAdjacentSubSeq, Zenon
  <2>5. SubSeq(s, 1, Len(s)) = s
    BY SubSeqFull, Zenon
  <2> QED BY <2>2, <2>3, <2>4, <2>5, Zenon DEF Around
<1> HIDE DEF a, b, f
<1>4. /\ Has(X, <<f>>)
      /\ Has(X, <<f>> \o b) /\ <<f>> \o b \in Seq(T)
      /\ Two(X, <<f>> \o b) <=> Two(X, <<f>>) \/ Two(X, b) \/ (Has(X, <<f>>) /\ Has(X, b))
  <2>1. f \in X
    BY <1>1 DEF f
  <2>2. Has(X, <<f>>)
    BY <2>1, HasOne, Zenon
  <2>3. <<f>> \o b \in Seq(T)
    BY <1>2, Concatenated, Zenon
  <2> QED BY <1>2, <2>2, <2>3, HasBoth, Zenon
<1>5. Two(X, s) <=> Two(X, a) \/ Two(X, <<f>> \o b) \/ (Has(X, a) /\ Has(X, <<f>> \o b))
  BY <1>2, <1>3, <1>4, HasBoth, Zenon DEF Around
<1>6. ~Has(X, a) /\ ~Has(X, b)
  BY <1>4, <1>5, Zenon
<1>7. f \in X
  BY <1>1 DEF f
<1>8. Lone(T, X, s, a, f, b)
  BY <1>2, <1>3, <1>6, <1>7, Zenon DEF Lone
<1> QED BY <1>8, Zenon
-----------------------------------------------------------------------------
(* Two neighbours among the options of a command line.                     *)

\* Options and their values: a word stands only behind an option without an
\* equals sign.
Grouped(T, q) ==
  /\ q \in Seq(T)
  /\ \A i \in 1..Len(q) : IsWord(q[i]) => i - 1 \in 1..Len(q) /\ q[i - 1].form = "bare" /\ ~IsWord(q[i - 1])

\* No options are options.
LEMMA GroupedNone == ASSUME NEW T PROVE Grouped(T, <<>>)
<1>1. <<>> \in Seq(T) /\ Len(<<>>) = 0 /\ \A i : i \notin 1..0
  OBVIOUS
<1> QED BY <1>1, Zenon DEF Grouped

\* Options begin with an option.
LEMMA GroupedBegins == ASSUME NEW T, NEW q, Grouped(T, q), q # <<>> PROVE ~IsWord(q[1])
<1>1. q \in Seq(T) /\ (IsWord(q[1]) /\ 1 \in 1..Len(q) => 1 - 1 \in 1..Len(q))
  BY DEF Grouped
<1>2. 1 \in 1..Len(q) /\ 1 - 1 \notin 1..Len(q)
  BY <1>1
<1> QED BY <1>1, <1>2, Zenon

\* A group is options.
LEMMA GroupedGroup == ASSUME NEW T, NEW x, IsGroup(T, x) PROVE Grouped(T, x)
<1>1. x \in Seq(T) /\ ~IsWord(x[1]) /\ (Len(x) = 1 \/ (Len(x) = 2 /\ x[1].form = "bare"))
  BY Zenon DEF IsGroup
<1>2. ASSUME NEW i \in 1..Len(x), IsWord(x[i]) PROVE i - 1 \in 1..Len(x) /\ x[i - 1].form = "bare" /\ ~IsWord(x[i - 1])
  <2>1. i = 1 \/ i = 2
    <3>1. CASE Len(x) = 1
      BY <3>1
    <3>2. CASE Len(x) = 2
      BY <3>2
    <3> QED BY <1>1, <3>1, <3>2, Zenon
  <2>2. i # 1
    BY <1>1, <1>2
  <2>3. Len(x) = 2 /\ i = 2
    BY <1>1, <2>1, <2>2
  <2>4. i - 1 = 1 /\ 1 \in 1..Len(x) /\ x[1].form = "bare"
    BY <1>1, <2>3
  <2> QED BY <1>1, <2>4
<1> QED BY <1>1, <1>2, Zenon DEF Grouped

\* Options after options are options.
LEMMA GroupedBoth ==
  ASSUME NEW T, NEW p, Grouped(T, p), NEW q, Grouped(T, q)
  PROVE  Grouped(T, p \o q)
<1> DEFINE u == p \o q
           n == Len(p)
           m == Len(q)
<1>1. p \in Seq(T) /\ q \in Seq(T)
  BY Zenon DEF Grouped
<1>2. n \in Nat /\ m \in Nat
  BY <1>1
<1>3. u \in Seq(T) /\ IsJoin(p, q, u)
  BY <1>1, Joined, Zenon
<1> HIDE DEF u
<1>4. Len(u) = n + m /\ (\A i \in 1..n : u[i] = p[i]) /\ \A i \in 1..m : u[n + i] = q[i]
  BY <1>3, Zenon DEF IsJoin
<1>5. /\ \A i \in 1..n : IsWord(p[i]) => i - 1 \in 1..n /\ p[i - 1].form = "bare" /\ ~IsWord(p[i - 1])
      /\ \A i \in 1..m : IsWord(q[i]) => i - 1 \in 1..m /\ q[i - 1].form = "bare" /\ ~IsWord(q[i - 1])
  BY Zenon DEF Grouped
<1> HIDE DEF n, m
<1>6. ASSUME NEW i \in 1..Len(u), IsWord(u[i]) PROVE i - 1 \in 1..Len(u) /\ u[i - 1].form = "bare" /\ ~IsWord(u[i - 1])
  <2>1. CASE i <= n
    <3>1. i \in 1..n
      BY <1>2, <2>1
    <3>2. i - 1 \in 1..n /\ p[i - 1].form = "bare" /\ ~IsWord(p[i - 1])
      BY <1>4, <1>5, <1>6, <3>1
    <3>3. i - 1 \in 1..Len(u) /\ u[i - 1] = p[i - 1]
      BY <1>2, <1>4, <3>2
    <3> QED BY <3>2, <3>3
  <2>2. CASE ~(i <= n)
    <3> DEFINE j == i - n
    <3>1. j \in 1..m /\ n + j = i /\ n + (j - 1) = i - 1
      BY <1>2, <1>4, <2>2
    <3> HIDE DEF j
    <3>2. j - 1 \in 1..m /\ q[j - 1].form = "bare" /\ ~IsWord(q[j - 1])
      BY <1>4, <1>5, <1>6, <3>1
    <3>3. i - 1 \in 1..Len(u)
      BY <1>2, <1>4, <3>1, <3>2
    <3>4. u[i - 1] = q[j - 1]
      BY <1>4, <3>1, <3>2
    <3> QED BY <3>2, <3>3, <3>4
  <2> QED BY <2>1, <2>2
<1> QED BY <1>3, <1>6, Zenon DEF Grouped, u

\* What remains of options when one, and perhaps its value, is taken out.
LEMMA GroupedCut ==
  ASSUME NEW T, NEW a \in Seq(T), NEW f \in T, NEW b \in Seq(T), ~IsWord(f), Grouped(T, Around(a, f, b))
  PROVE  /\ f.form # "bare" => Grouped(T, a \o b)
         /\ b # <<>> /\ IsWord(b[1]) => Grouped(T, a \o SubSeq(b, 2, Len(b)))
<1> DEFINE s == Around(a, f, b)
           n == Len(a)
           m == Len(b)
<1>1. /\ s \in Seq(T) /\ Len(s) = n + 1 + m /\ s[n + 1] = f
      /\ \A i \in 1..n : s[i] = a[i]
      /\ \A i \in 1..m : s[n + 1 + i] = b[i]
  <2>1. IsAround(T, a, f, b, s)
    BY AroundIs, Zenon
  <2> QED BY <2>1, Zenon DEF IsAround
<1>2. n \in Nat /\ m \in Nat
  OBVIOUS
<1>3. \A i \in 1..Len(s) : IsWord(s[i]) => i - 1 \in 1..Len(s) /\ s[i - 1].form = "bare" /\ ~IsWord(s[i - 1])
  BY Zenon DEF Grouped
<1> HIDE DEF s, n, m
<1>4. Grouped(T, a)
  <2>1. ASSUME NEW i \in 1..n, IsWord(a[i]) PROVE i - 1 \in 1..n /\ a[i - 1].form = "bare" /\ ~IsWord(a[i - 1])
    <3>1. i \in 1..Len(s) /\ s[i] = a[i]
      BY <1>1, <1>2
    <3>2. i - 1 \in 1..Len(s) /\ s[i - 1].form = "bare" /\ ~IsWord(s[i - 1])
      BY <1>3, <2>1, <3>1
    <3>3. i - 1 \in 1..n
      BY <1>2, <3>2
    <3> QED BY <1>1, <3>2, <3>3
  <2> QED BY <2>1, Zenon DEF Grouped, n
<1>5. ASSUME NEW i \in 1..m, IsWord(b[i]), i # 1 PROVE i - 1 \in 1..m /\ b[i - 1].form = "bare" /\ ~IsWord(b[i - 1])
  <2>1. n + 1 + i \in 1..Len(s) /\ s[n + 1 + i] = b[i] /\ i - 1 \in 1..m /\ (n + 1 + i) - 1 = n + 1 + (i - 1)
    BY <1>1, <1>2, <1>5
  <2>2. s[n + 1 + (i - 1)].form = "bare" /\ ~IsWord(s[n + 1 + (i - 1)])
    BY <1>3, <1>5, <2>1
  <2>3. s[n + 1 + (i - 1)] = b[i - 1]
    BY <1>1, <2>1
  <2> QED BY <2>1, <2>2, <2>3
<1>6. ASSUME f.form # "bare" PROVE Grouped(T, a \o b)
  <2>1. ASSUME NEW i \in 1..m, IsWord(b[i]) PROVE i # 1
    <3> SUFFICES ASSUME i = 1 PROVE FALSE
      OBVIOUS
    <3>1. n + 1 + 1 \in 1..Len(s) /\ s[n + 1 + 1] = b[1] /\ (n + 1 + 1) - 1 = n + 1
      BY <1>1, <1>2
    <3>2. IsWord(b[1])
      BY <2>1
    <3>3. s[n + 1].form = "bare"
      BY <1>3, <3>1, <3>2
    <3> QED BY <1>1, <1>6, <3>3
  <2>2. \A i \in 1..m : IsWord(b[i]) => i - 1 \in 1..m /\ b[i - 1].form = "bare" /\ ~IsWord(b[i - 1])
    BY <1>5, <2>1, Zenon
  <2>3. Grouped(T, b)
    BY <2>2, Zenon DEF Grouped, m
  <2> QED BY <1>4, <2>3, GroupedBoth, Zenon
<1>7. ASSUME b # <<>>, IsWord(b[1]) PROVE Grouped(T, a \o SubSeq(b, 2, Len(b)))
  <2> DEFINE r == SubSeq(b, 2, Len(b))
  <2>1. r \in Seq(T) /\ m # 0 /\ Len(r) = m - 1 /\ \A i \in 1..Len(r) : i + 1 \in 1..m /\ r[i] = b[i + 1]
    <3>1. Len(b) # 0
      BY <1>7
    <3>2. /\ r \in Seq(T) /\ Len(r) = Len(b) - 1
          /\ \A i \in 1..Len(r) : i + 1 \in 1..Len(b) /\ r[i] = b[i + 1]
      <4>1. IsRest(T, b, SubSeq(b, 2, Len(b)))
        BY <1>7, RestIs
      <4> QED BY <4>1, Zenon DEF IsRest
    <3> QED BY <3>1, <3>2, Zenon DEF m
  <2> HIDE DEF r
  <2>2. ASSUME NEW i \in 1..Len(r), IsWord(r[i]) PROVE i - 1 \in 1..Len(r) /\ r[i - 1].form = "bare" /\ ~IsWord(r[i - 1])
    <3>1. i + 1 \in 1..m /\ IsWord(b[i + 1]) /\ i + 1 # 1 /\ (i + 1) - 1 = i
      BY <2>1, <2>2
    <3>2. b[i].form = "bare" /\ ~IsWord(b[i])
      BY <1>5, <3>1
    <3>3. i # 1
      BY <1>7, <3>2
    <3>4. i - 1 \in 1..Len(r) /\ (i - 1) + 1 = i
      BY <2>1, <3>3
    <3> QED BY <2>1, <3>2, <3>4
  <2>3. Grouped(T, r)
    BY <2>1, <2>2, Zenon DEF Grouped
  <2> QED BY <1>4, <2>3, GroupedBoth, Zenon DEF r
<1> QED BY <1>6, <1>7

\* What is before and behind two neighbours.
Frame(T, p, q) ==
  /\ p \in Seq(T) /\ p # <<>> /\ IsWord(p[1])
  /\ p[1].text = "inspect" => 2 \in 1..Len(p) /\ IsWord(p[2])
  /\ Grouped(T, q)

\* Two command lines that differ in the order of two neighbours.
IsTurn(T, p, x, y, q, u, v) ==
  /\ Frame(T, p, q) /\ IsGroup(T, x) /\ IsGroup(T, y)
  /\ u = p \o ((x \o y) \o q)
  /\ v = p \o ((y \o x) \o q)

Turned(T, u, v) == u \in Seq(T) /\ (u = v \/ \E p, x, y, q : IsTurn(T, p, x, y, q, u, v))

\* The parts of them are made of the arguments considered.
PartsTyped(T, p, x, y, q) ==
  /\ p \in Seq(T) /\ q \in Seq(T) /\ x \in Seq(T) /\ y \in Seq(T) /\ p # <<>> /\ x # <<>> /\ y # <<>>
  /\ ~IsWord(x[1]) /\ ~IsWord(y[1])
  /\ x \o y \in Seq(T) /\ y \o q \in Seq(T) /\ (x \o y) \o q \in Seq(T) /\ p \o ((x \o y) \o q) \in Seq(T)
  /\ x \o y # <<>> /\ (x \o y) \o q # <<>> /\ ((x \o y) \o q)[1] = x[1]

\* All parts of a turned command line are lists of the arguments considered.
LEMMA TurnTyped ==
  ASSUME NEW T, NEW p, NEW x, NEW y, NEW q, Frame(T, p, q), IsGroup(T, x), IsGroup(T, y)
  PROVE  PartsTyped(T, p, x, y, q)
<1>1. p \in Seq(T) /\ q \in Seq(T) /\ p # <<>>
  BY Zenon DEF Frame, Grouped
<1>2. x \in Seq(T) /\ y \in Seq(T) /\ x # <<>> /\ y # <<>> /\ ~IsWord(x[1]) /\ ~IsWord(y[1])
  BY GroupIs, Zenon DEF IsGroup
<1>3. x \o y \in Seq(T) /\ y \o q \in Seq(T) /\ x \o y # <<>> /\ (x \o y)[1] = x[1]
  <2>1. x \o y \in Seq(T) /\ y \o q \in Seq(T)
    BY <1>1, <1>2, Concatenated, Zenon
  <2>2. x \o y # <<>> /\ (x \o y)[1] = x[1]
    BY <1>2, BeginsAsBefore, Zenon
  <2> QED BY <2>1, <2>2, Zenon
<1>4. (x \o y) \o q \in Seq(T) /\ (x \o y) \o q # <<>> /\ ((x \o y) \o q)[1] = x[1]
  <2>1. (x \o y) \o q \in Seq(T)
    BY <1>1, <1>3, Concatenated, Zenon
  <2>2. (x \o y) \o q # <<>> /\ ((x \o y) \o q)[1] = x[1]
    BY <1>1, <1>3, BeginsAsBefore
  <2> QED BY <2>1, <2>2, Zenon
<1>5. p \o ((x \o y) \o q) \in Seq(T)
  BY <1>1, <1>4, Concatenated, Zenon
<1> QED BY <1>1, <1>2, <1>3, <1>4, <1>5, Zenon DEF PartsTyped

\* What is turned can be turned back.
LEMMA TurnBack ==
  ASSUME NEW T, NEW p, NEW x, NEW y, NEW q, NEW u, NEW v, IsTurn(T, p, x, y, q, u, v)
  PROVE  IsTurn(T, p, y, x, q, v, u) /\ u \in Seq(T) /\ v \in Seq(T)
<1>1. PartsTyped(T, p, x, y, q) /\ PartsTyped(T, p, y, x, q)
  BY TurnTyped, Zenon DEF IsTurn
<1> QED BY <1>1, Zenon DEF IsTurn, PartsTyped

\* Turning works both ways.
LEMMA TurnedIs ==
  ASSUME NEW T, NEW p, NEW x, NEW y, NEW q, NEW u, NEW v, IsTurn(T, p, x, y, q, u, v)
  PROVE  Turned(T, u, v) /\ Turned(T, v, u)
<1>1. IsTurn(T, p, x, y, q, u, v)
  OBVIOUS
<1>2. IsTurn(T, p, y, x, q, v, u) /\ u \in Seq(T) /\ v \in Seq(T)
  BY <1>1, TurnBack
<1> QED BY <1>1, <1>2, Zenon DEF Turned
-----------------------------------------------------------------------------
(* The one argument of a kind in two turned command lines.                 *)

\* It is followed by more, or behind more.
LEMMA LoneBefore ==
  ASSUME NEW T, NEW X, NEW s, NEW a, NEW f, NEW b, Lone(T, X, s, a, f, b), NEW m, m \in Seq(T), ~Has(X, m)
  PROVE  Lone(T, X, s \o m, a, f, b \o m)
<1>1. /\ a \in Seq(T) /\ f \in T /\ f \in X /\ b \in Seq(T) /\ ~Has(X, a) /\ ~Has(X, b)
      /\ s = a \o (<<f>> \o b)
  BY Zenon DEF Lone, Around
<1>2. <<f>> \in Seq(T)
  BY <1>1
<1>3. <<f>> \o b \in Seq(T) /\ b \o m \in Seq(T)
  BY <1>1, <1>2, Concatenated, Zenon
<1>4. (a \o (<<f>> \o b)) \o m = a \o ((<<f>> \o b) \o m)
  BY <1>1, <1>3, Associative
<1>5. (<<f>> \o b) \o m = <<f>> \o (b \o m)
  BY <1>1, <1>2, Associative
<1>6. ~Has(X, b \o m)
  BY <1>1, HasBoth, Zenon
<1>7. s \o m = Around(a, f, b \o m)
  BY <1>1, <1>4, <1>5, Zenon DEF Around
<1> QED BY <1>1, <1>3, <1>6, <1>7, Zenon DEF Lone

\* It is behind more arguments.
LEMMA LoneBehind ==
  ASSUME NEW T, NEW X, NEW s, NEW a, NEW f, NEW b, Lone(T, X, s, a, f, b), NEW m, m \in Seq(T), ~Has(X, m)
  PROVE  Lone(T, X, m \o s, m \o a, f, b)
<1>1. /\ a \in Seq(T) /\ f \in T /\ f \in X /\ b \in Seq(T) /\ ~Has(X, a) /\ ~Has(X, b)
      /\ s = a \o (<<f>> \o b)
  BY Zenon DEF Lone, Around
<1>2. <<f>> \in Seq(T)
  BY <1>1
<1>3. <<f>> \o b \in Seq(T) /\ m \o a \in Seq(T)
  BY <1>1, <1>2, Concatenated, Zenon
<1>4. (m \o a) \o (<<f>> \o b) = m \o (a \o (<<f>> \o b))
  BY <1>1, <1>3, Associative
<1>6. ~Has(X, m \o a)
  BY <1>1, HasBoth, Zenon
<1>7. m \o s = Around(m \o a, f, b)
  BY <1>1, <1>4, Zenon DEF Around
<1> QED BY <1>1, <1>3, <1>6, <1>7, Zenon DEF Lone

\* A group has an argument of the kind in the first place.
LEMMA LoneGroup ==
  ASSUME NEW T, NEW X, X \subseteq {t \in T : ~IsWord(t)}, NEW x, IsGroup(T, x), Has(X, x)
  PROVE  \E z \in Seq(T) : /\ Lone(T, X, x, <<>>, x[1], z)
                           /\ z = <<>> \/ (Len(x) = 2 /\ x[2] \in T /\ IsWord(x[2]) /\ z = <<x[2]>>)
                           /\ x[1].form # "bare" => z = <<>>
<1>1. /\ x \in Seq(T) /\ Len(x) \in {1, 2} /\ x # <<>> /\ x[1] \in T /\ x[1].option # ""
      /\ Len(x) = 1 => x = <<x[1]>>
      /\ Len(x) = 2 => x = <<x[1]>> \o <<x[2]>> /\ x[2] \in T /\ x[2].option = "" /\ x[2].text # "" /\ x[1].form = "bare"
  BY GroupIs, Zenon
<1> DEFINE f == x[1]
<1>2. <<>> \in Seq(T) /\ <<f>> \in Seq(T) /\ <<f>> \o <<>> = <<f>> /\ <<>> \o <<f>> = <<f>>
  <2>0. f \in T
    BY <1>1, Zenon
  <2> HIDE DEF f
  <2>1. <<>> \in Seq(T) /\ <<f>> \in Seq(T)
    BY <2>0
  <2> DEFINE s == <<f>>
  <2>2. s \in Seq(T)
    BY <2>1
  <2> HIDE DEF s
  <2>3. s \o <<>> = s /\ <<>> \o s = s
    BY <2>2, ConcatEmptySeq, Zenon
  <2> QED BY <2>1, <2>3 DEF s
<1>3. ~Has(X, <<>>) /\ (Has(X, <<f>>) <=> f \in X)
  BY HasNone, HasOne, Zenon
<1>4. CASE Len(x) = 1
  <2>1. x = <<f>> /\ f \in X
    BY <1>1, <1>3, <1>4, Zenon
  <2>2. x = Around(<<>>, f, <<>>)
    BY <1>2, <2>1, Zenon DEF Around
  <2>3. Lone(T, X, x, <<>>, f, <<>>)
    BY <1>1, <1>2, <1>3, <2>1, <2>2, Zenon DEF Lone
  <2> QED BY <1>2, <2>3, Zenon
<1>5. CASE Len(x) = 2
  <2> DEFINE z == <<x[2]>>
  <2>1. x = <<f>> \o z /\ x[2] \in T /\ IsWord(x[2]) /\ f.form = "bare"
    BY <1>1, <1>5, Zenon DEF IsWord
  <2>2. z \in Seq(T) /\ z # <<>> /\ z[1] = x[2]
    BY <2>1
  <2>3. x[2] \notin X
    BY <2>1
  <2>4. ~Has(X, z)
    BY <2>3, HasOne, Zenon
  <2> HIDE DEF z
  <2>5. Has(X, x) <=> Has(X, <<f>>) \/ Has(X, z)
    <3> DEFINE s == <<f>>
    <3>1. s \in Seq(T) /\ x = s \o z
      BY <1>2, <2>1, Zenon
    <3> HIDE DEF s
    <3>2. Has(X, s \o z) <=> Has(X, s) \/ Has(X, z)
      BY <2>2, <3>1, HasBoth, Zenon
    <3> QED BY <3>1, <3>2, Zenon DEF s
  <2>6. f \in X
    BY <1>3, <2>4, <2>5, Zenon
  <2>7. x = Around(<<>>, f, z)
    <3>1. <<f>> \o z \in Seq(T)
      BY <1>2, <2>2, Concatenated, Zenon
    <3>2. <<>> \o (<<f>> \o z) = <<f>> \o z
      BY <3>1, ConcatEmptySeq, Zenon
    <3> QED BY <2>1, <3>2, Zenon DEF Around
  <2>8. Lone(T, X, x, <<>>, f, z)
    BY <1>1, <1>2, <1>3, <2>2, <2>4, <2>6, <2>7, Zenon DEF Lone
  <2> QED BY <1>5, <2>1, <2>2, <2>8, Zenon DEF z
<1> QED BY <1>1, <1>4, <1>5, Zenon

\* Whether there are some does not depend on the order.
HasParts(X, p, x, y, q, u) ==
  /\ Has(X, u) <=> Has(X, p) \/ Has(X, x) \/ Has(X, y) \/ Has(X, q)
  /\ Two(X, u) <=> \/ Two(X, p) \/ Two(X, x) \/ Two(X, y) \/ Two(X, q)
                   \/ Has(X, p) /\ (Has(X, x) \/ Has(X, y) \/ Has(X, q))
                   \/ Has(X, x) /\ (Has(X, y) \/ Has(X, q))
                   \/ Has(X, y) /\ Has(X, q)

\* Two turned command lines have the same kinds of arguments.
LEMMA TurnHas ==
  ASSUME NEW T, NEW X, NEW p, NEW x, NEW y, NEW q, PartsTyped(T, p, x, y, q)
  PROVE  HasParts(X, p, x, y, q, p \o ((x \o y) \o q))
<1>1. /\ p \in Seq(T) /\ q \in Seq(T) /\ x \in Seq(T) /\ y \in Seq(T)
      /\ x \o y \in Seq(T) /\ (x \o y) \o q \in Seq(T)
  BY Zenon DEF PartsTyped
<1>2. /\ Has(X, x \o y) <=> Has(X, x) \/ Has(X, y)
      /\ Two(X, x \o y) <=> Two(X, x) \/ Two(X, y) \/ (Has(X, x) /\ Has(X, y))
  <2>1. x \in Seq(T) /\ y \in Seq(T)
    BY <1>1, Zenon
  <2> QED BY <2>1, HasBoth, Zenon
<1>3. /\ Has(X, (x \o y) \o q) <=> Has(X, x \o y) \/ Has(X, q)
      /\ Two(X, (x \o y) \o q) <=> Two(X, x \o y) \/ Two(X, q) \/ (Has(X, x \o y) /\ Has(X, q))
  <2>1. x \o y \in Seq(T) /\ q \in Seq(T)
    BY <1>1, Zenon
  <2> QED BY <2>1, HasBoth, Zenon
<1>4. /\ Has(X, p \o ((x \o y) \o q)) <=> Has(X, p) \/ Has(X, (x \o y) \o q)
      /\ Two(X, p \o ((x \o y) \o q)) <=> Two(X, p) \/ Two(X, (x \o y) \o q) \/ (Has(X, p) /\ Has(X, (x \o y) \o q))
  <2>1. p \in Seq(T) /\ (x \o y) \o q \in Seq(T)
    BY <1>1, Zenon
  <2> QED BY <2>1, HasBoth, Zenon
<1> QED BY <1>2, <1>3, <1>4 DEF HasParts

\* It is in what is before, in one of the neighbours, or in what is behind.
IsFront(T, X, p, x, y, q, u, v, a, f, b) ==
  /\ Lone(T, X, p, a, f, b)
  /\ Lone(T, X, u, a, f, b \o ((x \o y) \o q)) /\ Lone(T, X, v, a, f, b \o ((y \o x) \o q))
IsOwn(T, X, p, x, y, q, u, v, f, z) ==
  /\ z = <<>> \/ (Len(x) = 2 /\ x[2] \in T /\ IsWord(x[2]) /\ z = <<x[2]>>)
  /\ f.form # "bare" => z = <<>>
  /\ x = <<f>> \o z
  /\ Lone(T, X, u, p, f, z \o (y \o q)) /\ Lone(T, X, v, p \o y, f, z \o q)
IsBack(T, X, p, x, y, q, u, v, a, f, b) ==
  /\ Lone(T, X, q, a, f, b)
  /\ Lone(T, X, u, p \o ((x \o y) \o a), f, b) /\ Lone(T, X, v, p \o ((y \o x) \o a), f, b)

\* The one argument of a kind in one of the two groups.
LEMMA OwnLone ==
  ASSUME NEW T, NEW X, X \subseteq {t \in T : ~IsWord(t)},
         NEW p, NEW x, NEW y, NEW q, NEW u, NEW v, IsTurn(T, p, x, y, q, u, v),
         Has(X, x), ~Has(X, p), ~Has(X, y), ~Has(X, q)
  PROVE  \E f, z : IsOwn(T, X, p, x, y, q, u, v, f, z)
<1>1. /\ PartsTyped(T, p, x, y, q) /\ PartsTyped(T, p, y, x, q) /\ IsGroup(T, x)
      /\ u = p \o ((x \o y) \o q) /\ v = p \o ((y \o x) \o q)
  BY TurnTyped, Zenon DEF IsTurn
<1>2. /\ p \in Seq(T) /\ q \in Seq(T) /\ x \in Seq(T) /\ y \in Seq(T) /\ x \o y \in Seq(T) /\ y \o x \in Seq(T)
      /\ (x \o y) \o q \in Seq(T) /\ (y \o x) \o q \in Seq(T) /\ y \o q \in Seq(T)
  BY <1>1, Zenon DEF PartsTyped
<1>3. PICK z \in Seq(T) : /\ Lone(T, X, x, <<>>, x[1], z)
                          /\ z = <<>> \/ (Len(x) = 2 /\ x[2] \in T /\ IsWord(x[2]) /\ z = <<x[2]>>)
                          /\ x[1].form # "bare" => z = <<>>
  BY <1>1, LoneGroup
<1> DEFINE f == x[1]
<1>4. <<f>> \in Seq(T) /\ x = <<f>> \o z
  <2>1. f \in T /\ x = <<>> \o (<<f>> \o z)
    BY <1>3, Zenon DEF Lone, Around
  <2>2. <<f>> \in Seq(T)
    BY <2>1
  <2>3. <<f>> \o z \in Seq(T)
    BY <2>2, Concatenated, Zenon
  <2> QED BY <2>1, <2>2, <2>3, ConcatEmptySeq, Zenon
<1> HIDE DEF f
<1>5. Lone(T, X, x, <<>>, f, z)
  BY <1>3, Zenon DEF f
<1>6. Lone(T, X, u, p, f, z \o (y \o q))
  <2>1. Lone(T, X, x \o y, <<>>, f, z \o y)
    BY <1>2, <1>5, LoneBefore, Zenon
  <2>2. Lone(T, X, (x \o y) \o q, <<>>, f, (z \o y) \o q)
    BY <1>2, <2>1, LoneBefore, Zenon
  <2>3. Lone(T, X, p \o ((x \o y) \o q), p \o <<>>, f, (z \o y) \o q)
    BY <1>2, <2>2, LoneBehind, Zenon
  <2>4. p \o <<>> = p
    BY <1>2, ConcatEmptySeq, Zenon
  <2>5. (z \o y) \o q = z \o (y \o q)
    BY <1>2, Associative
  <2> QED BY <1>1, <2>3, <2>4, <2>5, Zenon
<1>7. Lone(T, X, v, p \o y, f, z \o q)
  <2>1. Lone(T, X, y \o x, y \o <<>>, f, z)
    BY <1>2, <1>5, LoneBehind, Zenon
  <2>2. y \o <<>> = y
    BY <1>2, ConcatEmptySeq, Zenon
  <2>3. Lone(T, X, (y \o x) \o q, y, f, z \o q)
    BY <1>2, <2>1, <2>2, LoneBefore, Zenon
  <2>4. Lone(T, X, p \o ((y \o x) \o q), p \o y, f, z \o q)
    BY <1>2, <2>3, LoneBehind, Zenon
  <2> QED BY <1>1, <2>4, Zenon
<1> QED BY <1>3, <1>4, <1>6, <1>7, Zenon DEF IsOwn, f

\* The one argument of a kind is before the two groups, in one of them, or behind.
LEMMA TurnLone ==
  ASSUME NEW T, NEW X, X \subseteq {t \in T : ~IsWord(t)},
         NEW p, NEW x, NEW y, NEW q, NEW u, NEW v, IsTurn(T, p, x, y, q, u, v), Has(X, u), ~Two(X, u)
  PROVE  \/ \E a, f, b : IsFront(T, X, p, x, y, q, u, v, a, f, b)
         \/ \E f, z : IsOwn(T, X, p, x, y, q, u, v, f, z)
         \/ \E f, z : IsOwn(T, X, p, y, x, q, v, u, f, z)
         \/ \E a, f, b : IsBack(T, X, p, x, y, q, u, v, a, f, b)
<1>0. IsTurn(T, p, x, y, q, u, v) /\ IsTurn(T, p, y, x, q, v, u)
  BY TurnBack
<1>1. /\ PartsTyped(T, p, x, y, q) /\ PartsTyped(T, p, y, x, q)
      /\ u = p \o ((x \o y) \o q) /\ v = p \o ((y \o x) \o q)
  BY TurnTyped, Zenon DEF IsTurn
<1>2. /\ p \in Seq(T) /\ q \in Seq(T) /\ x \in Seq(T) /\ y \in Seq(T) /\ x \o y \in Seq(T) /\ y \o x \in Seq(T)
      /\ (x \o y) \o q \in Seq(T) /\ (y \o x) \o q \in Seq(T)
  BY <1>1, Zenon DEF PartsTyped
<1>3. HasParts(X, p, x, y, q, u)
  BY <1>1, TurnHas, Zenon
<1>4. /\ Has(X, x \o y) <=> Has(X, x) \/ Has(X, y)
      /\ Has(X, y \o x) <=> Has(X, x) \/ Has(X, y)
  BY <1>2, HasBoth, Zenon
<1>5. /\ Has(X, (x \o y) \o q) <=> Has(X, x \o y) \/ Has(X, q)
      /\ Has(X, (y \o x) \o q) <=> Has(X, y \o x) \/ Has(X, q)
  BY <1>2, HasBoth, Zenon
<1>6. CASE Has(X, p)
  <2>1. ~Two(X, p) /\ ~Has(X, (x \o y) \o q) /\ ~Has(X, (y \o x) \o q)
    BY <1>3, <1>4, <1>5, <1>6, Zenon DEF HasParts
  <2>2. PICK a, f, b : Lone(T, X, p, a, f, b)
    BY <1>2, <1>6, <2>1, LoneOne, Zenon
  <2>3. Lone(T, X, u, a, f, b \o ((x \o y) \o q))
    BY <1>1, <1>2, <2>1, <2>2, LoneBefore, Zenon
  <2>4. Lone(T, X, v, a, f, b \o ((y \o x) \o q))
    BY <1>1, <1>2, <2>1, <2>2, LoneBefore, Zenon
  <2> QED BY <2>2, <2>3, <2>4, Zenon DEF IsFront
<1>7. CASE Has(X, x)
  <2>1. ~Has(X, p) /\ ~Has(X, y) /\ ~Has(X, q)
    BY <1>3, <1>7, Zenon DEF HasParts
  <2>2. \E f, z : IsOwn(T, X, p, x, y, q, u, v, f, z)
    BY <1>0, <1>7, <2>1, OwnLone
  <2> QED BY <2>2, Zenon
<1>8. CASE Has(X, y)
  <2>1. ~Has(X, p) /\ ~Has(X, x) /\ ~Has(X, q)
    BY <1>3, <1>8, Zenon DEF HasParts
  <2>2. \E f, z : IsOwn(T, X, p, y, x, q, v, u, f, z)
    BY <1>0, <1>8, <2>1, OwnLone
  <2> QED BY <2>2, Zenon
<1>9. CASE Has(X, q)
  <2>1. ~Two(X, q) /\ ~Has(X, p) /\ ~Has(X, x \o y) /\ ~Has(X, y \o x)
    BY <1>3, <1>4, <1>9, Zenon DEF HasParts
  <2>2. PICK a, f, b : Lone(T, X, q, a, f, b)
    BY <1>2, <1>9, <2>1, LoneOne, Zenon
  <2>3. Lone(T, X, u, p \o ((x \o y) \o a), f, b)
    <3>1. Lone(T, X, (x \o y) \o q, (x \o y) \o a, f, b)
      BY <1>2, <2>1, <2>2, LoneBehind, Zenon
    <3> QED BY <1>1, <1>2, <2>1, <3>1, LoneBehind, Zenon
  <2>4. Lone(T, X, v, p \o ((y \o x) \o a), f, b)
    <3>1. Lone(T, X, (y \o x) \o q, (y \o x) \o a, f, b)
      BY <1>2, <2>1, <2>2, LoneBehind, Zenon
    <3> QED BY <1>1, <1>2, <2>1, <3>1, LoneBehind, Zenon
  <2> QED BY <2>2, <2>3, <2>4, Zenon DEF IsBack
<1> QED BY <1>3, <1>6, <1>7, <1>8, <1>9, Zenon DEF HasParts
-----------------------------------------------------------------------------
(* --config and --help among the arguments of two turned command lines.    *)
IsConfig(T) == {t \in T : Is(t, "--config") /\ t.form = "bare"}
IsHelp(T) == {t \in T : Is(t, "--help")}

\* The arguments of a kind, by their places.
LEMMA PlacesOf ==
  ASSUME NEW T, NEW X, NEW s \in Seq(T)
  PROVE  LET places == {i \in DOMAIN s : s[i] \in X}
         IN /\ ~Has(X, s) => places = {}
            /\ Two(X, s) => places # {} /\ \A i : places # {i}
            /\ \A a, f, b : Lone(T, X, s, a, f, b) => places = {Len(a) + 1}
<1> DEFINE places == {i \in DOMAIN s : s[i] \in X}
<1>1. DOMAIN s = 1..Len(s)
  OBVIOUS
<1>2. ~Has(X, s) => places = {}
  BY <1>1, Zenon DEF Has
<1>3. ASSUME Two(X, s) PROVE places # {} /\ \A i : places # {i}
  <2>1. PICK i, j \in 1..Len(s) : i # j /\ s[i] \in X /\ s[j] \in X
    BY <1>3, Zenon DEF Two
  <2>2. i \in places /\ j \in places
    BY <1>1, <2>1, Zenon
  <2> HIDE DEF places
  <2> QED BY <2>1, <2>2
<1>4. ASSUME NEW a, NEW f, NEW b, Lone(T, X, s, a, f, b) PROVE places = {Len(a) + 1}
  <2>1. /\ a \in Seq(T) /\ f \in T /\ f \in X /\ b \in Seq(T) /\ ~Has(X, a) /\ ~Has(X, b)
        /\ s = Around(a, f, b)
    BY <1>4, Zenon DEF Lone
  <2>2. IsAround(T, a, f, b, s)
    BY <2>1, AroundIs, Zenon
  <2> DEFINE n == Len(a)
             m == Len(b)
  <2>3. n \in Nat /\ m \in Nat
    BY <2>1
  <2>4. /\ Len(s) = n + 1 + m /\ s[n + 1] = f
        /\ \A i \in 1..n : s[i] = a[i]
        /\ \A i \in 1..m : s[n + 1 + i] = b[i]
    BY <2>2, Zenon DEF IsAround
  <2>5. (\A i \in 1..n : a[i] \notin X) /\ \A i \in 1..m : b[i] \notin X
    BY <2>1, Zenon DEF Has
  <2> HIDE DEF n, m
  <2>6. \A i \in 1..Len(s) : i \in 1..n \/ i = n + 1 \/ (i - (n + 1) \in 1..m /\ n + 1 + (i - (n + 1)) = i)
    BY <2>3, <2>4
  <2>7. \A i \in 1..Len(s) : s[i] \in X => i = n + 1
    <3> TAKE i \in 1..Len(s)
    <3>1. i \in 1..n => s[i] \notin X
      BY <2>4, <2>5, Zenon
    <3>2. i - (n + 1) \in 1..m /\ n + 1 + (i - (n + 1)) = i => s[i] \notin X
      BY <2>4, <2>5
    <3> QED BY <2>6, <3>1, <3>2
  <2>8. n + 1 \in 1..Len(s) /\ s[n + 1] \in X
    BY <2>1, <2>3, <2>4
  <2> QED BY <1>1, <2>7, <2>8 DEF n
<1> QED BY <1>2, <1>3, <1>4, Zenon

\* What is made of --config and its path, with a before it and b behind it.
Cut(s, a, b) ==
  /\ b = <<>> => ~extractConfigFlag(s).ok
  /\ b # <<>> => extractConfigFlag(s) = [ok |-> IsWord(b[1]) /\ b[1].text # "", path |-> b[1].text,
                                         args |-> a \o SubSeq(b, 2, Len(b))]

\* What is read of a single --config.
LEMMA ExtractIs ==
  ASSUME NEW T, NEW s \in Seq(T)
  PROVE  /\ ~Has(IsConfig(T), s) => extractConfigFlag(s) = [ok |-> TRUE, path |-> "", args |-> s]
         /\ Two(IsConfig(T), s) => ~extractConfigFlag(s).ok
         /\ \A a, f, b : Lone(T, IsConfig(T), s, a, f, b) => Cut(s, a, b)
<1> DEFINE X == IsConfig(T)
           flags == {i \in DOMAIN s : Is(s[i], "--config") /\ s[i].form = "bare"}
           first == CHOOSE i \in flags : TRUE
           places == {i \in DOMAIN s : s[i] \in X}
<1>1. flags = places
  <2>1. \A i \in DOMAIN s : s[i] \in T
    OBVIOUS
  <2> QED BY <2>1, Zenon DEF IsConfig
<1>2. /\ ~Has(X, s) => places = {}
      /\ Two(X, s) => places # {} /\ \A i : places # {i}
      /\ \A a, f, b : Lone(T, X, s, a, f, b) => places = {Len(a) + 1}
  BY PlacesOf, Zenon
<1> HIDE DEF X, flags, places
<1>3. ASSUME ~Has(X, s) PROVE extractConfigFlag(s) = [ok |-> TRUE, path |-> "", args |-> s]
  <2>1. flags = {}
    BY <1>1, <1>2, <1>3, Zenon
  <2> QED BY <2>1, Zenon DEF extractConfigFlag, flags
<1>4. ASSUME Two(X, s) PROVE ~extractConfigFlag(s).ok
  <2>1. flags # {} /\ flags # {first}
    <3> HIDE DEF first
    <3> QED BY <1>1, <1>2, <1>4, Zenon
  <2>2. extractConfigFlag(s) = [ok |-> FALSE, path |-> "", args |-> <<>>]
    BY <2>1, Zenon DEF extractConfigFlag, flags
  <2>3. ~[ok |-> FALSE, path |-> "", args |-> <<>>].ok
    OBVIOUS
  <2> QED BY <2>2, <2>3, Zenon
<1>5. ASSUME NEW a, NEW f, NEW b, Lone(T, X, s, a, f, b)
      PROVE  Cut(s, a, b)
  <2> DEFINE n == Len(a)
             m == Len(b)
  <2>1. a \in Seq(T) /\ f \in T /\ b \in Seq(T) /\ s = Around(a, f, b)
    BY <1>5, Zenon DEF Lone
  <2>2. IsAround(T, a, f, b, s)
    BY <2>1, AroundIs, Zenon
  <2>3. flags = {n + 1}
    BY <1>1, <1>2, <1>5, Zenon
  <2>4. first = n + 1 /\ flags = {first} /\ flags # {}
    BY <2>3
  <2> HIDE DEF first
  <2>5. /\ n \in Nat /\ m \in Nat /\ Len(s) = n + 1 + m /\ SubSeq(s, 1, n) = a
        /\ SubSeq(s, n + 3, Len(s)) = SubSeq(b, 2, Len(b))
        /\ \A i \in 1..m : s[n + 1 + i] = b[i]
    <3>1. n \in Nat /\ m \in Nat
      BY <2>1
    <3> QED BY <2>2, <3>1, Zenon DEF IsAround
  <2>6. CASE b = <<>>
    <3>1. m = 0
      BY <2>6
    <3> HIDE DEF m, n
    <3>2. first = Len(s)
      BY <2>4, <2>5, <3>1
    <3>3. extractConfigFlag(s) = [ok |-> FALSE, path |-> "", args |-> <<>>]
      BY <2>4, <3>2, Zenon DEF extractConfigFlag, flags, first
    <3>4. ~[ok |-> FALSE, path |-> "", args |-> <<>>].ok
      OBVIOUS
    <3>5. ~extractConfigFlag(s).ok
      BY <3>3, <3>4, Zenon
    <3> QED BY <2>6, <3>5, Zenon DEF Cut
  <2>7. CASE b # <<>>
    <3>1. m # 0
      BY <2>1, <2>7
    <3> HIDE DEF m, n
    <3>2. first # Len(s) /\ first - 1 = n /\ first + 2 = n + 3 /\ first + 1 = n + 1 + 1 /\ 1 \in 1..m
      BY <2>4, <2>5, <3>1
    <3>3. s[first + 1] = b[1] /\ WithoutFlag(s, first) = a \o SubSeq(b, 2, Len(b))
      BY <2>5, <3>2, Zenon DEF WithoutFlag
    <3>4. extractConfigFlag(s) = [ok |-> IsWord(s[first + 1]) /\ s[first + 1].text # "",
                                  path |-> s[first + 1].text, args |-> WithoutFlag(s, first)]
      BY <2>4, <3>2, Zenon DEF extractConfigFlag, flags, first
    <3>5. extractConfigFlag(s) = [ok |-> IsWord(b[1]) /\ b[1].text # "", path |-> b[1].text,
                                  args |-> a \o SubSeq(b, 2, Len(b))]
      BY <3>3, <3>4, Zenon
    <3> QED BY <2>7, <3>5, Zenon DEF Cut
  <2> QED BY <2>6, <2>7
<1> QED BY <1>3, <1>4, <1>5, Zenon DEF X

\* The path of the settings is the word that follows --config.
NamesPath(b) == b # <<>> /\ IsWord(b[1]) /\ b[1].text # ""

Extracted(e, a, b) ==
  /\ e.ok <=> NamesPath(b)
  /\ NamesPath(b) => e.path = b[1].text /\ e.args = a \o SubSeq(b, 2, Len(b))

\* The fields of what is extracted.
LEMMA RecordOf ==
  ASSUME NEW e, NEW c, NEW p, NEW a, e = [ok |-> c, path |-> p, args |-> a]
  PROVE  e.ok = c /\ e.path = p /\ e.args = a
OBVIOUS

\* A single --config is cut out with its path.
LEMMA ExtractLone ==
  ASSUME NEW T, NEW s \in Seq(T), NEW a, NEW f, NEW b, Lone(T, IsConfig(T), s, a, f, b)
  PROVE  Extracted(extractConfigFlag(s), a, b)
<1> DEFINE e == extractConfigFlag(s)
           r == SubSeq(b, 2, Len(b))
<1>0. Cut(s, a, b)
  <2>1. s \in Seq(T) /\ Lone(T, IsConfig(T), s, a, f, b)
    OBVIOUS
  <2> QED BY <2>1, ExtractIs, Zenon
<1>1. CASE b = <<>>
  <2>1. ~e.ok
    BY <1>0, <1>1, Zenon DEF Cut
  <2> QED BY <1>1, <2>1, Zenon DEF Extracted, NamesPath
<1>2. CASE b # <<>>
  <2>1. e = [ok |-> IsWord(b[1]) /\ b[1].text # "", path |-> b[1].text, args |-> a \o r]
    BY <1>0, <1>2, Zenon DEF Cut
  <2> HIDE DEF e, r
  <2> DEFINE c == IsWord(b[1]) /\ b[1].text # ""
             p == b[1].text
  <2>2. e = [ok |-> c, path |-> p, args |-> a \o r]
    BY <2>1, Zenon
  <2> HIDE DEF c, p
  <2>3. e.ok = c /\ e.path = p /\ e.args = a \o r
    BY <2>2, RecordOf, Zenon
  <2> QED BY <1>2, <2>3, Zenon DEF Extracted, NamesPath, e, c, p, r
<1> QED BY <1>1, <1>2

\* Without --config nothing is cut out.
LEMMA ExtractNone ==
  ASSUME NEW T, NEW s \in Seq(T), ~Has(IsConfig(T), s)
  PROVE  extractConfigFlag(s).ok /\ extractConfigFlag(s).path = "" /\ extractConfigFlag(s).args = s
<1>1. extractConfigFlag(s) = [ok |-> TRUE, path |-> "", args |-> s]
  <2>1. s \in Seq(T) /\ ~Has(IsConfig(T), s)
    OBVIOUS
  <2> QED BY <2>1, ExtractIs, Zenon
<1> QED BY <1>1, RecordOf, Zenon

\* Two --config are refused.
LEMMA ExtractTwo ==
  ASSUME NEW T, NEW s \in Seq(T), Two(IsConfig(T), s)
  PROVE  ~extractConfigFlag(s).ok
<1>1. s \in Seq(T) /\ Two(IsConfig(T), s)
  OBVIOUS
<1> QED BY <1>1, ExtractIs, Zenon

\* What is made of --help.
Stripped(s, a, f, b) ==
  /\ f.form = "bad" => stripHelpFlags(s) = Unreadable
  /\ f.form # "bad" => stripHelpFlags(s) = [ok |-> TRUE, help |-> f.form \in {"bare", "true"}, args |-> a \o b]

\* What is read of a single --help.
LEMMA StripIs ==
  ASSUME NEW T, NEW s \in Seq(T)
  PROVE  /\ ~Has(IsHelp(T), s) => stripHelpFlags(s) = Rewritten(s)
         /\ Two(IsHelp(T), s) => stripHelpFlags(s) = Unreadable
         /\ \A a, f, b : Lone(T, IsHelp(T), s, a, f, b) => Stripped(s, a, f, b)
<1> DEFINE X == IsHelp(T)
           help == {i \in DOMAIN s : Is(s[i], "--help")}
           first == CHOOSE i \in help : TRUE
           places == {i \in DOMAIN s : s[i] \in X}
<1>1. help = places
  <2>1. \A i \in DOMAIN s : s[i] \in T
    OBVIOUS
  <2> QED BY <2>1, Zenon DEF IsHelp
<1>2. /\ ~Has(X, s) => places = {}
      /\ Two(X, s) => places # {} /\ \A i : places # {i}
      /\ \A a, f, b : Lone(T, X, s, a, f, b) => places = {Len(a) + 1}
  BY PlacesOf, Zenon
<1> HIDE DEF X, help, places
<1>3. ASSUME ~Has(X, s) PROVE stripHelpFlags(s) = Rewritten(s)
  <2>1. help = {}
    BY <1>1, <1>2, <1>3, Zenon
  <2> QED BY <2>1, Zenon DEF stripHelpFlags, help
<1>4. ASSUME Two(X, s) PROVE stripHelpFlags(s) = Unreadable
  <2>1. help # {} /\ help # {first}
    <3> HIDE DEF first
    <3> QED BY <1>1, <1>2, <1>4, Zenon
  <2> QED BY <2>1, Zenon DEF stripHelpFlags, help
<1>5. ASSUME NEW a, NEW f, NEW b, Lone(T, X, s, a, f, b)
      PROVE  Stripped(s, a, f, b)
  <2> DEFINE n == Len(a)
  <2>1. a \in Seq(T) /\ f \in T /\ b \in Seq(T) /\ s = Around(a, f, b)
    BY <1>5, Zenon DEF Lone
  <2>2. IsAround(T, a, f, b, s)
    BY <2>1, AroundIs, Zenon
  <2>3. help = {n + 1}
    BY <1>1, <1>2, <1>5, Zenon
  <2>4. first = n + 1 /\ help = {first} /\ help # {}
    BY <2>3
  <2> HIDE DEF first
  <2>5. n \in Nat /\ SubSeq(s, 1, n) = a /\ SubSeq(s, n + 2, Len(s)) = b /\ s[n + 1] = f
    BY <2>1, <2>2 DEF IsAround
  <2> HIDE DEF n
  <2>6. first - 1 = n /\ first + 1 = n + 2 /\ s[first] = f
    BY <2>4, <2>5
  <2>7. CASE f.form = "bad"
    BY <2>4, <2>6, <2>7, Zenon DEF stripHelpFlags, help, first, Stripped
  <2>8. CASE f.form # "bad"
    <3>1. stripHelpFlags(s) = [ok |-> TRUE, help |-> booleanFlag(s[first], "--help").value,
                               args |-> SubSeq(s, 1, first - 1) \o SubSeq(s, first + 1, Len(s))]
      BY <2>4, <2>6, <2>8, Zenon DEF stripHelpFlags, help, first
    <3>2. booleanFlag(f, "--help").value = (f.form \in {"bare", "true"})
      BY DEF booleanFlag
    <3> QED BY <2>5, <2>6, <2>8, <3>1, <3>2, Zenon DEF Stripped
  <2> QED BY <2>7, <2>8
<1> QED BY <1>3, <1>4, <1>5, Zenon DEF X

\* The words that come first stay first.
LEMMA FrameFront ==
  ASSUME NEW T, NEW X, X \subseteq {t \in T : ~IsWord(t)}, NEW p, NEW q, Frame(T, p, q),
         NEW a, NEW f, NEW b, Lone(T, X, p, a, f, b), NEW c, c \in Seq(T)
  PROVE  Frame(T, a \o c, q)
<1>1. /\ p \in Seq(T) /\ IsWord(p[1]) /\ Grouped(T, q)
      /\ p[1].text = "inspect" => 2 \in 1..Len(p) /\ IsWord(p[2])
  BY Zenon DEF Frame
<1>2. a \in Seq(T) /\ f \in T /\ b \in Seq(T) /\ f \in X /\ p = Around(a, f, b)
  BY Zenon DEF Lone
<1>3. IsAround(T, a, f, b, p)
  BY <1>2, AroundIs, Zenon
<1> DEFINE n == Len(a)
           m == Len(c)
<1>4. /\ p[n + 1] = f /\ ~IsWord(f)
      /\ \A i \in 1..n : p[i] = a[i]
  <2>1. ~IsWord(f)
    BY <1>2
  <2> QED BY <1>3, <2>1, Zenon DEF IsAround
<1>5. n \in Nat /\ m \in Nat
  BY <1>2
<1>6. a \o c \in Seq(T) /\ IsJoin(a, c, a \o c)
  BY <1>2, Joined, Zenon
<1>7. Len(a \o c) = n + m /\ \A i \in 1..n : (a \o c)[i] = p[i]
  BY <1>4, <1>6, Zenon DEF IsJoin
<1>8. a \o c # <<>> \/ n = 0
  <2>1. a \o c = <<>> => Len(a \o c) = 0
    BY <1>6
  <2> HIDE DEF n, m
  <2> QED BY <1>5, <1>7, <2>1
<1> HIDE DEF n, m
<1>9. n # 0
  BY <1>1, <1>4
<1>10. 1 \in 1..n
  BY <1>5, <1>9
<1>11. ASSUME p[1].text = "inspect" PROVE 2 \in 1..Len(a \o c) /\ IsWord((a \o c)[2])
  <2>1. IsWord(p[2])
    BY <1>1, <1>11
  <2>2. n # 1
    BY <1>4, <2>1
  <2>3. 2 \in 1..n /\ 2 \in 1..Len(a \o c)
    BY <1>5, <1>7, <1>9, <2>2
  <2> QED BY <1>7, <2>1, <2>3
<1>12. (a \o c)[1] = p[1]
  BY <1>7, <1>10
<1> QED BY <1>1, <1>6, <1>8, <1>9, <1>11, <1>12, Zenon DEF Frame

\* What is behind, without an option and perhaps its value.
LEMMA FrameBack ==
  ASSUME NEW T, NEW X, X \subseteq {t \in T : ~IsWord(t)}, NEW p, NEW q, Frame(T, p, q),
         NEW a, NEW f, NEW b, Lone(T, X, q, a, f, b)
  PROVE  /\ f.form # "bare" => Frame(T, p, a \o b)
         /\ b # <<>> /\ IsWord(b[1]) => Frame(T, p, a \o SubSeq(b, 2, Len(b)))
<1>1. a \in Seq(T) /\ f \in T /\ b \in Seq(T) /\ f \in X /\ q = Around(a, f, b)
  BY Zenon DEF Lone
<1>2. Grouped(T, q) /\ ~IsWord(f)
  BY <1>1 DEF Frame
<1>3. /\ f.form # "bare" => Grouped(T, a \o b)
      /\ b # <<>> /\ IsWord(b[1]) => Grouped(T, a \o SubSeq(b, 2, Len(b)))
  BY <1>1, <1>2, GroupedCut, Zenon
<1> QED BY <1>3, Zenon DEF Frame

Associates(s, t, u) == (s \o t) \o u = s \o (t \o u)

\* Lists may be put together in any order.
LEMMA Associated ==
  ASSUME NEW T, NEW s, s \in Seq(T), NEW t, t \in Seq(T), NEW u, u \in Seq(T)
  PROVE  Associates(s, t, u)
<1>1. (s \o t) \o u = s \o (t \o u)
  BY ConcatAssociative
<1> QED BY <1>1, Zenon DEF Associates

\* A part of what is between two others can be appended to the first.
Moves(p, m, a, b) == (p \o (m \o a)) \o b = p \o (m \o (a \o b))

\* Two lists in the middle are put together in any order.
LEMMA MiddleMoves ==
  ASSUME NEW T, NEW p, p \in Seq(T), NEW m, m \in Seq(T), NEW a, a \in Seq(T), NEW b, b \in Seq(T)
  PROVE  Moves(p, m, a, b)
<1>1. m \o a \in Seq(T)
  BY Concatenated, Zenon
<1>2. (p \o (m \o a)) \o b = p \o ((m \o a) \o b)
  <2> DEFINE c == m \o a
  <2>1. p \in Seq(T) /\ c \in Seq(T) /\ b \in Seq(T)
    BY <1>1
  <2> HIDE DEF c
  <2>2. Associates(p, c, b)
    BY <2>1, Associated, Zenon
  <2> QED BY <2>2, Zenon DEF c, Associates
<1>3. (m \o a) \o b = m \o (a \o b)
  <2>1. m \in Seq(T) /\ a \in Seq(T) /\ b \in Seq(T)
    OBVIOUS
  <2> QED BY <2>1, Associative
<1> QED BY <1>2, <1>3 DEF Moves

\* Two turned command lines name the same file, and are turned without it.
ExtractAlike(T, d, e) == (d.ok <=> e.ok) /\ (d.ok => d.path = e.path /\ Turned(T, d.args, e.args))

\* --config stands before the two groups.
LEMMA ConfigFront ==
  ASSUME NEW T, NEW p, NEW x, NEW y, NEW q, NEW u, NEW v, IsTurn(T, p, x, y, q, u, v),
         NEW a, NEW f, NEW b, IsFront(T, IsConfig(T), p, x, y, q, u, v, a, f, b)
  PROVE  ExtractAlike(T, extractConfigFlag(u), extractConfigFlag(v))
<1> DEFINE X == IsConfig(T)
           m == (x \o y) \o q
           w == (y \o x) \o q
           r == SubSeq(b, 2, Len(b))
           ok == NamesPath(b)
<1>0. X \subseteq {t \in T : ~IsWord(t)}
  BY DEF IsConfig, Is, IsWord
<1>1. PartsTyped(T, p, x, y, q) /\ PartsTyped(T, p, y, x, q) /\ Frame(T, p, q) /\ IsGroup(T, x) /\ IsGroup(T, y)
  BY TurnTyped, Zenon DEF IsTurn
<1>2. u \in Seq(T) /\ v \in Seq(T)
  BY TurnBack
<1>3. Lone(T, X, p, a, f, b) /\ Lone(T, X, u, a, f, b \o m) /\ Lone(T, X, v, a, f, b \o w)
  BY Zenon DEF IsFront
<1>4. a \in Seq(T) /\ b \in Seq(T)
  BY <1>3, Zenon DEF Lone
<1>5. ASSUME NEW c, c \in Seq(T), c # <<>>, ~IsWord(c[1]), NEW s, s \in Seq(T), Lone(T, X, s, a, f, b \o c)
      PROVE  /\ extractConfigFlag(s).ok <=> ok
             /\ ok => extractConfigFlag(s).path = b[1].text /\ extractConfigFlag(s).args = (a \o r) \o c
  <2> DEFINE d == b \o c
  <2>1. d \in Seq(T) /\ IsJoin(b, c, d)
    BY <1>4, <1>5, Joined, Zenon
  <2>2. d # <<>>
    <3>1. Len(d) = Len(b) + Len(c) /\ Len(c) # 0 /\ Len(b) \in Nat /\ Len(c) \in Nat
      BY <1>4, <1>5, <2>1 DEF IsJoin
    <3> HIDE DEF d
    <3> QED BY <3>1
  <2>3. Extracted(extractConfigFlag(s), a, d)
    BY <1>5, ExtractLone, Zenon
  <2>4. CASE b = <<>>
    <3>1. d = c
      BY <1>5, <2>4, ConcatEmptySeq, Zenon
    <3>2. ~NamesPath(d) /\ ~NamesPath(b)
      BY <1>5, <2>4, <3>1, Zenon DEF NamesPath
    <3> QED BY <2>3, <3>2, Zenon DEF Extracted
  <2>5. CASE b # <<>>
    <3>1. d[1] = b[1]
      BY <1>4, <1>5, <2>5, BeginsAsBefore, Zenon
    <3>2. SubSeq(d, 2, Len(d)) = r \o c /\ r \in Seq(T)
      <4>1. 2 \in 1..(Len(b) + 1)
        <5>1. Len(b) # 0 /\ Len(b) \in Nat
          BY <1>4, <2>5
        <5> HIDE DEF d
        <5> QED BY <5>1
      <4> QED BY <1>4, <1>5, <4>1, SuffixOf, Zenon
    <3> HIDE DEF r
    <3>3. a \o (r \o c) = (a \o r) \o c
      <4>1. a \in Seq(T) /\ r \in Seq(T) /\ c \in Seq(T)
        BY <1>4, <1>5, <3>2
      <4> QED BY <4>1, Associative
    <3> HIDE DEF d
    <3>4. NamesPath(d) <=> NamesPath(b)
      BY <2>2, <2>5, <3>1, Zenon DEF NamesPath
    <3> QED BY <2>3, <3>1, <3>2, <3>3, <3>4, Zenon DEF Extracted
  <2> QED BY <2>4, <2>5
<1>6. m \in Seq(T) /\ m # <<>> /\ ~IsWord(m[1]) /\ w \in Seq(T) /\ w # <<>> /\ ~IsWord(w[1])
  BY <1>1, Zenon DEF PartsTyped
<1>7. ASSUME ok PROVE Turned(T, (a \o r) \o m, (a \o r) \o w)
  <2>1. r \in Seq(T)
    BY <1>4
  <2>2. Frame(T, a \o r, q)
    BY <1>0, <1>1, <1>3, <2>1, FrameFront, Zenon
  <2>3. IsTurn(T, a \o r, x, y, q, (a \o r) \o m, (a \o r) \o w)
    BY <1>1, <2>2, Zenon DEF IsTurn
  <2> QED BY <2>3, TurnedIs, Zenon
<1> HIDE DEF m, w, r, ok, X
<1>8. /\ extractConfigFlag(u).ok <=> ok
      /\ ok => extractConfigFlag(u).path = b[1].text /\ extractConfigFlag(u).args = (a \o r) \o m
  BY <1>2, <1>3, <1>5, <1>6, Zenon
<1>9. /\ extractConfigFlag(v).ok <=> ok
      /\ ok => extractConfigFlag(v).path = b[1].text /\ extractConfigFlag(v).args = (a \o r) \o w
  BY <1>2, <1>3, <1>5, <1>6, Zenon
<1> QED BY <1>7, <1>8, <1>9, Zenon DEF ExtractAlike

\* --config is one of the two groups.
LEMMA ConfigOwn ==
  ASSUME NEW T, NEW p, NEW x, NEW y, NEW q, NEW u, NEW v, IsTurn(T, p, x, y, q, u, v),
         NEW f, NEW z, IsOwn(T, IsConfig(T), p, x, y, q, u, v, f, z)
  PROVE  /\ ExtractAlike(T, extractConfigFlag(u), extractConfigFlag(v))
         /\ ExtractAlike(T, extractConfigFlag(v), extractConfigFlag(u))
<1> DEFINE X == IsConfig(T)
<1>1. PartsTyped(T, p, x, y, q) /\ PartsTyped(T, p, y, x, q) /\ Frame(T, p, q) /\ IsGroup(T, x) /\ IsGroup(T, y)
  BY TurnTyped, Zenon DEF IsTurn
<1>2. u \in Seq(T) /\ v \in Seq(T)
  BY TurnBack
<1>3. /\ z = <<>> \/ (Len(x) = 2 /\ x[2] \in T /\ IsWord(x[2]) /\ z = <<x[2]>>)
      /\ Lone(T, X, u, p, f, z \o (y \o q)) /\ Lone(T, X, v, p \o y, f, z \o q)
  BY Zenon DEF IsOwn
<1>4. /\ p \in Seq(T) /\ q \in Seq(T) /\ y \in Seq(T) /\ y # <<>> /\ ~IsWord(y[1]) /\ y \o q \in Seq(T)
      /\ Grouped(T, q)
  BY <1>1, Zenon DEF PartsTyped, Frame
<1>5. CASE z = <<>>
  <2>1. z \o (y \o q) = y \o q /\ z \o q = q
    BY <1>4, <1>5, ConcatEmptySeq, Zenon
  <2>2. y \o q # <<>> /\ (y \o q)[1] = y[1]
    BY <1>4, BeginsAsBefore, Zenon
  <2>3. ~extractConfigFlag(u).ok
    <3>1. Lone(T, X, u, p, f, y \o q)
      BY <1>3, <2>1, Zenon
    <3>2. Extracted(extractConfigFlag(u), p, y \o q)
      BY <1>2, <3>1, ExtractLone, Zenon
    <3>3. ~NamesPath(y \o q)
      BY <1>4, <2>2, Zenon DEF NamesPath
    <3> QED BY <3>2, <3>3, Zenon DEF Extracted
  <2>4. ~extractConfigFlag(v).ok
    <3>1. Lone(T, X, v, p \o y, f, q)
      BY <1>3, <2>1, Zenon
    <3>2. Extracted(extractConfigFlag(v), p \o y, q)
      BY <1>2, <3>1, ExtractLone, Zenon
    <3>3. ~NamesPath(q)
      BY <1>4, GroupedBegins, Zenon DEF NamesPath
    <3> QED BY <3>2, <3>3, Zenon DEF Extracted
  <2> QED BY <2>3, <2>4, Zenon DEF ExtractAlike
<1>6. CASE z # <<>>
  <2> DEFINE w == x[2]
             ok == w.text # ""
  <2>1. w \in T /\ IsWord(w) /\ z = <<w>>
    BY <1>3, <1>6
  <2> HIDE DEF w
  <2>2. z \in Seq(T) /\ Len(z) + 1 = 2 /\ z[1] = w
    BY <2>1
  <2>3. ASSUME NEW c, c \in Seq(T), NEW s, s \in Seq(T), NEW a, a \in Seq(T), Lone(T, X, s, a, f, z \o c)
        PROVE  /\ extractConfigFlag(s).ok <=> ok
               /\ ok => extractConfigFlag(s).path = w.text /\ extractConfigFlag(s).args = a \o c
    <3> DEFINE d == z \o c
    <3>1. d # <<>> /\ d[1] = w
      BY <1>6, <2>2, <2>3, BeginsAsBefore, Zenon
    <3>2. SubSeq(d, 2, Len(d)) = c
      <4>1. SubSeq(d, Len(z) + 1, Len(d)) = c
        BY <2>2, <2>3, PartsOf, Zenon
      <4> QED BY <2>2, <4>1
    <3>3. Extracted(extractConfigFlag(s), a, d)
      BY <2>3, ExtractLone, Zenon
    <3>4. NamesPath(d) <=> ok
      BY <2>1, <3>1, Zenon DEF NamesPath
    <3> HIDE DEF d
    <3> QED BY <3>1, <3>2, <3>3, <3>4, Zenon DEF Extracted
  <2>4. p \o y \in Seq(T) /\ (p \o y) \o q = p \o (y \o q) /\ p \o (y \o q) \in Seq(T)
    <3>1. p \o y \in Seq(T) /\ p \o (y \o q) \in Seq(T)
      BY <1>4, Concatenated, Zenon
    <3>2. p \in Seq(T) /\ y \in Seq(T) /\ q \in Seq(T)
      BY <1>4
    <3>3. (p \o y) \o q = p \o (y \o q)
      BY <3>2, Associative
    <3> QED BY <3>1, <3>3, Zenon
  <2> HIDE DEF ok, X
  <2>5. /\ extractConfigFlag(u).ok <=> ok
        /\ ok => extractConfigFlag(u).path = w.text /\ extractConfigFlag(u).args = p \o (y \o q)
    BY <1>2, <1>3, <1>4, <2>3, Zenon
  <2>6. /\ extractConfigFlag(v).ok <=> ok
        /\ ok => extractConfigFlag(v).path = w.text /\ extractConfigFlag(v).args = (p \o y) \o q
    BY <1>2, <1>3, <1>4, <2>3, <2>4, Zenon
  <2>7. Turned(T, p \o (y \o q), p \o (y \o q))
    BY <2>4, Zenon DEF Turned
  <2> QED BY <2>4, <2>5, <2>6, <2>7, Zenon DEF ExtractAlike
<1> QED BY <1>5, <1>6

\* --config stands behind the two groups.
LEMMA ConfigBack ==
  ASSUME NEW T, NEW p, NEW x, NEW y, NEW q, NEW u, NEW v, IsTurn(T, p, x, y, q, u, v),
         NEW a, NEW f, NEW b, IsBack(T, IsConfig(T), p, x, y, q, u, v, a, f, b)
  PROVE  ExtractAlike(T, extractConfigFlag(u), extractConfigFlag(v))
<1> DEFINE X == IsConfig(T)
           m == x \o y
           w == y \o x
           r == SubSeq(b, 2, Len(b))
           ok == NamesPath(b)
<1>0. X \subseteq {t \in T : ~IsWord(t)}
  BY DEF IsConfig, Is, IsWord
<1>1. PartsTyped(T, p, x, y, q) /\ PartsTyped(T, p, y, x, q) /\ Frame(T, p, q) /\ IsGroup(T, x) /\ IsGroup(T, y)
  BY TurnTyped, Zenon DEF IsTurn
<1>2. u \in Seq(T) /\ v \in Seq(T)
  BY TurnBack
<1>3. Lone(T, X, q, a, f, b) /\ Lone(T, X, u, p \o (m \o a), f, b) /\ Lone(T, X, v, p \o (w \o a), f, b)
  BY Zenon DEF IsBack
<1>4. a \in Seq(T) /\ b \in Seq(T) /\ r \in Seq(T)
  BY <1>3 DEF Lone
<1>5. p \in Seq(T) /\ m \in Seq(T) /\ w \in Seq(T)
  BY <1>1, Zenon DEF PartsTyped
<1>6. ASSUME NEW c, NEW s, s \in Seq(T), Lone(T, X, s, c, f, b)
      PROVE  /\ extractConfigFlag(s).ok <=> ok
             /\ ok => extractConfigFlag(s).path = b[1].text /\ extractConfigFlag(s).args = c \o r
  <2>1. Extracted(extractConfigFlag(s), c, b)
    BY <1>6, ExtractLone, Zenon
  <2> QED BY <2>1, Zenon DEF Extracted
<1>7. ASSUME ok PROVE Turned(T, (p \o (m \o a)) \o r, (p \o (w \o a)) \o r)
  <2>1. Frame(T, p, a \o r)
    BY <1>0, <1>1, <1>3, <1>7, FrameBack, Zenon DEF NamesPath
  <2>2. (p \o (m \o a)) \o r = p \o (m \o (a \o r)) /\ (p \o (w \o a)) \o r = p \o (w \o (a \o r))
    <3>1. p \in Seq(T) /\ m \in Seq(T) /\ w \in Seq(T) /\ a \in Seq(T) /\ r \in Seq(T)
      BY <1>4, <1>5, Zenon
    <3> HIDE DEF m, w, r
    <3>2. Moves(p, m, a, r) /\ Moves(p, w, a, r)
      BY <3>1, MiddleMoves, Zenon
    <3> QED BY <3>2, Zenon DEF Moves
  <2>3. IsTurn(T, p, x, y, a \o r, p \o (m \o (a \o r)), p \o (w \o (a \o r)))
    BY <1>1, <2>1, Zenon DEF IsTurn
  <2>4. Turned(T, p \o (m \o (a \o r)), p \o (w \o (a \o r)))
    BY <2>3, TurnedIs, Zenon
  <2> QED BY <2>2, <2>4, Zenon
<1> HIDE DEF m, w, r, ok, X
<1>8. /\ extractConfigFlag(u).ok <=> ok
      /\ ok => extractConfigFlag(u).path = b[1].text /\ extractConfigFlag(u).args = (p \o (m \o a)) \o r
  BY <1>2, <1>3, <1>6, Zenon
<1>9. /\ extractConfigFlag(v).ok <=> ok
      /\ ok => extractConfigFlag(v).path = b[1].text /\ extractConfigFlag(v).args = (p \o (w \o a)) \o r
  BY <1>2, <1>3, <1>6, Zenon
<1> QED BY <1>7, <1>8, <1>9, Zenon DEF ExtractAlike

\* The search for --config reads two turned command lines alike.
LEMMA ConfigTurned ==
  ASSUME NEW T, NEW u, NEW v, Turned(T, u, v)
  PROVE  ExtractAlike(T, extractConfigFlag(u), extractConfigFlag(v))
<1> DEFINE X == IsConfig(T)
<1>0. X \subseteq {t \in T : ~IsWord(t)}
  BY DEF IsConfig, Is, IsWord
<1>1. u \in Seq(T) /\ (u = v \/ \E p, x, y, q : IsTurn(T, p, x, y, q, u, v))
  BY Zenon DEF Turned
<1>2. CASE \E p, x, y, q : IsTurn(T, p, x, y, q, u, v)
  <2>1. PICK p, x, y, q : IsTurn(T, p, x, y, q, u, v)
    BY <1>2, Zenon
  <2>2. IsTurn(T, p, y, x, q, v, u) /\ v \in Seq(T)
    BY <2>1, TurnBack, Zenon
  <2>3. HasParts(X, p, x, y, q, u) /\ HasParts(X, p, y, x, q, v)
    BY <2>1, <2>2, TurnTyped, TurnHas, Zenon DEF IsTurn
  <2>4. (Has(X, u) <=> Has(X, v)) /\ (Two(X, u) <=> Two(X, v))
    BY <2>3, Zenon DEF HasParts
  <2>5. CASE ~Has(X, u)
    <3>1. /\ extractConfigFlag(u).ok /\ extractConfigFlag(u).path = "" /\ extractConfigFlag(u).args = u
          /\ extractConfigFlag(v).ok /\ extractConfigFlag(v).path = "" /\ extractConfigFlag(v).args = v
      BY <1>1, <2>2, <2>4, <2>5, ExtractNone, Zenon
    <3>2. Turned(T, u, v)
      OBVIOUS
    <3> QED BY <3>1, <3>2, Zenon DEF ExtractAlike
  <2>6. CASE Two(X, u)
    <3>1. ~extractConfigFlag(u).ok /\ ~extractConfigFlag(v).ok
      BY <1>1, <2>2, <2>4, <2>6, ExtractTwo, Zenon
    <3> QED BY <3>1, Zenon DEF ExtractAlike
  <2>7. CASE Has(X, u) /\ ~Two(X, u)
    <3>1. \/ \E a, f, b : IsFront(T, X, p, x, y, q, u, v, a, f, b)
          \/ \E f, z : IsOwn(T, X, p, x, y, q, u, v, f, z)
          \/ \E f, z : IsOwn(T, X, p, y, x, q, v, u, f, z)
          \/ \E a, f, b : IsBack(T, X, p, x, y, q, u, v, a, f, b)
      BY <1>0, <2>1, <2>7, TurnLone
    <3>2. CASE \E a, f, b : IsFront(T, X, p, x, y, q, u, v, a, f, b)
      BY <2>1, <3>2, ConfigFront
    <3>3. CASE \E f, z : IsOwn(T, X, p, x, y, q, u, v, f, z)
      BY <2>1, <3>3, ConfigOwn
    <3>4. CASE \E f, z : IsOwn(T, X, p, y, x, q, v, u, f, z)
      BY <2>2, <3>4, ConfigOwn
    <3>5. CASE \E a, f, b : IsBack(T, X, p, x, y, q, u, v, a, f, b)
      BY <2>1, <3>5, ConfigBack
    <3> QED BY <3>1, <3>2, <3>3, <3>4, <3>5, Zenon
  <2> QED BY <2>5, <2>6, <2>7, Zenon
<1>3. CASE u = v
  <2>1. extractConfigFlag(u).ok => extractConfigFlag(u).args \in Seq(T)
    BY <1>1, ConfigKeeps, Zenon
  <2> QED BY <1>3, <2>1, Zenon DEF ExtractAlike, Turned
<1> QED BY <1>1, <1>2, <1>3, Zenon

\* What is made of the one --help, and of none or two.
HelpOf(d, f, w) ==
  /\ d.ok <=> f.form # "bad"
  /\ d.help <=> f.form \in {"bare", "true"}
  /\ d.ok => d.args = w

\* The fields of what is stripped.
LEMMA HelpRecordOf ==
  ASSUME NEW d, NEW k, NEW h, NEW w, d = [ok |-> k, help |-> h, args |-> w]
  PROVE  d.ok = k /\ d.help = h /\ d.args = w
OBVIOUS

\* A single --help is cut out with its value.
LEMMA StripLone ==
  ASSUME NEW T, NEW s \in Seq(T), NEW a, NEW f, NEW b, Lone(T, IsHelp(T), s, a, f, b)
  PROVE  HelpOf(stripHelpFlags(s), f, a \o b)
<1>0. Stripped(s, a, f, b)
  <2>1. s \in Seq(T) /\ Lone(T, IsHelp(T), s, a, f, b)
    OBVIOUS
  <2> QED BY <2>1, StripIs, Zenon
<1> DEFINE d == stripHelpFlags(s)
           w == a \o b
<1>1. CASE f.form = "bad"
  <2>1. d = Unreadable
    BY <1>0, <1>1, Zenon DEF Stripped
  <2> HIDE DEF d
  <2>2. ~d.ok /\ ~d.help
    BY <2>1 DEF Unreadable
  <2>3. f.form \notin {"bare", "true"}
    BY <1>1
  <2> QED BY <1>1, <2>2, <2>3, Zenon DEF HelpOf, d
<1>2. CASE f.form # "bad"
  <2> DEFINE h == f.form \in {"bare", "true"}
  <2>1. d = [ok |-> TRUE, help |-> h, args |-> w]
    BY <1>0, <1>2, Zenon DEF Stripped
  <2> HIDE DEF d, h, w
  <2>2. d.ok = TRUE /\ d.help = h /\ d.args = w
    BY <2>1, HelpRecordOf, Zenon
  <2> QED BY <1>2, <2>2, Zenon DEF HelpOf, d, h, w
<1> QED BY <1>1, <1>2

\* Without --help nothing is cut out.
LEMMA StripNone ==
  ASSUME NEW T, NEW s \in Seq(T), ~Has(IsHelp(T), s)
  PROVE  stripHelpFlags(s).ok /\ ~stripHelpFlags(s).help /\ stripHelpFlags(s).args = s
<1>1. stripHelpFlags(s) = Rewritten(s)
  <2>1. s \in Seq(T) /\ ~Has(IsHelp(T), s)
    OBVIOUS
  <2> QED BY <2>1, StripIs, Zenon
<1>2. Rewritten(s).ok /\ ~Rewritten(s).help /\ Rewritten(s).args = s
  BY DEF Rewritten
<1> QED BY <1>1, <1>2, Zenon

\* Two --help are refused.
LEMMA StripTwo ==
  ASSUME NEW T, NEW s \in Seq(T), Two(IsHelp(T), s)
  PROVE  ~stripHelpFlags(s).ok /\ ~stripHelpFlags(s).help
<1>1. stripHelpFlags(s) = Unreadable
  <2>1. s \in Seq(T) /\ Two(IsHelp(T), s)
    OBVIOUS
  <2> QED BY <2>1, StripIs, Zenon
<1>2. ~Unreadable.ok /\ ~Unreadable.help
  BY DEF Unreadable
<1> QED BY <1>1, <1>2, Zenon

\* Two turned command lines ask for help alike, and are turned without it.
StripAlike(T, d, e) == (d.ok <=> e.ok) /\ (d.help <=> e.help) /\ (d.ok /\ ~d.help => Turned(T, d.args, e.args))

\* Two results with the same fields are alike.
LEMMA HelpsAlike ==
  ASSUME NEW T, NEW d, NEW e, NEW f, f \in T, T \subseteq Tokens, NEW v, NEW w, HelpOf(d, f, v), HelpOf(e, f, w),
         f.form = "false" => Turned(T, v, w)
  PROVE  StripAlike(T, d, e)
<1>1. f.form \in {"bare", "true", "false", "bad"}
  BY DEF Tokens
<1>2. CASE f.form = "false"
  <2>1. d.args = v /\ e.args = w /\ (d.ok <=> e.ok) /\ (d.help <=> e.help)
    BY <1>2, Zenon DEF HelpOf
  <2>2. Turned(T, v, w)
    BY <1>2
  <2> QED BY <2>1, <2>2, Zenon DEF StripAlike
<1>3. CASE f.form # "false"
  <2>1. (d.ok <=> e.ok) /\ (d.help <=> e.help)
    BY Zenon DEF HelpOf
  <2>2. ~(d.ok /\ ~d.help)
    BY <1>1, <1>3 DEF HelpOf
  <2> QED BY <2>1, <2>2, Zenon DEF StripAlike
<1> QED BY <1>2, <1>3

\* --help stands before the two groups.
LEMMA HelpFront ==
  ASSUME NEW T, T \subseteq Tokens, NEW p, NEW x, NEW y, NEW q, NEW u, NEW v, IsTurn(T, p, x, y, q, u, v),
         NEW a, NEW f, NEW b, IsFront(T, IsHelp(T), p, x, y, q, u, v, a, f, b)
  PROVE  StripAlike(T, stripHelpFlags(u), stripHelpFlags(v))
<1> DEFINE X == IsHelp(T)
           m == (x \o y) \o q
           w == (y \o x) \o q
<1>0. X \subseteq {t \in T : ~IsWord(t)}
  BY DEF IsHelp, Is, IsWord
<1>1. PartsTyped(T, p, x, y, q) /\ PartsTyped(T, p, y, x, q) /\ Frame(T, p, q) /\ IsGroup(T, x) /\ IsGroup(T, y)
  BY TurnTyped, Zenon DEF IsTurn
<1>2. u \in Seq(T) /\ v \in Seq(T)
  BY TurnBack
<1>3. Lone(T, X, p, a, f, b) /\ Lone(T, X, u, a, f, b \o m) /\ Lone(T, X, v, a, f, b \o w)
  BY Zenon DEF IsFront
<1>4. a \in Seq(T) /\ b \in Seq(T) /\ f \in T
  BY <1>3, Zenon DEF Lone
<1>5. m \in Seq(T) /\ w \in Seq(T)
  BY <1>1, Zenon DEF PartsTyped
<1>6. Turned(T, a \o (b \o m), a \o (b \o w))
  <2>1. Frame(T, a \o b, q)
    BY <1>0, <1>1, <1>3, <1>4, FrameFront, Zenon
  <2>2. IsTurn(T, a \o b, x, y, q, (a \o b) \o m, (a \o b) \o w)
    BY <1>1, <2>1, Zenon DEF IsTurn
  <2>3. Turned(T, (a \o b) \o m, (a \o b) \o w)
    BY <2>2, TurnedIs, Zenon
  <2> HIDE DEF m, w
  <2>4. Associates(a, b, m) /\ Associates(a, b, w)
    BY <1>4, <1>5, Associated, Zenon
  <2> QED BY <2>3, <2>4, Zenon DEF Associates
<1>7. HelpOf(stripHelpFlags(u), f, a \o (b \o m)) /\ HelpOf(stripHelpFlags(v), f, a \o (b \o w))
  BY <1>2, <1>3, StripLone, Zenon
<1> HIDE DEF m, w
<1> QED BY <1>4, <1>6, <1>7, HelpsAlike, Zenon

\* --help is one of the two groups.
LEMMA HelpOwn ==
  ASSUME NEW T, T \subseteq Tokens, NEW p, NEW x, NEW y, NEW q, NEW u, NEW v, IsTurn(T, p, x, y, q, u, v),
         NEW f, NEW z, IsOwn(T, IsHelp(T), p, x, y, q, u, v, f, z)
  PROVE  /\ StripAlike(T, stripHelpFlags(u), stripHelpFlags(v))
         /\ StripAlike(T, stripHelpFlags(v), stripHelpFlags(u))
<1> DEFINE X == IsHelp(T)
<1>1. PartsTyped(T, p, x, y, q) /\ PartsTyped(T, p, y, x, q) /\ Frame(T, p, q) /\ IsGroup(T, x) /\ IsGroup(T, y)
  BY TurnTyped, Zenon DEF IsTurn
<1>2. u \in Seq(T) /\ v \in Seq(T)
  BY TurnBack
<1>3. /\ f.form # "bare" => z = <<>>
      /\ Lone(T, X, u, p, f, z \o (y \o q)) /\ Lone(T, X, v, p \o y, f, z \o q)
  BY Zenon DEF IsOwn
<1>4. p \in Seq(T) /\ q \in Seq(T) /\ y \in Seq(T) /\ y \o q \in Seq(T) /\ f \in T
  BY <1>1, <1>3, Zenon DEF PartsTyped, Lone
<1>5. HelpOf(stripHelpFlags(u), f, p \o (z \o (y \o q))) /\ HelpOf(stripHelpFlags(v), f, (p \o y) \o (z \o q))
  BY <1>2, <1>3, StripLone, Zenon
<1>6. ASSUME f.form = "false" PROVE /\ Turned(T, p \o (z \o (y \o q)), (p \o y) \o (z \o q))
                                    /\ Turned(T, (p \o y) \o (z \o q), p \o (z \o (y \o q)))
  <2>1. z = <<>>
    BY <1>3, <1>6
  <2>2. z \o (y \o q) = y \o q /\ z \o q = q
    BY <1>4, <2>1, ConcatEmptySeq, Zenon
  <2>3. Associates(p, y, q)
    BY <1>4, Associated, Zenon
  <2>4. p \o (y \o q) \in Seq(T)
    BY <1>4, Concatenated, Zenon
  <2>5. Turned(T, p \o (y \o q), p \o (y \o q))
    BY <2>4, Zenon DEF Turned
  <2> QED BY <2>2, <2>3, <2>5, Zenon DEF Associates
<1>7. StripAlike(T, stripHelpFlags(u), stripHelpFlags(v))
  BY <1>4, <1>5, <1>6, HelpsAlike, Zenon
<1>8. StripAlike(T, stripHelpFlags(v), stripHelpFlags(u))
  BY <1>4, <1>5, <1>6, HelpsAlike, Zenon
<1> QED BY <1>7, <1>8

\* --help stands behind the two groups.
LEMMA HelpBack ==
  ASSUME NEW T, T \subseteq Tokens, NEW p, NEW x, NEW y, NEW q, NEW u, NEW v, IsTurn(T, p, x, y, q, u, v),
         NEW a, NEW f, NEW b, IsBack(T, IsHelp(T), p, x, y, q, u, v, a, f, b)
  PROVE  StripAlike(T, stripHelpFlags(u), stripHelpFlags(v))
<1> DEFINE X == IsHelp(T)
           m == x \o y
           w == y \o x
<1>0. X \subseteq {t \in T : ~IsWord(t)}
  BY DEF IsHelp, Is, IsWord
<1>1. PartsTyped(T, p, x, y, q) /\ PartsTyped(T, p, y, x, q) /\ Frame(T, p, q) /\ IsGroup(T, x) /\ IsGroup(T, y)
  BY TurnTyped, Zenon DEF IsTurn
<1>2. u \in Seq(T) /\ v \in Seq(T)
  BY TurnBack
<1>3. Lone(T, X, q, a, f, b) /\ Lone(T, X, u, p \o (m \o a), f, b) /\ Lone(T, X, v, p \o (w \o a), f, b)
  BY Zenon DEF IsBack
<1>4. a \in Seq(T) /\ b \in Seq(T) /\ f \in T
  BY <1>3, Zenon DEF Lone
<1>5. p \in Seq(T) /\ m \in Seq(T) /\ w \in Seq(T)
  BY <1>1, Zenon DEF PartsTyped
<1>6. ASSUME f.form = "false" PROVE Turned(T, (p \o (m \o a)) \o b, (p \o (w \o a)) \o b)
  <2>1. Frame(T, p, a \o b)
    <3>1. f.form # "bare"
      BY <1>6
    <3> QED BY <1>0, <1>1, <1>3, <3>1, FrameBack, Zenon
  <2>2. IsTurn(T, p, x, y, a \o b, p \o (m \o (a \o b)), p \o (w \o (a \o b)))
    BY <1>1, <2>1, Zenon DEF IsTurn
  <2>3. Turned(T, p \o (m \o (a \o b)), p \o (w \o (a \o b)))
    BY <2>2, TurnedIs, Zenon
  <2> HIDE DEF m, w
  <2>4. Moves(p, m, a, b) /\ Moves(p, w, a, b)
    BY <1>4, <1>5, MiddleMoves, Zenon
  <2> QED BY <2>3, <2>4, Zenon DEF Moves
<1>7. HelpOf(stripHelpFlags(u), f, (p \o (m \o a)) \o b) /\ HelpOf(stripHelpFlags(v), f, (p \o (w \o a)) \o b)
  BY <1>2, <1>3, StripLone, Zenon
<1> HIDE DEF m, w
<1> QED BY <1>4, <1>6, <1>7, HelpsAlike, Zenon

\* The search for --help reads two turned command lines alike.
LEMMA HelpTurned ==
  ASSUME NEW T, T \subseteq Tokens, NEW u, NEW v, Turned(T, u, v)
  PROVE  StripAlike(T, stripHelpFlags(u), stripHelpFlags(v))
<1> DEFINE X == IsHelp(T)
<1>0. X \subseteq {t \in T : ~IsWord(t)}
  BY DEF IsHelp, Is, IsWord
<1>1. u \in Seq(T) /\ (u = v \/ \E p, x, y, q : IsTurn(T, p, x, y, q, u, v))
  BY Zenon DEF Turned
<1>2. CASE \E p, x, y, q : IsTurn(T, p, x, y, q, u, v)
  <2>1. PICK p, x, y, q : IsTurn(T, p, x, y, q, u, v)
    BY <1>2, Zenon
  <2>2. IsTurn(T, p, y, x, q, v, u) /\ v \in Seq(T)
    BY <2>1, TurnBack, Zenon
  <2>3. HasParts(X, p, x, y, q, u) /\ HasParts(X, p, y, x, q, v)
    BY <2>1, <2>2, TurnTyped, TurnHas, Zenon DEF IsTurn
  <2>4. (Has(X, u) <=> Has(X, v)) /\ (Two(X, u) <=> Two(X, v))
    BY <2>3, Zenon DEF HasParts
  <2>5. CASE ~Has(X, u)
    <3>1. /\ stripHelpFlags(u).ok /\ ~stripHelpFlags(u).help /\ stripHelpFlags(u).args = u
          /\ stripHelpFlags(v).ok /\ ~stripHelpFlags(v).help /\ stripHelpFlags(v).args = v
      BY <1>1, <2>2, <2>4, <2>5, StripNone, Zenon
    <3>2. Turned(T, u, v)
      OBVIOUS
    <3> QED BY <3>1, <3>2, Zenon DEF StripAlike
  <2>6. CASE Two(X, u)
    <3>1. ~stripHelpFlags(u).ok /\ ~stripHelpFlags(v).ok /\ ~stripHelpFlags(u).help /\ ~stripHelpFlags(v).help
      BY <1>1, <2>2, <2>4, <2>6, StripTwo, Zenon
    <3> QED BY <3>1, Zenon DEF StripAlike
  <2>7. CASE Has(X, u) /\ ~Two(X, u)
    <3>0. T \subseteq Tokens
      OBVIOUS
    <3>1. \/ \E a, f, b : IsFront(T, X, p, x, y, q, u, v, a, f, b)
          \/ \E f, z : IsOwn(T, X, p, x, y, q, u, v, f, z)
          \/ \E f, z : IsOwn(T, X, p, y, x, q, v, u, f, z)
          \/ \E a, f, b : IsBack(T, X, p, x, y, q, u, v, a, f, b)
      BY <1>0, <2>1, <2>7, TurnLone
    <3>2. CASE \E a, f, b : IsFront(T, X, p, x, y, q, u, v, a, f, b)
      BY <3>0, <2>1, <3>2, HelpFront, Zenon
    <3>3. CASE \E f, z : IsOwn(T, X, p, x, y, q, u, v, f, z)
      BY <3>0, <2>1, <3>3, HelpOwn, Zenon
    <3>4. CASE \E f, z : IsOwn(T, X, p, y, x, q, v, u, f, z)
      BY <3>0, <2>2, <3>4, HelpOwn, Zenon
    <3>5. CASE \E a, f, b : IsBack(T, X, p, x, y, q, u, v, a, f, b)
      BY <3>0, <2>1, <3>5, HelpBack, Zenon
    <3> QED BY <3>1, <3>2, <3>3, <3>4, <3>5, Zenon
  <2> QED BY <2>5, <2>6, <2>7, Zenon
<1>3. CASE u = v
  <2> DEFINE d == stripHelpFlags(u)
  <2>1. d.ok => d.args \in Seq(T)
    BY <1>1, StripKeeps, Zenon
  <2> HIDE DEF d
  <2>2. StripAlike(T, d, d)
    BY <2>1, Zenon DEF StripAlike, Turned
  <2> QED BY <1>3, <2>2, Zenon DEF d
<1> QED BY <1>1, <1>2, <1>3, Zenon
-----------------------------------------------------------------------------
(* What two turned command lines expand to.                                *)

\* More options at the end.
LEMMA Extended ==
  ASSUME NEW T, NEW p, NEW x, NEW y, NEW q, NEW u, NEW v, IsTurn(T, p, x, y, q, u, v), NEW d, Grouped(T, d)
  PROVE  IsTurn(T, p, x, y, q \o d, u \o d, v \o d)
<1>1. /\ PartsTyped(T, p, x, y, q) /\ PartsTyped(T, p, y, x, q) /\ Frame(T, p, q) /\ IsGroup(T, x) /\ IsGroup(T, y)
      /\ u = p \o ((x \o y) \o q) /\ v = p \o ((y \o x) \o q)
  BY TurnTyped, Zenon DEF IsTurn
<1> DEFINE m == x \o y
           w == y \o x
<1>2. p \in Seq(T) /\ q \in Seq(T) /\ m \in Seq(T) /\ w \in Seq(T) /\ d \in Seq(T)
  BY <1>1, Zenon DEF PartsTyped, Grouped
<1>3. Frame(T, p, q \o d)
  BY <1>1, GroupedBoth, Zenon DEF Frame
<1>4. u = p \o (m \o q) /\ v = p \o (w \o q)
  BY <1>1
<1> HIDE DEF m, w
<1>5. Moves(p, m, q, d) /\ Moves(p, w, q, d)
  BY <1>2, MiddleMoves, Zenon
<1>6. u \o d = p \o (m \o (q \o d)) /\ v \o d = p \o (w \o (q \o d))
  BY <1>4, <1>5, Zenon DEF Moves
<1> QED BY <1>1, <1>3, <1>6, Zenon DEF IsTurn, m, w

\* Other words at the beginning.
LEMMA Replaced ==
  ASSUME NEW T, NEW p, NEW x, NEW y, NEW q, NEW u, NEW v, IsTurn(T, p, x, y, q, u, v),
         NEW k \in 1..(Len(p) + 1), NEW b \in Seq(T), b # <<>>, IsWord(b[1]), b[1].text # "inspect"
  PROVE  IsTurn(T, b \o SubSeq(p, k, Len(p)), x, y, q, b \o SubSeq(u, k, Len(u)), b \o SubSeq(v, k, Len(v)))
<1> DEFINE m == (x \o y) \o q
           w == (y \o x) \o q
           r == SubSeq(p, k, Len(p))
<1>1. /\ PartsTyped(T, p, x, y, q) /\ PartsTyped(T, p, y, x, q) /\ Frame(T, p, q) /\ IsGroup(T, x) /\ IsGroup(T, y)
      /\ u = p \o m /\ v = p \o w
  BY TurnTyped, Zenon DEF IsTurn
<1>2. p \in Seq(T) /\ m \in Seq(T) /\ w \in Seq(T)
  BY <1>1, Zenon DEF PartsTyped
<1> HIDE DEF m, w
<1>3. r \in Seq(T)
  BY <1>2, SuffixOf, Zenon
<1>4. SubSeq(u, k, Len(u)) = r \o m /\ SubSeq(v, k, Len(v)) = r \o w
  BY <1>1, <1>2, SuffixOf, Zenon
<1> HIDE DEF r
<1>5. Associates(b, r, m) /\ Associates(b, r, w)
  BY <1>2, <1>3, Associated, Zenon
<1>6. b \o SubSeq(u, k, Len(u)) = (b \o r) \o m /\ b \o SubSeq(v, k, Len(v)) = (b \o r) \o w
  BY <1>4, <1>5, Zenon DEF Associates
<1>7. b \o r \in Seq(T) /\ b \o r # <<>> /\ (b \o r)[1] = b[1]
  <2>1. b \o r \in Seq(T)
    BY <1>3, Concatenated, Zenon
  <2>2. b \o r # <<>> /\ (b \o r)[1] = b[1]
    BY <1>3, BeginsAsBefore, Zenon
  <2> QED BY <2>1, <2>2
<1>8. Frame(T, b \o r, q)
  BY <1>1, <1>7, Zenon DEF Frame
<1> QED BY <1>1, <1>6, <1>8, Zenon DEF IsTurn, m, w, r

\* The same options are there.
LEMMA OptionHas ==
  ASSUME NEW T, NEW s \in Seq(T), NEW name
  PROVE  hasOption(s, name) = Has({t \in T : Is(t, name)}, s)
<1>1. \A i \in 1..Len(s) : s[i] \in T
  OBVIOUS
<1>2. DOMAIN s = 1..Len(s)
  OBVIOUS
<1> QED BY <1>1, <1>2 DEF hasOption, Has

SameOptions(u, v) == \A name : hasOption(u, name) = hasOption(v, name)

\* Two turned command lines have the same options.
LEMMA TurnOption ==
  ASSUME NEW T, NEW p, NEW x, NEW y, NEW q, NEW u, NEW v, IsTurn(T, p, x, y, q, u, v)
  PROVE  SameOptions(u, v)
<1> SUFFICES ASSUME NEW name PROVE hasOption(u, name) = hasOption(v, name)
  BY Zenon DEF SameOptions
<1> DEFINE X == {t \in T : Is(t, name)}
<1>1. u \in Seq(T) /\ v \in Seq(T) /\ IsTurn(T, p, y, x, q, v, u)
  BY TurnBack, Zenon
<1>2. HasParts(X, p, x, y, q, u) /\ HasParts(X, p, y, x, q, v)
  BY <1>1, TurnTyped, TurnHas, Zenon DEF IsTurn
<1>3. Has(X, u) <=> Has(X, v)
  BY <1>2, Zenon DEF HasParts
<1>4. hasOption(u, name) = Has(X, u) /\ hasOption(v, name) = Has(X, v)
  BY <1>1, OptionHas, Zenon
<1> QED BY <1>3, <1>4 DEF hasOption

\* A list of one argument.
LEMMA OneIs ==
  ASSUME NEW T, NEW t, t \in T
  PROVE  <<t>> \in Seq(T) /\ <<t>> # <<>> /\ <<t>>[1] = t /\ Len(<<t>>) = 1
OBVIOUS

\* The same options are in the rest.
SameRest(u, v, k, name) == hasOption(SubSeq(u, k, Len(u)), name) = hasOption(SubSeq(v, k, Len(v)), name)

\* They have the same options behind their words.
LEMMA RestOption ==
  ASSUME NEW T, NEW p, NEW x, NEW y, NEW q, NEW u, NEW v, IsTurn(T, p, x, y, q, u, v), NEW name,
         NEW k \in 1..(Len(p) + 1), NEW t \in T, IsWord(t), t.text # "inspect", ~Is(t, name)
  PROVE  SameRest(u, v, k, name)
<1> DEFINE X == {o \in T : Is(o, name)}
           b == <<t>>
           c == SubSeq(u, k, Len(u))
           d == SubSeq(v, k, Len(v))
<1>1. b \in Seq(T) /\ b # <<>> /\ b[1] = t
  BY OneIs, Zenon
<1>2. ~Has(X, b)
  <2>1. t \notin X
    OBVIOUS
  <2> HIDE DEF X
  <2> QED BY <2>1, HasOne, Zenon
<1>3. c \in Seq(T) /\ d \in Seq(T)
  <2>1. u \in Seq(T) /\ v \in Seq(T)
    BY TurnBack, Zenon
  <2>2. p \in Seq(T)
    BY Zenon DEF IsTurn, Frame
  <2>3. ASSUME NEW a, a \in Seq(T) PROVE SubSeq(a, k, Len(a)) \in Seq(T)
    BY <2>2, <2>3
  <2> QED BY <2>1, <2>3, Zenon
<1> HIDE DEF X, b
<1>4. IsTurn(T, b \o SubSeq(p, k, Len(p)), x, y, q, b \o c, b \o d)
  BY <1>1, Replaced, Zenon
<1> HIDE DEF c, d
<1>5. hasOption(b \o c, name) = hasOption(b \o d, name)
  <2>1. SameOptions(b \o c, b \o d)
    BY <1>4, TurnOption, Zenon
  <2> QED BY <2>1, Zenon DEF SameOptions
<1>6. b \o c \in Seq(T) /\ b \o d \in Seq(T)
  BY <1>1, <1>3, Concatenated, Zenon
<1>7. Has(X, b \o c) = Has(X, b \o d)
  BY <1>5, <1>6, OptionHas, Zenon DEF X
<1>8. (Has(X, b \o c) <=> Has(X, b) \/ Has(X, c)) /\ (Has(X, b \o d) <=> Has(X, b) \/ Has(X, d))
  BY <1>1, <1>3, HasBoth, Zenon
<1>9. hasOption(c, name) = Has(X, c) /\ hasOption(d, name) = Has(X, d)
  BY <1>3, OptionHas, Zenon DEF X
<1> QED BY <1>2, <1>7, <1>8, <1>9 DEF hasOption, c, d, SameRest

\* A default is an option and perhaps its value, or nothing.
LEMMA DefaultGrouped ==
  ASSUME NEW T, NEW args, NEW name, Option(name) \in T, ~IsWord(Option(name)), NEW value \in Seq(T),
         value # <<>> => Len(value) = 1 /\ IsWord(value[1])
  PROVE  Grouped(T, Default(args, name, value))
<1> DEFINE d == <<Option(name)>> \o value
<1>1. Default(args, name, value) = <<>> \/ Default(args, name, value) = d
  BY Zenon DEF Default
<1>2. Grouped(T, d)
  <2>1. <<Option(name)>> \in Seq(T) /\ Len(<<Option(name)>>) = 1 /\ <<Option(name)>>[1] = Option(name)
    BY OneIs, Zenon
  <2> DEFINE o == <<Option(name)>>
  <2> HIDE DEF o
  <2>2. /\ o \o value \in Seq(T) /\ Len(o \o value) = 1 + Len(value)
        /\ (o \o value)[1] = Option(name)
        /\ \A i \in 1..Len(value) : (o \o value)[1 + i] = value[i]
    <3>1. o \in Seq(T) /\ Len(o) = 1 /\ o[1] = Option(name)
      BY <2>1 DEF o
    <3>2. o \o value \in Seq(T) /\ IsJoin(o, value, o \o value)
      BY <3>1, Joined, Zenon
    <3> HIDE DEF o
    <3>3. 1 \in 1..Len(o)
      BY <3>1
    <3> QED BY <3>1, <3>2, <3>3, Zenon DEF IsJoin
  <2>3. d = o \o value
    BY DEF o
  <2> HIDE DEF d
  <2>4. ~IsWord(Option(name)) /\ Option(name).form = "bare"
    BY WordIs, Zenon
  <2>5. ASSUME NEW i \in 1..Len(d), IsWord(d[i]) PROVE i - 1 \in 1..Len(d) /\ d[i - 1].form = "bare" /\ ~IsWord(d[i - 1])
    <3>1. i # 1
      BY <2>2, <2>3, <2>4, <2>5
    <3>2. Len(value) = 1 /\ i = 2
      <4>1. CASE value = <<>>
        <5>1. Len(value) = 0
          BY <4>1
        <5>2. Len(d) = 1
          BY <2>2, <2>3, <5>1
        <5> QED BY <3>1, <5>2
      <4>2. CASE value # <<>>
        BY <2>2, <2>3, <3>1, <4>2
      <4> QED BY <4>1, <4>2
    <3> QED BY <2>2, <2>3, <2>4, <3>2
  <2> QED BY <2>2, <2>3, <2>5 DEF Grouped
<1> QED BY <1>1, <1>2, GroupedNone, Zenon

\* Two turned command lines expand alike.
ExpandAlike(T, d, e) == (d.ok <=> e.ok) /\ ~d.help /\ ~e.help /\ (d.ok => Turned(T, d.args, e.args))

\* monitor expands two turned command lines alike.
LEMMA MonitorTurned ==
  ASSUME NEW T, NEW root, Composed(root) \subseteq T, NEW p, NEW x, NEW y, NEW q, NEW u, NEW v,
         IsTurn(T, p, x, y, q, u, v), u[1] = Word("monitor"), v[1] = Word("monitor")
  PROVE  ExpandAlike(T, expandOperatorCommand(u, root), expandOperatorCommand(v, root))
<1> DEFINE begin(a) == (<<Word("top")>> \o Tail(a)) \o <<Option("--application")>>
           d1(a) == Default(begin(a), "--duration", <<Duration("5s", 50)>>)
           d2(a) == Default(begin(a), "--every", <<Duration("7s", 70)>>)
           d3(a) == Default(begin(a), "--ui-refresh", <<Duration("200ms", 2)>>)
           d4(a) == Default(begin(a), "--include-ebpf-latency", <<>>)
           all(a) == (((begin(a) \o d1(a)) \o d2(a)) \o d3(a)) \o d4(a)
<1>1. expandOperatorCommand(u, root) = Rewritten(all(u)) /\ expandOperatorCommand(v, root) = Rewritten(all(v))
  <2>1. Word("monitor") # Word("investigate") /\ Word("monitor") # Word("bundle")
    BY ExpandedDiffer
  <2> QED BY <2>1, Zenon DEF expandOperatorCommand
<1>2. /\ Option("--duration") \in T /\ Option("--every") \in T /\ Option("--ui-refresh") \in T
      /\ Option("--include-ebpf-latency") \in T /\ Option("--application") \in T /\ Word("top") \in T
  BY DEF Composed
<1>3. Duration("5s", 50) \in T /\ Duration("7s", 70) \in T /\ Duration("200ms", 2) \in T
  BY DEF Composed
<1>4. \E c : IsTurn(T, c, x, y, q \o <<Option("--application")>>, begin(u), begin(v))
  <2> DEFINE b == <<Word("top")>>
             o == <<Option("--application")>>
  <2>1. b \in Seq(T) /\ b # <<>> /\ IsWord(b[1]) /\ b[1].text # "inspect"
    <3>1. b[1] = Word("top") /\ IsWord(Word("top")) /\ Word("top").text = "top"
      BY WordIs, Zenon
    <3> QED BY <1>2, <3>1
  <2>2. Grouped(T, o)
    <3>1. o \in Seq(T) /\ Len(o) = 1 /\ ~IsWord(o[1])
      <4>1. ~IsWord(Option("--application"))
        BY DEF Option, Word, IsWord
      <4> QED BY <1>2, <4>1
    <3> HIDE DEF o
    <3>2. \A i \in 1..Len(o) : i = 1
      BY <3>1
    <3> QED BY <3>1, <3>2, Zenon DEF Grouped
  <2>3. 2 \in 1..(Len(p) + 1)
    <3>1. p \in Seq(T) /\ p # <<>>
      BY Zenon DEF IsTurn, Frame
    <3> QED BY <3>1
  <2>4. Tail(u) = SubSeq(u, 2, Len(u)) /\ Tail(v) = SubSeq(v, 2, Len(v))
    <3>1. u \in Seq(T) /\ v \in Seq(T)
      BY TurnBack, Zenon
    <3>2. u # <<>> /\ v # <<>>
      <4>1. PartsTyped(T, p, x, y, q) /\ PartsTyped(T, p, y, x, q) /\ u = p \o ((x \o y) \o q) /\ v = p \o ((y \o x) \o q)
        BY TurnTyped, Zenon DEF IsTurn
      <4> QED BY <4>1, BeginsAsBefore, Zenon DEF PartsTyped
    <3> QED BY <3>1, <3>2, TailIsSubSeq, Zenon
  <2> HIDE DEF b, o
  <2>5. IsTurn(T, b \o SubSeq(p, 2, Len(p)), x, y, q, b \o Tail(u), b \o Tail(v))
    BY <2>1, <2>3, <2>4, Replaced, Zenon
  <2>6. IsTurn(T, b \o SubSeq(p, 2, Len(p)), x, y, q \o o, (b \o Tail(u)) \o o, (b \o Tail(v)) \o o)
    BY <2>2, <2>5, Extended, Zenon
  <2> QED BY <2>6, Zenon DEF b, o
<1> DEFINE q0 == q \o <<Option("--application")>>
<1>5. PICK c : IsTurn(T, c, x, y, q0, begin(u), begin(v))
  BY <1>4, Zenon
<1> HIDE DEF begin, q0
<1>6. d1(u) = d1(v) /\ d2(u) = d2(v) /\ d3(u) = d3(v) /\ d4(u) = d4(v)
  <2>1. SameOptions(begin(u), begin(v))
    BY <1>5, TurnOption, Zenon
  <2> QED BY <2>1, Zenon DEF SameOptions, Default
<1>7. Grouped(T, d1(u)) /\ Grouped(T, d2(u)) /\ Grouped(T, d3(u)) /\ Grouped(T, d4(u))
  <2>1. /\ <<Duration("5s", 50)>> \in Seq(T) /\ Len(<<Duration("5s", 50)>>) = 1
        /\ <<Duration("7s", 70)>> \in Seq(T) /\ Len(<<Duration("7s", 70)>>) = 1
        /\ <<Duration("200ms", 2)>> \in Seq(T) /\ Len(<<Duration("200ms", 2)>>) = 1
        /\ <<>> \in Seq(T)
    BY <1>3
  <2>2. \A text, n : IsWord(<<Duration(text, n)>>[1])
    BY DEF IsWord, Duration, Word
  <2>0. /\ ~IsWord(Option("--duration")) /\ ~IsWord(Option("--every")) /\ ~IsWord(Option("--ui-refresh"))
        /\ ~IsWord(Option("--include-ebpf-latency"))
    BY DEF IsWord, Option, Word
  <2>3. Grouped(T, d1(u))
    BY <1>2, <2>0, <2>1, <2>2, DefaultGrouped
  <2>4. Grouped(T, d2(u))
    BY <1>2, <2>0, <2>1, <2>2, DefaultGrouped
  <2>5. Grouped(T, d3(u))
    BY <1>2, <2>0, <2>1, <2>2, DefaultGrouped
  <2>6. Grouped(T, d4(u))
    BY <1>2, <2>0, <2>1, DefaultGrouped
  <2> QED BY <2>3, <2>4, <2>5, <2>6
<1> HIDE DEF d1, d2, d3, d4
<1>8. IsTurn(T, c, x, y, q0 \o d1(u), begin(u) \o d1(u), begin(v) \o d1(v))
  BY <1>5, <1>6, <1>7, Extended, Zenon
<1>9. IsTurn(T, c, x, y, (q0 \o d1(u)) \o d2(u), (begin(u) \o d1(u)) \o d2(u), (begin(v) \o d1(v)) \o d2(v))
  BY <1>6, <1>7, <1>8, Extended, Zenon
<1>10. IsTurn(T, c, x, y, ((q0 \o d1(u)) \o d2(u)) \o d3(u),
              ((begin(u) \o d1(u)) \o d2(u)) \o d3(u), ((begin(v) \o d1(v)) \o d2(v)) \o d3(v))
  BY <1>6, <1>7, <1>9, Extended, Zenon
<1>11. IsTurn(T, c, x, y, (((q0 \o d1(u)) \o d2(u)) \o d3(u)) \o d4(u), all(u), all(v))
  BY <1>6, <1>7, <1>10, Extended, Zenon
<1>12. Turned(T, all(u), all(v))
  BY <1>11, TurnedIs, Zenon
<1> HIDE DEF all
<1>13. \A a : Rewritten(a).ok /\ ~Rewritten(a).help /\ Rewritten(a).args = a
  BY DEF Rewritten
<1> QED BY <1>1, <1>12, <1>13, Zenon DEF ExpandAlike

\* The first arguments of two turned command lines: the words before the
\* neighbours are the same, and behind them comes an option.
IsPlaces(T, p, u, v) ==
  /\ Len(p) \in Nat /\ Len(p) >= 1 /\ Len(u) \in Nat /\ Len(u) = Len(v) /\ Len(u) >= Len(p) + 2
  /\ \A i \in 1..Len(p) : u[i] = v[i] /\ u[i] = p[i] /\ u[i] \in T
  /\ ~IsWord(u[Len(p) + 1]) /\ ~IsWord(v[Len(p) + 1])

BeginsWith(T, p, x, y, q, u) ==
  /\ Len(p) \in Nat /\ Len(p) >= 1 /\ Len(u) = Len(p) + Len(x) + Len(y) + Len(q) /\ Len(u) >= Len(p) + 2
  /\ Len(x) \in Nat /\ Len(y) \in Nat /\ Len(q) \in Nat
  /\ \A i \in 1..Len(p) : u[i] = p[i] /\ p[i] \in T
  /\ ~IsWord(u[Len(p) + 1])

\* The places of the first of two turned command lines.
LEMMA PlacesOne ==
  ASSUME NEW T, NEW p, NEW x, NEW y, NEW q, NEW u, NEW v, IsTurn(T, p, x, y, q, u, v)
  PROVE  BeginsWith(T, p, x, y, q, u)
<1> DEFINE n == x \o y
           m == n \o q
<1>1. PartsTyped(T, p, x, y, q) /\ u = p \o m
  BY TurnTyped, Zenon DEF IsTurn
<1>2. p \in Seq(T) /\ x \in Seq(T) /\ y \in Seq(T) /\ q \in Seq(T) /\ n \in Seq(T) /\ m \in Seq(T)
  BY <1>1, Zenon DEF PartsTyped
<1>3. m[1] = x[1] /\ ~IsWord(x[1]) /\ p # <<>> /\ x # <<>> /\ y # <<>> /\ m # <<>>
  BY <1>1, Zenon DEF PartsTyped
<1>4. IsJoin(x, y, n)
  BY <1>2, Joined, Zenon
<1> HIDE DEF n
<1>5. IsJoin(n, q, m)
  BY <1>2, Joined, Zenon
<1> HIDE DEF m
<1>6. IsJoin(p, m, u)
  BY <1>1, <1>2, Joined, Zenon
<1>7. Len(u) = Len(p) + Len(m) /\ Len(m) = Len(n) + Len(q) /\ Len(n) = Len(x) + Len(y)
  BY <1>4, <1>5, <1>6, Zenon DEF IsJoin
<1>8. /\ Len(p) \in Nat /\ Len(x) \in Nat /\ Len(y) \in Nat /\ Len(q) \in Nat /\ Len(m) \in Nat
      /\ Len(p) >= 1 /\ Len(x) >= 1 /\ Len(y) >= 1 /\ Len(m) >= 1
  BY <1>2, <1>3
<1>9. \A i \in 1..Len(p) : u[i] = p[i] /\ p[i] \in T
  <2>1. \A i \in 1..Len(p) : p[i] \in T
    BY <1>2
  <2> QED BY <1>6, <2>1, Zenon DEF IsJoin
<1>10. u[Len(p) + 1] = m[1]
  <2>1. 1 \in 1..Len(m)
    BY <1>8
  <2> QED BY <1>6, <2>1, Zenon DEF IsJoin
<1>11. ~IsWord(u[Len(p) + 1])
  BY <1>3, <1>10, Zenon
<1>12. Len(u) = Len(p) + Len(x) + Len(y) + Len(q) /\ Len(u) >= Len(p) + 2
  BY <1>7, <1>8
<1> QED BY <1>8, <1>9, <1>11, <1>12, Zenon DEF BeginsWith

\* The places of both.
LEMMA PlacesIs ==
  ASSUME NEW T, NEW p, NEW x, NEW y, NEW q, NEW u, NEW v, IsTurn(T, p, x, y, q, u, v)
  PROVE  IsPlaces(T, p, u, v)
<1>1. IsTurn(T, p, y, x, q, v, u)
  BY TurnBack, Zenon
<1> DEFINE i == Len(x)
           j == Len(y)
           k == Len(q)
           n == Len(p)
<1>2. /\ n \in Nat /\ n >= 1 /\ Len(u) = n + i + j + k /\ Len(u) >= n + 2
      /\ i \in Nat /\ j \in Nat /\ k \in Nat
      /\ \A l \in 1..n : u[l] = p[l] /\ p[l] \in T
      /\ ~IsWord(u[n + 1])
  <2>1. BeginsWith(T, p, x, y, q, u)
    BY PlacesOne, Zenon
  <2> QED BY <2>1, Zenon DEF BeginsWith
<1>3. Len(v) = n + j + i + k /\ ~IsWord(v[n + 1]) /\ \A l \in 1..n : v[l] = p[l]
  <2>1. BeginsWith(T, p, y, x, q, v)
    BY <1>1, PlacesOne, Zenon
  <2> QED BY <2>1, Zenon DEF BeginsWith
<1> HIDE DEF i, j, k, n
<1>4. Len(u) \in Nat /\ Len(u) = Len(v)
  BY <1>2, <1>3
<1>5. \A l \in 1..n : u[l] = v[l] /\ u[l] = p[l] /\ u[l] \in T
  BY <1>2, <1>3, Zenon
<1> QED BY <1>2, <1>3, <1>4, <1>5, Zenon DEF IsPlaces, n

IsTarget(T, p, u, v) ==
  /\ Len(u) = Len(v) /\ Len(u) \in Nat /\ Len(u) >= 3 /\ u[1] = v[1]
  /\ \/ ~IsWord(u[2]) /\ ~IsWord(v[2])
     \/ /\ 2 \in 1..Len(p) /\ u[2] = v[2] /\ u[2] \in T /\ Len(u) >= 4
        /\ \/ ~IsWord(u[3]) /\ ~IsWord(v[3])
           \/ 3 \in 1..Len(p) /\ u[3] = v[3] /\ u[3] \in T

\* What investigate and bundle read first is the same in both.
LEMMA TargetIs ==
  ASSUME NEW T, NEW p, NEW x, NEW y, NEW q, NEW u, NEW v, IsTurn(T, p, x, y, q, u, v)
  PROVE  IsTarget(T, p, u, v)
<1> DEFINE n == Len(p)
           l == Len(u)
<1>1. /\ n \in Nat /\ n >= 1 /\ l \in Nat /\ l = Len(v) /\ l >= n + 2
      /\ \A i \in 1..n : u[i] = v[i] /\ u[i] \in T
      /\ ~IsWord(u[n + 1]) /\ ~IsWord(v[n + 1])
  <2>1. IsPlaces(T, p, u, v)
    BY PlacesIs, Zenon
  <2> QED BY <2>1, Zenon DEF IsPlaces
<1> HIDE DEF n, l
<1>2. l >= 3 /\ u[1] = v[1]
  <2>1. 1 \in 1..n /\ l >= 3
    BY <1>1
  <2> QED BY <1>1, <2>1
<1>3. CASE n = 1
  <2>1. ~IsWord(u[2]) /\ ~IsWord(v[2])
    BY <1>1, <1>3
  <2> QED BY <1>1, <1>2, <2>1, Zenon DEF IsTarget, l, n
<1>4. CASE n = 2
  <2>1. ~IsWord(u[3]) /\ ~IsWord(v[3]) /\ l >= 4 /\ 2 \in 1..n
    BY <1>1, <1>4
  <2>2. u[2] = v[2] /\ u[2] \in T
    BY <1>1, <2>1, Zenon
  <2> QED BY <1>1, <1>2, <2>1, <2>2, Zenon DEF IsTarget, l, n
<1>5. CASE n >= 3
  <2>1. l >= 4 /\ 2 \in 1..n /\ 3 \in 1..n
    BY <1>1, <1>5
  <2>2. u[2] = v[2] /\ u[2] \in T /\ u[3] = v[3] /\ u[3] \in T
    BY <1>1, <2>1, Zenon
  <2> QED BY <1>1, <1>2, <2>1, <2>2, Zenon DEF IsTarget, l, n
<1> QED BY <1>1, <1>3, <1>4, <1>5

\* A target command needs a word after its name; without one it is refused.
LEMMA TargetTurned ==
  ASSUME NEW T, NEW root, Composed(root) \subseteq T, NEW p, NEW x, NEW y, NEW q, NEW u, NEW v,
         IsTurn(T, p, x, y, q, u, v), NEW long, Word(long) \in T, long # "inspect", NEW output, Word(output) \in T
  PROVE  ExpandAlike(T, expandTargetOperatorCommand(u, long, output), expandTargetOperatorCommand(v, long, output))
<1> DEFINE named(a) == Len(a) >= 3 /\ IsWord(a[3])
           m(a) == IF named(a) THEN 4 ELSE 3
           remainder(a) == SubSeq(a, m(a), Len(a))
           suspect(a) == IF named(a) THEN <<Option("--suspect"), a[3]>> ELSE <<Option("--discover-suspects")>>
           first(a) == <<Word(long), Word("noisy-neighbor"), Option("--victim"), a[2]>>
           latency(a) == Default(remainder(a), "--include-ebpf-latency", <<>>)
           directory(a) == IF long = "capture" THEN Default(remainder(a), "--output-dir", <<Word(output)>>) ELSE <<>>
           begin(a) == ((first(a) \o suspect(a)) \o latency(a)) \o directory(a)
           bad(a) == Len(a) < 2 \/ ~IsWord(a[2]) \/ a[2].text = "" \/ (named(a) /\ a[3].text = "")
           out(a) == expandTargetOperatorCommand(a, long, output)
<1>1. \A a : out(a) = IF bad(a) THEN Unreadable ELSE Rewritten(begin(a) \o remainder(a))
  BY Zenon DEF expandTargetOperatorCommand
<1>2. \A a : Rewritten(a).ok /\ ~Rewritten(a).help /\ Rewritten(a).args = a
  BY DEF Rewritten
<1>3. ~Unreadable.ok /\ ~Unreadable.help
  BY DEF Unreadable
<1>4. IsTarget(T, p, u, v)
  BY TargetIs, Zenon
<1>5. CASE ~IsWord(u[2]) /\ ~IsWord(v[2])
  <2>1. bad(u) /\ bad(v)
    BY <1>5, Zenon
  <2> HIDE DEF bad, begin, remainder, out
  <2>2. out(u) = Unreadable /\ out(v) = Unreadable
    BY <1>1, <2>1, Zenon
  <2> QED BY <1>3, <2>2, Zenon DEF ExpandAlike, out
<1>6. CASE IsWord(u[2]) \/ IsWord(v[2])
  <2>1. /\ 2 \in 1..Len(p) /\ u[2] = v[2] /\ u[2] \in T /\ Len(u) = Len(v)
        /\ IsWord(u[3]) <=> IsWord(v[3])
        /\ IsWord(u[3]) => 3 \in 1..Len(p) /\ u[3] = v[3] /\ u[3] \in T
    BY <1>4, <1>6, Zenon DEF IsTarget
  <2>2. (named(u) <=> named(v)) /\ (named(u) => u[3] = v[3] /\ u[3] \in T /\ 3 \in 1..Len(p)) /\ m(u) = m(v)
    BY <2>1
  <2>3. bad(u) <=> bad(v)
    <3> HIDE DEF named
    <3> QED BY <2>1, <2>2
  <2>4. m(u) \in 1..(Len(p) + 1)
    <3> HIDE DEF named
    <3>1. p \in Seq(T)
      BY Zenon DEF IsTurn, Frame
    <3> QED BY <2>1, <2>2, <3>1
  <2>5. first(u) = first(v) /\ suspect(u) = suspect(v)
    BY <2>1, <2>2
  <2>6. first(u) \in Seq(T) /\ first(u) # <<>> /\ first(u)[1] = Word(long)
    <3>1. Word("noisy-neighbor") \in T /\ Option("--victim") \in T
      BY DEF Composed
    <3> QED BY <2>1, <3>1
  <2>7. suspect(u) \in Seq(T)
    <3>1. Option("--suspect") \in T /\ Option("--discover-suspects") \in T
      BY DEF Composed
    <3> QED BY <2>2, <3>1
  <2> HIDE DEF first, suspect
  <2>8. IsWord(Word(long)) /\ Word(long).text # "inspect" /\ Word(long).option = ""
    BY WordIs, Zenon
  <2>9. SameRest(u, v, m(u), "--include-ebpf-latency") /\ SameRest(u, v, m(u), "--output-dir")
    <3> DEFINE k == m(u)
    <3>1. ~Is(Word(long), "--include-ebpf-latency") /\ ~Is(Word(long), "--output-dir")
      BY <2>8 DEF Is
    <3>2. k \in 1..(Len(p) + 1)
      BY <2>4
    <3> HIDE DEF m, k
    <3>3. SameRest(u, v, k, "--include-ebpf-latency")
      BY <2>8, <3>1, <3>2, RestOption, Zenon
    <3>4. SameRest(u, v, k, "--output-dir")
      BY <2>8, <3>1, <3>2, RestOption, Zenon
    <3> QED BY <3>3, <3>4 DEF k
  <2> HIDE DEF m
  <2>10. latency(u) = latency(v) /\ directory(u) = directory(v)
    BY <2>2, <2>9, Zenon DEF SameRest, Default
  <2>11. latency(u) \in Seq(T) /\ directory(u) \in Seq(T)
    <3>1. Option("--include-ebpf-latency") \in T /\ Option("--output-dir") \in T
      BY DEF Composed
    <3>2. <<>> \in Seq(T) /\ <<Word(output)>> \in Seq(T)
      OBVIOUS
    <3> HIDE DEF remainder
    <3>3. latency(u) \in Seq(T) /\ Default(remainder(u), "--output-dir", <<Word(output)>>) \in Seq(T)
      BY <3>1, <3>2, DefaultIs, Zenon
    <3> QED BY <3>2, <3>3
  <2> HIDE DEF latency, directory, named
  <2>12. begin(u) \in Seq(T) /\ begin(u) # <<>> /\ begin(u)[1] = Word(long)
    <3> DEFINE c == first(u) \o suspect(u)
               d == c \o latency(u)
               e == d \o directory(u)
    <3>1. c \in Seq(T)
      BY <2>6, <2>7, Concatenated, Zenon
    <3>2. c # <<>> /\ c[1] = Word(long)
      BY <2>6, <2>7, BeginsAsBefore, Zenon
    <3> HIDE DEF c
    <3>3. d \in Seq(T)
      BY <2>11, <3>1, Concatenated, Zenon
    <3>4. d # <<>> /\ d[1] = Word(long)
      BY <2>11, <3>1, <3>2, BeginsAsBefore, Zenon
    <3> HIDE DEF d
    <3>5. e \in Seq(T)
      BY <2>11, <3>3, Concatenated, Zenon
    <3>6. e # <<>> /\ e[1] = Word(long)
      BY <2>11, <3>3, <3>4, BeginsAsBefore, Zenon
    <3> QED BY <3>5, <3>6, Zenon DEF c, d, e
  <2>13. begin(u) = begin(v)
    BY <2>5, <2>10, Zenon
  <2> HIDE DEF begin
  <2>14. Turned(T, begin(u) \o remainder(u), begin(v) \o remainder(v))
    <3> DEFINE k == m(u)
               b == begin(u)
    <3>1. k \in 1..(Len(p) + 1) /\ b \in Seq(T) /\ b # <<>> /\ IsWord(b[1]) /\ b[1].text # "inspect"
      BY <2>4, <2>8, <2>12
    <3> HIDE DEF k, b
    <3>2. IsTurn(T, b \o SubSeq(p, k, Len(p)), x, y, q, b \o SubSeq(u, k, Len(u)), b \o SubSeq(v, k, Len(v)))
      BY <3>1, Replaced, Zenon
    <3>3. Turned(T, b \o SubSeq(u, k, Len(u)), b \o SubSeq(v, k, Len(v)))
      BY <3>2, TurnedIs, Zenon
    <3> QED BY <2>2, <2>13, <3>3, Zenon DEF k, b
  <2> HIDE DEF bad, remainder, out
  <2>15. CASE bad(u)
    <3>1. out(u) = Unreadable /\ out(v) = Unreadable
      BY <1>1, <2>3, <2>15, Zenon
    <3> QED BY <1>3, <3>1, Zenon DEF ExpandAlike, out
  <2>16. CASE ~bad(u)
    <3>1. out(u) = Rewritten(begin(u) \o remainder(u)) /\ out(v) = Rewritten(begin(v) \o remainder(v))
      BY <1>1, <2>3, <2>16, Zenon
    <3> QED BY <1>2, <2>14, <3>1, Zenon DEF ExpandAlike, out
  <2> QED BY <2>15, <2>16
<1> QED BY <1>5, <1>6

\* Two turned command lines expand to two turned command lines.
LEMMA ExpandTurned ==
  ASSUME NEW T, NEW root, Composed(root) \subseteq T, NEW p, NEW x, NEW y, NEW q, NEW u, NEW v,
         IsTurn(T, p, x, y, q, u, v), Word("") \in T
  PROVE  ExpandAlike(T, expandOperatorCommand(u, root), expandOperatorCommand(v, root))
<1>0. Word("monitor") # Word("investigate") /\ Word("monitor") # Word("bundle") /\ Word("investigate") # Word("bundle")
  BY ExpandedDiffer
<1>1. u[1] = v[1]
  <2>1. IsTarget(T, p, u, v)
    BY TargetIs, Zenon
  <2> QED BY <2>1, Zenon DEF IsTarget
<1>2. CASE u[1] = Word("monitor")
  BY <1>1, <1>2, MonitorTurned, Zenon
<1>3. CASE u[1] = Word("investigate")
  <2>1. /\ expandOperatorCommand(u, root) = expandTargetOperatorCommand(u, "diagnose", "")
        /\ expandOperatorCommand(v, root) = expandTargetOperatorCommand(v, "diagnose", "")
    BY <1>0, <1>1, <1>3 DEF expandOperatorCommand
  <2>2. Word("diagnose") \in T /\ "diagnose" # "inspect" /\ Word("") \in T
    BY DEF Composed
  <2>3. ExpandAlike(T, expandTargetOperatorCommand(u, "diagnose", ""), expandTargetOperatorCommand(v, "diagnose", ""))
    BY <2>2, TargetTurned, Zenon
  <2> QED BY <2>1, <2>3, Zenon
<1>4. CASE u[1] = Word("bundle")
  <2>1. /\ expandOperatorCommand(u, root) = expandTargetOperatorCommand(u, "capture", root)
        /\ expandOperatorCommand(v, root) = expandTargetOperatorCommand(v, "capture", root)
    BY <1>0, <1>1, <1>4 DEF expandOperatorCommand
  <2>2. Word("capture") \in T /\ "capture" # "inspect" /\ Word(root) \in T
    BY DEF Composed
  <2>3. ExpandAlike(T, expandTargetOperatorCommand(u, "capture", root), expandTargetOperatorCommand(v, "capture", root))
    BY <2>2, TargetTurned, Zenon
  <2> QED BY <2>1, <2>3, Zenon
<1>5. CASE u[1] \notin {Word("monitor"), Word("investigate"), Word("bundle")}
  <2>1. expandOperatorCommand(u, root) = Rewritten(u) /\ expandOperatorCommand(v, root) = Rewritten(v)
    BY <1>1, <1>5 DEF expandOperatorCommand
  <2>2. \A a : Rewritten(a).ok /\ ~Rewritten(a).help /\ Rewritten(a).args = a
    BY DEF Rewritten
  <2>3. Turned(T, u, v)
    BY TurnedIs, Zenon
  <2> QED BY <2>1, <2>2, <2>3, Zenon DEF ExpandAlike
<1> QED BY <1>2, <1>3, <1>4, <1>5, Zenon
-----------------------------------------------------------------------------
(* What a command makes of two turned command lines.                       *)
AlikeFrom(k, u, v) ==
  \A g : Proper(g) => parseOptions(g, SubSeq(u, k, Len(u))) = parseOptions(g, SubSeq(v, k, Len(v)))

\* The words of the command are the same, and the options behind them are
\* read alike.
IsAlike(T, u, v) ==
  /\ u \in Seq(T) /\ v \in Seq(T)
  /\ Len(u) = Len(v) /\ Len(u) >= 3 /\ u[1] = v[1] /\ AlikeFrom(2, u, v)
  /\ \/ ~IsWord(u[2]) /\ ~IsWord(v[2]) /\ u[2].text = "" /\ v[2].text = "" /\ u[1].text # "inspect"
     \/ /\ u[2] = v[2] /\ Len(u) >= 4 /\ AlikeFrom(3, u, v)
        /\ \/ ~IsWord(u[3]) /\ ~IsWord(v[3])
           \/ u[3] = v[3] /\ Len(u) >= 4 /\ AlikeFrom(4, u, v)

\* Behind a place before the two groups they are read alike.
LEMMA TurnFrom ==
  ASSUME NEW T, NEW p, NEW x, NEW y, NEW q, NEW u, NEW v, IsTurn(T, p, x, y, q, u, v), NEW k \in 1..(Len(p) + 1)
  PROVE  AlikeFrom(k, u, v)
<1> DEFINE m == (x \o y) \o q
           w == (y \o x) \o q
           r == SubSeq(p, k, Len(p))
<1>1. /\ PartsTyped(T, p, x, y, q) /\ PartsTyped(T, p, y, x, q) /\ Frame(T, p, q) /\ IsGroup(T, x) /\ IsGroup(T, y)
      /\ u = p \o m /\ v = p \o w
  BY TurnTyped, Zenon DEF IsTurn
<1>2. p \in Seq(T) /\ m \in Seq(T) /\ w \in Seq(T) /\ q \in Seq(T) /\ Grouped(T, q)
  BY <1>1, Zenon DEF PartsTyped, Frame
<1>3. q # <<>> => ~IsWord(q[1])
  BY <1>2, GroupedBegins, Zenon
<1> SUFFICES ASSUME NEW g, Proper(g)
             PROVE  parseOptions(g, SubSeq(u, k, Len(u))) = parseOptions(g, SubSeq(v, k, Len(v)))
  BY Zenon DEF AlikeFrom
<1>4. r \in Seq(T)
  BY <1>2, SuffixOf, Zenon
<1> HIDE DEF r
<1>5. parseOptions(g, r \o m) = parseOptions(g, r \o w)
  <2>1. Proper(g)
    OBVIOUS
  <2>2. Swaps(g, r, x, y, q)
    BY <1>1, <1>2, <1>3, <1>4, <2>1, SwapParse, Zenon
  <2> QED BY <2>2, Zenon DEF Swaps
<1> HIDE DEF m, w
<1>6. SubSeq(u, k, Len(u)) = r \o m /\ SubSeq(v, k, Len(v)) = r \o w
  BY <1>1, <1>2, SuffixOf, Zenon DEF r
<1> QED BY <1>5, <1>6, Zenon

\* Two turned command lines are alike to every parser.
LEMMA TurnAlike ==
  ASSUME NEW T, Textless(T), NEW p, NEW x, NEW y, NEW q, NEW u, NEW v, IsTurn(T, p, x, y, q, u, v)
  PROVE  IsAlike(T, u, v)
<1> DEFINE n == Len(p)
           l == Len(u)
<1>0. u \in Seq(T) /\ v \in Seq(T)
  BY TurnBack, Zenon
<1>1. /\ n \in Nat /\ n >= 1 /\ l \in Nat /\ l = Len(v) /\ l >= n + 2
      /\ \A i \in 1..n : u[i] = v[i] /\ u[i] = p[i] /\ u[i] \in T
      /\ ~IsWord(u[n + 1]) /\ ~IsWord(v[n + 1])
  <2>1. IsPlaces(T, p, u, v)
    BY PlacesIs, Zenon
  <2> QED BY <2>1, Zenon DEF IsPlaces
<1>2. \A k \in 1..(n + 1) : AlikeFrom(k, u, v)
  BY TurnFrom, Zenon
<1>3. p[1].text = "inspect" => 2 \in 1..n /\ IsWord(p[2])
  BY Zenon DEF IsTurn, Frame
<1>4. \A i \in 1..l : u[i] \in T /\ v[i] \in T
  BY <1>0, <1>1
<1>5. \A t \in T : ~IsWord(t) => t.text = ""
  BY Zenon DEF Textless, IsWord
<1> HIDE DEF n, l
<1>6. 1 \in 1..n /\ 2 \in 1..(n + 1) /\ l >= 3 /\ 2 \in 1..l
  BY <1>1
<1>7. u[1] = v[1] /\ u[1] = p[1] /\ AlikeFrom(2, u, v)
  BY <1>1, <1>2, <1>6, Zenon
<1>8. CASE n = 1
  <2>1. ~IsWord(u[2]) /\ ~IsWord(v[2]) /\ 2 \notin 1..n
    BY <1>1, <1>8
  <2>2. u[2].text = "" /\ v[2].text = "" /\ u[1].text # "inspect"
    BY <1>3, <1>4, <1>5, <1>6, <1>7, <2>1, Zenon
  <2> QED BY <1>0, <1>1, <1>6, <1>7, <2>1, <2>2, Zenon DEF IsAlike, l
<1>9. CASE n = 2
  <2>1. ~IsWord(u[3]) /\ ~IsWord(v[3]) /\ l >= 4 /\ 2 \in 1..n /\ 3 \in 1..(n + 1)
    BY <1>1, <1>9
  <2>2. u[2] = v[2] /\ AlikeFrom(3, u, v)
    BY <1>1, <1>2, <2>1, Zenon
  <2> QED BY <1>0, <1>1, <1>6, <1>7, <2>1, <2>2, Zenon DEF IsAlike, l
<1>10. CASE n >= 3
  <2>1. l >= 4 /\ 2 \in 1..n /\ 3 \in 1..n /\ 3 \in 1..(n + 1) /\ 4 \in 1..(n + 1)
    BY <1>1, <1>10
  <2>2. u[2] = v[2] /\ AlikeFrom(3, u, v) /\ u[3] = v[3] /\ AlikeFrom(4, u, v)
    BY <1>1, <1>2, <2>1, Zenon
  <2> QED BY <1>0, <1>1, <1>6, <1>7, <2>1, <2>2, Zenon DEF IsAlike, l
<1> QED BY <1>1, <1>8, <1>9, <1>10

\* The beginning of a command line is a command.
LEMMA SecondIs ==
  ASSUME NEW T, NEW s, s \in Seq(T), NEW a, NEW b, StartsWith(s, <<a, b>>)
  PROVE  Len(s) >= 2 /\ s[2] = Word(b) /\ IsWord(s[2])
<1>1. Len(s) >= 2 /\ SubSeq(s, 1, 2) = Words(<<a, b>>)
  <2>1. Len(<<a, b>>) = 2
    OBVIOUS
  <2> QED BY <2>1, Zenon DEF StartsWith
<1>2. Words(<<a, b>>)[2] = Word(b)
  <2> HIDE DEF Word
  <2> QED BY DEF Words
<1>3. SubSeq(s, 1, 2)[2] = s[2]
  BY <1>1
<1>4. IsWord(Word(b))
  BY WordIs, Zenon
<1> QED BY <1>1, <1>2, <1>3, <1>4

FirstsSame(u, v, n) == SubSeq(u, 1, n) = SubSeq(v, 1, n)

\* They begin with the same words.
LEMMA FirstsAlike ==
  ASSUME NEW T, NEW u, u \in Seq(T), NEW v, v \in Seq(T), Len(u) = Len(v), NEW n \in 1..Len(u),
         \A i \in 1..n : u[i] = v[i]
  PROVE  FirstsSame(u, v, n)
<1> DEFINE a == SubSeq(u, 1, n)
           b == SubSeq(v, 1, n)
<1>1. a \in Seq(T) /\ Len(a) = n /\ \A i \in 1..n : a[i] = u[i]
  OBVIOUS
<1>2. b \in Seq(T) /\ Len(b) = n /\ \A i \in 1..n : b[i] = v[i]
  OBVIOUS
<1> HIDE DEF a, b
<1>3. a = b
  BY <1>1, <1>2, SeqEqual
<1> QED BY <1>3, Zenon DEF a, b, FirstsSame

StartAlike(u, v) ==
  /\ \A a : StartsWith(u, <<a>>) = StartsWith(v, <<a>>)
  /\ \A a, b : StartsWith(u, <<a, b>>) = StartsWith(v, <<a, b>>)

\* They name the same command.
LEMMA StartsAlike ==
  ASSUME NEW T, NEW u, NEW v, IsAlike(T, u, v)
  PROVE  StartAlike(u, v)
<1>0. u \in Seq(T) /\ v \in Seq(T) /\ Len(u) = Len(v) /\ Len(u) >= 3 /\ u[1] = v[1]
  BY Zenon DEF IsAlike
<1>1. SubSeq(u, 1, 1) = SubSeq(v, 1, 1)
  <2>1. 1 \in 1..Len(u) /\ \A i \in 1..1 : u[i] = v[i]
    BY <1>0
  <2>2. FirstsSame(u, v, 1)
    BY <1>0, <2>1, FirstsAlike, Zenon
  <2> QED BY <2>2, Zenon DEF FirstsSame
<1>2. ASSUME NEW a PROVE StartsWith(u, <<a>>) = StartsWith(v, <<a>>)
  <2>1. Len(<<a>>) = 1
    OBVIOUS
  <2> QED BY <1>0, <1>1, <2>1 DEF StartsWith
<1>3. ASSUME NEW a, NEW b PROVE StartsWith(u, <<a, b>>) = StartsWith(v, <<a, b>>)
  <2>1. CASE u[2] = v[2]
    <3>1. 2 \in 1..Len(u) /\ \A i \in 1..2 : u[i] = v[i]
      BY <1>0, <2>1
    <3>2. SubSeq(u, 1, 2) = SubSeq(v, 1, 2)
      <4>1. FirstsSame(u, v, 2)
        BY <1>0, <3>1, FirstsAlike, Zenon
      <4> QED BY <4>1, Zenon DEF FirstsSame
    <3>3. Len(<<a, b>>) = 2
      OBVIOUS
    <3> QED BY <1>0, <3>2, <3>3 DEF StartsWith
  <2>2. CASE u[2] # v[2]
    <3>1. ~IsWord(u[2]) /\ ~IsWord(v[2])
      BY <2>2, Zenon DEF IsAlike
    <3>2. ~StartsWith(u, <<a, b>>) /\ ~StartsWith(v, <<a, b>>)
      BY <1>0, <3>1, SecondIs, Zenon
    <3> QED BY <3>2 DEF StartsWith
  <2> QED BY <2>1, <2>2
<1> QED BY <1>2, <1>3, Zenon DEF StartAlike

\* The command is the same.
LEMMA NamesAlike ==
  ASSUME NEW T, NEW u, NEW v, IsAlike(T, u, v)
  PROVE  /\ Name(u) = Name(v)
         /\ u[2] # v[2] => Name(u) = <<u[1].text>>
<1>0. u \in Seq(T) /\ v \in Seq(T) /\ Len(u) = Len(v) /\ Len(u) >= 3 /\ u[1] = v[1]
  BY Zenon DEF IsAlike
<1>1. u # <<>> /\ v # <<>> /\ Len(u) >= 2 /\ Len(v) >= 2
  BY <1>0
<1>2. CASE u[2] = v[2]
  BY <1>0, <1>1, <1>2 DEF Name
<1>3. CASE u[2] # v[2]
  <2>1. u[2].text = "" /\ v[2].text = ""
    BY <1>3, Zenon DEF IsAlike
  <2>2. \A x : <<x, "">> \notin TwoWordCommands
    BY DEF TwoWordCommands
  <2>3. Name(u) = <<u[1].text>> /\ Name(v) = <<v[1].text>>
    BY <1>1, <2>1, <2>2, Zenon DEF Name
  <2> QED BY <1>0, <2>3, Zenon
<1> QED BY <1>2, <1>3

\* What a parser is told by the words of a command line, and by what follows.
Agrees(u, v) ==
  /\ Len(u) \in Nat /\ Len(u) = Len(v) /\ Len(u) >= 3 /\ u # <<>> /\ v # <<>>
  /\ Name(u) = Name(v) /\ u[1] = v[1]
  /\ StartAlike(u, v)
  /\ \A a, b : StartsWith(u, <<a, b>>) => Len(u) >= 4 /\ AlikeFrom(3, u, v)
  /\ \A a : (u[2] = Word(a)) = (v[2] = Word(a))
  /\ \A a : u[2] = Word(a) => /\ Len(u) >= 4 /\ AlikeFrom(3, u, v) /\ IsWord(u[3]) = IsWord(v[3])
                              /\ IsWord(u[3]) => AlikeFrom(4, u, v)
  /\ Name(u) # <<u[1].text>> => Len(u) >= 4 /\ AlikeFrom(3, u, v)
  /\ u[1].text = "inspect" => Len(u) >= 4
  /\ AlikeFrom(2, u, v)

\* Alike command lines agree in all that the parsers look at.
LEMMA AlikeAgrees ==
  ASSUME NEW T, NEW u, NEW v, IsAlike(T, u, v)
  PROVE  Agrees(u, v)
<1>1. /\ u \in Seq(T) /\ v \in Seq(T) /\ Len(u) = Len(v) /\ Len(u) >= 3 /\ u[1] = v[1] /\ AlikeFrom(2, u, v)
  BY Zenon DEF IsAlike
<1>2. u # <<>> /\ v # <<>> /\ Len(u) \in Nat
  BY <1>1
<1>3. StartAlike(u, v) /\ Name(u) = Name(v) /\ (u[2] # v[2] => Name(u) = <<u[1].text>>)
  BY StartsAlike, NamesAlike, Zenon
<1>4. CASE ~IsWord(u[2]) /\ ~IsWord(v[2]) /\ u[2].text = "" /\ v[2].text = "" /\ u[1].text # "inspect"
  <2>1. \A a : u[2] # Word(a) /\ v[2] # Word(a)
    BY <1>4, WordIs, Zenon
  <2>2. \A a, b : ~StartsWith(u, <<a, b>>)
    BY <1>1, <1>4, SecondIs, Zenon
  <2>3. Name(u) = <<u[1].text>>
    <3>1. \A x : <<x, "">> \notin TwoWordCommands
      BY DEF TwoWordCommands
    <3> QED BY <1>2, <1>4, <3>1, Zenon DEF Name
  <2>4. \A a : (u[2] = Word(a)) = (v[2] = Word(a))
    BY <2>1
  <2> QED BY <1>1, <1>2, <1>3, <1>4, <2>1, <2>2, <2>3, <2>4, Zenon DEF Agrees
<1>5. CASE /\ u[2] = v[2] /\ Len(u) >= 4 /\ AlikeFrom(3, u, v)
           /\ \/ ~IsWord(u[3]) /\ ~IsWord(v[3])
              \/ u[3] = v[3] /\ Len(u) >= 4 /\ AlikeFrom(4, u, v)
  <2>1. IsWord(u[3]) = IsWord(v[3]) /\ (IsWord(u[3]) => AlikeFrom(4, u, v))
    BY <1>5 DEF IsWord
  <2> QED BY <1>1, <1>2, <1>3, <1>5, <2>1, Zenon DEF Agrees
<1> QED BY <1>4, <1>5, Zenon DEF IsAlike

\* The parsers that ask for two words first.
StartedSame(u, v, a, b, g) ==
  /\ StartsWith(u, <<a, b>>) = StartsWith(v, <<a, b>>)
  /\ StartsWith(u, <<a, b>>) =>
       parseOptions(g, SubSeq(u, 3, Len(u))) = parseOptions(g, SubSeq(v, 3, Len(v)))

\* The options behind the two words of a command are read alike.
LEMMA StartedAlike ==
  ASSUME NEW u, NEW v, Agrees(u, v), NEW a, NEW b, NEW g, Proper(g)
  PROVE  StartedSame(u, v, a, b, g)
BY Zenon DEF StartedSame, Agrees, StartAlike, AlikeFrom

\* What fails a condition is refused.
LEMMA NotRequired ==
  ASSUME NEW r, NEW c, ~c
  PROVE  Require(r, c) = Refused
BY DEF Require

\* The parser of observe snapshot.
LEMMA SnapshotsAlike ==
  ASSUME NEW u, NEW v, Agrees(u, v)
  PROVE  parseObserveSnapshotArgs(u) = parseObserveSnapshotArgs(v)
<1> DEFINE g == Grammar({"--json", "--discover-suspects"} \cup Includes, {"--duration", "--interval"},
                        {}, {"--victim", "--suspect"})
           r(a) == parseOptions(g, SubSeq(a, 3, Len(a)))
           c(a) == r(a).ok /\ StartsWith(a, <<"observe", "snapshot">>) /\ ValidObservation(r(a))
<1>0. Proper(g)
  BY DEF Proper, Grammar, Valued, Includes
<1>1. /\ parseObserveSnapshotArgs(u) = Require(r(u), c(u))
      /\ parseObserveSnapshotArgs(v) = Require(r(v), c(v))
  BY Zenon DEF parseObserveSnapshotArgs
<1> HIDE DEF g
<1>2. StartedSame(u, v, "observe", "snapshot", g)
  BY <1>0, StartedAlike, Zenon
<1>3. StartsWith(u, <<"observe", "snapshot">>) = StartsWith(v, <<"observe", "snapshot">>)
  BY <1>2, Zenon DEF StartedSame
<1>4. CASE StartsWith(u, <<"observe", "snapshot">>)
  <2>1. r(u) = r(v) /\ Len(u) = Len(v)
    BY <1>2, <1>4, Zenon DEF StartedSame, Agrees
  <2> HIDE DEF r
  <2> QED BY <1>1, <1>3, <2>1, Zenon
<1>5. CASE ~StartsWith(u, <<"observe", "snapshot">>)
  <2>1. ~c(u) /\ ~c(v)
    BY <1>3, <1>5, Zenon
  <2> HIDE DEF c, r
  <2> QED BY <1>1, <2>1, NotRequired, Zenon
<1> QED BY <1>4, <1>5

\* The parser of observe watch.
LEMMA ObserveWatchesAlike ==
  ASSUME NEW u, NEW v, Agrees(u, v)
  PROVE  parseObserveWatchArgs(u) = parseObserveWatchArgs(v)
<1> DEFINE h == Grammar({"--json", "--discover-suspects"} \cup Includes, {"--duration", "--interval", "--every"},
                        {"--iterations"}, {"--victim", "--suspect", "--output-dir"})
           g == [h EXCEPT !.filled = {"--output-dir"}]
           r(a) == parseOptions(g, SubSeq(a, 3, Len(a)))
           c(a) == r(a).ok /\ StartsWith(a, <<"observe", "watch">>) /\ ValidObservation(r(a))
<1>0. Proper(g)
  BY DEF Proper, Grammar, Valued, Includes
<1>1. /\ parseObserveWatchArgs(u) = Require(r(u), c(u))
      /\ parseObserveWatchArgs(v) = Require(r(v), c(v))
  BY Zenon DEF parseObserveWatchArgs
<1> HIDE DEF g
<1>2. StartedSame(u, v, "observe", "watch", g)
  BY <1>0, StartedAlike, Zenon
<1>3. StartsWith(u, <<"observe", "watch">>) = StartsWith(v, <<"observe", "watch">>)
  BY <1>2, Zenon DEF StartedSame
<1>4. CASE StartsWith(u, <<"observe", "watch">>)
  <2>1. r(u) = r(v) /\ Len(u) = Len(v)
    BY <1>2, <1>4, Zenon DEF StartedSame, Agrees
  <2> HIDE DEF r
  <2> QED BY <1>1, <1>3, <2>1, Zenon
<1>5. CASE ~StartsWith(u, <<"observe", "watch">>)
  <2>1. ~c(u) /\ ~c(v)
    BY <1>3, <1>5, Zenon
  <2> HIDE DEF c, r
  <2> QED BY <1>1, <2>1, NotRequired, Zenon
<1> QED BY <1>4, <1>5

\* The parser of the guest, service and db status.
LEMMA StatusesAlike ==
  ASSUME NEW u, NEW v, Agrees(u, v), NEW command2
  PROVE  parseVMJSONStatusArgs(u, command2) = parseVMJSONStatusArgs(v, command2)
<1> DEFINE g == [Grammar({"--json"}, {}, {}, {"--vm"}) EXCEPT !.filled = {"--vm"}]
           r(a) == parseOptions(g, SubSeq(a, 3, Len(a)))
           c(a) == /\ r(a).ok /\ Len(a) = 5 /\ StartsWith(a, <<command2, "status">>) /\ r(a).seen = {"--vm", "--json"}
                   /\ "--json" \in r(a).on
<1>0. Proper(g)
  BY DEF Proper, Grammar, Valued
<1>1. /\ parseVMJSONStatusArgs(u, command2) = Require(r(u), c(u))
      /\ parseVMJSONStatusArgs(v, command2) = Require(r(v), c(v))
  BY Zenon DEF parseVMJSONStatusArgs
<1> HIDE DEF g
<1>2. StartedSame(u, v, command2, "status", g)
  BY <1>0, StartedAlike, Zenon
<1>3. StartsWith(u, <<command2, "status">>) = StartsWith(v, <<command2, "status">>)
  BY <1>2, Zenon DEF StartedSame
<1>4. CASE StartsWith(u, <<command2, "status">>)
  <2>1. r(u) = r(v) /\ Len(u) = Len(v)
    BY <1>2, <1>4, Zenon DEF StartedSame, Agrees
  <2> HIDE DEF r
  <2> QED BY <1>1, <1>3, <2>1, Zenon
<1>5. CASE ~StartsWith(u, <<command2, "status">>)
  <2>1. ~c(u) /\ ~c(v)
    BY <1>3, <1>5, Zenon
  <2> HIDE DEF c, r
  <2> QED BY <1>1, <2>1, NotRequired, Zenon
<1> QED BY <1>4, <1>5

\* The parser of ebpf block-watch.
LEMMA BlockWatchesAlike ==
  ASSUME NEW u, NEW v, Agrees(u, v)
  PROVE  parseEBPFBlockWatchArgs(u) = parseEBPFBlockWatchArgs(v)
<1> DEFINE g == Grammar({}, {"--duration"}, {}, {})
           r(a) == parseOptions(g, SubSeq(a, 3, Len(a)))
           c(a) == r(a).ok /\ StartsWith(a, <<"ebpf", "block-watch">>)
<1>0. Proper(g)
  BY DEF Proper, Grammar, Valued
<1>1. /\ parseEBPFBlockWatchArgs(u) = Require(r(u), c(u))
      /\ parseEBPFBlockWatchArgs(v) = Require(r(v), c(v))
  BY Zenon DEF parseEBPFBlockWatchArgs
<1> HIDE DEF g
<1>2. StartedSame(u, v, "ebpf", "block-watch", g)
  BY <1>0, StartedAlike, Zenon
<1>3. StartsWith(u, <<"ebpf", "block-watch">>) = StartsWith(v, <<"ebpf", "block-watch">>)
  BY <1>2, Zenon DEF StartedSame
<1>4. CASE StartsWith(u, <<"ebpf", "block-watch">>)
  <2>1. r(u) = r(v) /\ Len(u) = Len(v)
    BY <1>2, <1>4, Zenon DEF StartedSame, Agrees
  <2> HIDE DEF r
  <2> QED BY <1>1, <1>3, <2>1, Zenon
<1>5. CASE ~StartsWith(u, <<"ebpf", "block-watch">>)
  <2>1. ~c(u) /\ ~c(v)
    BY <1>3, <1>5, Zenon
  <2> HIDE DEF c, r
  <2> QED BY <1>1, <2>1, NotRequired, Zenon
<1> QED BY <1>4, <1>5

\* The parser of a command that needs a duration.
LEMMA DurationsAlike ==
  ASSUME NEW u, NEW v, Agrees(u, v), NEW command2
  PROVE  parseRequiredEBPFDuration(u, command2) = parseRequiredEBPFDuration(v, command2)
<1> DEFINE g == Grammar({}, {"--duration"}, {}, {})
           r(a) == parseOptions(g, SubSeq(a, 3, Len(a)))
           c(a) == r(a).ok /\ StartsWith(a, <<"ebpf", command2>>) /\ "--duration" \in r(a).seen
<1>0. Proper(g)
  BY DEF Proper, Grammar, Valued
<1>1. /\ parseRequiredEBPFDuration(u, command2) = Require(r(u), c(u))
      /\ parseRequiredEBPFDuration(v, command2) = Require(r(v), c(v))
  BY Zenon DEF parseRequiredEBPFDuration
<1> HIDE DEF g
<1>2. StartedSame(u, v, "ebpf", command2, g)
  BY <1>0, StartedAlike, Zenon
<1>3. StartsWith(u, <<"ebpf", command2>>) = StartsWith(v, <<"ebpf", command2>>)
  BY <1>2, Zenon DEF StartedSame
<1>4. CASE StartsWith(u, <<"ebpf", command2>>)
  <2>1. r(u) = r(v) /\ Len(u) = Len(v)
    BY <1>2, <1>4, Zenon DEF StartedSame, Agrees
  <2> HIDE DEF r
  <2> QED BY <1>1, <1>3, <2>1, Zenon
<1>5. CASE ~StartsWith(u, <<"ebpf", command2>>)
  <2>1. ~c(u) /\ ~c(v)
    BY <1>3, <1>5, Zenon
  <2> HIDE DEF c, r
  <2> QED BY <1>1, <2>1, NotRequired, Zenon
<1> QED BY <1>4, <1>5

\* The parser of ebpf block-latency.
LEMMA LatenciesAlike ==
  ASSUME NEW u, NEW v, Agrees(u, v)
  PROVE  parseEBPFBlockLatencyArgs(u) = parseEBPFBlockLatencyArgs(v)
<1> DEFINE g == Grammar({}, {"--duration"}, {}, {"--victim", "--suspect"})
           r(a) == parseOptions(g, SubSeq(a, 3, Len(a)))
           c(a) == /\ r(a).ok /\ StartsWith(a, <<"ebpf", "block-latency">>) /\ "--duration" \in r(a).seen
                   /\ (Text(r(a), "--victim") = "") = (Text(r(a), "--suspect") = "")
<1>0. Proper(g)
  BY DEF Proper, Grammar, Valued
<1>1. /\ parseEBPFBlockLatencyArgs(u) = Require(r(u), c(u))
      /\ parseEBPFBlockLatencyArgs(v) = Require(r(v), c(v))
  BY Zenon DEF parseEBPFBlockLatencyArgs
<1> HIDE DEF g
<1>2. StartedSame(u, v, "ebpf", "block-latency", g)
  BY <1>0, StartedAlike, Zenon
<1>3. StartsWith(u, <<"ebpf", "block-latency">>) = StartsWith(v, <<"ebpf", "block-latency">>)
  BY <1>2, Zenon DEF StartedSame
<1>4. CASE StartsWith(u, <<"ebpf", "block-latency">>)
  <2>1. r(u) = r(v) /\ Len(u) = Len(v)
    BY <1>2, <1>4, Zenon DEF StartedSame, Agrees
  <2> HIDE DEF r
  <2> QED BY <1>1, <1>3, <2>1, Zenon
<1>5. CASE ~StartsWith(u, <<"ebpf", "block-latency">>)
  <2>1. ~c(u) /\ ~c(v)
    BY <1>3, <1>5, Zenon
  <2> HIDE DEF c, r
  <2> QED BY <1>1, <2>1, NotRequired, Zenon
<1> QED BY <1>4, <1>5

\* The parser of ebpf vm-block-latency.
LEMMA VMLatenciesAlike ==
  ASSUME NEW u, NEW v, Agrees(u, v)
  PROVE  parseEBPFVMBlockLatencyArgs(u) = parseEBPFVMBlockLatencyArgs(v)
<1> DEFINE h == Grammar({"--json", "--all-vms"}, {"--duration", "--interval"}, {},
                        {"--device", "--victim", "--suspect", "--output"})
           g == [h EXCEPT !.filled = h.texts]
           r(a) == parseOptions(g, SubSeq(a, 3, Len(a)))
           c(a) == /\ r(a).ok /\ StartsWith(a, <<"ebpf", "vm-block-latency">>)
                   /\ "--json" \in r(a).on
                   /\ IntervalFits(r(a), 100, 10)
                   /\ "--all-vms" \in r(a).on => {"--victim", "--suspect"} \cap r(a).seen = {}
                   /\ Text(r(a), "--device") \notin {"/", ".", ".."}
<1>0. Proper(g)
  BY DEF Proper, Grammar, Valued
<1>1. /\ parseEBPFVMBlockLatencyArgs(u) = Require(r(u), c(u))
      /\ parseEBPFVMBlockLatencyArgs(v) = Require(r(v), c(v))
  BY Zenon DEF parseEBPFVMBlockLatencyArgs
<1> HIDE DEF g
<1>2. StartedSame(u, v, "ebpf", "vm-block-latency", g)
  BY <1>0, StartedAlike, Zenon
<1>3. StartsWith(u, <<"ebpf", "vm-block-latency">>) = StartsWith(v, <<"ebpf", "vm-block-latency">>)
  BY <1>2, Zenon DEF StartedSame
<1>4. CASE StartsWith(u, <<"ebpf", "vm-block-latency">>)
  <2>1. r(u) = r(v) /\ Len(u) = Len(v)
    BY <1>2, <1>4, Zenon DEF StartedSame, Agrees
  <2> HIDE DEF r
  <2> QED BY <1>1, <1>3, <2>1, Zenon
<1>5. CASE ~StartsWith(u, <<"ebpf", "vm-block-latency">>)
  <2>1. ~c(u) /\ ~c(v)
    BY <1>3, <1>5, Zenon
  <2> HIDE DEF c, r
  <2> QED BY <1>1, <2>1, NotRequired, Zenon
<1> QED BY <1>4, <1>5

\* The parser of vm storage-stats.
LEMMA StorageStatsAlike ==
  ASSUME NEW u, NEW v, Agrees(u, v)
  PROVE  parseVMStorageStatsArgs(u) = parseVMStorageStatsArgs(v)
<1> DEFINE h == Grammar({"--json", "--all-vms"}, {"--duration", "--interval"}, {}, {"--victim", "--suspect", "--output"})
           g == [h EXCEPT !.filled = h.texts]
           r(a) == parseOptions(g, SubSeq(a, 3, Len(a)))
           c(a) == /\ r(a).ok /\ StartsWith(a, <<"vm", "storage-stats">>)
                   /\ "--json" \in r(a).on
                   /\ IntervalFits(r(a), 100, 10)
                   /\ "--all-vms" \in r(a).on => {"--victim", "--suspect"} \cap r(a).seen = {}
                   /\ "--suspect" \in r(a).seen => "--victim" \in r(a).seen
<1>0. Proper(g)
  BY DEF Proper, Grammar, Valued
<1>1. /\ parseVMStorageStatsArgs(u) = Require(r(u), c(u))
      /\ parseVMStorageStatsArgs(v) = Require(r(v), c(v))
  BY Zenon DEF parseVMStorageStatsArgs
<1> HIDE DEF g
<1>2. StartedSame(u, v, "vm", "storage-stats", g)
  BY <1>0, StartedAlike, Zenon
<1>3. StartsWith(u, <<"vm", "storage-stats">>) = StartsWith(v, <<"vm", "storage-stats">>)
  BY <1>2, Zenon DEF StartedSame
<1>4. CASE StartsWith(u, <<"vm", "storage-stats">>)
  <2>1. r(u) = r(v) /\ Len(u) = Len(v)
    BY <1>2, <1>4, Zenon DEF StartedSame, Agrees
  <2> HIDE DEF r
  <2> QED BY <1>1, <1>3, <2>1, Zenon
<1>5. CASE ~StartsWith(u, <<"vm", "storage-stats">>)
  <2>1. ~c(u) /\ ~c(v)
    BY <1>3, <1>5, Zenon
  <2> HIDE DEF c, r
  <2> QED BY <1>1, <2>1, NotRequired, Zenon
<1> QED BY <1>4, <1>5

\* The parsers that read on from the second argument.
LEMMA StatusAlike ==
  ASSUME NEW u, NEW v, Agrees(u, v)
  PROVE  parseStatusArgs(u) = parseStatusArgs(v)
<1> DEFINE g == Grammar({"--json", "--watch"} \cup ClearOptions, {"--duration", "--interval", "--every"},
                        {"--iterations"}, {"--sort"})
           r(a) == parseOptions(g, SubSeq(a, 2, Len(a)))
           w == {"--every", "--iterations"} \cup ClearOptions
           c(a) == /\ r(a).ok /\ StartsWith(a, <<"status">>)
                   /\ ValidSort(r(a), StatusSortFields)
                   /\ IntervalFits(r(a), 30, 10)
                   /\ ~({"--watch", "--json"} \subseteq r(a).on)
                   /\ ~(ClearOptions \subseteq r(a).seen)
                   /\ "--watch" \notin r(a).on => r(a).seen \cap w = {}
<1>0. Proper(g)
  BY DEF Proper, Grammar, Valued, ClearOptions
<1>1. parseStatusArgs(u) = Require(r(u), c(u)) /\ parseStatusArgs(v) = Require(r(v), c(v))
  BY Zenon DEF parseStatusArgs
<1> HIDE DEF g
<1>2. r(u) = r(v) /\ StartsWith(u, <<"status">>) = StartsWith(v, <<"status">>)
  BY <1>0, Zenon DEF Agrees, StartAlike, AlikeFrom
<1> HIDE DEF r
<1> QED BY <1>1, <1>2, Zenon

\* The parser of top.
LEMMA TopAlike ==
  ASSUME NEW u, NEW v, Agrees(u, v)
  PROVE  parseTopArgs(u) = parseTopArgs(v)
<1> DEFINE g == Grammar({"--include-ebpf-latency", "--application"} \cup ClearOptions,
                        {"--duration", "--interval", "--every", "--ui-refresh"}, {"--iterations"}, {"--sort"})
           r(a) == parseOptions(g, SubSeq(a, 2, Len(a)))
           c(a) == /\ r(a).ok /\ StartsWith(a, <<"top">>)
                   /\ ValidSort(r(a), TopSortFields)
                   /\ Given(r(a), "--ui-refresh", 1) >= 1
                   /\ IntervalFits(r(a), 30, 10)
                   /\ ~(ClearOptions \subseteq r(a).seen)
<1>0. Proper(g)
  BY DEF Proper, Grammar, Valued, ClearOptions
<1>1. parseTopArgs(u) = Require(r(u), c(u)) /\ parseTopArgs(v) = Require(r(v), c(v))
  BY Zenon DEF parseTopArgs
<1> HIDE DEF g
<1>2. r(u) = r(v) /\ StartsWith(u, <<"top">>) = StartsWith(v, <<"top">>)
  BY <1>0, Zenon DEF Agrees, StartAlike, AlikeFrom
<1> HIDE DEF r
<1> QED BY <1>1, <1>2, Zenon

\* A line of three arguments has no fourth.
LEMMA FourIsNotThree ==
  ASSUME NEW n, n \in Nat, n >= 4
  PROVE  n # 3
OBVIOUS

\* The parser of host status.
LEMMA HostsAlike ==
  ASSUME NEW u, NEW v, Agrees(u, v)
  PROVE  parseHostStatusArgs(u) = parseHostStatusArgs(v)
<1> DEFINE j(a) == LET json == booleanFlag(a[3], "--json") IN json.matched /\ json.ok /\ json.value
           c(a) == Len(a) = 3 /\ StartsWith(a, <<"host", "status">>) /\ j(a)
<1>1. parseHostStatusArgs(u) = Require(Nothing, c(u)) /\ parseHostStatusArgs(v) = Require(Nothing, c(v))
  BY Zenon DEF parseHostStatusArgs
<1>2. Len(u) = Len(v) /\ StartsWith(u, <<"host", "status">>) = StartsWith(v, <<"host", "status">>)
  BY Zenon DEF Agrees, StartAlike
<1>3. StartsWith(u, <<"host", "status">>) => Len(u) >= 4
  BY Zenon DEF Agrees
<1>4. ~(Len(u) >= 4 /\ Len(u) = 3)
  <2>1. Len(u) \in Nat
    BY Zenon DEF Agrees
  <2> QED BY <2>1, FourIsNotThree, Zenon
<1>5. ~c(u) /\ ~c(v)
  BY <1>2, <1>3, <1>4, Zenon
<1> HIDE DEF c
<1> QED BY <1>1, <1>5, NotRequired, Zenon

\* The parsers behind a second word.
LEMMA VictimsAlike ==
  ASSUME NEW u, NEW v, NEW k, AlikeFrom(k, u, v)
  PROVE  parseVictimSuspectOptions(u, k) = parseVictimSuspectOptions(v, k)
<1> DEFINE h == Grammar({}, {}, {}, {"--victim", "--suspect"})
           g == [h EXCEPT !.byValue = h.texts]
           r(a) == parseOptions(g, SubSeq(a, k, Len(a)))
           c(a) == r(a).ok /\ Text(r(a), "--victim") # "" /\ Text(r(a), "--suspect") # ""
<1>0. Proper(g)
  BY DEF Proper, Grammar, Valued
<1>1. parseVictimSuspectOptions(u, k) = Require(r(u), c(u)) /\ parseVictimSuspectOptions(v, k) = Require(r(v), c(v))
  BY Zenon DEF parseVictimSuspectOptions
<1> HIDE DEF g
<1>2. r(u) = r(v)
  BY <1>0, Zenon DEF AlikeFrom
<1> HIDE DEF r
<1> QED BY <1>1, <1>2, Zenon

TimedSame(u, v, duration, interval, directory, output, latency, discovery, json) ==
  parseTimedTargetOptions(u, duration, interval, directory, output, latency, discovery, json)
  = parseTimedTargetOptions(v, duration, interval, directory, output, latency, discovery, json)

\* The parser of the timed commands.
LEMMA TimedAlike ==
  ASSUME NEW u, NEW v, AlikeFrom(3, u, v), NEW duration, NEW interval, NEW directory, NEW output, NEW latency,
         NEW discovery, NEW json
  PROVE  TimedSame(u, v, duration, interval, directory, output, latency, discovery, json)
<1> DEFINE b == (IF discovery THEN {"--discover-suspects"} ELSE {})
                  \cup (IF latency THEN {"--include-ebpf-latency"} ELSE {})
                  \cup (IF json THEN {"--json"} ELSE {})
           t == {"--victim", "--suspect"} \cup (IF directory THEN {"--report-dir"} ELSE {})
                  \cup (IF output THEN {"--output", "--output-dir"} ELSE {})
           g == [Grammar(b, {"--duration", "--interval"}, {}, t)
                   EXCEPT !.byValue = {"--victim", "--suspect", "--report-dir"}]
           r(a) == parseOptions(g, SubSeq(a, 3, Len(a)))
           c(a) == /\ r(a).ok
                   /\ Text(r(a), "--victim") # ""
                   /\ OneSuspect(r(a))
                   /\ Text(r(a), "--suspect") # "" \/ "--discover-suspects" \in r(a).on
                   /\ ~({"--output", "--output-dir"} \subseteq r(a).seen)
                   /\ IntervalFits(r(a), duration, interval)
           f(a) == parseTimedTargetOptions(a, duration, interval, directory, output, latency, discovery, json)
<1>0. Proper(g)
  <2>1. b \subseteq {"--discover-suspects", "--include-ebpf-latency", "--json"}
    OBVIOUS
  <2>2. t \subseteq {"--victim", "--suspect", "--report-dir", "--output", "--output-dir"}
    OBVIOUS
  <2> HIDE DEF b, t
  <2>3. g.booleans = b /\ g.durations = {"--duration", "--interval"} /\ g.counts = {} /\ g.texts = t
    BY DEF Grammar
  <2> HIDE DEF g
  <2> QED BY <2>1, <2>2, <2>3 DEF Proper, Valued
<1>1. f(u) = Require(r(u), c(u)) /\ f(v) = Require(r(v), c(v))
  BY Zenon DEF parseTimedTargetOptions
<1> HIDE DEF g
<1>2. r(u) = r(v)
  BY <1>0, Zenon DEF AlikeFrom
<1> HIDE DEF r, f
<1>3. f(u) = f(v)
  BY <1>1, <1>2, Zenon
<1> QED BY <1>3, Zenon DEF f, TimedSame

\* The parsers of diagnose, capture and watch.
LEMMA NeighborsAlike ==
  ASSUME NEW u, NEW v, Agrees(u, v)
  PROVE  /\ parseDiagnoseNoisyNeighborArgs(u) = parseDiagnoseNoisyNeighborArgs(v)
         /\ parseCaptureNoisyNeighborArgs(u) = parseCaptureNoisyNeighborArgs(v)
         /\ parseWatchNoisyNeighborArgs(u) = parseWatchNoisyNeighborArgs(v)
<1> DEFINE d(a) == parseTimedTargetOptions(a, 100, 20, TRUE, TRUE, TRUE, TRUE, TRUE)
           e(a) == parseTimedTargetOptions(a, 100, 20, TRUE, TRUE, TRUE, TRUE, FALSE)
           h == Grammar({"--discover-suspects", "--include-ebpf-latency", "--capture-on-alert", "--verbose"},
                        {"--window", "--every", "--cooldown"}, {"--iterations"}, {"--victim", "--suspect", "--output-dir"})
           g == [h EXCEPT !.filled = {"--output-dir"}]
           r(a) == parseOptions(g, SubSeq(a, 3, Len(a)))
           cd(a) == d(a).ok /\ IsNoisyNeighbor(a)
           ce(a) == e(a).ok /\ IsNoisyNeighbor(a) /\ Text(e(a), "--output") = "" /\ Text(e(a), "--output-dir") # ""
           cr(a) == /\ r(a).ok /\ IsNoisyNeighbor(a)
                    /\ Text(r(a), "--victim") # ""
                    /\ OneSuspect(r(a))
                    /\ Text(r(a), "--suspect") # "" \/ "--discover-suspects" \in r(a).on
<1>0. Proper(g)
  BY DEF Proper, Grammar, Valued
<1>1. /\ \A a : parseDiagnoseNoisyNeighborArgs(a) = Require(d(a), cd(a))
      /\ \A a : parseCaptureNoisyNeighborArgs(a) = Require(e(a), ce(a))
      /\ \A a : parseWatchNoisyNeighborArgs(a) = Require(r(a), cr(a))
  BY Zenon DEF parseDiagnoseNoisyNeighborArgs, parseCaptureNoisyNeighborArgs, parseWatchNoisyNeighborArgs
<1> HIDE DEF g
<1>2. IsNoisyNeighbor(u) = IsNoisyNeighbor(v)
  <2>1. Len(u) = Len(v) /\ (u[2] = Word("noisy-neighbor")) = (v[2] = Word("noisy-neighbor"))
    BY Zenon DEF Agrees
  <2> QED BY <2>1 DEF IsNoisyNeighbor
<1>3. CASE IsNoisyNeighbor(u)
  <2>1. AlikeFrom(3, u, v)
    BY <1>3, Zenon DEF Agrees, IsNoisyNeighbor
  <2>2. d(u) = d(v) /\ e(u) = e(v)
    <3>1. TimedSame(u, v, 100, 20, TRUE, TRUE, TRUE, TRUE, TRUE) /\ TimedSame(u, v, 100, 20, TRUE, TRUE, TRUE, TRUE, FALSE)
      BY <2>1, TimedAlike, Zenon
    <3> QED BY <3>1, Zenon DEF TimedSame
  <2>3. r(u) = r(v)
    BY <1>0, <2>1, Zenon DEF AlikeFrom
  <2> HIDE DEF d, e, r
  <2> QED BY <1>1, <1>2, <2>2, <2>3, Zenon
<1>4. CASE ~IsNoisyNeighbor(u)
  <2>1. ~cd(u) /\ ~ce(u) /\ ~cr(u) /\ ~cd(v) /\ ~ce(v) /\ ~cr(v)
    BY <1>2, <1>4, Zenon
  <2> HIDE DEF d, e, r, cd, ce, cr
  <2> QED BY <1>1, <2>1, NotRequired, Zenon
<1> QED BY <1>3, <1>4

\* The parsers of trace plan and incidents explain.
LEMMA PlansAlike ==
  ASSUME NEW u, NEW v, Agrees(u, v)
  PROVE  /\ Require(parseVictimSuspectOptions(u, 3), Len(u) >= 2 /\ u[2] = Word("plan"))
              = Require(parseVictimSuspectOptions(v, 3), Len(v) >= 2 /\ v[2] = Word("plan"))
         /\ parseIncidentExplainArgs(u) = parseIncidentExplainArgs(v)
<1>1. /\ Len(u) = Len(v)
      /\ (u[2] = Word("plan")) = (v[2] = Word("plan")) /\ (u[2] = Word("explain")) = (v[2] = Word("explain"))
  BY Zenon DEF Agrees
<1>2. Require(parseVictimSuspectOptions(u, 3), Len(u) >= 2 /\ u[2] = Word("plan"))
        = Require(parseVictimSuspectOptions(v, 3), Len(v) >= 2 /\ v[2] = Word("plan"))
  <2>1. CASE u[2] = Word("plan")
    <3>1. AlikeFrom(3, u, v)
      BY <2>1, Zenon DEF Agrees
    <3>2. parseVictimSuspectOptions(u, 3) = parseVictimSuspectOptions(v, 3)
      BY <3>1, VictimsAlike, Zenon
    <3> QED BY <1>1, <3>2, Zenon
  <2>2. CASE u[2] # Word("plan")
    <3> DEFINE cu == Len(u) >= 2 /\ u[2] = Word("plan")
               cv == Len(v) >= 2 /\ v[2] = Word("plan")
               ru == parseVictimSuspectOptions(u, 3)
               rv == parseVictimSuspectOptions(v, 3)
    <3>1. ~cu /\ ~cv
      BY <1>1, <2>2, Zenon
    <3> HIDE DEF cu, cv, ru, rv
    <3>2. Require(ru, cu) = Refused /\ Require(rv, cv) = Refused
      BY <3>1, NotRequired, Zenon
    <3> QED BY <3>2, Zenon DEF cu, cv, ru, rv
  <2> QED BY <2>1, <2>2
<1>3. parseIncidentExplainArgs(u) = parseIncidentExplainArgs(v)
  <2> DEFINE r(a) == parseVictimSuspectOptions(a, 4)
             w(a) == a[2] = Word("explain") /\ IsWord(a[3])
             c(a) == r(a).ok /\ Len(a) >= 3 /\ a[2] = Word("explain") /\ IsWord(a[3])
  <2>1. parseIncidentExplainArgs(u) = Require(r(u), c(u)) /\ parseIncidentExplainArgs(v) = Require(r(v), c(v))
    BY Zenon DEF parseIncidentExplainArgs
  <2>2. u[2] = Word("explain") => IsWord(u[3]) = IsWord(v[3]) /\ (IsWord(u[3]) => AlikeFrom(4, u, v))
    BY Zenon DEF Agrees
  <2>3. CASE w(u)
    <3>1. r(u) = r(v)
      BY <2>2, <2>3, VictimsAlike, Zenon
    <3>2. w(v)
      BY <1>1, <2>2, <2>3, Zenon
    <3> HIDE DEF r
    <3>3. c(u) <=> c(v)
      BY <1>1, <2>3, <3>1, <3>2, Zenon
    <3>4. c(u) = c(v)
      BY <3>3
    <3> HIDE DEF c
    <3> QED BY <2>1, <3>1, <3>4, Zenon
  <2>4. CASE ~w(u)
    <3>1. ~c(u) /\ ~c(v)
      BY <1>1, <2>2, <2>4, Zenon
    <3> HIDE DEF c, r
    <3> QED BY <2>1, <3>1, NotRequired, Zenon
  <2> QED BY <2>3, <2>4
<1> QED BY <1>2, <1>3

\* What a command makes of its arguments does not depend on the order of two
\* neighbours.
LEMMA ParseAlike ==
  ASSUME NEW u, NEW v, Agrees(u, v)
  PROVE  Parse(u) = Parse(v)
<1> DEFINE n == Name(u)
           two == n # <<u[1].text>>
<1>1. /\ Len(u) \in Nat /\ Len(u) = Len(v) /\ Len(u) >= 3 /\ u # <<>> /\ v # <<>> /\ Name(v) = n /\ u[1] = v[1]
      /\ two => Len(u) >= 4 /\ AlikeFrom(3, u, v)
      /\ u[1].text = "inspect" => Len(u) >= 4
      /\ \A a : u[2] = Word(a) => Len(u) >= 4
      /\ \A a : (u[2] = Word(a)) = (v[2] = Word(a))
  BY Zenon DEF Agrees
<1>2. n = <<"inspect">> => Len(u) >= 4
  <2>1. \A x : Name(u) = <<x>> => u[1].text = x
    BY <1>1, NameIs, Zenon
  <2> QED BY <1>1, <2>1, Zenon
<1>3. n \in {<<"storage", "snapshot">>, <<"storage", "watch">>, <<"qemu", "io-watch">>, <<"qemu", "io-summary">>} =>
        AlikeFrom(3, u, v)
  <2>1. \A a, b, c : <<a, b>> # <<c>>
    OBVIOUS
  <2> QED BY <1>1, <2>1
<1>4. n = <<"storage", "snapshot">> => parseVictimSuspectOptions(u, 3) = parseVictimSuspectOptions(v, 3)
  BY <1>3, VictimsAlike
<1>5. n \in {<<"storage", "watch">>, <<"qemu", "io-watch">>, <<"qemu", "io-summary">>} =>
        parseTimedWatchOptions(u) = parseTimedWatchOptions(v)
  <2>1. ASSUME AlikeFrom(3, u, v) PROVE parseTimedWatchOptions(u) = parseTimedWatchOptions(v)
    <3>1. TimedSame(u, v, 300, 50, FALSE, FALSE, FALSE, FALSE, FALSE)
      BY <2>1, TimedAlike, Zenon
    <3> QED BY <3>1, Zenon DEF TimedSame, parseTimedWatchOptions
  <2> QED BY <1>3, <2>1
<1>6. /\ parseObserveSnapshotArgs(u) = parseObserveSnapshotArgs(v)
      /\ parseObserveWatchArgs(u) = parseObserveWatchArgs(v)
      /\ parseEBPFBlockWatchArgs(u) = parseEBPFBlockWatchArgs(v)
      /\ parseEBPFBlockLatencyArgs(u) = parseEBPFBlockLatencyArgs(v)
      /\ parseEBPFVMBlockLatencyArgs(u) = parseEBPFVMBlockLatencyArgs(v)
      /\ parseVMStorageStatsArgs(u) = parseVMStorageStatsArgs(v)
      /\ parseStatusArgs(u) = parseStatusArgs(v)
      /\ parseTopArgs(u) = parseTopArgs(v)
      /\ parseHostStatusArgs(u) = parseHostStatusArgs(v)
  BY SnapshotsAlike, ObserveWatchesAlike, BlockWatchesAlike, LatenciesAlike, VMLatenciesAlike, StorageStatsAlike,
     StatusAlike, TopAlike, HostsAlike, Zenon
<1>7. /\ parseDiagnoseNoisyNeighborArgs(u) = parseDiagnoseNoisyNeighborArgs(v)
      /\ parseCaptureNoisyNeighborArgs(u) = parseCaptureNoisyNeighborArgs(v)
      /\ parseWatchNoisyNeighborArgs(u) = parseWatchNoisyNeighborArgs(v)
  BY NeighborsAlike, Zenon
<1>8. /\ \A c : parseVMJSONStatusArgs(u, c) = parseVMJSONStatusArgs(v, c)
      /\ \A c : parseRequiredEBPFDuration(u, c) = parseRequiredEBPFDuration(v, c)
  BY StatusesAlike, DurationsAlike, Zenon
<1>9. /\ Require(parseVictimSuspectOptions(u, 3), Len(u) >= 2 /\ u[2] = Word("plan"))
           = Require(parseVictimSuspectOptions(v, 3), Len(v) >= 2 /\ v[2] = Word("plan"))
      /\ parseIncidentExplainArgs(u) = parseIncidentExplainArgs(v)
  BY PlansAlike, Zenon
<1> DEFINE version(a) == Len(a) = 1 \/ (Len(a) = 2 /\ Is(a[2], "--json") /\ a[2].form # "bad")
           doctor(a) == Len(a) = 1 \/ a = <<Word("doctor"), Option("--lab")>>
           summary(a) == Len(a) = 3 /\ a[2] = Word("summarize")
           inspect(a) == /\ Len(a) \in {2, 3} /\ a[2] # Option("--verbose")
                         /\ Len(a) = 3 => a[3] = Option("--verbose")
<1>10. Bare(u, version(u)) = Refused /\ Bare(v, version(v)) = Refused
  <2>1. ~version(u) /\ ~version(v)
    BY <1>1
  <2> HIDE DEF version
  <2> QED BY <2>1, NotRequired, Zenon DEF Bare
<1>11. Bare(u, doctor(u)) = Refused /\ Bare(v, doctor(v)) = Refused
  <2>1. Len(<<Word("doctor"), Option("--lab")>>) = 2
    OBVIOUS
  <2>2. /\ u = <<Word("doctor"), Option("--lab")>> => Len(u) = 2
        /\ v = <<Word("doctor"), Option("--lab")>> => Len(v) = 2
    BY <2>1, Zenon
  <2>3. ~(Len(u) = 1) /\ ~(Len(u) = 2) /\ ~(Len(v) = 1) /\ ~(Len(v) = 2)
    BY <1>1
  <2>4. ~doctor(u) /\ ~doctor(v)
    BY <2>2, <2>3, Zenon
  <2> HIDE DEF doctor
  <2> QED BY <2>4, NotRequired, Zenon DEF Bare
<1>12. Bare(u, Len(u) = 2) = Refused /\ Bare(v, Len(v) = 2) = Refused
  <2>1. ~(Len(u) = 2) /\ ~(Len(v) = 2)
    BY <1>1
  <2> QED BY <2>1, NotRequired, Zenon DEF Bare
<1>13. Bare(u, summary(u)) = Refused /\ Bare(v, summary(v)) = Refused
  <2>1. ~summary(u) /\ ~summary(v)
    BY <1>1
  <2> HIDE DEF summary
  <2> QED BY <2>1, NotRequired, Zenon DEF Bare
<1>14. n = <<"inspect">> => Bare(u, inspect(u)) = Refused /\ Bare(v, inspect(v)) = Refused
  <2>1. n = <<"inspect">> => ~inspect(u) /\ ~inspect(v)
    BY <1>1, <1>2
  <2> HIDE DEF inspect
  <2> QED BY <2>1, NotRequired, Zenon DEF Bare
<1> DEFINE Q(a, m) ==
    CASE a = <<>> -> Refused
      [] m = <<"version">> -> Bare(a, version(a))
      [] m = <<"doctor">> -> Bare(a, doctor(a))
      [] m = <<"ebpf", "doctor">> -> Bare(a, Len(a) = 2)
      [] m = <<"ebpf", "block-watch">> -> parseEBPFBlockWatchArgs(a)
      [] m \in {<<"ebpf", "block-events">>, <<"ebpf", "block-count">>} -> parseRequiredEBPFDuration(a, m[2])
      [] m = <<"ebpf", "block-latency">> -> parseEBPFBlockLatencyArgs(a)
      [] m = <<"ebpf", "vm-block-latency">> -> parseEBPFVMBlockLatencyArgs(a)
      [] m = <<"inventory">> -> Nothing
      [] m = <<"host">> -> parseHostStatusArgs(a)
      [] m \in {<<"guest">>, <<"service">>, <<"db">>} -> parseVMJSONStatusArgs(a, m[1])
      [] m = <<"observe", "snapshot">> -> parseObserveSnapshotArgs(a)
      [] m = <<"observe", "watch">> -> parseObserveWatchArgs(a)
      [] m = <<"status">> -> parseStatusArgs(a)
      [] m = <<"top">> -> parseTopArgs(a)
      [] m = <<"trace">> -> Require(parseVictimSuspectOptions(a, 3), Len(a) >= 2 /\ a[2] = Word("plan"))
      [] m = <<"storage", "snapshot">> -> parseVictimSuspectOptions(a, 3)
      [] m \in {<<"storage", "watch">>, <<"qemu", "io-watch">>, <<"qemu", "io-summary">>} -> parseTimedWatchOptions(a)
      [] m = <<"vm">> -> parseVMStorageStatsArgs(a)
      [] m = <<"diagnose">> -> parseDiagnoseNoisyNeighborArgs(a)
      [] m = <<"capture">> -> parseCaptureNoisyNeighborArgs(a)
      [] m = <<"watch">> -> parseWatchNoisyNeighborArgs(a)
      [] m = <<"experiment">> -> Bare(a, summary(a))
      [] m = <<"incidents">> -> parseIncidentExplainArgs(a)
      [] m = <<"inspect">> -> Bare(a, inspect(a))
      [] OTHER -> Refused
           P(a) == Q(a, n)
<1> HIDE DEF n, version, doctor, summary, inspect
<1>15. P(u) = P(v)
  BY <1>1, <1>4, <1>5, <1>6, <1>7, <1>8, <1>9, <1>10, <1>11, <1>12, <1>13, <1>14
<1>16. \A a : Parse(a) = Q(a, Name(a))
  BY DEF Parse, version, doctor, summary, inspect
<1> HIDE DEF Q
<1> QED BY <1>1, <1>15, <1>16, Zenon DEF n
-----------------------------------------------------------------------------
(* What two turned command lines mean.                                     *)

\* The words that a parser is given beyond those of the command line.
LEMMA WiderTurn ==
  ASSUME NEW S, NEW T, S \subseteq T, NEW p, NEW x, NEW y, NEW q, NEW u, NEW v, IsTurn(S, p, x, y, q, u, v)
  PROVE  IsTurn(T, p, x, y, q, u, v)
<1>1. /\ Frame(S, p, q) /\ IsGroup(S, x) /\ IsGroup(S, y)
      /\ u = p \o ((x \o y) \o q) /\ v = p \o ((y \o x) \o q)
  BY Zenon DEF IsTurn
<1>2. \A s : s \in Seq(S) => s \in Seq(T)
  OBVIOUS
<1>3. IsGroup(T, x) /\ IsGroup(T, y)
  BY <1>1, <1>2, Zenon DEF IsGroup
<1>4. Frame(T, p, q)
  BY <1>1, <1>2, Zenon DEF Frame, Grouped
<1> QED BY <1>1, <1>3, <1>4, Zenon DEF IsTurn

\* They name the same settings.
ResolveAlike(T, d, e) == (d.ok <=> e.ok) /\ (d.ok => d.settings = e.settings /\ Turned(T, d.args, e.args))

\* Two turned command lines name the same settings.
LEMMA ResolveTurned ==
  ASSUME NEW T, NEW u, NEW v, Turned(T, u, v)
  PROVE  ResolveAlike(T, Resolve(u), Resolve(v))
<1> DEFINE f(a) == extractConfigFlag(a)
           paths(a) == FirstNonEmpty(<<f(a).path, EnvironmentPath, InstalledDefaultPath>>)
           file(a) == IF paths(a) = <<>> THEN [ok |-> TRUE, settings |-> DevelopmentDefaults] ELSE Load(paths(a)[1])
           c(a) == f(a).ok /\ file(a).ok
           r(a) == [ok |-> c(a), args |-> f(a).args, settings |-> file(a).settings]
<1>1. Resolve(u) = r(u) /\ Resolve(v) = r(v)
  BY Zenon DEF Resolve
<1>2. (f(u).ok <=> f(v).ok) /\ (f(u).ok => f(u).path = f(v).path /\ Turned(T, f(u).args, f(v).args))
  <2>1. ExtractAlike(T, f(u), f(v))
    BY ConfigTurned, Zenon
  <2> QED BY <2>1, Zenon DEF ExtractAlike
<1> HIDE DEF f
<1>3. f(u).ok => file(u) = file(v)
  BY <1>2, Zenon
<1> HIDE DEF file
<1>4. (c(u) <=> c(v)) /\ (c(u) => f(u).ok)
  BY <1>2, <1>3, Zenon
<1> HIDE DEF c
<1>5. \A a : r(a).ok = c(a) /\ r(a).args = f(a).args /\ r(a).settings = file(a).settings
  OBVIOUS
<1> HIDE DEF r
<1> QED BY <1>1, <1>2, <1>3, <1>4, <1>5, Zenon DEF ResolveAlike

\* A rewriting succeeds or does not.
LEMMA ArgumentsTold ==
  ASSUME NEW a, NEW root
  PROVE  Arguments(a, Interactive, root).ok \in BOOLEAN /\ Arguments(a, Interactive, root).help \in BOOLEAN
<1> DEFINE Told(d) == d.ok \in BOOLEAN /\ d.help \in BOOLEAN
<1>1. Told(Unreadable) /\ \A b : Told(Rewritten(b))
  BY DEF Unreadable, Rewritten
<1> HIDE DEF Told
<1>2. \A b, long, output : Told(expandTargetOperatorCommand(b, long, output))
  BY <1>1, Zenon DEF expandTargetOperatorCommand
<1>3. \A b : Told(expandOperatorCommand(b, root))
  BY <1>1, <1>2 DEF expandOperatorCommand
<1> DEFINE relocated == relocateLeadingGlobalJSON(a)
           stripped == stripHelpFlags(relocated.args)
           left == IF stripped.args = <<>> /\ Interactive THEN <<Word("monitor")>> ELSE stripped.args
           shown == [stripped EXCEPT !.help = TRUE]
<1>4. Told(shown)
  <2>1. \A b : \E h, w : \E k \in BOOLEAN : stripHelpFlags(b) = [ok |-> k, args |-> w, help |-> h]
    <3>1. TRUE \in BOOLEAN /\ FALSE \in BOOLEAN
      OBVIOUS
    <3> TAKE b
    <3> DEFINE help == {i \in DOMAIN b : Is(b[i], "--help")}
               i == CHOOSE i \in help : TRUE
               kept == SubSeq(b, 1, i - 1) \o SubSeq(b, i + 1, Len(b))
               value == booleanFlag(b[i], "--help").value
    <3>2. stripHelpFlags(b) \in {[ok |-> TRUE, args |-> b, help |-> FALSE], [ok |-> TRUE, help |-> value, args |-> kept],
                                [ok |-> FALSE, args |-> <<>>, help |-> FALSE]}
      BY Zenon DEF stripHelpFlags, Rewritten, Unreadable
    <3>3. [ok |-> TRUE, help |-> value, args |-> kept] = [ok |-> TRUE, args |-> kept, help |-> value]
      OBVIOUS
    <3> HIDE DEF value, kept
    <3> QED BY <3>1, <3>2, <3>3, Zenon
  <2>2. PICK h, w : \E k \in BOOLEAN : stripHelpFlags(relocated.args) = [ok |-> k, args |-> w, help |-> h]
    <3> HIDE DEF relocated
    <3> QED BY <2>1, Zenon
  <2>3. PICK k \in BOOLEAN : stripped = [ok |-> k, args |-> w, help |-> h]
    BY <2>2, Zenon
  <2> HIDE DEF stripped
  <2>4. shown.ok = k /\ shown.help = TRUE
    BY <2>3
  <2> HIDE DEF shown
  <2> QED BY <2>3, <2>4 DEF Told
<1>5. Arguments(a, Interactive, root) \in {Unreadable, shown, expandOperatorCommand(left, root)}
  BY Zenon DEF Arguments
<1>6. Told(Arguments(a, Interactive, root))
  <2> HIDE DEF shown, left
  <2> QED BY <1>1, <1>3, <1>4, <1>5, Zenon
<1> QED BY <1>6 DEF Told

\* The arguments that a rewriting can name.
Considered(root) == (Tokens \cup Composed(root)) \cup {Word("")}

\* An option among them has no text.
LEMMA ConsideredAreTextless ==
  ASSUME NEW root
  PROVE  Textless(Considered(root))
<1>1. Textless(Tokens \cup Composed(root))
  BY TokensAreTextless, Zenon
<1>2. Word("").option = ""
  BY WordIs, Zenon
<1> QED BY <1>1, <1>2, Zenon DEF Textless, Considered

\* Their arguments are rewritten alike.
TurnedOrSame(T, a, b) == a = b \/ \E p, x, y, q : IsTurn(T, p, x, y, q, a, b)

ArgumentsAlike(T, d, e) == (d.ok <=> e.ok) /\ (d.help <=> e.help) /\ (d.ok /\ ~d.help => TurnedOrSame(T, d.args, e.args))

\* A result is like itself.
LEMMA AlikeItself ==
  ASSUME NEW T, NEW d
  PROVE  ArgumentsAlike(T, d, d)
BY Zenon DEF ArgumentsAlike, TurnedOrSame

\* Two turned command lines are rewritten alike.
LEMMA ArgumentsTurned ==
  ASSUME NEW root, NEW u, NEW v, Turned(Tokens, u, v)
  PROVE  ArgumentsAlike(Considered(root), Arguments(u, Interactive, root), Arguments(v, Interactive, root))
<1> DEFINE T == Considered(root)
           A(a) == Arguments(a, Interactive, root)
<1>1. CASE u = v
  BY <1>1, AlikeItself, Zenon
<1>2. CASE \E p, x, y, q : IsTurn(Tokens, p, x, y, q, u, v)
  <2>1. PICK p, x, y, q : IsTurn(Tokens, p, x, y, q, u, v)
    BY <1>2, Zenon
  <2>2. relocateLeadingGlobalJSON(u) = Rewritten(u) /\ relocateLeadingGlobalJSON(v) = Rewritten(v)
    <3>1. u[1] = p[1] /\ v[1] = p[1] /\ IsWord(p[1])
      <4>1. IsPlaces(Tokens, p, u, v) /\ IsWord(p[1])
        BY <2>1, PlacesIs, Zenon DEF IsTurn, Frame
      <4>2. 1 \in 1..Len(p)
        <5>1. Len(p) \in Nat /\ Len(p) >= 1
          BY <4>1, Zenon DEF IsPlaces
        <5> QED BY <5>1
      <4>3. u[1] = v[1] /\ u[1] = p[1]
        BY <4>1, <4>2, Zenon DEF IsPlaces
      <4> QED BY <4>1, <4>3, Zenon
    <3>2. ~Is(p[1], "--json")
      BY <3>1 DEF Is, IsWord
    <3> QED BY <3>1, <3>2, Zenon DEF relocateLeadingGlobalJSON
  <2>3. \A a : Rewritten(a).ok /\ ~Rewritten(a).help /\ Rewritten(a).args = a
    BY DEF Rewritten
  <2> DEFINE s(a) == stripHelpFlags(a)
             left(a) == IF s(a).args = <<>> /\ Interactive THEN <<Word("monitor")>> ELSE s(a).args
             shown(a) == [s(a) EXCEPT !.help = TRUE]
             B(a) == IF ~s(a).ok THEN Unreadable
                     ELSE IF s(a).help \/ left(a) = <<>> THEN shown(a) ELSE expandOperatorCommand(left(a), root)
  <2>4. A(u) = B(u) /\ A(v) = B(v)
    BY <2>2, <2>3, Zenon DEF Arguments
  <2>5. (s(u).ok <=> s(v).ok) /\ (s(u).help <=> s(v).help) /\ (s(u).ok /\ ~s(u).help => Turned(Tokens, s(u).args, s(v).args))
    <3>1. Tokens \subseteq Tokens
      OBVIOUS
    <3>2. StripAlike(Tokens, s(u), s(v))
      BY <3>1, HelpTurned, Zenon
    <3> QED BY <3>2, Zenon DEF StripAlike
  <2>6. \A a : s(a).ok => shown(a).ok /\ shown(a).help
    <3>1. \A a : s(a).ok => \E h, w : s(a) = [ok |-> TRUE, help |-> h, args |-> w]
      <4>1. ~Unreadable.ok
        BY DEF Unreadable
      <4> QED BY <4>1, Zenon DEF stripHelpFlags, Rewritten
    <3>2. ASSUME NEW a, s(a).ok PROVE shown(a).ok /\ shown(a).help
      <4>1. PICK h, w : s(a) = [ok |-> TRUE, help |-> h, args |-> w]
        BY <3>1, <3>2, Zenon
      <4> HIDE DEF s
      <4> QED BY <4>1
    <3> QED BY <3>2, Zenon
  <2> HIDE DEF A, shown, s
  <2>7. CASE ~s(u).ok
    <3>1. A(u) = Unreadable /\ A(v) = Unreadable
      BY <2>4, <2>5, <2>7, Zenon
    <3> QED BY <3>1, AlikeItself, Zenon DEF A
  <2>8. CASE s(u).ok /\ s(u).help
    <3>1. A(u) = shown(u) /\ A(v) = shown(v)
      BY <2>4, <2>5, <2>8, Zenon
    <3>2. shown(u).ok /\ shown(u).help /\ shown(v).ok /\ shown(v).help
      BY <2>5, <2>6, <2>8, Zenon
    <3> QED BY <3>1, <3>2, Zenon DEF ArgumentsAlike, A
  <2>9. CASE s(u).ok /\ ~s(u).help
    <3>1. Turned(Tokens, s(u).args, s(v).args)
      BY <2>5, <2>9, Zenon
    <3>2. CASE s(u).args = s(v).args
      <4>1. left(u) = left(v)
        BY <3>2, Zenon
      <4>2. CASE left(u) = <<>>
        <5>1. A(u) = shown(u) /\ A(v) = shown(v)
          BY <2>4, <2>5, <2>9, <4>1, <4>2, Zenon
        <5>2. shown(u).ok /\ shown(u).help /\ shown(v).ok /\ shown(v).help
          BY <2>5, <2>6, <2>9, Zenon
        <5> QED BY <5>1, <5>2, Zenon DEF ArgumentsAlike, A
      <4>3. CASE left(u) # <<>>
        <5>1. A(u) = expandOperatorCommand(left(u), root) /\ A(v) = A(u)
          <6> HIDE DEF left
          <6> QED BY <2>4, <2>5, <2>9, <4>1, <4>3, Zenon
        <5> QED BY <5>1, AlikeItself, Zenon DEF A
      <4> QED BY <4>2, <4>3
    <3>3. CASE \E c, i, j, k : IsTurn(Tokens, c, i, j, k, s(u).args, s(v).args)
      <4>1. PICK c, i, j, k : IsTurn(Tokens, c, i, j, k, s(u).args, s(v).args)
        BY <3>3, Zenon
      <4>2. s(u).args # <<>> /\ s(v).args # <<>>
        <5> DEFINE a == s(u).args
                   b == s(v).args
        <5>1. IsTurn(Tokens, c, i, j, k, a, b)
          BY <4>1
        <5> HIDE DEF a, b
        <5>2. IsPlaces(Tokens, c, a, b) /\ a \in Seq(Tokens) /\ b \in Seq(Tokens)
          BY <5>1, PlacesIs, TurnBack, Zenon
        <5>3. Len(a) # 0 /\ Len(b) # 0
          BY <5>2 DEF IsPlaces
        <5>4. a # <<>> /\ b # <<>>
          BY <5>2, <5>3
        <5> QED BY <5>4 DEF a, b
      <4>3. left(u) = s(u).args /\ left(v) = s(v).args
        BY <4>2, Zenon
      <4> HIDE DEF left
      <4>4. A(u) = expandOperatorCommand(s(u).args, root) /\ A(v) = expandOperatorCommand(s(v).args, root)
        BY <2>4, <2>5, <2>9, <4>2, <4>3, Zenon
      <4>5. Composed(root) \subseteq T /\ Word("") \in T /\ Tokens \subseteq T
        BY Zenon DEF Considered
      <4> HIDE DEF T
      <4>6. IsTurn(T, c, i, j, k, s(u).args, s(v).args)
        BY <4>1, <4>5, WiderTurn, Zenon
      <4>7. ExpandAlike(T, expandOperatorCommand(s(u).args, root), expandOperatorCommand(s(v).args, root))
        BY <4>5, <4>6, ExpandTurned, Zenon
      <4>8. ExpandAlike(T, A(u), A(v))
        BY <4>4, <4>7, Zenon
      <4> QED BY <4>8, Zenon DEF ExpandAlike, ArgumentsAlike, Turned, TurnedOrSame, T, A
    <3> QED BY <3>1, <3>2, <3>3, Zenon DEF Turned
  <2> QED BY <2>7, <2>8, <2>9
<1> QED BY <1>1, <1>2, Zenon DEF Turned

\* They mean the same.
LEMMA MeaningTurned ==
  ASSUME NEW u, NEW v, Turned(Tokens, u, v)
  PROVE  Meaning(u) = Meaning(v)
<1> DEFINE d == Resolve(u)
           e == Resolve(v)
           w(b) == IF b.ok THEN Arguments(b.args, Interactive, b.settings.root) ELSE Unreadable
           r(b) == [ok |-> w(b).ok, help |-> w(b).help, args |-> w(b).args, settings |-> b.settings]
           m(a) == [ok |-> a.ok, help |-> a.help, options |-> IF a.ok /\ ~a.help THEN Parse(a.args) ELSE Nothing,
                    settings |-> IF a.ok THEN a.settings ELSE DevelopmentDefaults]
<1>1. ResolveAlike(Tokens, d, e)
  BY ResolveTurned, Zenon
<1>2. Meaning(u) = {m(r(d))} /\ Meaning(v) = {m(r(e))}
  <2>1. Read(u) = r(d) /\ Read(v) = r(e)
    BY Zenon DEF Read
  <2> HIDE DEF r
  <2>2. Meaning(u) = {m(a) : a \in {r(d)}} /\ Meaning(v) = {m(a) : a \in {r(e)}}
    BY <2>1, Zenon DEF Meaning
  <2> HIDE DEF m
  <2> QED BY <2>2
<1> HIDE DEF d, e
<1>3. \A b : r(b).ok = w(b).ok /\ r(b).help = w(b).help /\ r(b).args = w(b).args /\ r(b).settings = b.settings
  <2> HIDE DEF w
  <2> QED OBVIOUS
<1> HIDE DEF r
<1>4. CASE ~d.ok
  <2>1. ~e.ok
    BY <1>1, <1>4, Zenon DEF ResolveAlike
  <2>2. w(d) = Unreadable /\ w(e) = Unreadable
    BY <1>4, <2>1, Zenon
  <2>3. ~Unreadable.ok
    BY DEF Unreadable
  <2> HIDE DEF w
  <2>4. r(d).ok = r(e).ok /\ r(d).help = r(e).help /\ ~r(d).ok /\ ~r(e).ok
    BY <1>3, <2>2, <2>3, Zenon
  <2>5. m(r(d)) = m(r(e))
    BY <2>4
  <2> HIDE DEF m
  <2> QED BY <1>2, <2>5, Zenon
<1>5. CASE d.ok
  <2> DEFINE root == d.settings.root
             T == Considered(root)
  <2>1. e.ok /\ d.settings = e.settings /\ Turned(Tokens, d.args, e.args)
    BY <1>1, <1>5, Zenon DEF ResolveAlike
  <2>2. ArgumentsAlike(T, w(d), w(e))
    BY <1>5, <2>1, ArgumentsTurned, Zenon
  <2>3. w(d).ok \in BOOLEAN /\ w(d).help \in BOOLEAN /\ w(e).ok \in BOOLEAN /\ w(e).help \in BOOLEAN
    BY <1>5, <2>1, ArgumentsTold, Zenon
  <2> HIDE DEF w
  <2>4. w(d).ok = w(e).ok /\ w(d).help = w(e).help
    <3>1. (w(d).ok <=> w(e).ok) /\ (w(d).help <=> w(e).help)
      BY <2>2, Zenon DEF ArgumentsAlike
    <3> QED BY <2>3, <3>1
  <2>5. w(d).ok /\ ~w(d).help => Parse(w(d).args) = Parse(w(e).args)
    <3> DEFINE a == w(d).args
               b == w(e).args
    <3> SUFFICES ASSUME TurnedOrSame(T, a, b) PROVE Parse(a) = Parse(b)
      BY <2>2, Zenon DEF ArgumentsAlike
    <3> HIDE DEF a, b
    <3>1. Textless(T)
      BY ConsideredAreTextless, Zenon
    <3> HIDE DEF T
    <3>2. CASE \E p, x, y, q : IsTurn(T, p, x, y, q, a, b)
      <4>1. IsAlike(T, a, b)
        BY <3>1, <3>2, TurnAlike, Zenon
      <4>2. Agrees(a, b)
        BY <4>1, AlikeAgrees, Zenon
      <4> QED BY <4>2, ParseAlike, Zenon
    <3> QED BY <3>2, Zenon DEF TurnedOrSame
  <2>6. m(r(d)) = m(r(e))
    <3> DEFINE o(a) == IF a.ok /\ ~a.help THEN Parse(a.args) ELSE Nothing
               t(a) == IF a.ok THEN a.settings ELSE DevelopmentDefaults
    <3>1. r(d).ok = r(e).ok /\ r(d).help = r(e).help
      BY <1>3, <2>4, Zenon
    <3>2. o(r(d)) = o(r(e))
      BY <1>3, <2>4, <2>5, Zenon
    <3>3. t(r(d)) = t(r(e))
      BY <1>3, <2>1, <2>4, Zenon
    <3>4. \A a : m(a) = [ok |-> a.ok, help |-> a.help, options |-> o(a), settings |-> t(a)]
      OBVIOUS
    <3> HIDE DEF m, o, t
    <3> QED BY <3>1, <3>2, <3>3, <3>4, Zenon
  <2> HIDE DEF m
  <2> QED BY <1>2, <2>6, Zenon
<1> QED BY <1>4, <1>5
-----------------------------------------------------------------------------
(* Two neighbouring groups of a command line are swapped.                  *)

\* What a list of groups is with two of them swapped.
LEMMA SwappedIs ==
  ASSUME NEW U, NEW S \in Seq(U), NEW i \in 1..(Len(S) - 1)
  PROVE  /\ Swapped(S, i) \in Seq(U) /\ Len(Swapped(S, i)) = Len(S)
         /\ Swapped(S, i)[i] = S[i + 1] /\ Swapped(S, i)[i + 1] = S[i]
         /\ \A j \in 1..Len(S) : j # i /\ j # i + 1 => Swapped(S, i)[j] = S[j]
<1>1. Len(S) \in Nat /\ i \in 1..Len(S) /\ i + 1 \in 1..Len(S) /\ i + 1 # i /\ \A j \in 1..Len(S) : S[j] \in U
  OBVIOUS
<1> QED BY <1>1 DEF Swapped

\* Two lists that differ in two neighbours, one after another.
Parted(T, a, x, y, B, u, v) ==
  /\ Grouped(T, B)
  /\ u = a \o ((x \o y) \o B)
  /\ v = a \o ((y \o x) \o B)

\* One list more behind both.
LEMMA PartedMore ==
  ASSUME NEW T, NEW a \in Seq(T), NEW x, IsGroup(T, x), NEW y, IsGroup(T, y), NEW B, NEW u, NEW v,
         Parted(T, a, x, y, B, u, v), NEW z, IsGroup(T, z)
  PROVE  Parted(T, a, x, y, B \o z, u \o z, v \o z)
<1>1. x \in Seq(T) /\ y \in Seq(T) /\ z \in Seq(T) /\ B \in Seq(T) /\ Grouped(T, B) /\ Grouped(T, z)
  BY GroupedGroup, Zenon DEF IsGroup, Parted, Grouped
<1>2. Grouped(T, B \o z)
  BY <1>1, GroupedBoth, Zenon
<1>3. ASSUME NEW c \in Seq(T) PROVE (a \o (c \o B)) \o z = a \o (c \o (B \o z))
  <2>1. c \o B \in Seq(T)
    BY <1>1, Concatenated, Zenon
  <2>2. Associates(a, c \o B, z) /\ Associates(c, B, z)
    BY <1>1, <2>1, Associated, Zenon
  <2> QED BY <2>2, Zenon DEF Associates
<1>4. x \o y \in Seq(T) /\ y \o x \in Seq(T)
  BY <1>1, Concatenated, Zenon
<1>5. u = a \o ((x \o y) \o B) /\ v = a \o ((y \o x) \o B)
  BY Zenon DEF Parted
<1> QED BY <1>2, <1>3, <1>4, <1>5, Zenon DEF Parted

\* The arguments before the two and behind them are the same.
LEMMA OptionsSwapped ==
  ASSUME NEW T, NEW S \in Seq(Seq(T)), \A j \in 1..Len(S) : IsGroup(T, S[j]), NEW i \in 1..(Len(S) - 1)
  PROVE  \E a \in Seq(T) : \E B : Parted(T, a, S[i], S[i + 1], B, FlattenSeq(S), FlattenSeq(Swapped(S, i)))
<1> DEFINE R == Swapped(S, i)
           n == Len(S)
           x == S[i]
           y == S[i + 1]
<1>1. R \in Seq(Seq(T)) /\ Len(R) = n /\ R[i] = y /\ R[i + 1] = x /\ \A j \in 1..n : j # i /\ j # i + 1 => R[j] = S[j]
  BY SwappedIs, Zenon
<1>2. n \in Nat /\ i \in 1..n /\ i + 1 \in 1..n /\ i - 1 \in 0..n /\ i \in 0..n /\ (i + 1) - 1 = i /\ i - 1 \in Nat
  OBVIOUS
<1>3. IsGroup(T, x) /\ IsGroup(T, y) /\ x \in Seq(T) /\ y \in Seq(T)
  BY <1>2, Zenon DEF IsGroup
<1> HIDE DEF R
<1>4. PICK f : Flattens(T, S, f)
  BY FlattenSteps, Zenon
<1>5. PICK g : Flattens(T, R, g)
  BY <1>1, FlattenSteps, Zenon
<1>6. /\ f \in [0..n -> Seq(T)] /\ f[0] = <<>> /\ f[n] = FlattenSeq(S) /\ \A j \in 1..n : f[j] = f[j - 1] \o S[j]
      /\ g \in [0..n -> Seq(T)] /\ g[0] = <<>> /\ g[n] = FlattenSeq(R) /\ \A j \in 1..n : g[j] = g[j - 1] \o R[j]
  BY <1>1, <1>4, <1>5, Zenon DEF Flattens
<1> DEFINE a == f[i - 1]
<1>7. g[i - 1] = a
  <2> DEFINE Same == {k \in Nat : k < i => g[k] = f[k]}
  <2>1. 0 \in Same
    BY <1>6
  <2>2. ASSUME NEW k \in Nat, k \in Same PROVE k + 1 \in Same
    <3> SUFFICES ASSUME k + 1 < i PROVE g[k + 1] = f[k + 1]
      OBVIOUS
    <3>1. k + 1 \in 1..n /\ k + 1 # i /\ k + 1 # i + 1 /\ (k + 1) - 1 = k /\ k < i
      BY <1>2
    <3>2. g[k] = f[k] /\ R[k + 1] = S[k + 1] /\ f[k + 1] = f[(k + 1) - 1] \o S[k + 1] /\ g[k + 1] = g[(k + 1) - 1] \o R[k + 1]
      BY <1>1, <1>6, <2>2, <3>1
    <3> QED BY <3>1, <3>2, Zenon
  <2>3. \A k \in Nat : k \in Same
    <3> HIDE DEF Same
    <3> QED BY <2>1, <2>2, SetInduction, Zenon
  <2>4. i - 1 < i
    BY <1>2
  <2> QED BY <1>2, <2>3, <2>4
<1>8. a \in Seq(T)
  BY <1>2, <1>6
<1> DEFINE At(j) == \E B : Parted(T, a, x, y, B, f[j], g[j])
<1>9. At(i + 1)
  <2>1. f[i] = a \o x /\ g[i] = a \o y
    BY <1>1, <1>2, <1>6, <1>7, Zenon
  <2>2. f[i + 1] = f[(i + 1) - 1] \o y /\ g[i + 1] = g[(i + 1) - 1] \o x
    BY <1>1, <1>2, <1>6, Zenon
  <2>3. f[i + 1] = (a \o x) \o y /\ g[i + 1] = (a \o y) \o x
    BY <1>2, <2>1, <2>2, Zenon
  <2> HIDE DEF a, x, y
  <2>4. Associates(a, x, y) /\ Associates(a, y, x)
    BY <1>3, <1>8, Associated, Zenon
  <2>5. x \o y \in Seq(T) /\ y \o x \in Seq(T)
    BY <1>3, Concatenated, Zenon
  <2>6. (x \o y) \o <<>> = x \o y /\ (y \o x) \o <<>> = y \o x
    BY <2>5, ConcatEmptySeq, Zenon
  <2>7. Grouped(T, <<>>)
    BY GroupedNone, Zenon
  <2> WITNESS <<>>
  <2> QED BY <2>3, <2>4, <2>6, <2>7, Zenon DEF Parted, Associates
<1>10. ASSUME NEW j \in Nat, At(j), j + 1 \in 1..n, j # i, j + 1 # i, j + 1 # i + 1 PROVE At(j + 1)
  <2>1. PICK B : Parted(T, a, x, y, B, f[j], g[j])
    BY <1>10, Zenon
  <2>2. IsGroup(T, S[j + 1])
    BY <1>10, Zenon
  <2>3. (j + 1) - 1 = j
    OBVIOUS
  <2>4. f[j + 1] = f[j] \o S[j + 1] /\ g[j + 1] = g[j] \o S[j + 1]
    BY <1>1, <1>6, <1>10, <2>3, Zenon
  <2> HIDE DEF a, x, y
  <2>5. Parted(T, a, x, y, B \o S[j + 1], f[j] \o S[j + 1], g[j] \o S[j + 1])
    BY <1>3, <1>8, <2>1, <2>2, PartedMore, Zenon
  <2> QED BY <2>4, <2>5, Zenon
<1> HIDE DEF a, At
<1> DEFINE Rest == {k \in Nat : (i + 1) + k \in 1..n => At((i + 1) + k)}
<1>11. 0 \in Rest
  <2>1. (i + 1) + 0 = i + 1
    BY <1>2
  <2> QED BY <1>9, <2>1
<1>12. ASSUME NEW k \in Nat, k \in Rest PROVE k + 1 \in Rest
  <2> SUFFICES ASSUME (i + 1) + (k + 1) \in 1..n PROVE At((i + 1) + (k + 1))
    OBVIOUS
  <2> DEFINE j == (i + 1) + k
  <2>1. j \in Nat /\ j \in 1..n /\ j + 1 = (i + 1) + (k + 1) /\ j # i /\ j + 1 # i /\ j + 1 # i + 1
    BY <1>2
  <2>2. At(j) /\ j + 1 \in 1..n
    BY <1>12, <2>1
  <2> HIDE DEF j
  <2> QED BY <1>10, <2>1, <2>2
<1>13. \A k \in Nat : k \in Rest
  <2> HIDE DEF Rest
  <2> QED BY <1>11, <1>12, SetInduction, Zenon
<1>14. n - (i + 1) \in Nat /\ (i + 1) + (n - (i + 1)) = n /\ n \in 1..n
  BY <1>2
<1>15. At(n)
  BY <1>13, <1>14
<1>16. PICK B : Parted(T, a, x, y, B, f[n], g[n])
  BY <1>15, Zenon DEF At
<1> QED BY <1>6, <1>8, <1>16, Zenon DEF R

\* A word without text is the empty word.
LEMMA EmptyIs ==
  ASSUME NEW t, t \in Tokens, IsWord(t), t.text = ""
  PROVE  t = Word("")
<1>1. /\ t \in [option : STRING, form : {"bare", "true", "false", "bad"}, text : STRING, duration : Nat, number : Nat]
      /\ t.option = "" => t.form = "bare"
      /\ t.text = "" => t.duration = 0 /\ t.number = 0
  BY Zenon DEF Tokens
<1>2. t = [option |-> t.option, form |-> t.form, text |-> t.text, duration |-> t.duration, number |-> t.number]
  BY <1>1
<1>3. t.option = "" /\ t.form = "bare" /\ t.text = "" /\ t.duration = 0 /\ t.number = 0
  BY <1>1, Zenon DEF IsWord
<1> QED BY <1>2, <1>3, Zenon DEF Word

\* The groups of a command line.
LEMMA GroupsOfTheLine ==
  ASSUME given \in CommandLines, NoEmptyText
  PROVE  /\ given.verb \in Seq(Tokens) /\ given.options \in Seq(Seq(Tokens))
         /\ \A j \in 1..Len(given.options) : IsGroup(Tokens, given.options[j])
<1>1. given.verb \in Seq(Tokens) /\ given.options \in Seq(OptionGroups)
  BY CommandsAssumption, Zenon
<1>2. OptionGroups \subseteq Seq(Tokens)
  BY Zenon DEF OptionGroups
<1>3. given.options \in Seq(Seq(Tokens))
  BY <1>1, <1>2
<1>4. ASSUME NEW j \in 1..Len(given.options) PROVE IsGroup(Tokens, given.options[j])
  <2> DEFINE g == given.options[j]
  <2>1. g \in OptionGroups
    BY <1>1
  <2>2. Word("") \notin ToSet(g)
    <3>1. g \in ToSet(given.options)
      BY <1>1 DEF ToSet
    <3> QED BY <3>1, Zenon DEF NoEmptyText
  <2> HIDE DEF g
  <2>3. g \in Seq(Tokens) /\ Len(g) \in {1, 2} /\ ~IsWord(g[1]) /\ (Len(g) = 2 => g[1].form = "bare" /\ IsWord(g[2]))
    BY <2>1, Zenon DEF OptionGroups
  <2>4. Len(g) = 2 => 2 \in DOMAIN g /\ g[2] \in Tokens
    <3>1. \A s \in Seq(Tokens) : Len(s) = 2 => 2 \in DOMAIN s /\ s[2] \in Tokens
      OBVIOUS
    <3> QED BY <2>3, <3>1, Zenon
  <2>5. ASSUME Len(g) = 2, g[2].text = "" PROVE FALSE
    <3>1. 2 \in DOMAIN g /\ g[2] \in Tokens
      BY <2>5, <2>4, Zenon
    <3>2. g[2] \in ToSet(g)
      BY <3>1, Zenon DEF ToSet
    <3> QED BY <2>2, <2>3, <2>5, <3>1, <3>2, EmptyIs, Zenon
  <2>6. Len(g) = 1 \/ Len(g) = 2
    BY <2>3
  <2>7. IsGroup(Tokens, g)
    BY <2>3, <2>5, <2>6, Zenon DEF IsGroup
  <2> QED BY <2>7 DEF g
<1> QED BY <1>1, <1>3, <1>4

\* Swapping two neighbouring groups turns the command line.
LEMMA LineTurned ==
  ASSUME given \in CommandLines, NoEmptyText, NEW i \in 1..(Len(given.options) - 1)
  PROVE  Turned(Tokens, given.verb \o FlattenSeq(Swapped(given.options, i)), line)
<1> DEFINE S == given.options
           verb == given.verb
           x == S[i]
           y == S[i + 1]
<1>1. verb \in Seq(Tokens) /\ S \in Seq(Seq(Tokens)) /\ \A j \in 1..Len(S) : IsGroup(Tokens, S[j])
  BY GroupsOfTheLine, Zenon
<1>2. i \in 1..Len(S) /\ i + 1 \in 1..Len(S) /\ S # <<>>
  BY <1>1
<1>3. verb # <<>> /\ (\A j \in DOMAIN verb : IsWord(verb[j])) /\ (verb[1].text = "inspect" => Len(verb) > 1)
  BY <1>2, CommandsAssumption, Zenon
<1> HIDE DEF verb, S
<1>4. PICK a, B : a \in Seq(Tokens) /\ Parted(Tokens, a, x, y, B, FlattenSeq(S), FlattenSeq(Swapped(S, i)))
  <2>1. i \in 1..(Len(S) - 1)
    BY DEF S
  <2> QED BY <1>1, <2>1, OptionsSwapped, Zenon
<1>5. IsGroup(Tokens, x) /\ IsGroup(Tokens, y) /\ x \in Seq(Tokens) /\ y \in Seq(Tokens)
  BY <1>1, <1>2, Zenon DEF IsGroup
<1>6. /\ Grouped(Tokens, B) /\ B \in Seq(Tokens)
      /\ a \in Seq(Tokens)
      /\ FlattenSeq(S) = a \o ((x \o y) \o B)
      /\ FlattenSeq(Swapped(S, i)) = a \o ((y \o x) \o B)
  BY <1>4, Zenon DEF Parted, Grouped
<1> HIDE DEF x, y
<1> DEFINE p == verb \o a
<1>7. Frame(Tokens, p, B)
  <2>1. p \in Seq(Tokens) /\ Len(p) = Len(verb) + Len(a) /\ \A k \in 1..Len(verb) : p[k] = verb[k]
    BY <1>1, <1>6, Concatenated, Zenon
  <2> HIDE DEF p
  <2>2. Len(verb) \in Nat /\ Len(a) \in Nat /\ Len(verb) # 0 /\ DOMAIN verb = 1..Len(verb)
    BY <1>1, <1>3
  <2>3. 1 \in 1..Len(verb) /\ p # <<>>
    BY <2>1, <2>2
  <2>4. p[1] = verb[1] /\ IsWord(p[1])
    BY <1>3, <2>1, <2>2, <2>3
  <2>5. ASSUME p[1].text = "inspect" PROVE 2 \in 1..Len(p) /\ IsWord(p[2])
    <3>1. Len(verb) > 1
      BY <1>3, <2>4, <2>5
    <3>2. 2 \in 1..Len(verb) /\ 2 \in 1..Len(p)
      BY <2>1, <2>2, <3>1
    <3> QED BY <1>3, <2>1, <2>2, <3>2
  <2> QED BY <1>6, <2>1, <2>3, <2>4, <2>5, Zenon DEF Frame
<1>8. ASSUME NEW c \in Seq(Tokens) PROVE verb \o (a \o c) = p \o c
  <2>1. Associates(verb, a, c)
    BY <1>1, <1>6, Associated, Zenon
  <2> QED BY <2>1, Zenon DEF Associates
<1>9. (x \o y) \o B \in Seq(Tokens) /\ (y \o x) \o B \in Seq(Tokens)
  BY <1>5, <1>6, Concatenated, Zenon
<1>10. line = p \o ((x \o y) \o B) /\ verb \o FlattenSeq(Swapped(S, i)) = p \o ((y \o x) \o B)
  <2>1. line = verb \o FlattenSeq(S)
    BY DEF line, verb, S
  <2> HIDE DEF p
  <2> QED BY <1>6, <1>8, <1>9, <2>1, Zenon
<1> HIDE DEF p
<1>11. IsTurn(Tokens, p, y, x, B, verb \o FlattenSeq(Swapped(S, i)), line)
  BY <1>5, <1>7, <1>10, Zenon DEF IsTurn
<1>12. Turned(Tokens, verb \o FlattenSeq(Swapped(S, i)), line)
  BY <1>11, TurnedIs, Zenon
<1> QED BY <1>12 DEF verb, S

\* Swapping two neighbouring options of a command line changes neither
\* whether it is accepted nor what it means, for any command line of any
\* length: the expansion of the short commands, the search for --config and
\* --help and the parsers that read one option after another
\* (extractConfigFlag, stripHelpFlags, expandOperatorCommand and the parsers
\* of cli.go).
THEOREM OptionsCommute == SessionSpec => []OptionOrderIsImmaterial
<1>1. AskedInv => OptionOrderIsImmaterial
  <2> SUFFICES ASSUME given \in CommandLines, NoEmptyText, NEW i \in 1..(Len(given.options) - 1),
                      NEW swapped \in {given.verb \o FlattenSeq(Swapped(given.options, i))}
               PROVE  Meaning(swapped) = Meaning(line)
    BY Zenon DEF OptionOrderIsImmaterial, AskedInv
  <2> DEFINE s == given.verb \o FlattenSeq(Swapped(given.options, i))
  <2>1. swapped = s
    OBVIOUS
  <2>2. Turned(Tokens, s, line)
    BY LineTurned, Zenon
  <2> HIDE DEF s
  <2>3. Meaning(s) = Meaning(line)
    BY <2>2, MeaningTurned, Zenon
  <2> QED BY <2>1, <2>3
<1> QED BY <1>1, AskedInvariance, PTL

=============================================================================
