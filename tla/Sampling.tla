------------------------------- MODULE Sampling -------------------------------
(***************************************************************************)
(* One observation window of package qemuio: the counters of the QEMU      *)
(* processes are read at its start and after every interval, two readings  *)
(* of a target make a sample, and the samples of the window a summary per  *)
(* VM.  Between two readings a process writes, ends, or is replaced by     *)
(* another one with its PID; a reading may fail while the process lives.   *)
(*                                                                         *)
(* A rate is a fraction; bytes and system calls stand for the four         *)
(* counters that are compared.                                             *)
(***************************************************************************)
EXTENDS Integers, Sequences, FiniteSets, Functions

CONSTANTS Order,      \* the names of the VMs, sorted
          Work,       \* what a process may do in one unit of time: records with bytes and calls
          MaxOwners   \* bound of this model: how often a PID is given to another process

ASSUME SamplingAssumption ==
  /\ Order \in Seq(STRING)
  /\ \A i, j \in DOMAIN Order : Order[i] = Order[j] => i = j
  /\ \A w \in Work : w.bytes \in Nat /\ w.calls \in Nat
  /\ MaxOwners \in Nat

VARIABLES process,    \* of every VM: [alive, owner, bytes, calls]
          window,     \* [targets, duration, interval]: what is sampled
          previous,   \* the last reading of every target
          turn,       \* the target that is read next
          elapsed,    \* the time slept
          samples,    \* the samples consumed
          truth       \* of every VM: what its processes did between two readings of one process

Names == Range(Order)
sampling == <<process, window, previous, turn, elapsed, samples, truth>>

Rates == [n : Nat, d : Nat \ {0}]
Rate(n, d) == [n |-> n, d |-> d]
Nil == Rate(0, 1)
Plus(r, s) == Rate(r.n * s.d + s.n * r.d, r.d * s.d)
Times(k, r) == Rate(k * r.n, r.d)
AtLeast(r, s) == r.n * s.d >= s.n * r.d
Exceeds(r, s) == ~AtLeast(s, r)

-----------------------------------------------------------------------------
validateWindow(duration, interval) == duration > 0 /\ interval > 0 /\ interval <= duration

NotRead == [ok |-> FALSE, bytes |-> 0, calls |-> 0, at |-> 0, owner |-> 0]

sampleProcess(p, readable, at) ==
  IF p.alive /\ readable THEN [ok |-> TRUE, bytes |-> p.bytes, calls |-> p.calls, at |-> at, owner |-> p.owner]
  ELSE [NotRead EXCEPT !.at = at]

CalculateDelta(before, after) ==
  [ok |-> /\ after.at > before.at
          /\ after.bytes >= before.bytes /\ after.calls >= before.calls,
   bytes |-> after.bytes - before.bytes, calls |-> after.calls - before.calls]

\* Mutant: a failed reading counts as zero.
ratesForSamplesUnchecked(before, after) == CalculateDelta(before, after)

ratesForSamples(before, after) ==
  IF before.ok /\ after.ok THEN CalculateDelta(before, after)
  ELSE [ok |-> FALSE, bytes |-> 0, calls |-> 0]

-----------------------------------------------------------------------------
(* What a process may have become since it was last looked at, and whether *)
(* it can be read: it ended, another one has its PID, or it went on.       *)
Worked(p, time) == {[p EXCEPT !.bytes = @ + time * w.bytes, !.calls = @ + time * w.calls] : w \in Work}
Replaced(p, time) == Worked([alive |-> TRUE, owner |-> p.owner + 1, bytes |-> 0, calls |-> 0], time)

Looks(p, time) ==
  {<<[p EXCEPT !.alive = FALSE], FALSE>>}
    \cup (IF p.owner < MaxOwners THEN Replaced(p, time) \X {TRUE} ELSE {})
    \cup (IF p.alive THEN Worked(p, time) \X BOOLEAN ELSE {})

\* The window is open: the targets are read for the first time.  Only what
\* a process does from now on matters, so its counters begin here.
OpenWindow(targets, duration, interval) ==
  /\ validateWindow(duration, interval)
  /\ window' = [targets |-> targets, duration |-> duration, interval |-> interval]
  /\ process' = [name \in Names |-> [process[name] EXCEPT !.owner = 0, !.bytes = 0, !.calls = 0]]
  /\ previous' = [name \in Range(targets) |-> sampleProcess(process'[name], TRUE, 0)]
  /\ turn' = Len(targets) + 1
  /\ elapsed' = 0
  /\ samples' = <<>>
  /\ truth' = [name \in Names |-> [seconds |-> 0, bytes |-> 0, calls |-> 0]]

RoundEnded == turn > Len(window.targets)
WindowEnded == RoundEnded /\ elapsed >= window.duration

Sleep ==
  /\ RoundEnded /\ elapsed < window.duration
  /\ LET remaining == window.duration - elapsed
     IN elapsed' = elapsed + (IF window.interval > remaining THEN remaining ELSE window.interval)
  /\ turn' = 1
  /\ UNCHANGED <<process, window, previous, samples, truth>>

Read ==
  /\ ~RoundEnded
  /\ LET name == window.targets[turn]
         before == previous[name]
     IN \E look \in Looks(process[name], elapsed - before.at) :
          LET p == look[1]
              after == sampleProcess(p, look[2], elapsed)
              rates == ratesForSamples(before, after)
              same == before.ok /\ after.ok /\ before.owner = after.owner
          IN /\ process' = [process EXCEPT ![name] = p]
             /\ samples' = Append(samples, [name |-> name, seconds |-> after.at - before.at, rates |-> rates])
             /\ previous' = [previous EXCEPT ![name] = after]
             /\ truth' = IF same THEN [truth EXCEPT ![name] =
                                         [seconds |-> @.seconds + elapsed - before.at,
                                          bytes |-> @.bytes + after.bytes - before.bytes,
                                          calls |-> @.calls + after.calls - before.calls]]
                         ELSE truth
  /\ turn' = turn + 1
  /\ UNCHANGED <<window, elapsed>>

-----------------------------------------------------------------------------
(* The summary of a window, time-weighted over the samples that succeeded. *)
Unavailable == [available |-> FALSE, seconds |-> 0, bytes |-> Nil, calls |-> Nil, maxBytes |-> Nil, maxCalls |-> Nil]

\* The samples of a VM that say something, by their places.
Successful(name) ==
  {i \in DOMAIN samples : samples[i].name = name /\ samples[i].rates.ok /\ samples[i].seconds > 0}

Seconds == [i \in DOMAIN samples |-> samples[i].seconds]
BytesRead == [i \in DOMAIN samples |-> samples[i].rates.bytes]
CallsRead == [i \in DOMAIN samples |-> samples[i].rates.calls]

Highest(rates) == CHOOSE r \in rates : \A s \in rates : AtLeast(r, s)

summarizeSamples(name) ==
  LET good == Successful(name)
      seconds == SumFunctionOnSet(Seconds, good)
  IN IF good = {} THEN Unavailable
     ELSE [available |-> TRUE, seconds |-> seconds,
           bytes |-> Rate(SumFunctionOnSet(BytesRead, good), seconds),
           calls |-> Rate(SumFunctionOnSet(CallsRead, good), seconds),
           maxBytes |-> Highest({Rate(BytesRead[i], Seconds[i]) : i \in good}),
           maxCalls |-> Highest({Rate(CallsRead[i], Seconds[i]) : i \in good})]

\* What was not sampled in the window is unavailable.
SummaryOf(name) == IF name \in DOMAIN previous THEN summarizeSamples(name) ELSE Unavailable
=============================================================================
