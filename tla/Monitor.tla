------------------------------- MODULE Monitor -------------------------------
(***************************************************************************)
(* What the interactive application promises about the kernel probes, told *)
(* without its event loop, channels or goroutines: the live monitor and an *)
(* embedded workflow take turns, and the eBPF links are handed over only   *)
(* after their holder has detached them.  The component that implements    *)
(* this specification is Dashboard.                                        *)
(***************************************************************************)

VARIABLES
  mode,      \* who has the turn
  probes     \* who holds attached eBPF links

vars == <<mode, probes>>

Modes == {"monitoring", "working", "reviewing", "stopped", "abandoned"}
Holders == {"none", "collector", "workflow"}

TypeOK == mode \in Modes /\ probes \in Holders

Init == mode = "monitoring" /\ probes = "none"

\* The live collector measures with probes of its own.
CollectorAttach ==
  /\ mode = "monitoring" /\ probes = "none"
  /\ probes' = "collector" /\ UNCHANGED mode

CollectorDetach ==
  /\ probes = "collector"
  /\ probes' = "none" /\ UNCHANGED mode

\* The turn passes to a workflow only when the collector holds nothing.
Launch ==
  /\ mode = "monitoring" /\ probes = "none"
  /\ mode' = "working" /\ UNCHANGED probes

WorkflowAttach ==
  /\ mode \in {"working", "abandoned"} /\ probes = "none"
  /\ probes' = "workflow" /\ UNCHANGED mode

WorkflowDetach ==
  /\ probes = "workflow"
  /\ probes' = "none" /\ UNCHANGED mode

\* The workflow ends; the operator reads its output before monitoring resumes.
Complete ==
  /\ mode = "working" /\ probes = "none"
  /\ mode' = "reviewing" /\ UNCHANGED probes

Resume ==
  /\ mode = "reviewing"
  /\ mode' = "monitoring" /\ UNCHANGED probes

\* The application ends with no link attached ...
Stop ==
  /\ mode \in {"monitoring", "reviewing"} /\ probes = "none"
  /\ mode' = "stopped" /\ UNCHANGED probes

\* ... or, when the screen fails, leaves a running workflow behind.
Abandon ==
  /\ mode = "working"
  /\ mode' = "abandoned" /\ UNCHANGED probes

Next ==
  \/ CollectorAttach \/ CollectorDetach \/ Launch
  \/ WorkflowAttach \/ WorkflowDetach \/ Complete
  \/ Resume \/ Stop \/ Abandon

Spec == Init /\ [][Next]_vars

=============================================================================
