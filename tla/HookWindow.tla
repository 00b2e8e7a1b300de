------------------------------ MODULE HookWindow ------------------------------
(***************************************************************************)
(* The observation window of a typed-BTF collection, told without errors,  *)
(* contexts or resources: the issue hook is attached before the completion *)
(* hook and detached before it, each at most once, and the maps are read   *)
(* only after both were detached cleanly.  KernelSession implements this   *)
(* specification; BlockLatency is composed with it.                        *)
(***************************************************************************)

VARIABLES
  issueHook,     \* the hook at block_rq_issue
  completeHook,  \* the hook at block_rq_complete
  maps           \* whether the aggregates were read

windowVars == <<issueHook, completeHook, maps>>

\* "unknown": closing the link returned an error.
HookStates == {"unattached", "attached", "detached", "unknown"}

WindowTypeOK ==
  /\ issueHook \in HookStates
  /\ completeHook \in HookStates
  /\ maps \in {"unread", "read"}

\* The hooks follow one another, and reading comes last.
WindowOrder ==
  /\ completeHook # "unattached" => issueHook # "unattached"
  /\ issueHook = "attached" => completeHook \in {"unattached", "attached"}
  /\ maps = "read" => issueHook = "detached" /\ completeHook = "detached"

WindowInit ==
  /\ issueHook = "unattached"
  /\ completeHook = "unattached"
  /\ maps = "unread"

AttachIssue ==
  /\ issueHook = "unattached"
  /\ issueHook' = "attached"
  /\ UNCHANGED <<completeHook, maps>>

AttachComplete ==
  /\ issueHook = "attached"
  /\ completeHook = "unattached"
  /\ completeHook' = "attached"
  /\ UNCHANGED <<issueHook, maps>>

DetachIssue ==
  /\ issueHook = "attached"
  /\ issueHook' \in {"detached", "unknown"}
  /\ UNCHANGED <<completeHook, maps>>

DetachComplete ==
  /\ issueHook \in {"detached", "unknown"}
  /\ completeHook = "attached"
  /\ completeHook' \in {"detached", "unknown"}
  /\ UNCHANGED <<issueHook, maps>>

ReadMaps ==
  /\ issueHook = "detached"
  /\ completeHook = "detached"
  /\ maps = "unread"
  /\ maps' = "read"
  /\ UNCHANGED <<issueHook, completeHook>>

WindowNext ==
  AttachIssue \/ AttachComplete \/ DetachIssue \/ DetachComplete \/ ReadMaps

WindowSpec == WindowInit /\ [][WindowNext]_windowVars

=============================================================================
