----------------------------- MODULE Publication -----------------------------
(***************************************************************************)
(* What a reader of a destination may rely on: the destination holds       *)
(* nothing or one whole version, a version is published in one step, and a *)
(* power loss brings back a whole version too.  PrivateFile replaces a     *)
(* version by the next; CaptureBundle publishes at most one.               *)
(***************************************************************************)

CONSTANTS
  Versions,     \* whole contents a destination can have
  Nothing,      \* an absent destination
  Replaceable   \* whether a version may replace another one

VARIABLES
  visible,      \* what a reader finds
  survivors     \* what a reader may find after a power loss

contents == <<visible, survivors>>

Start ==
  /\ visible \in Versions \cup {Nothing}
  /\ survivors = {visible}

Publish(v) ==
  /\ Replaceable \/ visible = Nothing
  /\ visible' = v
  /\ survivors' = survivors \cup {v}

\* What is visible is made durable.
Persist ==
  /\ survivors' = {visible}
  /\ UNCHANGED visible

PowerLoss ==
  /\ visible' \in survivors
  /\ survivors' = {visible'}

Next == (\E v \in Versions : Publish(v)) \/ Persist \/ PowerLoss

Spec == Start /\ [][Next]_contents

=============================================================================
