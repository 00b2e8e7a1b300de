------------------------------ MODULE MCEvidence ------------------------------
(* Two VMs of one tenant and a neighbour; every kind of request.           *)
EXTENDS EvidenceWindow

MCOrder == <<"a", "b", "c">>
MCVM == [a |-> [tenant |-> "t", running |-> TRUE, pid |-> TRUE],
         b |-> [tenant |-> "t", running |-> TRUE, pid |-> TRUE],
         c |-> [tenant |-> "u", running |-> TRUE, pid |-> TRUE]]
MCThresholds == [bytes |-> Rate(4, 1), calls |-> Rate(8, 1), ratio |-> 2]
MCWork == {[bytes |-> 0, calls |-> 8], [bytes |-> 2, calls |-> 16], [bytes |-> 4, calls |-> 0]}

Ask(tool, victim, suspect, duration) ==
  [tool |-> tool, victim |-> victim, suspect |-> suspect, discover |-> suspect = None /\ tool # "observe",
   duration |-> duration, interval |-> 1, experiment |-> FALSE, ebpf |-> FALSE,
   guest |-> TRUE, includeGuest |-> TRUE, includeServices |-> TRUE, includeDB |-> TRUE, configured |-> {"a"}]

MCRequests ==
  {Ask("diagnose", "a", "c", 2),
   [Ask("diagnose", "t", "c", 1) EXCEPT !.experiment = TRUE, !.ebpf = TRUE],
   Ask("diagnose", "t", "b", 1),
   [Ask("diagnose", "a", None, 1) EXCEPT !.ebpf = TRUE],
   Ask("diagnose", "x", "c", 1),
   [Ask("observe", "a", None, 1) EXCEPT !.ebpf = TRUE],
   [Ask("observe", "b", "c", 1) EXCEPT !.guest = FALSE],
   [Ask("capture", "t", "c", 1) EXCEPT !.ebpf = TRUE],
   [Ask("capture", "a", None, 1) EXCEPT !.ebpf = TRUE, !.configured = {}]}

MCDiskMaps ==
  {[a |-> {"d1"}, b |-> {"d1"}, c |-> {"d1"}],
   [a |-> {"d1"}, b |-> {"d2"}, c |-> {"d1", "d2"}],
   [a |-> {"d1"}, b |-> {}, c |-> {"d2"}]}

MCImpacts == {[given |-> TRUE, drop |-> d, increase |-> 10] : d \in {0, 20}}

Kernel(status, c1, c2, host, lost) ==
  [status |-> status, operations |-> [k \in {1, 2, 3} |-> CASE k = 1 -> c1 [] k = 2 -> c2 [] k = 3 -> c2],
   host |-> host, lookupMiss |-> lost, incomplete |-> 0]
MCKernels ==
  {Kernel("attributed", 4, 8, 20, 1), Kernel("attributed", 8, 4, 16, 0), Kernel("attributed", 2, 8, 18, 4),
   Kernel("failed", 4, 8, 20, 0)}
MCAnswers ==
  {[host |-> "failed", guest |-> "gaps"], [host |-> "whole", guest |-> "whole"]}
MCStale == {"c"}
MCMappings == [a |-> {1}, b |-> {2}, c |-> {3}]
=============================================================================
