------------------------------ MODULE MCVMStorage ------------------------------
(* A VM and one that is shut off, whose PIDs may be stale, on a changing host.*)
EXTENDS VMStorage
MCVMs == <<"a", "b">>
MCShutOff == {{"b"}}
MCCgroupRows == {Absent, Counter(1)}
MCVirshRows == {Counter(0)}
=============================================================================
