------------------------ MODULE MCMonitorScheduler --------------------------
(* Threads and operations of the scheduler's runs. *)
EXTENDS MonitorScheduler

CONSTANTS a1, a2

TwoAdmins == {a1, a2}
AllOps == Operations
=============================================================================
