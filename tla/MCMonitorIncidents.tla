------------------------ MODULE MCMonitorIncidents --------------------------
(* Threads and operations of the runs. *)
EXTENDS MonitorIncidents

CONSTANTS s1, r1, a1

OneJob == {s1}
OneRequest == {r1}
OneAdmin == {a1}
NoThreads == {}

NoSettings == Operations \ {"settings"}
OutageOps == {"settings", "pause", "resume", "delete"}
IncidentsOnly == IncidentOps
PauseAndResume == {"pause", "resume"}
NoOps == {}

OnOrOff == BOOLEAN
=============================================================================
