--------------------------- MODULE IncidentLedger ---------------------------
(***************************************************************************)
(* What the incident service promises, without checks, sessions, rows or   *)
(* mails: a monitor has at most one current incident, opening one makes it *)
(* current, and closing it, by hand or by a recovery, ends that.           *)
(***************************************************************************)
CONSTANTS Monitor, IncidentId, None

VARIABLES status,    \* of each incident
          current,   \* the incident each monitor is linked to
          live       \* the monitors that exist

vars == <<status, current, live>>

Init ==
  /\ status = [i \in IncidentId |-> "absent"]
  /\ current = [m \in Monitor |-> None]
  /\ live \subseteq Monitor

\* A check of an existing monitor finds it down.
Open(m, i) ==
  /\ m \in live /\ current[m] = None /\ status[i] = "absent"
  /\ status' = [status EXCEPT ![i] = "open"]
  /\ current' = [current EXCEPT ![m] = i]
  /\ UNCHANGED live

\* An incident is resolved, and no monitor is linked to it any more.
Close(i) ==
  /\ status[i] \in {"open", "acknowledged"}
  /\ status' = [status EXCEPT ![i] = "resolved"]
  /\ current' = [m \in Monitor |-> IF current[m] = i THEN None ELSE current[m]]
  /\ UNCHANGED live

Acknowledge(i) ==
  /\ status[i] \in {"open", "acknowledged"}
  /\ status' = [status EXCEPT ![i] = "acknowledged"]
  /\ UNCHANGED <<current, live>>

\* A reopened incident is open, but it is nobody's current one.
Reopen(i) ==
  /\ status[i] # "absent"
  /\ status' = [status EXCEPT ![i] = "open"]
  /\ UNCHANGED <<current, live>>

Add(m) ==
  /\ m \notin live
  /\ live' = live \cup {m}
  /\ UNCHANGED <<status, current>>

\* The incidents of a deleted monitor stay; the monitor forgets its own.
Remove(m) ==
  /\ m \in live
  /\ live' = live \ {m}
  /\ current' = [current EXCEPT ![m] = None]
  /\ UNCHANGED status

Next ==
  \/ \E m \in Monitor, i \in IncidentId : Open(m, i)
  \/ \E i \in IncidentId : Close(i) \/ Acknowledge(i) \/ Reopen(i)
  \/ \E m \in Monitor : Add(m) \/ Remove(m)

Spec == Init /\ [][Next]_vars
=============================================================================
