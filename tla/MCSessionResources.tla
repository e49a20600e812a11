------------------------- MODULE MCSessionResources --------------------------
(* Sessions of the burst. *)
EXTENDS SessionResources

CONSTANTS s1, s2, s3, s4

FourSessions == {s1, s2, s3, s4}

\* Two checks and two requests that write, or requests
\* that meet at the counters.
Bursts ==
  {[s \in FourSessions |-> CASE s = s1 -> burst[1] [] s = s2 -> burst[2]
                            [] s = s3 -> burst[3] [] s = s4 -> burst[4]] :
     burst \in {<<"check", "check", "resolve", "resolve">>, <<"check", "check", "resolve", "pause">>,
               <<"check", "check", "resolve", "delete">>, <<"check", "check", "pause", "delete">>,
               <<"check", "check", "delete", "delete">>,
               <<"summary", "simulate", "pause", "delete">>}}
=============================================================================
