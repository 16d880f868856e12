-------------------------- MODULE MCSensorTimeouts --------------------------
(* SensorTimeouts for TLC: two ticks are a second. *)
EXTENDS SensorTimeouts, TLC

CONSTANTS s1, s2, s3

\* Every timeout divides the longer ones; the shortest is below a second.
Dividing == s1 :> 1 @@ s2 :> 4 @@ s3 :> 8
\* One, two and three seconds.
Plain == s1 :> 2 @@ s2 :> 4 @@ s3 :> 6
=============================================================================
