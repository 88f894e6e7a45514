------------------------------- MODULE MCMqtt -------------------------------
(***************************************************************************)
(* Instances of Mqtt for TLC.                                              *)
(***************************************************************************)
EXTENDS Mqtt, TLC

CONSTANTS r1, r2, m1, m2

\* Each run waits for a message of its own.
WantedByRun(r) == IF r = r1 THEN {m1} ELSE {m2}
=============================================================================
