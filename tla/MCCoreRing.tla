------------------------------ MODULE MCCoreRing ------------------------------
(* CoreRing on small instances: the configuration changes in mid-job, so that *)
(* slots are reused under another configuration.                              *)
EXTENDS CoreRing

\* The scan changes after the second and after the fourth subintegration.
MCConfigOf == [k \in 0 .. MaxSubints - 1 |-> IF k \in {2, 3} THEN 1 ELSE 0]
===============================================================================
