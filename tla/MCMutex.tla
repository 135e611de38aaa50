-------------------------------- MODULE MCMutex --------------------------------
(* Instances of Mutex for TLC.                                                 *)
EXTENDS Mutex

CONSTANTS t1, t2, t3

Ramp == [t \in Thread |-> IF t = t1 THEN 2 ELSE 1]
================================================================================
