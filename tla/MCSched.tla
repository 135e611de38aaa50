-------------------------------- MODULE MCSched --------------------------------
(* Instances of Sched for TLC.                                                 *)
EXTENDS Sched

CONSTANTS t1, t2, t3

EvenPrio  == [t \in Thread |-> 1]
OneLow    == [t \in Thread |-> IF t = t2 THEN 1 ELSE 2]
AnyCpu    == [t \in Thread |-> CPU]
================================================================================
