------------------------------- MODULE MCStorage -------------------------------
(* Instances of Storage for TLC.                                               *)
EXTENDS Storage

CONSTANTS t1, b1, b2
================================================================================
