------------------------------- MODULE MCSeqLock -------------------------------
(* Instance of SeqLock for TLC.                                                *)
EXTENDS SeqLock

CONSTANTS p1, p2, p3, v1, v2
================================================================================
