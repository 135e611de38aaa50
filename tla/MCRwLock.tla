------------------------------- MODULE MCRwLock --------------------------------
(* The instance of RwLock for TLC.                                             *)
EXTENDS RwLock

CONSTANTS p1, p2, p3
================================================================================
