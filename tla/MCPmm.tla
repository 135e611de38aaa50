--------------------------------- MODULE MCPmm ---------------------------------
(* Small instances of Pmm: two CPUs, two threads, caches of two pages. *)
EXTENDS Pmm, TLC

CONSTANTS t1, t2

MCThread   == {t1, t2}
MCReserved == {0}
MCListed   == 1 .. 3        \* page 4, when there is one, is in no type-1 entry
MCSymmetry == Permutations(MCThread)
================================================================================
