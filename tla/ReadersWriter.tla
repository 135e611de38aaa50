----------------------------- MODULE ReadersWriter -----------------------------
(* What a read-write lock promises: many readers or one writer.                *)

CONSTANT Proc

VARIABLES readers, writers

Init == readers = {} /\ writers = {}

StartRead(p) ==
    /\ writers = {} /\ p \notin readers
    /\ readers' = readers \cup {p} /\ UNCHANGED writers

EndRead(p) ==
    /\ p \in readers
    /\ readers' = readers \ {p} /\ UNCHANGED writers

StartWrite(p) ==
    /\ readers = {} /\ writers = {}
    /\ writers' = {p} /\ UNCHANGED readers

EndWrite(p) ==
    /\ p \in writers
    /\ writers' = writers \ {p} /\ UNCHANGED readers

Next == \E p \in Proc : StartRead(p) \/ EndRead(p) \/ StartWrite(p) \/ EndWrite(p)

Spec == Init /\ [][Next]_<<readers, writers>>
================================================================================
