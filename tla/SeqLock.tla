--------------------------------- MODULE SeqLock --------------------------------
(* The sequence lock of sync.c, protecting a record of two words. Writers hold *)
(* the embedded spinlock; readers take no lock and retry. One step per access  *)
(* to shared memory; loads and stores take effect in program order (x86).      *)
EXTENDS Integers

CONSTANTS
    Proc,      \* readers and writers
    Value,     \* what a writer stores in both words
    MaxSeq     \* bound on sequence (uint64_t in the code: it does not wrap)

None == "none"

ASSUME SeqConstants == Value # {} /\ None \notin Proc /\ MaxSeq \in Nat

VARIABLES
    sequence, holder,  \* the lock; holder is None when the spinlock is free
    a, b,              \* the two words of the protected record
    pc,
    start,             \* [Proc -> what seqlock_read_begin returned]
    x, y,              \* [Proc -> the words a reader has read]
    new                \* [Proc -> the value a writer stores]

vars == <<sequence, holder, a, b, pc, start, x, y, new>>

Goto(p, l) == pc' = [pc EXCEPT ![p] = l]

(* seqlock_init, and a record whose words agree *)
Init ==
    /\ sequence = 0 /\ holder = None
    /\ a \in Value /\ b = a
    /\ pc = [p \in Proc |-> "idle"] /\ start = [p \in Proc |-> 0]
    /\ x = [p \in Proc |-> a] /\ y = [p \in Proc |-> a] /\ new = [p \in Proc |-> a]

--------------------------------------------------------------------------------
(* Mutant: a reader does not wait for the writer. *)
ReadBegin_Odd(p) ==
    /\ pc[p] = "idle"
    /\ start' = [start EXCEPT ![p] = sequence] /\ Goto(p, "read_a")
    /\ UNCHANGED <<sequence, holder, a, b, x, y, new>>

(* seqlock_read_begin, when it finds an even sequence *)
ReadBegin(p) ==
    /\ pc[p] = "idle" /\ sequence % 2 = 0
    /\ start' = [start EXCEPT ![p] = sequence] /\ Goto(p, "read_a")
    /\ UNCHANGED <<sequence, holder, a, b, x, y, new>>

ReadA(p) ==
    /\ pc[p] = "read_a" /\ x' = [x EXCEPT ![p] = a] /\ Goto(p, "read_b")
    /\ UNCHANGED <<sequence, holder, a, b, start, y, new>>

ReadB(p) ==
    /\ pc[p] = "read_b" /\ y' = [y EXCEPT ![p] = b] /\ Goto(p, "retry")
    /\ UNCHANGED <<sequence, holder, a, b, start, x, new>>

(* Mutant: what was read is used although a write has begun since. *)
ReadRetry_Ended(p) ==
    /\ pc[p] = "retry"
    /\ Goto(p, IF sequence > start[p] + 1 THEN "idle" ELSE "use")
    /\ UNCHANGED <<sequence, holder, a, b, start, x, y, new>>

(* seqlock_read_retry: use what was read, or start again *)
ReadRetry(p) ==
    /\ pc[p] = "retry"
    /\ Goto(p, IF sequence # start[p] THEN "idle" ELSE "use")
    /\ UNCHANGED <<sequence, holder, a, b, start, x, y, new>>

Use(p) ==
    /\ pc[p] = "use" /\ Goto(p, "idle")
    /\ UNCHANGED <<sequence, holder, a, b, start, x, y, new>>

--------------------------------------------------------------------------------
(* seqlock_write_acquire: the spinlock ... *)
WriteLock(p) ==
    /\ pc[p] = "idle" /\ holder = None /\ sequence < MaxSeq
    /\ holder' = p /\ Goto(p, "write_begin")
    /\ \E v \in Value : new' = [new EXCEPT ![p] = v]
    /\ UNCHANGED <<sequence, a, b, start, x, y>>

(* ... and the first increment. *)
WriteBegin(p) ==
    /\ pc[p] = "write_begin"
    /\ sequence' = sequence + 1 /\ Goto(p, "write_a")
    /\ UNCHANGED <<holder, a, b, start, x, y, new>>

WriteA(p) ==
    /\ pc[p] = "write_a" /\ a' = new[p] /\ Goto(p, "write_b")
    /\ UNCHANGED <<sequence, holder, b, start, x, y, new>>

WriteB(p) ==
    /\ pc[p] = "write_b" /\ b' = new[p] /\ Goto(p, "write_end")
    /\ UNCHANGED <<sequence, holder, a, start, x, y, new>>

(* Mutant: the writer forgets to make the sequence even again. *)
WriteEnd_Once(p) ==
    /\ pc[p] = "write_end" /\ Goto(p, "unlock")
    /\ UNCHANGED <<sequence, holder, a, b, start, x, y, new>>

(* seqlock_write_release: the second increment ... *)
WriteEnd(p) ==
    /\ pc[p] = "write_end"
    /\ sequence' = sequence + 1 /\ Goto(p, "unlock")
    /\ UNCHANGED <<holder, a, b, start, x, y, new>>

(* ... and the spinlock. *)
WriteUnlock(p) ==
    /\ pc[p] = "unlock" /\ holder' = None /\ Goto(p, "idle")
    /\ UNCHANGED <<sequence, a, b, start, x, y, new>>

Step(p) ==
    \/ ReadBegin(p) \/ ReadA(p) \/ ReadB(p) \/ ReadRetry(p) \/ Use(p)
    \/ WriteLock(p) \/ WriteBegin(p) \/ WriteA(p) \/ WriteB(p) \/ WriteEnd(p) \/ WriteUnlock(p)

Next == \E p \in Proc : Step(p)
Spec == Init /\ [][Next]_vars

--------------------------------------------------------------------------------
Writing == {"write_begin", "write_a", "write_b", "write_end", "unlock"}
Labels  == {"idle", "read_a", "read_b", "retry", "use"} \cup Writing

Even    == {n \in 0 .. MaxSeq + 1 : n % 2 = 0}

(* Every variable has its type; a reader starts with an even sequence. *)
TypeOK ==
    /\ sequence \in 0 .. MaxSeq + 1 /\ holder \in Proc \cup {None}
    /\ a \in Value /\ b \in Value /\ pc \in [Proc -> Labels]
    /\ start \in [Proc -> Even] /\ x \in [Proc -> Value] /\ y \in [Proc -> Value]
    /\ new \in [Proc -> Value]

(* What seqlock_read_retry accepts is one record that was stored as a whole:   *)
(* a reader never uses words of two different writes.                          *)
ReadIsConsistent == \A p \in Proc : pc[p] = "use" => x[p] = y[p]

(* sync.h: the sequence is odd exactly while a write is in progress, so that   *)
(* readers neither use half a write nor wait for nobody.                       *)
OddWhileWriting ==
    (sequence % 2 = 1) <=> \E p \in Proc : pc[p] \in {"write_a", "write_b", "write_end"}
================================================================================
