--------------------------------- MODULE RwLock ---------------------------------
(* The read-write lock of sync.c with the spinlock inside it, one step per     *)
(* access to shared memory. A process is a thread; irq is its interrupt flag.  *)
EXTENDS Integers, FiniteSets

CONSTANT Proc

None == "none"

ASSUME ProcFinite == IsFiniteSet(Proc) /\ None \notin Proc

VARIABLES
    lock, holder,  \* rw->internal
    state,         \* rw->state
    pc, op, done,  \* where a process is, in which operation, and whether that
                   \* operation has changed rw->state
    irq,           \* [Proc -> are its interrupts enabled?]
    flags,         \* [Proc -> what spinlock_acquire saved]
    out,           \* [Proc -> out_flags of the rwlock operation]
    caller         \* [Proc -> its interrupt flag outside of the lock]

vars == <<lock, holder, state, pc, op, done, irq, flags, out, caller>>

Goto(p, l) == pc' = [pc EXCEPT ![p] = l]

(* rwlock_init and spinlock_init *)
Init ==
    /\ lock = 0 /\ holder = None /\ state = 0
    /\ pc = [p \in Proc |-> "out"] /\ op = [p \in Proc |-> "none"]
    /\ done = [p \in Proc |-> FALSE]
    /\ caller \in [Proc -> BOOLEAN] /\ irq = caller
    /\ flags = [p \in Proc |-> FALSE] /\ out = [p \in Proc |-> FALSE]

(* rwlock_read_acquire or rwlock_write_acquire is called ... *)
Call(p) ==
    /\ pc[p] = "out" /\ Goto(p, "enter")
    /\ \E o \in {"read", "write"} : op' = [op EXCEPT ![p] = o]
    /\ UNCHANGED <<lock, holder, state, done, irq, flags, out, caller>>

(* ... and the matching release. *)
CallRelease(p) ==
    /\ pc[p] = "hold" /\ Goto(p, "enter")
    /\ op' = [op EXCEPT ![p] = IF @ = "read" THEN "endread" ELSE "endwrite"]
    /\ done' = [done EXCEPT ![p] = FALSE]
    /\ UNCHANGED <<lock, holder, state, irq, flags, out, caller>>

(* spinlock_acquire: hal_save_irq and the test for a recursive acquisition *)
Enter(p) ==
    /\ pc[p] = "enter"
    /\ flags' = [flags EXCEPT ![p] = irq[p]] /\ irq' = [irq EXCEPT ![p] = FALSE]
    /\ Goto(p, IF lock = 1 /\ holder = p THEN "panic" ELSE "spin")
    /\ UNCHANGED <<lock, holder, state, op, done, out, caller>>

(* Mutant: the lock word is not tested. *)
TestAndSet_Blind(p) ==
    /\ pc[p] = "spin"
    /\ lock' = lock + 1 /\ Goto(p, "own")
    /\ UNCHANGED <<holder, state, op, done, irq, flags, out, caller>>

(* __sync_lock_test_and_set, when it succeeds *)
TestAndSet(p) ==
    /\ pc[p] = "spin" /\ lock = 0
    /\ lock' = 1 /\ Goto(p, "own")
    /\ UNCHANGED <<holder, state, op, done, irq, flags, out, caller>>

SetHolder(p) ==
    /\ pc[p] = "own"
    /\ holder' = p /\ Goto(p, "in")
    /\ UNCHANGED <<lock, state, op, done, irq, flags, out, caller>>

(* Mutant: a writer does not wait for a writer. *)
MayEnter_WriterJoins(o) ==
    CASE o = "read"  -> state >= 0
      [] o = "write" -> state <= 0
      [] OTHER       -> TRUE

(* The test of rw->state by an operation that acquires. *)
MayEnter(o) ==
    CASE o = "read"  -> state >= 0
      [] o = "write" -> state = 0
      [] OTHER       -> TRUE

(* Mutant: the first reader that leaves frees the lock. *)
Changed_FirstLeaves(o) ==
    CASE o = "read"  -> state + 1
      [] o = "write" -> -1
      [] OTHER       -> 0

Changed(o) ==
    CASE o = "read"    -> state + 1
      [] o = "write"   -> -1
      [] o = "endread" -> state - 1
      [] OTHER         -> 0

(* Under rw->internal: change rw->state, or leave it and try again. *)
Test(p) ==
    /\ pc[p] = "in" /\ Goto(p, "leave")
    /\ IF MayEnter(op[p])
       THEN state' = Changed(op[p]) /\ done' = [done EXCEPT ![p] = TRUE]
       ELSE UNCHANGED <<state, done>>
    /\ UNCHANGED <<lock, holder, op, irq, flags, out, caller>>

(* Mutant: the holder is not cleared. *)
ClearHolder_Skipped(p) ==
    /\ pc[p] = "leave" /\ Goto(p, "unlock")
    /\ UNCHANGED <<lock, holder, state, op, done, irq, flags, out, caller>>

(* spinlock_release *)
ClearHolder(p) ==
    /\ pc[p] = "leave"
    /\ holder' = None /\ Goto(p, "unlock")
    /\ UNCHANGED <<lock, state, op, done, irq, flags, out, caller>>

Unlock(p) ==
    /\ pc[p] = "unlock"
    /\ lock' = 0 /\ irq' = [irq EXCEPT ![p] = flags[p]]
    /\ Goto(p, IF done[p] THEN "return" ELSE "enter")
    /\ UNCHANGED <<holder, state, op, done, flags, out, caller>>

(* Mutant: a release leaves the interrupts off. *)
Return_KeepsIrqOff(p) ==
    /\ pc[p] = "return"
    /\ IF op[p] \in {"read", "write"}
       THEN /\ out' = [out EXCEPT ![p] = irq[p]] /\ irq' = [irq EXCEPT ![p] = FALSE]
            /\ Goto(p, "hold") /\ UNCHANGED <<op, done>>
       ELSE /\ Goto(p, "out") /\ UNCHANGED <<irq, out>>
            /\ op' = [op EXCEPT ![p] = "none"] /\ done' = [done EXCEPT ![p] = FALSE]
    /\ UNCHANGED <<lock, holder, state, flags, caller>>

(* An acquisition returns with interrupts off (hal_save_irq), a release        *)
(* restores what the acquisition saved.                                        *)
Return(p) ==
    /\ pc[p] = "return"
    /\ IF op[p] \in {"read", "write"}
       THEN /\ out' = [out EXCEPT ![p] = irq[p]] /\ irq' = [irq EXCEPT ![p] = FALSE]
            /\ Goto(p, "hold") /\ UNCHANGED <<op, done>>
       ELSE /\ irq' = [irq EXCEPT ![p] = out[p]] /\ Goto(p, "out") /\ UNCHANGED out
            /\ op' = [op EXCEPT ![p] = "none"] /\ done' = [done EXCEPT ![p] = FALSE]
    /\ UNCHANGED <<lock, holder, state, flags, caller>>

Step(p) ==
    \/ Call(p) \/ CallRelease(p) \/ Enter(p) \/ TestAndSet(p) \/ SetHolder(p)
    \/ Test(p) \/ ClearHolder(p) \/ Unlock(p) \/ Return(p)

Next == \E p \in Proc : Step(p)
Spec == Init /\ [][Next]_vars

--------------------------------------------------------------------------------
Labels == {"out", "enter", "spin", "own", "in", "leave", "unlock", "return", "hold", "panic"}
Ops    == {"none", "read", "write", "endread", "endwrite"}

(* Every variable has its type. *)
TypeOK ==
    /\ lock \in {0, 1} /\ holder \in Proc \cup {None} /\ state \in Int
    /\ pc \in [Proc -> Labels] /\ op \in [Proc -> Ops] /\ done \in [Proc -> BOOLEAN]
    /\ irq \in [Proc -> BOOLEAN] /\ flags \in [Proc -> BOOLEAN]
    /\ out \in [Proc -> BOOLEAN] /\ caller \in [Proc -> BOOLEAN]

(* From the change of rw->state in an acquisition to the one in its release.   *)
Holds(p, begin, end) == (op[p] = begin /\ done[p]) \/ (op[p] = end /\ ~done[p])
Readers == {p \in Proc : Holds(p, "read", "endread")}
Writers == {p \in Proc : Holds(p, "write", "endwrite")}

(* rw->state is -1 for a writer and else the number of readers, whatever       *)
(* interleaving of acquisitions and releases there was.                        *)
StateCounts ==
    state = IF Writers # {} THEN -1 ELSE Cardinality(Readers)

(* No thread takes the internal spinlock twice: the recursion check of         *)
(* spinlock_acquire, which reads holder without the lock, never fires.         *)
NoRecursion == \A p \in Proc : pc[p] # "panic"

(* Interrupts are off while the caller holds the lock, and after the release   *)
(* they are as they were before the acquisition.                               *)
IrqRestored ==
    \A p \in Proc : /\ pc[p] = "hold" => ~irq[p]
                    /\ pc[p] = "out" => irq[p] = caller[p]

(* The read-write lock implements the abstract one. *)
RW == INSTANCE ReadersWriter WITH readers <- Readers, writers <- Writers
Implements == RW!Spec
================================================================================
