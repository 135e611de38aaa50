------------------------------ MODULE RwLockProofs ------------------------------
(* For any finite set of threads, the read-write lock of sync.c excludes       *)
(* writers from readers and from each other, and implements ReadersWriter.     *)
EXTENDS RwLock, FiniteSetTheorems, TLAPS

Owning == {"own", "in", "leave", "unlock"}
Acquire == {"read", "write"}
Release == {"endread", "endwrite"}

(* The spinlock word and its holder follow the one thread that is inside. *)
SpinInv ==
    /\ \A p, q \in Proc : pc[p] \in Owning /\ pc[q] \in Owning => p = q
    /\ \A p \in Proc : pc[p] \in Owning => lock = 1
    /\ \A p \in Proc : holder = p => pc[p] \in {"in", "leave"}

(* What a thread is doing at each place. *)
OpInv(p) ==
    /\ pc[p] # "panic"
    /\ pc[p] = "out" <=> op[p] = "none"
    /\ pc[p] \in {"out", "enter", "spin", "own", "in"} => ~done[p]
    /\ pc[p] \in {"return", "hold"} => done[p]
    /\ pc[p] = "hold" => op[p] \in Acquire
    /\ pc[p] \in {"leave", "unlock"} /\ op[p] \in Release => done[p]

(* Where the caller's interrupt flag is at each place. *)
IrqInv(p) ==
    /\ pc[p] = "out" => irq[p] = caller[p]
    /\ op[p] \in Acquire => IF pc[p] \in {"enter", "return"} THEN irq[p] = caller[p]
                            ELSE IF pc[p] = "hold" THEN ~irq[p] /\ out[p] = caller[p]
                            ELSE ~irq[p] /\ flags[p] = caller[p]
    /\ op[p] \in Release => /\ ~irq[p] /\ out[p] = caller[p]
                            /\ pc[p] \notin {"enter", "return"} => ~flags[p]

(* Readers or one writer, counted by rw->state. *)
Exclusion ==
    \/ Writers = {} /\ state = Cardinality(Readers)
    \/ (\E p \in Proc : Writers = {p}) /\ Readers = {} /\ state = -1

Locals == \A p \in Proc : OpInv(p) /\ IrqInv(p)

Inv == TypeOK /\ SpinInv /\ Locals /\ Exclusion

--------------------------------------------------------------------------------
(* The invariant holds when rwlock_init has run. *)
LEMMA InitInv == Init => Inv
  <1> SUFFICES ASSUME Init PROVE Inv
    OBVIOUS
  <1>1. TypeOK
    BY DEF Init, TypeOK, Labels, Ops
  <1>2. SpinInv
    BY ProcFinite DEF Init, SpinInv, Owning
  <1>3. Locals
    BY DEF Init, Locals, OpInv, IrqInv, Acquire, Release
  <1>4. Readers = {} /\ Writers = {}
    BY DEF Init, Readers, Writers, Holds
  <1>5. Exclusion
    BY <1>4, FS_EmptySet DEF Exclusion, Init
  <1>6. QED
    BY <1>1, <1>2, <1>3, <1>5 DEF Inv

(* Every step keeps the types. *)
LEMMA TypeStep ==
  ASSUME TypeOK, NEW p \in Proc, Step(p)
  PROVE  TypeOK'
  <1> USE DEF Goto, Labels, Ops
  <1>1. pc' \in [Proc -> Labels]
    BY DEF TypeOK, Step, Call, CallRelease, Enter, TestAndSet, SetHolder, Test, ClearHolder, Unlock, Return
  <1>2. lock' \in {0, 1} /\ holder' \in Proc \cup {None} /\ state' \in Int
    BY DEF TypeOK, Step, Call, CallRelease, Enter, TestAndSet, SetHolder, Test, ClearHolder, Unlock, Return,
           MayEnter, Changed
  <1>3. op' \in [Proc -> Ops] /\ done' \in [Proc -> BOOLEAN]
    BY DEF TypeOK, Step, Call, CallRelease, Enter, TestAndSet, SetHolder, Test, ClearHolder, Unlock, Return
  <1>4. irq' \in [Proc -> BOOLEAN] /\ flags' \in [Proc -> BOOLEAN] /\ out' \in [Proc -> BOOLEAN]
        /\ caller' \in [Proc -> BOOLEAN]
    BY DEF TypeOK, Step, Call, CallRelease, Enter, TestAndSet, SetHolder, Test, ClearHolder, Unlock, Return
  <1>5. QED
    BY <1>1, <1>2, <1>3, <1>4 DEF TypeOK

(* A step of a thread leaves the others where they are. *)
LEMMA OthersStay ==
  ASSUME TypeOK, NEW p \in Proc, Step(p), NEW q \in Proc, q # p
  PROVE  /\ pc'[q] = pc[q] /\ op'[q] = op[q] /\ done'[q] = done[q]
         /\ irq'[q] = irq[q] /\ flags'[q] = flags[q] /\ out'[q] = out[q] /\ caller'[q] = caller[q]
  BY DEF TypeOK, Step, Call, CallRelease, Enter, TestAndSet, SetHolder, Test, ClearHolder, Unlock, Return, Goto

(* Every step keeps the spinlock to one thread. *)
LEMMA SpinStep ==
  ASSUME Inv, NEW p \in Proc, Step(p)
  PROVE  SpinInv'
  <1> USE DEF Goto, Owning
  <1>1. \A q \in Proc : q # p => pc'[q] = pc[q]
    BY OthersStay DEF Inv
  <1>2. ASSUME pc'[p] \in Owning
        PROVE  lock' = 1 /\ \A q \in Proc : q # p => pc[q] \notin Owning
    BY <1>2 DEF Inv, TypeOK, SpinInv, Step, Call, CallRelease, Enter, TestAndSet, SetHolder, Test,
                ClearHolder, Unlock, Return
  <1>3. ASSUME NEW q \in Proc, q # p, pc[q] \in Owning PROVE lock' = 1
    BY <1>3 DEF Inv, TypeOK, SpinInv, Step, Call, CallRelease, Enter, TestAndSet, SetHolder, Test,
                ClearHolder, Unlock, Return
  <1>4. ASSUME NEW q \in Proc, holder' = q PROVE pc'[q] \in {"in", "leave"}
    <2>1. CASE SetHolder(p)
      BY <1>4, <2>1 DEF Inv, TypeOK, SetHolder
    <2>2. CASE ClearHolder(p)
      BY <1>4, <2>2, ProcFinite DEF ClearHolder
    <2>3. CASE Test(p)
      BY <1>1, <1>4, <2>3 DEF Inv, TypeOK, SpinInv, Test
    <2>4. CASE Call(p) \/ CallRelease(p) \/ Enter(p) \/ TestAndSet(p) \/ Unlock(p) \/ Return(p)
      <3>1. holder' = holder /\ pc[p] \notin {"in", "leave"}
        BY <2>4 DEF Call, CallRelease, Enter, TestAndSet, Unlock, Return
      <3>2. QED
        BY <1>1, <1>4, <3>1 DEF Inv, SpinInv
    <2>5. QED
      BY <2>1, <2>2, <2>3, <2>4 DEF Step
  <1>5. QED
    BY <1>1, <1>2, <1>3, <1>4 DEF Inv, SpinInv

(* Every step keeps track of the operation and of the interrupt flags. *)
LEMMA LocalStep ==
  ASSUME Inv, NEW p \in Proc, Step(p)
  PROVE  Locals'
  <1> USE DEF Goto, Acquire, Release
  <1>1. ASSUME NEW q \in Proc, q # p PROVE (OpInv(q) /\ IrqInv(q))'
    BY <1>1, OthersStay DEF Inv, Locals, OpInv, IrqInv
  <1>2. ~(pc[p] = "enter" /\ holder = p)
    BY DEF Inv, SpinInv
  <1>3. op[p] \in {"none", "read", "write", "endread", "endwrite"}
    BY DEF Inv, TypeOK, Ops
  <1>4. OpInv(p)'
    BY <1>2, <1>3 DEF Inv, TypeOK, Locals, OpInv, Step, Call, CallRelease, Enter, TestAndSet, SetHolder,
       Test, ClearHolder, Unlock, Return, MayEnter
  <1>5. IrqInv(p)'
    <2>1. CASE Call(p) \/ CallRelease(p)
      BY <2>1, <1>3 DEF Inv, TypeOK, Locals, OpInv, IrqInv, Call, CallRelease
    <2>2. CASE Enter(p)
      BY <2>2, <1>2, <1>3 DEF Inv, TypeOK, Locals, OpInv, IrqInv, Enter
    <2>3. CASE TestAndSet(p) \/ SetHolder(p) \/ Test(p) \/ ClearHolder(p)
      BY <2>3 DEF Inv, TypeOK, Locals, OpInv, IrqInv, TestAndSet, SetHolder, Test, ClearHolder
    <2>4. CASE Unlock(p)
      BY <2>4, <1>3 DEF Inv, TypeOK, Locals, OpInv, IrqInv, Unlock
    <2>5. CASE Return(p)
      BY <2>5, <1>3 DEF Inv, TypeOK, Locals, OpInv, IrqInv, Return
    <2>6. QED
      BY <2>1, <2>2, <2>3, <2>4, <2>5 DEF Step
  <1>6. QED
    BY <1>1, <1>4, <1>5 DEF Locals

--------------------------------------------------------------------------------
(* Only Test changes who holds the lock and rw->state. *)
LEMMA QuietSteps ==
  ASSUME Inv, NEW p \in Proc, Step(p), ~Test(p)
  PROVE  Readers' = Readers /\ Writers' = Writers /\ state' = state
  <1>1. op[p] \in {"none", "read", "write", "endread", "endwrite"}
    BY DEF Inv, TypeOK, Ops
  <1>2. ASSUME NEW q \in Proc, NEW b, NEW e, <<b, e>> \in {<<"read", "endread">>, <<"write", "endwrite">>}
        PROVE  Holds(q, b, e)' = Holds(q, b, e)
    <2>1. CASE q # p
      BY <2>1, OthersStay DEF Inv, Holds
    <2>2. CASE q = p
      BY <2>2, <1>1, <1>2 DEF Inv, TypeOK, Locals, OpInv, Holds, Step, Call, CallRelease, Enter, TestAndSet,
         SetHolder, ClearHolder, Unlock, Return, Goto, Acquire, Release
    <2>3. QED
      BY <2>1, <2>2
  <1>3. Readers' = Readers /\ Writers' = Writers
    BY <1>2 DEF Readers, Writers
  <1>4. state' = state
    BY DEF Step, Call, CallRelease, Enter, TestAndSet, SetHolder, ClearHolder, Unlock, Return
  <1>5. QED
    BY <1>3, <1>4

(* How Test changes who holds the lock. *)
LEMMA TestStep ==
  ASSUME Inv, NEW p \in Proc, Test(p)
  PROVE  \/ UNCHANGED <<Readers, Writers, state>>
         \/ /\ state >= 0 /\ state' = state + 1 /\ p \notin Readers
            /\ Readers' = Readers \cup {p} /\ Writers' = Writers
         \/ /\ state = 0 /\ state' = -1
            /\ Readers' = Readers /\ Writers' = Writers \cup {p}
         \/ /\ p \in Readers /\ state' = state - 1
            /\ Readers' = Readers \ {p} /\ Writers' = Writers
         \/ /\ p \in Writers /\ state' = 0
            /\ Readers' = Readers /\ Writers' = Writers \ {p}
  <1>1. /\ op[p] \in {"read", "write", "endread", "endwrite"} /\ ~done[p]
        /\ done \in [Proc -> BOOLEAN] /\ op' = op
    BY DEF Inv, TypeOK, Ops, Locals, OpInv, Test
  <1>2. CASE ~MayEnter(op[p])
    BY <1>2, <1>1 DEF Test, Readers, Writers, Holds
  <1>3. CASE MayEnter(op[p])
    <2>1. state' = Changed(op[p]) /\ done' = [done EXCEPT ![p] = TRUE]
      BY <1>3 DEF Test
    <2>2. \A q \in Proc : done'[q] = IF q = p THEN TRUE ELSE done[q]
      BY <1>1, <2>1
    <2>3. CASE op[p] = "read"
      BY <1>1, <1>3, <2>1, <2>2, <2>3 DEF MayEnter, Changed, Readers, Writers, Holds
    <2>4. CASE op[p] = "write"
      BY <1>1, <1>3, <2>1, <2>2, <2>4 DEF MayEnter, Changed, Readers, Writers, Holds
    <2>5. CASE op[p] = "endread"
      BY <1>1, <1>3, <2>1, <2>2, <2>5 DEF MayEnter, Changed, Readers, Writers, Holds
    <2>6. CASE op[p] = "endwrite"
      BY <1>1, <1>3, <2>1, <2>2, <2>6 DEF MayEnter, Changed, Readers, Writers, Holds
    <2>7. QED
      BY <1>1, <2>3, <2>4, <2>5, <2>6
  <1>4. QED
    BY <1>2, <1>3

(* Test keeps readers and writers apart. *)
LEMMA ExclusionStep ==
  ASSUME Inv, NEW p \in Proc, Step(p)
  PROVE  Exclusion'
  <1>1. CASE ~Test(p)
    BY <1>1, QuietSteps DEF Inv, Exclusion
  <1>2. CASE Test(p)
    <2>1. IsFiniteSet(Readers) /\ Readers \subseteq Proc
      BY ProcFinite, FS_Subset DEF Readers
    <2>2. Cardinality(Readers) \in Nat
      BY <2>1, FS_CardinalityType
    <2>3. p \notin Readers => Cardinality(Readers \cup {p}) = Cardinality(Readers) + 1
      BY <2>1, FS_AddElement
    <2>4. p \in Readers => Cardinality(Readers \ {p}) = Cardinality(Readers) - 1
      BY <2>1, FS_RemoveElement
    <2>5. Cardinality(Readers) = 0 => Readers = {}
      BY <2>1, FS_EmptySet
    <2>6. Cardinality({}) = 0
      BY FS_EmptySet
    <2>7. CASE UNCHANGED <<Readers, Writers, state>>
      BY <2>7 DEF Inv, Exclusion
    <2>8. CASE /\ state >= 0 /\ state' = state + 1 /\ p \notin Readers
               /\ Readers' = Readers \cup {p} /\ Writers' = Writers
      BY <2>2, <2>3, <2>8 DEF Inv, Exclusion
    <2>9. CASE state = 0 /\ state' = -1 /\ Readers' = Readers /\ Writers' = Writers \cup {p}
      BY <2>2, <2>5, <2>9 DEF Inv, Exclusion
    <2>10. CASE p \in Readers /\ state' = state - 1 /\ Readers' = Readers \ {p} /\ Writers' = Writers
      BY <2>2, <2>4, <2>10 DEF Inv, Exclusion
    <2>11. CASE p \in Writers /\ state' = 0 /\ Readers' = Readers /\ Writers' = Writers \ {p}
      BY <2>6, <2>11 DEF Inv, Exclusion
    <2>12. QED
      BY <1>2, TestStep, <2>7, <2>8, <2>9, <2>10, <2>11
  <1>3. QED
    BY <1>1, <1>2

(* Inv is an inductive invariant of the read-write lock. *)
LEMMA Invariance == Spec => []Inv
  <1>1. Inv /\ [Next]_vars => Inv'
    <2> SUFFICES ASSUME Inv, [Next]_vars PROVE Inv'
      OBVIOUS
    <2>1. CASE UNCHANGED vars
      <3>1. TypeOK' /\ SpinInv' /\ Locals'
        BY <2>1 DEF vars, Inv, TypeOK, SpinInv, Locals, OpInv, IrqInv
      <3>2. Exclusion'
        BY <2>1 DEF vars, Inv, Exclusion, Readers, Writers, Holds
      <3>3. QED
        BY <3>1, <3>2 DEF Inv
    <2>2. ASSUME NEW p \in Proc, Step(p) PROVE Inv'
      BY <2>2, TypeStep, SpinStep, LocalStep, ExclusionStep DEF Inv
    <2>3. QED
      BY <2>1, <2>2 DEF Next
  <1>2. QED
    BY InitInv, <1>1, PTL DEF Spec

--------------------------------------------------------------------------------
(* The variables keep their types. *)
THEOREM TypeCorrect == Spec => []TypeOK
  BY Invariance, PTL DEF Inv

(* rw->state is the number of readers, or -1 for a writer, for any number of   *)
(* threads.                                                                    *)
THEOREM CountsReaders == Spec => []StateCounts
  <1>1. Inv => StateCounts
    BY DEF Inv, Exclusion, StateCounts
  <1>2. QED
    BY <1>1, Invariance, PTL

(* The recursion check of the internal spinlock never fires. *)
THEOREM SpinlockNotRecursive == Spec => []NoRecursion
  <1>1. Inv => NoRecursion
    BY DEF Inv, Locals, OpInv, NoRecursion
  <1>2. QED
    BY <1>1, Invariance, PTL

(* Acquire and release restore the caller's interrupt flag. *)
THEOREM InterruptsRestored == Spec => []IrqRestored
  <1>1. Inv => IrqRestored
    BY DEF Inv, Locals, OpInv, IrqInv, IrqRestored
  <1>2. QED
    BY <1>1, Invariance, PTL

(* The lock implements many readers or one writer: every step of the code is a *)
(* step of ReadersWriter or leaves readers and writers as they are.            *)
THEOREM Refinement == Spec => Implements
  <1>1. Init => RW!Init
    BY DEF Init, RW!Init, Readers, Writers, Holds
  <1>2. Inv /\ [Next]_vars => [RW!Next]_<<Readers, Writers>>
    <2> SUFFICES ASSUME Inv, [Next]_vars PROVE [RW!Next]_<<Readers, Writers>>
      OBVIOUS
    <2>1. CASE UNCHANGED vars
      BY <2>1 DEF vars, Readers, Writers, Holds
    <2>2. ASSUME NEW p \in Proc, Step(p) PROVE [RW!Next]_<<Readers, Writers>>
      <3>1. CASE ~Test(p)
        BY <2>2, <3>1, QuietSteps
      <3>2. CASE Test(p)
        <4>1. IsFiniteSet(Readers)
          BY ProcFinite, FS_Subset DEF Readers
        <4>2. Cardinality(Readers) = 0 => Readers = {}
          BY <4>1, FS_EmptySet
        <4>3. state = 0 => Readers = {} /\ Writers = {}
          BY <4>2 DEF Inv, Exclusion
        <4>4. state >= 0 => Writers = {}
          BY DEF Inv, Exclusion
        <4>5. UNCHANGED <<Readers, Writers>> \/ RW!StartRead(p) \/ RW!StartWrite(p)
                  \/ RW!EndRead(p) \/ RW!EndWrite(p)
          BY <3>2, <4>3, <4>4, TestStep DEF RW!StartRead, RW!StartWrite, RW!EndRead, RW!EndWrite
        <4>6. QED
          BY <4>5 DEF RW!Next
      <3>3. QED
        BY <3>1, <3>2
    <2>3. QED
      BY <2>1, <2>2 DEF Next
  <1>3. QED
    BY <1>1, <1>2, Invariance, PTL DEF Spec, Implements, RW!Spec
================================================================================
