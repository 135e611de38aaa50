----------------------------- MODULE SeqLockProofs ------------------------------
(* For any number of readers and writers, a reader of the sequence lock uses   *)
(* only records that were stored as a whole.                                   *)
EXTENDS SeqLock, TLAPS

Half    == {"write_a", "write_b", "write_end"}
Reading == {"read_a", "read_b", "retry"}

(* The writer that holds the spinlock is the only one past it. *)
OneWriter == \A p \in Proc : pc[p] \in Writing <=> holder = p

(* The sequence is odd between the increments of a writer and even otherwise;  *)
(* a writer that has not yet begun is below the bound.                         *)
Parity ==
    /\ \A p \in Proc : pc[p] \in Half => sequence % 2 = 1 /\ sequence <= MaxSeq
    /\ \A p \in Proc : pc[p] = "write_begin" => sequence < MaxSeq
    /\ (\A p \in Proc : pc[p] \notin Half) => sequence % 2 = 0

(* The words differ only between the two stores of a writer. *)
Words ==
    /\ \A p \in Proc : pc[p] = "write_b" => a = new[p]
    /\ (\A p \in Proc : pc[p] # "write_b") => a = b

(* While the sequence is the one a reader started with, the words it has read  *)
(* are still the current ones.                                                 *)
Fresh(p) ==
    /\ start[p] <= sequence
    /\ sequence = start[p] => /\ pc[p] \in {"read_b", "retry"} => x[p] = a
                              /\ pc[p] = "retry" => y[p] = b

Readable == \A p \in Proc : pc[p] \in Reading => Fresh(p)

Inv == TypeOK /\ OneWriter /\ Parity /\ Words /\ Readable /\ ReadIsConsistent

--------------------------------------------------------------------------------
(* The invariant holds when seqlock_init has run. *)
LEMMA InitInv == Init => Inv
  BY SeqConstants DEF Init, Inv, TypeOK, OneWriter, Parity, Words, Readable, ReadIsConsistent,
     Labels, Writing, Half, Reading, Even

(* The steps of a reader keep the invariant. *)
LEMMA ReaderSteps ==
  ASSUME Inv, NEW p \in Proc, ReadBegin(p) \/ ReadA(p) \/ ReadB(p) \/ ReadRetry(p) \/ Use(p)
  PROVE  Inv'
  <1> USE DEF Goto, Labels, Writing, Half, Reading, Even
  <1>0. /\ UNCHANGED <<sequence, holder, a, b, new>>
        /\ \A q \in Proc \ {p} : pc'[q] = pc[q] /\ start'[q] = start[q] /\ x'[q] = x[q] /\ y'[q] = y[q]
        /\ pc[p] \in {"idle", "read_a", "read_b", "retry", "use"}
        /\ pc'[p] \in {"idle", "read_a", "read_b", "retry", "use"}
    BY DEF Inv, TypeOK, ReadBegin, ReadA, ReadB, ReadRetry, Use
  <1>1. TypeOK'
    BY DEF Inv, TypeOK, ReadBegin, ReadA, ReadB, ReadRetry, Use
  <1>2. OneWriter'
    BY <1>0 DEF Inv, OneWriter
  <1>3. Parity'
    BY <1>0 DEF Inv, Parity
  <1>4. Words'
    BY <1>0 DEF Inv, Words
  <1>5. ASSUME NEW q \in Proc, q # p PROVE (pc[q] \in Reading => Fresh(q))'
    BY <1>0, <1>5 DEF Inv, Readable, Fresh
  <1>6. (pc[p] \in Reading => Fresh(p))'
    BY DEF Inv, TypeOK, Readable, Fresh, ReadBegin, ReadA, ReadB, ReadRetry, Use
  <1>7. Readable'
    BY <1>5, <1>6 DEF Readable
  <1>8. pc'[p] = "use" => x'[p] = y'[p]
    <2>1. CASE ReadRetry(p) /\ sequence = start[p]
      <3>1. x[p] = a /\ y[p] = b /\ sequence % 2 = 0
        BY <2>1 DEF Inv, TypeOK, Readable, Fresh, ReadRetry
      <3>2. a = b
        BY <3>1 DEF Inv, Parity, Words
      <3>3. QED
        BY <2>1, <3>1, <3>2 DEF ReadRetry
    <2>2. CASE ~(ReadRetry(p) /\ sequence = start[p])
      BY <2>2 DEF Inv, TypeOK, ReadBegin, ReadA, ReadB, ReadRetry, Use
    <2>3. QED
      BY <2>1, <2>2
  <1>9. ReadIsConsistent'
    BY <1>0, <1>8 DEF Inv, ReadIsConsistent
  <1>10. QED
    BY <1>1, <1>2, <1>3, <1>4, <1>7, <1>9 DEF Inv

(* The steps of a writer keep the invariant. *)
LEMMA WriterSteps ==
  ASSUME Inv, NEW p \in Proc,
         WriteLock(p) \/ WriteBegin(p) \/ WriteA(p) \/ WriteB(p) \/ WriteEnd(p) \/ WriteUnlock(p)
  PROVE  Inv'
  <1> USE DEF Goto, Labels, Writing, Half, Reading, Even
  <1> DEFINE Writes == WriteLock(p) \/ WriteBegin(p) \/ WriteA(p) \/ WriteB(p) \/ WriteEnd(p) \/ WriteUnlock(p)
  <1>0. /\ UNCHANGED <<start, x, y>>
        /\ \A q \in Proc \ {p} : pc'[q] = pc[q] /\ new'[q] = new[q]
        /\ pc[p] \in Writing \cup {"idle"} /\ pc'[p] \in Writing \cup {"idle"}
        /\ \A q \in Proc \ {p} : pc[q] \notin Writing
    BY SeqConstants DEF Inv, TypeOK, OneWriter, WriteLock, WriteBegin, WriteA, WriteB, WriteEnd, WriteUnlock
  <1>1. TypeOK'
    <2>1. sequence' \in 0 .. MaxSeq + 1
      BY SeqConstants DEF Inv, TypeOK, Parity, WriteLock, WriteBegin, WriteA, WriteB, WriteEnd, WriteUnlock
    <2>2. holder' \in Proc \cup {None} /\ a' \in Value /\ b' \in Value /\ new' \in [Proc -> Value]
      BY DEF Inv, TypeOK, WriteLock, WriteBegin, WriteA, WriteB, WriteEnd, WriteUnlock
    <2>3. pc' \in [Proc -> Labels]
      BY DEF Inv, TypeOK, WriteLock, WriteBegin, WriteA, WriteB, WriteEnd, WriteUnlock
    <2>4. QED
      BY <1>0, <2>1, <2>2, <2>3 DEF Inv, TypeOK
  <1>2. OneWriter'
    BY <1>0, SeqConstants DEF Inv, TypeOK, OneWriter, WriteLock, WriteBegin, WriteA, WriteB, WriteEnd, WriteUnlock
  <1>3. Parity'
    <2>1. /\ pc'[p] \in Half => sequence' % 2 = 1 /\ sequence' <= MaxSeq
          /\ pc'[p] = "write_begin" => sequence' < MaxSeq
          /\ pc'[p] \notin Half => sequence' % 2 = 0
      BY <1>0, SeqConstants
         DEF Inv, TypeOK, Parity, WriteLock, WriteBegin, WriteA, WriteB, WriteEnd, WriteUnlock
    <2>2. QED
      BY <1>0, <2>1 DEF Parity
  <1>4. Words'
    <2>1. /\ pc'[p] = "write_b" => a' = new'[p]
          /\ pc'[p] # "write_b" => a' = b'
      BY <1>0 DEF Inv, TypeOK, Words, WriteLock, WriteBegin, WriteA, WriteB, WriteEnd, WriteUnlock
    <2>2. QED
      BY <1>0, <2>1 DEF Words
  <1>5. Readable'
    <2> SUFFICES ASSUME NEW q \in Proc, pc'[q] \in Reading PROVE Fresh(q)'
      BY DEF Readable
    <2>1. q # p /\ pc'[q] = pc[q] /\ Fresh(q)
      BY <1>0 DEF Inv, Readable
    <2>2. CASE WriteA(p) \/ WriteB(p)
      <3>1. sequence % 2 = 1
        BY <2>2 DEF Inv, Parity, WriteA, WriteB
      <3>2. QED
        BY <1>0, <2>1, <2>2, <3>1 DEF Inv, TypeOK, Fresh, WriteA, WriteB
    <2>3. CASE WriteLock(p) \/ WriteUnlock(p)
      BY <1>0, <2>1, <2>3 DEF Fresh, WriteLock, WriteUnlock
    <2>4. CASE WriteBegin(p) \/ WriteEnd(p)
      <3>1. start[q] <= sequence /\ sequence' = sequence + 1 /\ start[q] \in Nat /\ sequence \in Nat
        BY <2>1, <2>4, SeqConstants DEF Inv, TypeOK, Fresh, WriteBegin, WriteEnd
      <3>2. start[q] <= sequence' /\ sequence' # start[q]
        BY <3>1
      <3>3. QED
        BY <1>0, <2>1, <3>2 DEF Fresh
    <2>5. QED
      BY <2>2, <2>3, <2>4
  <1>6. ReadIsConsistent'
    BY <1>0 DEF Inv, ReadIsConsistent
  <1>7. QED
    BY <1>1, <1>2, <1>3, <1>4, <1>5, <1>6 DEF Inv

(* Inv is an inductive invariant of the sequence lock. *)
LEMMA Invariance == Spec => []Inv
  <1>1. Inv /\ [Next]_vars => Inv'
    <2> SUFFICES ASSUME Inv, [Next]_vars PROVE Inv'
      OBVIOUS
    <2>1. CASE UNCHANGED vars
      BY <2>1 DEF vars, Inv, TypeOK, OneWriter, Parity, Words, Readable, Fresh, ReadIsConsistent
    <2>2. CASE Next
      BY <2>2, ReaderSteps, WriterSteps DEF Next, Step
    <2>3. QED
      BY <2>1, <2>2
  <1>2. QED
    BY InitInv, <1>1, PTL DEF Spec

(* The variables keep their types: seqlock_write_acquire excludes writers, so  *)
(* that the sequence grows by two per write.                                   *)
THEOREM TypeCorrect == Spec => []TypeOK
  BY Invariance, PTL DEF Inv

(* seqlock_read_retry accepts only a read during which no writer stored, for   *)
(* any number of readers and writers.                                          *)
THEOREM ConsistentReads == Spec => []ReadIsConsistent
  BY Invariance, PTL DEF Inv

(* The sequence is odd exactly while a writer is between its two increments.   *)
THEOREM OddSequence == Spec => []OddWhileWriting
  <1>1. Inv => OddWhileWriting
    BY DEF Inv, Parity, OddWhileWriting, Half
  <1>2. QED
    BY <1>1, Invariance, PTL
================================================================================
