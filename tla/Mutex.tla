---------------------------------- MODULE Mutex ---------------------------------
(* The mutex and the condition variable of sync.c, used the way sync.h.md      *)
(* shows: consumers wait for an item in a loop, producers make one and signal. *)
(* sched_block and sched_wake are each one step (module Sched has their        *)
(* insides); every access to the mutex is a step of its own.                   *)
EXTENDS Integers, Sequences, FiniteSets, SequencesExt

CONSTANTS
    Thread,
    Given          \* [Thread -> the base_priority a thread is created with]

None == "none"

ASSUME MutexConstants == Given \in [Thread -> Nat] /\ None \notin Thread

VARIABLES
    locked, owner, orig,  \* the mutex; owner is owner_tid
    mwait, cwait,         \* waiters of the mutex and of the condvar, newest first
    base,                 \* [Thread -> base_priority]; priority is the same here
    items,                \* the condition that the threads wait for
    pc, mode,             \* where a thread is; timeout_ms: "try", "timed" or "inf"
    waiting               \* [Thread -> is mutex_unlock called by condvar_wait?]

vars == <<locked, owner, orig, mwait, cwait, base, items, pc, mode, waiting>>

Goto(t, l) == pc' = [pc EXCEPT ![t] = l]

At(t, l) == pc[t] = l

(* mutex_init and condvar_init *)
Init ==
    /\ locked = 0 /\ owner = None /\ orig = 0
    /\ mwait = <<>> /\ cwait = <<>> /\ base = Given /\ items = 0
    /\ pc = [t \in Thread |-> "out"] /\ mode = [t \in Thread |-> "inf"]
    /\ waiting = [t \in Thread |-> FALSE]

--------------------------------------------------------------------------------
(* mutex_lock *)

Call(t) ==
    /\ At(t, "out") /\ Goto(t, "cas")
    /\ \E m \in {"try", "timed", "inf"} : mode' = [mode EXCEPT ![t] = m]
    /\ UNCHANGED <<locked, owner, orig, mwait, cwait, base, items, waiting>>

(* Mutant: the word is incremented instead of compared and swapped. *)
CompareAndSwap_Increment(t) ==
    /\ At(t, "cas") /\ locked' = locked + 1
    /\ Goto(t, IF locked = 0 THEN "own" ELSE "failed")
    /\ UNCHANGED <<owner, orig, mwait, cwait, base, items, mode, waiting>>

(* Mutant: test and set in two steps, of which only the second is here. *)
CompareAndSwap_Blind(t) ==
    /\ At(t, "cas")
    /\ \/ locked' = 1 /\ Goto(t, "own")
       \/ locked = 1 /\ Goto(t, "failed") /\ UNCHANGED locked
    /\ UNCHANGED <<owner, orig, mwait, cwait, base, items, mode, waiting>>

CompareAndSwap(t) ==
    /\ At(t, "cas")
    /\ IF locked = 0 THEN locked' = 1 /\ Goto(t, "own")
       ELSE Goto(t, "failed") /\ UNCHANGED locked
    /\ UNCHANGED <<owner, orig, mwait, cwait, base, items, mode, waiting>>

(* Record the owner and its priority. *)
Own(t) ==
    /\ At(t, "own") /\ Goto(t, "cs")
    /\ owner' = t /\ orig' = base[t]
    /\ UNCHANGED <<locked, mwait, cwait, base, items, mode, waiting>>

(* ERR_BUSY, or the "boost" of the owner found through owner_tid. *)
Boost(t) ==
    /\ At(t, "failed")
    /\ IF mode[t] = "try" THEN Goto(t, "out") /\ UNCHANGED base
       ELSE /\ Goto(t, "decide")
            /\ base' = IF owner # None /\ base[owner] > base[t]
                       THEN [base EXCEPT ![owner] = base[t]] ELSE base
    /\ UNCHANGED <<locked, owner, orig, mwait, cwait, items, mode, waiting>>

(* ERR_TIMEOUT, when the time is over *)
Timeout(t) ==
    /\ At(t, "decide") /\ mode[t] = "timed" /\ Goto(t, "out")
    /\ UNCHANGED <<locked, owner, orig, mwait, cwait, base, items, mode, waiting>>

(* sched_block on the mutex; the thread goes on at the CAS when it is woken.   *)
BlockOnMutex(t) ==
    /\ At(t, "decide") /\ Goto(t, "blocked")
    /\ mwait' = <<t>> \o mwait
    /\ UNCHANGED <<locked, owner, orig, cwait, base, items, mode, waiting>>

--------------------------------------------------------------------------------
(* mutex_unlock, which returns ERR_PERM for a thread that is not the owner     *)

Unlock(t) ==
    /\ At(t, "unlock")
    /\ IF owner # t THEN Goto(t, "out") /\ UNCHANGED owner
       ELSE Goto(t, "free") /\ owner' = None
    /\ UNCHANGED <<locked, orig, mwait, cwait, base, items, mode, waiting>>

Free(t) ==
    /\ At(t, "free") /\ locked' = 0 /\ Goto(t, "restore")
    /\ UNCHANGED <<owner, orig, mwait, cwait, base, items, mode, waiting>>

(* The restored priority is read from the mutex after it was freed. *)
Restore(t) ==
    /\ At(t, "restore") /\ base' = [base EXCEPT ![t] = orig] /\ Goto(t, "wake")
    /\ UNCHANGED <<locked, owner, orig, mwait, cwait, items, mode, waiting>>

(* sched_wake on the mutex *)
WakeMutex(t) ==
    /\ At(t, "wake") /\ mwait' = <<>>
    /\ pc' = [u \in Thread |-> IF u = t THEN (IF waiting[t] THEN "cwait" ELSE "out")
                               ELSE IF u \in Range(mwait) THEN "cas" ELSE pc[u]]
    /\ UNCHANGED <<locked, owner, orig, cwait, base, items, mode, waiting>>

--------------------------------------------------------------------------------
(* condvar_wait: mutex_unlock, sched_block on the condvar, mutex_lock.         *)
(* A consumer calls it while there is no item.                                 *)
Wait(t) ==
    /\ At(t, "cs") /\ items = 0 /\ Goto(t, "unlock")
    /\ waiting' = [waiting EXCEPT ![t] = TRUE]
    /\ UNCHANGED <<locked, owner, orig, mwait, cwait, base, items, mode>>

(* A woken waiter goes on with mutex_lock(m, -1). *)
BlockOnCond(t) ==
    /\ At(t, "cwait") /\ Goto(t, "cblocked")
    /\ cwait' = <<t>> \o cwait
    /\ mode' = [mode EXCEPT ![t] = "inf"] /\ waiting' = [waiting EXCEPT ![t] = FALSE]
    /\ UNCHANGED <<locked, owner, orig, mwait, base, items>>

(* A consumer takes the item, or gives up without waiting. *)
Consume(t) ==
    /\ At(t, "cs") /\ Goto(t, "unlock")
    /\ items' = 0
    /\ UNCHANGED <<locked, owner, orig, mwait, cwait, base, mode, waiting>>

(* A producer makes an item and calls condvar_signal or condvar_broadcast.     *)
Produce(t) ==
    /\ At(t, "cs") /\ items = 0 /\ items' = 1
    /\ \E n \in {k \in {1, Len(cwait)} : k <= Len(cwait)} :
          LET woken == SubSeq(cwait, 1, n)
          IN  /\ cwait' = SubSeq(cwait, n + 1, Len(cwait))
              /\ pc' = [u \in Thread |-> IF u = t THEN "unlock"
                                         ELSE IF u \in Range(woken) THEN "cas" ELSE pc[u]]
    /\ UNCHANGED <<locked, owner, orig, mwait, base, mode, waiting>>

(* mutex_unlock by a thread that does not hold the mutex *)
BadUnlock(t) ==
    /\ At(t, "out") /\ Goto(t, "unlock")
    /\ UNCHANGED <<locked, owner, orig, mwait, cwait, base, items, mode, waiting>>

--------------------------------------------------------------------------------
Step(t) ==
    \/ Call(t) \/ CompareAndSwap(t) \/ Own(t) \/ Boost(t) \/ Timeout(t) \/ BlockOnMutex(t)
    \/ Unlock(t) \/ Free(t) \/ Restore(t) \/ WakeMutex(t)
    \/ Wait(t) \/ BlockOnCond(t) \/ Consume(t) \/ Produce(t) \/ BadUnlock(t)

Next == \E t \in Thread : Step(t)
Spec == Init /\ [][Next]_vars

--------------------------------------------------------------------------------
Labels == {"out", "cas", "own", "cs", "failed", "decide", "blocked", "unlock", "free", "restore",
           "wake", "cwait", "cblocked"}

(* Every variable has its type. *)
TypeOK ==
    /\ locked \in {0, 1} /\ owner \in Thread \cup {None} /\ orig \in Nat
    /\ mwait \in Seq(Thread) /\ cwait \in Seq(Thread) /\ base \in [Thread -> Nat]
    /\ items \in {0, 1} /\ pc \in [Thread -> Labels]
    /\ mode \in [Thread -> {"try", "timed", "inf"}] /\ waiting \in [Thread -> BOOLEAN]

(* A thread in the critical section is the owner and the mutex is locked, in   *)
(* spite of timeouts, bad unlocks, and owner_tid being set after the CAS.      *)
OwnerHolds ==
    \A t \in Thread : pc[t] = "cs" => locked = 1 /\ owner = t

================================================================================
