------------------------------ MODULE PmmInvariant -----------------------------
(* The inductive invariant of Pmm, and the lemmas that it holds initially and *)
(* is preserved by a cache pop and by the control steps.                      *)
EXTENDS Pmm, FiniteSetTheorems, TLAPS

(* Page p is in the hands of thread t inside the allocator. *)
Flying(t, p) == pc[t] \in {"refill", "freeslow", "freepush"} /\ arg[t] = p

(* A thread in a locked section is the holder of pmm_global_lock. *)
LockInv ==
    \A t \in Thread : pc[t] \in {"refill", "steal", "steal2", "flush", "freepush"} => glock = t

(* cache_steal: the count read before the own lock is still right. *)
StealInv ==
    \A t \in Thread : pc[t] = "steal2" =>
        /\ vlock \in CPU /\ vlock # gcpu
        /\ my_n = cpu_cache_count[gcpu]
        /\ iter[t] < 2 * NCPU

(* The owner array and the bitmap tell where a page is. *)
ListInv  == /\ \A p \in free_list : p \notin used_bitmap
            /\ \A p \in Page : p \notin used_bitmap => page_owner[p] = Unset
RsvInv   == \A p \in Reserved : p \in used_bitmap /\ page_owner[p] = Rsv
UseInv   == \A p \in inuse : page_owner[p] \in Thread
FlyInv   == /\ \A t \in Thread : pc[t] \in {"refill", "freeslow", "freepush"} =>
                  arg[t] \in Page /\ page_owner[arg[t]] \in Thread /\ arg[t] \notin inuse
            /\ \A t, u \in Thread : \A p \in Page : Flying(t, p) /\ Flying(u, p) => t = u
SlotInv  == /\ \A c \in CPU : \A i \in 1 .. cpu_cache_count[c] : page_owner[cpu_cache[c][i]] = Cache
            /\ \A c, d \in CPU : \A i \in 1 .. cpu_cache_count[c], j \in 1 .. cpu_cache_count[d] :
                  cpu_cache[c][i] = cpu_cache[d][j] => c = d /\ i = j
FoundInv == /\ \A p \in Page : page_owner[p] = Cache =>
                  \E c \in CPU : \E i \in 1 .. cpu_cache_count[c] : cpu_cache[c][i] = p
            /\ \A p \in Page : page_owner[p] \in Thread =>
                  p \in inuse \/ \E t \in Thread : Flying(t, p)

PmmInv ==
    /\ TypeOK /\ NeverHalts /\ LockInv /\ StealInv
    /\ ListInv /\ RsvInv /\ UseInv /\ FlyInv /\ SlotInv /\ FoundInv

--------------------------------------------------------------------------------
(* The invariant holds after pmm_init. *)
LEMMA InitInv == Init => PmmInv
<1> SUFFICES ASSUME Init PROVE PmmInv
    OBVIOUS
<1> USE PmmConstants
<1>0. 0 \in CPU /\ 0 \in Page
    BY DEF CPU, Page
<1>1. IsFiniteSet(Page) /\ Cardinality(Reserved) \in Nat /\ Cardinality(Listed) \in Nat
  <2>1. IsFiniteSet(Page)
      BY FS_Interval DEF Page
  <2> QED
      BY <2>1, FS_Subset, FS_CardinalityType
<1>2. TypeOK
  <2>1. list_free_count \in Int
      BY <1>1 DEF Init
  <2>2. iter \in [Thread -> 0 .. 2 * NCPU]
      BY DEF Init
  <2>3. cpu_cache_count \in [CPU -> 0 .. CacheSize] /\ my_n \in 0 .. CacheSize
      BY DEF Init
  <2>4. cpu_cache \in [CPU -> [1 .. CacheSize -> Page]] /\ gcpu \in CPU
      BY <1>0 DEF Init
  <2>5. page_owner \in [Page -> {Unset, Cache, Rsv} \cup Thread]
      BY DEF Init
  <2>6. pc \in [Thread -> PcLabel] /\ arg \in [Thread -> Nat]
      BY DEF Init, PcLabel
  <2> QED
      BY Zenon, <2>1, <2>2, <2>3, <2>4, <2>5, <2>6 DEF Init, TypeOK
<1>3. NeverHalts /\ LockInv /\ StealInv
    BY DEF Init, NeverHalts, LockInv, StealInv
<1>4. ListInv /\ RsvInv /\ UseInv /\ FlyInv
    BY DEF Init, ListInv, RsvInv, UseInv, FlyInv, Flying
<1>5. SlotInv
    BY DEF Init, SlotInv, CPU
<1>6. FoundInv
    BY DEF Init, FoundInv, Unset, Cache, Rsv
<1> QED
    BY <1>2, <1>3, <1>4, <1>5, <1>6 DEF PmmInv

(* A step that leaves the caches alone and the owner of every cached page     *)
(* CACHE preserves the invariant of the slots.                                *)
LEMMA SameSlots ==
    ASSUME SlotInv, cpu_cache' = cpu_cache, cpu_cache_count' = cpu_cache_count,
           \A c \in CPU : \A i \in 1 .. cpu_cache_count[c] : page_owner'[cpu_cache[c][i]] = Cache
    PROVE  SlotInv'
<1>1. \A c \in CPU : \A i \in 1 .. cpu_cache_count'[c] : page_owner'[cpu_cache'[c][i]] = Cache
    OBVIOUS
<1>2. ASSUME NEW c \in CPU, NEW d \in CPU, NEW i \in 1 .. cpu_cache_count'[c],
             NEW j \in 1 .. cpu_cache_count'[d], cpu_cache'[c][i] = cpu_cache'[d][j]
      PROVE  c = d /\ i = j
  <2>1. i \in 1 .. cpu_cache_count[c] /\ j \in 1 .. cpu_cache_count[d]
      OBVIOUS
  <2>2. cpu_cache[c][i] = cpu_cache[d][j]
      BY <1>2
  <2> QED
      BY <2>1, <2>2 DEF SlotInv
<1> QED
    BY <1>1, <1>2 DEF SlotInv

(* cache_try_pop preserves the invariant wherever it is called from. *)
LEMMA PopStep ==
    ASSUME PmmInv, ~MigrateInWindow,
           NEW t \in Thread, NEW c \in CPU, NEW miss \in {"slow", "resteal"},
           pc[t] \in {"idle", "repop"}, CanUse(c), CacheTryPop(t, c, miss),
           UNCHANGED <<free_list, used_bitmap, list_free_count, cpu_cache, locks, oom, arg>>,
           iter' \in [Thread -> 0 .. 2 * NCPU],
           \A u \in Thread \ {t} : iter'[u] = iter[u]
    PROVE  PmmInv'
<1> USE PmmConstants DEF locks, oom
<1> DEFINE n == cpu_cache_count[c]
           p == cpu_cache[c][n]
<1>1. n \in 0 .. CacheSize /\ (n > 0 => n \in 1 .. n /\ p \in Page)
    BY DEF PmmInv, TypeOK
<1>2. CASE n = 0
  <2>1. /\ pc' = [pc EXCEPT ![t] = miss]
        /\ UNCHANGED <<page_owner, cpu_cache_count, inuse>>
      BY <1>2 DEF CacheTryPop, Goto
  <2>2. TypeOK' /\ NeverHalts' /\ LockInv'
      BY <2>1 DEF PmmInv, TypeOK, NeverHalts, LockInv, PcLabel
  <2>3. StealInv'
      BY <2>1 DEF PmmInv, TypeOK, StealInv
  <2>4. \A u \in Thread : \A q \in Page : Flying(u, q)' <=> Flying(u, q)
      BY <2>1 DEF PmmInv, TypeOK, Flying
  <2>5. ListInv' /\ RsvInv' /\ UseInv' /\ FlyInv' /\ SlotInv' /\ FoundInv'
      BY <2>1, <2>4 DEF PmmInv, ListInv, RsvInv, UseInv, FlyInv, SlotInv, FoundInv
  <2> QED
      BY <2>2, <2>3, <2>5 DEF PmmInv
<1>3. CASE n > 0
  <2>1. page_owner[p] = Cache /\ p \in used_bitmap
      BY <1>1, <1>3 DEF PmmInv, SlotInv, ListInv, Unset, Cache
  <2>2. /\ cpu_cache_count' = [cpu_cache_count EXCEPT ![c] = n - 1]
        /\ page_owner' = [page_owner EXCEPT ![p] = t]
        /\ inuse' = inuse \cup {p}
        /\ pc' = [pc EXCEPT ![t] = "idle"]
      BY <1>3, <2>1 DEF CacheTryPop, Goto
  <2>3. TypeOK' /\ NeverHalts' /\ LockInv'
    <3>1. page_owner' \in [Page -> {Unset, Cache, Rsv} \cup Thread] /\ inuse' \subseteq Page /\ pc' \in [Thread -> PcLabel]
        BY <1>1, <1>3, <2>2 DEF PmmInv, TypeOK, PcLabel
    <3>2. cpu_cache_count' \in [CPU -> 0 .. CacheSize]
        BY <1>1, <1>3, <2>2 DEF PmmInv, TypeOK
    <3>3. TypeOK'
        BY <3>1, <3>2 DEF PmmInv, TypeOK
    <3> QED
        BY <2>2, <3>3 DEF PmmInv, TypeOK, NeverHalts, LockInv
  <2>4. StealInv'
    <3>1. ASSUME NEW u \in Thread, pc'[u] = "steal2"
          PROVE  u # t /\ pc[u] = "steal2" /\ gcpu # c
        BY <3>1, <2>2 DEF PmmInv, TypeOK, LockInv, CanUse
    <3> QED
        BY <2>2, <3>1 DEF PmmInv, TypeOK, StealInv
  <2>5. \A u \in Thread : \A q \in Page : Flying(u, q)' <=> Flying(u, q)
      BY <2>2 DEF PmmInv, TypeOK, Flying
  <2>6. \A q \in Page : page_owner'[q] = IF q = p THEN t ELSE page_owner[q]
      BY <2>2 DEF PmmInv, TypeOK
  <2>7. ListInv' /\ RsvInv' /\ UseInv'
      BY <1>1, <1>3, <2>1, <2>2, <2>6 DEF PmmInv, TypeOK, ListInv, RsvInv, UseInv, Cache, Rsv
  <2>8. FlyInv'
      BY <1>1, <1>3, <2>1, <2>2, <2>5, <2>6 DEF PmmInv, TypeOK, FlyInv
  <2>9. \A d \in CPU : \A i \in 1 .. cpu_cache_count'[d] :
          i \in 1 .. cpu_cache_count[d] /\ cpu_cache[d][i] # p /\ cpu_cache[d][i] \in Page
    <3> SUFFICES ASSUME NEW d \in CPU, NEW i \in 1 .. cpu_cache_count'[d]
                 PROVE  i \in 1 .. cpu_cache_count[d] /\ cpu_cache[d][i] # p /\ cpu_cache[d][i] \in Page
        OBVIOUS
    <3>1. i \in 1 .. cpu_cache_count[d] /\ (d = c => i # n)
        BY <1>1, <1>3, <2>2 DEF PmmInv, TypeOK
    <3>2. cpu_cache[d][i] \in Page
        BY <3>1 DEF PmmInv, TypeOK
    <3> QED
        BY <1>1, <1>3, <3>1, <3>2 DEF PmmInv, SlotInv
  <2>10. SlotInv'
      BY <2>6, <2>9 DEF PmmInv, SlotInv
  <2>11. FoundInv'
    <3>1. ASSUME NEW q \in Page, page_owner'[q] = Cache
          PROVE  \E d \in CPU : \E i \in 1 .. cpu_cache_count'[d] : cpu_cache[d][i] = q
      <4>1. q # p /\ page_owner[q] = Cache
          BY <2>6, <3>1
      <4>2. PICK d \in CPU : \E i \in 1 .. cpu_cache_count[d] : cpu_cache[d][i] = q
          BY <4>1 DEF PmmInv, FoundInv
      <4>3. PICK i \in 1 .. cpu_cache_count[d] : cpu_cache[d][i] = q
          BY <4>2
      <4>4. i \in 1 .. cpu_cache_count'[d]
          BY <1>1, <1>3, <2>2, <4>1, <4>3 DEF PmmInv, TypeOK
      <4> QED
          BY <4>3, <4>4
    <3>2. ASSUME NEW q \in Page, page_owner'[q] \in Thread
          PROVE  q \in inuse' \/ \E u \in Thread : Flying(u, q)
        BY <2>2, <2>6, <3>2 DEF PmmInv, FoundInv
    <3> QED
        BY <2>5, <3>1, <3>2 DEF FoundInv
  <2> QED
      BY <2>3, <2>4, <2>7, <2>8, <2>10, <2>11 DEF PmmInv
<1> QED
    BY <1>1, <1>2, <1>3

(* A step that moves no page and leaves the pages in hand where they are. *)
LEMMA QuietStep ==
    ASSUME PmmInv, UNCHANGED <<free_list, used_bitmap, page_owner, caches, inuse>>,
           NEW t \in Thread, pc' = [pc EXCEPT ![t] = pc'[t]],
           pc[t] \notin {"refill", "freeslow", "freepush"},
           pc'[t] \notin {"refill", "freeslow", "freepush"},
           \A u \in Thread \ {t} : arg'[u] = arg[u],
           TypeOK', NeverHalts', LockInv', StealInv'
    PROVE  PmmInv'
<1>1. \A u \in Thread : pc'[u] \in {"refill", "freeslow", "freepush"}
        => u # t /\ pc'[u] = pc[u] /\ arg'[u] = arg[u]
    BY Zenon DEF PmmInv, TypeOK
<1>2. \A u \in Thread : \A q \in Page : Flying(u, q)' <=> Flying(u, q)
    BY Zenon, <1>1 DEF PmmInv, TypeOK, Flying
<1>3. ListInv' /\ RsvInv' /\ UseInv' /\ SlotInv'
    BY DEF PmmInv, ListInv, RsvInv, UseInv, SlotInv, caches
<1>4. FlyInv'
    BY <1>1, <1>2 DEF PmmInv, FlyInv
<1>5. FoundInv'
    BY <1>2 DEF PmmInv, FoundInv, caches
<1> QED
    BY <1>3, <1>4, <1>5 DEF PmmInv

(* The scan for a victim, the out-of-memory path and the first and last steps *)
(* of pmm_alloc_pages only move control.                                      *)
LEMMA ControlSteps ==
    ASSUME PmmInv, NEW t \in Thread,
           \/ StealExhausted(t) \/ StealSkip(t) \/ StealBegin(t) \/ StealOwnLockBusy(t)
           \/ Resteal(t) \/ OomTest(t) \/ OomSchedule(t) \/ AllocPages(t) \/ ScanFails(t)
    PROVE  PmmInv'
<1> USE PmmConstants DEF mem, caches, locks, oom, Goto, SetArg, SetIter, Holds, Lock, Unlock
<1>0. TypeOK /\ NeverHalts /\ LockInv /\ StealInv
    BY DEF PmmInv
<1>1. CASE StealExhausted(t)
  <2>1. TypeOK'
      BY <1>0, <1>1 DEF StealExhausted, TypeOK, PcLabel, CPU
  <2>2. NeverHalts' /\ LockInv' /\ StealInv'
      BY <1>0, <1>1 DEF StealExhausted, TypeOK, NeverHalts, LockInv, StealInv
  <2> QED
      BY Zenon, <1>0, <1>1, <2>1, <2>2, QuietStep DEF StealExhausted, TypeOK
<1>2. CASE StealSkip(t)
  <2>1. TypeOK'
      BY <1>0, <1>2 DEF StealSkip, NextVictim, TypeOK
  <2>2. NeverHalts' /\ LockInv' /\ StealInv'
      BY <1>0, <1>2 DEF StealSkip, NextVictim, TypeOK, NeverHalts, LockInv, StealInv
  <2> QED
      BY Zenon, <1>0, <1>2, <2>1, <2>2, QuietStep DEF StealSkip, TypeOK
<1>3. CASE StealBegin(t)
  <2>1. Victim(t) \in CPU
      BY <1>0, <1>3 DEF Victim, TypeOK, CPU
  <2>2. TypeOK'
      BY <1>0, <1>3, <2>1 DEF StealBegin, TypeOK, PcLabel
  <2>3. NeverHalts' /\ LockInv' /\ StealInv'
      BY <1>0, <1>3, <2>1 DEF StealBegin, TypeOK, NeverHalts, LockInv, StealInv
  <2> QED
      BY Zenon, <1>0, <1>3, <2>2, <2>3, QuietStep DEF StealBegin, TypeOK
<1>4. CASE StealOwnLockBusy(t)
  <2>1. TypeOK'
      BY <1>0, <1>4 DEF StealOwnLockBusy, NextVictim, TypeOK, PcLabel, StealInv
  <2>2. NeverHalts' /\ LockInv' /\ StealInv'
      BY <1>0, <1>4 DEF StealOwnLockBusy, TypeOK, NeverHalts, LockInv, StealInv
  <2> QED
      BY Zenon, <1>0, <1>4, <2>1, <2>2, QuietStep DEF StealOwnLockBusy, TypeOK
<1>5. CASE Resteal(t)
  <2>1. TypeOK'
      BY <1>0, <1>5 DEF Resteal, TypeOK, PcLabel
  <2>2. NeverHalts' /\ LockInv' /\ StealInv'
      BY <1>0, <1>5 DEF Resteal, TypeOK, NeverHalts, LockInv, StealInv
  <2> QED
      BY Zenon, <1>0, <1>5, <2>1, <2>2, QuietStep DEF Resteal, TypeOK
<1>6. CASE OomTest(t)
  <2>1. TypeOK'
      BY <1>0, <1>6 DEF OomTest, TypeOK, PcLabel
  <2>2. NeverHalts' /\ LockInv' /\ StealInv'
      BY <1>0, <1>6 DEF OomTest, TypeOK, NeverHalts, LockInv, StealInv
  <2> QED
      BY Zenon, <1>0, <1>6, <2>1, <2>2, QuietStep DEF OomTest, TypeOK
<1>7. CASE OomSchedule(t)
  <2>1. TypeOK'
      BY <1>0, <1>7 DEF OomSchedule, TypeOK, PcLabel
  <2>2. NeverHalts' /\ LockInv' /\ StealInv'
      BY <1>0, <1>7 DEF OomSchedule, TypeOK, NeverHalts, LockInv, StealInv
  <2> QED
      BY Zenon, <1>0, <1>7, <2>1, <2>2, QuietStep DEF OomSchedule, TypeOK
<1>8. CASE AllocPages(t)
  <2>1. TypeOK'
      BY <1>0, <1>8 DEF AllocPages, TypeOK, PcLabel
  <2>2. NeverHalts' /\ LockInv' /\ StealInv'
      BY <1>0, <1>8 DEF AllocPages, TypeOK, NeverHalts, LockInv, StealInv
  <2> QED
      BY Zenon, <1>0, <1>8, <2>1, <2>2, QuietStep DEF AllocPages, TypeOK
<1>9. CASE ScanFails(t)
  <2>1. TypeOK'
      BY <1>0, <1>9 DEF ScanFails, TypeOK, PcLabel, CPU
  <2>2. NeverHalts' /\ LockInv' /\ StealInv'
      BY <1>0, <1>9 DEF ScanFails, TypeOK, NeverHalts, LockInv, StealInv
  <2> QED
      BY Zenon, <1>0, <1>9, <2>1, <2>2, QuietStep DEF ScanFails, TypeOK
<1> QED
    BY <1>1, <1>2, <1>3, <1>4, <1>5, <1>6, <1>7, <1>8, <1>9

================================================================================
