------------------------------- MODULE PmmProofs -------------------------------
(* Proofs about Pmm: without migration between current_cpu() and the cache    *)
(* lock, no page is lost or handed out twice and no corruption check fires,   *)
(* for any number of threads, CPUs and pages and any cache size. The          *)
(* invariant is in PmmInvariant, the steps of the caches in PmmCacheSteps.    *)
EXTENDS PmmCacheSteps

(* pop_from_node takes an unset page off the list and keeps it in hand. *)
LEMMA AllocSlowStep ==
    ASSUME PmmInv, NEW t \in Thread, AllocSlow(t)
    PROVE  PmmInv'
<1> USE PmmConstants DEF oom, caches, mem, Goto, SetArg, SetIter
<1>0. TypeOK /\ NeverHalts /\ LockInv /\ StealInv
    BY DEF PmmInv
<1>1. PICK c \in CPU : glock = NoThread /\ glock' = t /\ gcpu' = c
    BY DEF AllocSlow, Lock
<1>2. pc[t] = "slow" /\ UNCHANGED <<caches, vlock, my_n, oom, inuse>>
    BY DEF AllocSlow
<1>3. \A u \in Thread : pc[u] \notin {"refill", "steal", "steal2", "flush", "freepush"}
    BY <1>0, <1>1 DEF LockInv, NoThread
<1>4. CASE /\ pc' = [pc EXCEPT ![t] = "steal"]
           /\ iter' = [iter EXCEPT ![t] = 0]
           /\ UNCHANGED <<mem, arg>>
  <2>1. TypeOK'
      BY <1>0, <1>1, <1>2, <1>4 DEF TypeOK, PcLabel
  <2>2. NeverHalts' /\ LockInv' /\ StealInv'
      BY <1>0, <1>1, <1>2, <1>3, <1>4 DEF TypeOK, NeverHalts, LockInv, StealInv
  <2> QED
      BY Zenon, <1>0, <1>2, <1>4, <2>1, <2>2, QuietStep DEF TypeOK
<1>5. ASSUME NEW p \in free_list,
             free_list' = free_list \ {p}, used_bitmap' = used_bitmap \cup {p},
             page_owner' = [page_owner EXCEPT ![p] = t],
             list_free_count' = list_free_count - 1,
             pc' = [pc EXCEPT ![t] =
                      IF p \in used_bitmap \/ OwnerClash(p, t) THEN "halted" ELSE "refill"],
             arg' = [arg EXCEPT ![t] = p], UNCHANGED iter
      PROVE  PmmInv'
  <2>1. p \in Page /\ page_owner[p] = Unset /\ p \notin used_bitmap
      BY <1>0 DEF PmmInv, TypeOK, ListInv
  <2>2. pc' = [pc EXCEPT ![t] = "refill"]
      BY <1>5, <2>1 DEF OwnerClash
  <2>3. \A q \in Page : page_owner'[q] = IF q = p THEN t ELSE page_owner[q]
      BY <1>0, <1>5, <2>1 DEF TypeOK
  <2>4. TypeOK'
    <3>1. arg' \in [Thread -> Nat] /\ list_free_count' \in Int
        BY <1>0, <1>5, <2>1 DEF TypeOK, Page
    <3>2. page_owner' \in [Page -> {Unset, Cache, Rsv} \cup Thread]
        BY <1>0, <1>5, <2>1 DEF TypeOK
    <3>3. free_list' \subseteq Page /\ used_bitmap' \subseteq Page
        BY <1>0, <1>5, <2>1 DEF TypeOK
    <3> QED
        BY <1>0, <1>1, <1>2, <1>5, <2>2, <3>1, <3>2, <3>3 DEF TypeOK, PcLabel
  <2>5. NeverHalts' /\ LockInv' /\ StealInv'
      BY <1>0, <1>1, <1>2, <1>3, <2>2 DEF TypeOK, NeverHalts, LockInv, StealInv
  <2>6. p \notin inuse /\ p \notin Reserved /\ \A u \in Thread : ~Flying(u, p)
      BY <1>0, <2>1 DEF PmmInv, UseInv, RsvInv, FlyInv, Flying
  <2>7. ListInv' /\ RsvInv' /\ UseInv'
      BY <1>0, <1>2, <1>5, <2>1, <2>3, <2>6 DEF PmmInv, TypeOK, ListInv, RsvInv, UseInv
  <2>8. \A u \in Thread : \A q \in Page : Flying(u, q)' <=> Flying(u, q) \/ (u = t /\ q = p)
      BY <1>0, <1>2, <1>5, <2>1, <2>2 DEF TypeOK, Flying
  <2>9. FlyInv'
    <3>1. \A u \in Thread : pc'[u] \in {"refill", "freeslow", "freepush"} =>
              arg'[u] \in Page /\ page_owner'[arg'[u]] \in Thread /\ arg'[u] \notin inuse'
        BY <1>0, <1>2, <1>5, <2>1, <2>2, <2>3, <2>6 DEF PmmInv, TypeOK, FlyInv
    <3> QED
        BY <2>6, <2>8, <3>1 DEF PmmInv, FlyInv
  <2>10. \A d \in CPU : \A i \in 1 .. cpu_cache_count[d] :
            cpu_cache[d][i] \in Page /\ cpu_cache[d][i] # p
      BY <1>0, <2>1 DEF PmmInv, TypeOK, SlotInv, Cache, Unset
  <2>11. SlotInv'
    <3>1. \A d \in CPU : \A i \in 1 .. cpu_cache_count[d] : page_owner'[cpu_cache[d][i]] = Cache
        BY <2>3, <2>10 DEF PmmInv, SlotInv
    <3>2. cpu_cache' = cpu_cache /\ cpu_cache_count' = cpu_cache_count
        BY <1>2
    <3> QED
        BY <3>1, <3>2, SameSlots DEF PmmInv
  <2>12. FoundInv'
      BY <1>2, <2>3, <2>8 DEF PmmInv, FoundInv, Cache
  <2> QED
      BY <2>4, <2>5, <2>7, <2>9, <2>11, <2>12 DEF PmmInv
<1> QED
    BY <1>4, <1>5 DEF AllocSlow

(* cache_refill moves listed pages to the holder's own cache, and the page in *)
(* hand goes to the caller.                                                   *)
LEMMA RefillStep ==
    ASSUME PmmInv, ~MigrateInWindow, NEW t \in Thread, Refill(t)
    PROVE  PmmInv'
<1> USE PmmConstants DEF oom, Goto, SetArg, Holds, Unlock
<1> DEFINE n == cpu_cache_count[gcpu]
           room == CacheSize - n
           k == IF Cardinality(free_list) < room THEN Cardinality(free_list) ELSE room
<1>0. TypeOK /\ NeverHalts /\ LockInv /\ StealInv
    BY DEF PmmInv
<1>1. /\ pc[t] = "refill" /\ glock = t /\ inuse' = inuse \cup {arg[t]}
      /\ pc' = [pc EXCEPT ![t] = "idle"] /\ glock' = NoThread /\ gcpu' = 0
      /\ arg' = [arg EXCEPT ![t] = 0] /\ UNCHANGED <<vlock, my_n, oom, iter>>
    BY DEF Refill
<1>2. PICK s \in [1 .. k -> free_list] :
        LET moved == {s[i] : i \in 1 .. k} IN
        /\ \A i, j \in 1 .. k : s[i] = s[j] => i = j
        /\ free_list' = free_list \ moved
        /\ used_bitmap' = used_bitmap \cup moved
        /\ page_owner' = [p \in Page |-> IF p \in moved THEN Cache ELSE page_owner[p]]
        /\ list_free_count' = list_free_count - k
        /\ cpu_cache' = [cpu_cache EXCEPT ![gcpu] =
               [i \in 1 .. CacheSize |-> IF i \in n + 1 .. n + k THEN s[i - n] ELSE @[i]]]
        /\ cpu_cache_count' = [cpu_cache_count EXCEPT ![gcpu] = n + k]
    BY Zenon DEF Refill
<1> DEFINE moved == {s[i] : i \in 1 .. k}
<1>3. n \in 0 .. CacheSize /\ gcpu \in CPU /\ 0 \in CPU
    BY <1>0 DEF TypeOK, CPU
<1>4. k \in Nat /\ n + k \in 0 .. CacheSize
  <2>1. IsFiniteSet(free_list)
    <3>1. IsFiniteSet(Page)
        BY FS_Interval DEF Page
    <3> QED
        BY <1>0, <3>1, FS_Subset DEF TypeOK
  <2>2. Cardinality(free_list) \in Nat
      BY <2>1, FS_CardinalityType
  <2> QED
      BY <1>3, <2>2
<1> HIDE DEF k
<1>5. \A q \in moved : q \in Page /\ page_owner[q] = Unset /\ q \in free_list
    BY <1>0 DEF PmmInv, ListInv, TypeOK
<1>6. \A i \in 1 .. k : s[i] \in moved
    OBVIOUS
<1>7. /\ free_list' = free_list \ moved /\ used_bitmap' = used_bitmap \cup moved
      /\ page_owner' = [p \in Page |-> IF p \in moved THEN Cache ELSE page_owner[p]]
      /\ cpu_cache' = [cpu_cache EXCEPT ![gcpu] =
               [i \in 1 .. CacheSize |-> IF i \in n + 1 .. n + k THEN s[i - n] ELSE @[i]]]
      /\ cpu_cache_count' = [cpu_cache_count EXCEPT ![gcpu] = n + k]
      /\ list_free_count' = list_free_count - k
      /\ \A i, j \in 1 .. k : s[i] = s[j] => i = j
    BY <1>2
<1> HIDE DEF moved
<1>8. \A q \in Page : page_owner'[q] = IF q \in moved THEN Cache ELSE page_owner[q]
    BY <1>7
<1>9. \A i \in n + 1 .. n + k : i - n \in 1 .. k /\ s[i - n] \in moved /\ s[i - n] \in Page
    BY <1>3, <1>4, <1>5, <1>6
<1>10. \A d \in CPU : \A i \in 1 .. CacheSize :
          cpu_cache'[d][i] = IF d = gcpu /\ i \in n + 1 .. n + k THEN s[i - n] ELSE cpu_cache[d][i]
    BY <1>0, <1>3, <1>7 DEF TypeOK
<1>11. TypeOK'
  <2>1. cpu_cache' \in [CPU -> [1 .. CacheSize -> Page]]
      BY <1>0, <1>3, <1>7, <1>9 DEF TypeOK
  <2>2. cpu_cache_count' \in [CPU -> 0 .. CacheSize] /\ list_free_count' \in Int
      BY <1>0, <1>3, <1>4, <1>7 DEF TypeOK
  <2>3. free_list' \subseteq Page /\ used_bitmap' \subseteq Page
      BY <1>0, <1>5, <1>7 DEF TypeOK
  <2>4. inuse' \subseteq Page
      BY <1>0, <1>1 DEF TypeOK, PmmInv, FlyInv
  <2>5. page_owner' \in [Page -> {Unset, Cache, Rsv} \cup Thread]
      BY <1>0, <1>7 DEF TypeOK
  <2> QED
      BY <1>0, <1>1, <1>3, <2>1, <2>2, <2>3, <2>4, <2>5 DEF TypeOK, PcLabel
<1>12. NeverHalts' /\ LockInv' /\ StealInv'
    BY <1>0, <1>1 DEF TypeOK, NeverHalts, LockInv, StealInv
<1>13. ListInv' /\ RsvInv'
    BY <1>0, <1>5, <1>7, <1>8 DEF PmmInv, TypeOK, ListInv, RsvInv, Unset, Rsv
<1>14. arg[t] \in Page /\ page_owner[arg[t]] \in Thread /\ arg[t] \notin moved
    BY <1>1, <1>5 DEF PmmInv, FlyInv
<1>15. UseInv'
    BY <1>0, <1>1, <1>5, <1>8, <1>14 DEF PmmInv, TypeOK, UseInv
<1>16. \A u \in Thread : pc'[u] \in {"refill", "freeslow", "freepush"}
          => u # t /\ pc'[u] = pc[u] /\ arg'[u] = arg[u]
    BY <1>0, <1>1 DEF TypeOK
<1>17. \A u \in Thread \ {t} : ~Flying(u, arg[t])
    BY <1>1, <1>14 DEF PmmInv, FlyInv, Flying
<1>18. FlyInv'
  <2>1. ASSUME NEW u \in Thread, pc'[u] \in {"refill", "freeslow", "freepush"}
        PROVE  arg'[u] \in Page /\ page_owner'[arg'[u]] \in Thread /\ arg'[u] \notin inuse'
    <3>1. /\ u # t /\ pc[u] \in {"refill", "freeslow", "freepush"} /\ arg'[u] = arg[u]
          /\ arg[u] \in Page /\ page_owner[arg[u]] \in Thread /\ arg[u] \notin inuse
        BY <1>16, <2>1 DEF PmmInv, FlyInv
    <3>2. arg[u] \notin moved /\ arg[u] # arg[t]
        BY <1>5, <1>17, <3>1 DEF Flying
    <3> QED
        BY <1>1, <1>8, <3>1, <3>2
  <2>2. \A u \in Thread : \A q \in Page : Flying(u, q)' => Flying(u, q)
      BY <1>16 DEF Flying
  <2> QED
      BY <2>1, <2>2 DEF PmmInv, FlyInv
<1>19. \A d \in CPU : \A i \in 1 .. cpu_cache_count'[d] :
          \/ d = gcpu /\ i \in n + 1 .. n + k /\ cpu_cache'[d][i] = s[i - n]
          \/ /\ i \in 1 .. cpu_cache_count[d] /\ cpu_cache'[d][i] = cpu_cache[d][i]
             /\ cpu_cache[d][i] \in Page /\ page_owner[cpu_cache[d][i]] = Cache
             /\ cpu_cache[d][i] \notin moved
  <2> SUFFICES ASSUME NEW d \in CPU, NEW i \in 1 .. cpu_cache_count'[d],
                      ~(d = gcpu /\ i \in n + 1 .. n + k)
               PROVE  /\ i \in 1 .. cpu_cache_count[d] /\ cpu_cache'[d][i] = cpu_cache[d][i]
                      /\ cpu_cache[d][i] \in Page /\ page_owner[cpu_cache[d][i]] = Cache
                      /\ cpu_cache[d][i] \notin moved
    <3>1. \A d \in CPU : \A i \in 1 .. cpu_cache_count'[d] : i \in 1 .. CacheSize
        BY <1>11 DEF TypeOK
    <3> QED
        BY <1>10, <3>1
  <2>1. i \in 1 .. cpu_cache_count[d] /\ i \in 1 .. CacheSize
    <3>1. cpu_cache_count'[d] = IF d = gcpu THEN n + k ELSE cpu_cache_count[d]
        BY <1>0, <1>7 DEF TypeOK
    <3>2. cpu_cache_count'[d] \in 0 .. CacheSize
        BY <1>11 DEF TypeOK
    <3> QED
        BY <1>3, <1>4, <3>1, <3>2
  <2>2. cpu_cache'[d][i] = cpu_cache[d][i] /\ cpu_cache[d][i] \in Page
      BY <1>0, <1>10, <2>1 DEF TypeOK
  <2>3. page_owner[cpu_cache[d][i]] = Cache
      BY <2>1 DEF PmmInv, SlotInv
  <2> QED
      BY <1>5, <2>1, <2>2, <2>3 DEF Cache, Unset
<1>20. SlotInv'
  <2>1. \A d \in CPU : \A i \in 1 .. cpu_cache_count'[d] : page_owner'[cpu_cache'[d][i]] = Cache
      BY <1>8, <1>9, <1>19
  <2>2. ASSUME NEW d \in CPU, NEW e \in CPU, NEW i \in 1 .. cpu_cache_count'[d],
               NEW j \in 1 .. cpu_cache_count'[e], cpu_cache'[d][i] = cpu_cache'[e][j]
        PROVE  d = e /\ i = j
    <3>1. CASE d = gcpu /\ i \in n + 1 .. n + k /\ cpu_cache'[d][i] = s[i - n]
      <4>1. e = gcpu /\ j \in n + 1 .. n + k /\ cpu_cache'[e][j] = s[j - n]
          BY <1>9, <1>19, <2>2, <3>1
      <4>2. i - n = j - n
          BY <1>7, <1>9, <2>2, <3>1, <4>1
      <4> QED
          BY <1>3, <1>4, <3>1, <4>1, <4>2
    <3>2. CASE i \in 1 .. cpu_cache_count[d] /\ cpu_cache'[d][i] = cpu_cache[d][i]
               /\ cpu_cache[d][i] \notin moved
      <4>1. cpu_cache'[e][j] \notin moved
          BY <2>2, <3>2
      <4>2. ~(j \in n + 1 .. n + k /\ cpu_cache'[e][j] = s[j - n])
          BY <1>9, <4>1
      <4>3. j \in 1 .. cpu_cache_count[e] /\ cpu_cache'[e][j] = cpu_cache[e][j]
          BY <1>19, <4>2
      <4>4. cpu_cache[d][i] = cpu_cache[e][j]
          BY Zenon, <2>2, <3>2, <4>3
      <4> QED
          BY <3>2, <4>3, <4>4 DEF PmmInv, SlotInv
    <3> QED
        BY <1>19, <3>1, <3>2
  <2> QED
      BY <2>1, <2>2 DEF SlotInv
<1>21. FoundInv'
  <2>1. ASSUME NEW q \in Page, page_owner'[q] = Cache
        PROVE  \E d \in CPU : \E i \in 1 .. cpu_cache_count'[d] : cpu_cache'[d][i] = q
    <3>1. CASE q \in moved
      <4>1. PICK i \in 1 .. k : s[i] = q
          BY <3>1 DEF moved
      <4>2. /\ i + n \in n + 1 .. n + k /\ i + n \in 1 .. CacheSize /\ (i + n) - n = i
            /\ i + n \in 1 .. cpu_cache_count'[gcpu]
        <5>1. cpu_cache_count'[gcpu] = n + k
            BY <1>0, <1>3, <1>7 DEF TypeOK
        <5> HIDE DEF n
        <5> QED
            BY <1>3, <1>4, <5>1
      <4>3. cpu_cache'[gcpu][i + n] = q
          BY <1>3, <1>10, <4>1, <4>2
      <4> QED
          BY <1>3, <4>2, <4>3
    <3>2. CASE q \notin moved
      <4>1. PICK d \in CPU : \E i \in 1 .. cpu_cache_count[d] : cpu_cache[d][i] = q
          BY <1>8, <2>1, <3>2 DEF PmmInv, FoundInv
      <4>2. PICK i \in 1 .. cpu_cache_count[d] : cpu_cache[d][i] = q
          BY <4>1
      <4>3. i \in 1 .. CacheSize /\ i \in 1 .. cpu_cache_count'[d] /\ ~(d = gcpu /\ i \in n + 1 .. n + k)
        <5>1. cpu_cache_count'[d] = IF d = gcpu THEN n + k ELSE cpu_cache_count[d]
            BY <1>0, <1>7 DEF TypeOK
        <5>2. cpu_cache_count[d] \in 0 .. CacheSize
            BY <1>0 DEF TypeOK
        <5> QED
            BY <1>3, <1>4, <5>1, <5>2
      <4> QED
          BY <1>10, <4>2, <4>3
    <3> QED
        BY <3>1, <3>2
  <2>2. ASSUME NEW q \in Page, page_owner'[q] \in Thread
        PROVE  q \in inuse' \/ \E u \in Thread : Flying(u, q)'
    <3>1. page_owner[q] \in Thread
        BY <1>8, <2>2
    <3>2. ASSUME NEW u \in Thread, Flying(u, q) PROVE q \in inuse' \/ Flying(u, q)'
        BY <1>0, <1>1, <3>2 DEF TypeOK, Flying
    <3> QED
        BY <1>1, <3>1, <3>2 DEF PmmInv, FoundInv
  <2> QED
      BY <2>1, <2>2 DEF FoundInv
<1> QED
    BY <1>11, <1>12, <1>13, <1>15, <1>18, <1>20, <1>21 DEF PmmInv

(* cache_steal moves slots between two caches and loses or doubles none,      *)
(* because the count it read before taking its own lock is still right.       *)
LEMMA StealMoveStep ==
    ASSUME PmmInv, ~MigrateInWindow, NEW t \in Thread, StealMove(t)
    PROVE  PmmInv'
<1> USE PmmConstants DEF oom, Goto, SetIter, NextVictim, Holds, Unlock
<1> DEFINE g == gcpu
           m == my_n
           n == cpu_cache_count[vlock]
           room == StealRoom(n)
           New(d, i) == d = g /\ i \in m + 1 .. m + room
           from(i) == n - room + (i - m)
<1>0. TypeOK /\ NeverHalts /\ LockInv /\ StealInv
    BY DEF PmmInv
<1>1. pc[t] = "steal2" /\ glock = t
    BY DEF StealMove
<1>2. /\ vlock \in CPU /\ g \in CPU /\ vlock # g /\ m = cpu_cache_count[g] /\ 0 \in CPU
      /\ iter[t] \in 0 .. 2 * NCPU /\ iter[t] < 2 * NCPU
      /\ m \in 0 .. CacheSize /\ n \in 0 .. CacheSize
    BY <1>0, <1>1 DEF TypeOK, StealInv, CPU
<1>3. room \in 0 .. n /\ m + room \in 0 .. CacheSize
    BY <1>2 DEF StealRoom
<1> HIDE DEF room
<1>4. /\ cpu_cache' = [cpu_cache EXCEPT ![g] =
             [i \in 1 .. CacheSize |-> IF i \in m + 1 .. m + room
                                       THEN cpu_cache[vlock][from(i)] ELSE @[i]]]
      /\ cpu_cache_count' = [cpu_cache_count EXCEPT ![vlock] = n - room, ![g] = m + room]
      /\ page_owner' = [p \in Page |-> IF p \in CachedAbove(vlock, n - room) THEN Cache
                                                                            ELSE page_owner[p]]
      /\ vlock' = -1 /\ my_n' = 0 /\ iter' = [iter EXCEPT ![t] = iter[t] + 1]
      /\ UNCHANGED <<free_list, used_bitmap, list_free_count, oom, arg, inuse>>
    BY DEF StealMove, room
<1>5. \/ pc' = [pc EXCEPT ![t] = "repop"] /\ glock' = NoThread /\ gcpu' = 0
      \/ pc' = [pc EXCEPT ![t] = "steal"] /\ UNCHANGED <<glock, gcpu>>
    BY DEF StealMove
<1>6. \A i \in n - room + 1 .. n : i \in 1 .. n /\ i \in 1 .. CacheSize
    BY <1>2, <1>3
<1>7. page_owner' = page_owner
  <2>1. \A p \in CachedAbove(vlock, n - room) : page_owner[p] = Cache
      BY <1>2, <1>6 DEF CachedAbove, PmmInv, SlotInv
  <2> QED
      BY <1>0, <1>4, <2>1 DEF TypeOK
<1>8. \A i \in m + 1 .. m + room : from(i) \in n - room + 1 .. n /\ i \in 1 .. CacheSize
    BY <1>2, <1>3
<1>9. \A d \in CPU : \A i \in 1 .. CacheSize :
         cpu_cache'[d][i] = IF New(d, i) THEN cpu_cache[vlock][from(i)] ELSE cpu_cache[d][i]
    BY <1>0, <1>2, <1>4 DEF TypeOK
<1>10. \A d \in CPU : cpu_cache_count'[d] =
          IF d = g THEN m + room ELSE IF d = vlock THEN n - room ELSE cpu_cache_count[d]
    BY <1>0, <1>2, <1>4 DEF TypeOK
<1>11. TypeOK'
  <2>1. cpu_cache' \in [CPU -> [1 .. CacheSize -> Page]]
    <3>1. \A i \in m + 1 .. m + room : cpu_cache[vlock][from(i)] \in Page
        BY <1>0, <1>2, <1>6, <1>8 DEF TypeOK
    <3> QED
        BY <1>0, <1>2, <1>4, <3>1 DEF TypeOK
  <2>2. cpu_cache_count' \in [CPU -> 0 .. CacheSize] /\ my_n' \in 0 .. CacheSize
    <3>1. n - room \in 0 .. CacheSize /\ m + room \in 0 .. CacheSize
        BY <1>2, <1>3
    <3> QED
        BY <1>0, <1>4, <3>1 DEF TypeOK
  <2>3. iter' \in [Thread -> 0 .. 2 * NCPU]
      BY <1>0, <1>2, <1>4 DEF TypeOK
  <2>4. pc' \in [Thread -> PcLabel] /\ glock' \in Thread \cup {NoThread} /\ gcpu' \in CPU
      BY Zenon, <1>0, <1>2, <1>5 DEF TypeOK, PcLabel
  <2> QED
      BY Zenon, <1>0, <1>4, <1>7, <2>1, <2>2, <2>3, <2>4 DEF TypeOK
<1>12. NeverHalts' /\ LockInv' /\ StealInv'
    BY Zenon, <1>0, <1>1, <1>5 DEF TypeOK, NeverHalts, LockInv, StealInv
<1>13. /\ \A u \in Thread : pc'[u] \in {"refill", "freeslow", "freepush"}
                        <=> pc[u] \in {"refill", "freeslow", "freepush"}
       /\ \A u \in Thread : \A q \in Page : Flying(u, q)' <=> Flying(u, q)
    BY <1>0, <1>1, <1>4, <1>5 DEF TypeOK, Flying
<1>14. ListInv' /\ RsvInv' /\ UseInv' /\ FlyInv'
    BY <1>4, <1>7, <1>13 DEF PmmInv, ListInv, RsvInv, UseInv, FlyInv
<1>15. \A d \in CPU : \A i \in 1 .. cpu_cache_count'[d] :
          \/ /\ New(d, i) /\ from(i) \in 1 .. n /\ from(i) > n - room
             /\ cpu_cache'[d][i] = cpu_cache[vlock][from(i)]
          \/ /\ ~New(d, i) /\ i \in 1 .. cpu_cache_count[d] /\ (d = vlock => i <= n - room)
             /\ cpu_cache'[d][i] = cpu_cache[d][i]
  <2> SUFFICES ASSUME NEW d \in CPU, NEW i \in 1 .. cpu_cache_count'[d]
               PROVE  \/ /\ New(d, i) /\ from(i) \in 1 .. n /\ from(i) > n - room
                         /\ cpu_cache'[d][i] = cpu_cache[vlock][from(i)]
                      \/ /\ ~New(d, i) /\ i \in 1 .. cpu_cache_count[d]
                         /\ (d = vlock => i <= n - room)
                         /\ cpu_cache'[d][i] = cpu_cache[d][i]
      OBVIOUS
  <2>1. i \in 1 .. CacheSize
      BY <1>11 DEF TypeOK
  <2>2. CASE New(d, i)
    <3>1. from(i) \in n - room + 1 .. n
        BY <1>8, <2>2
    <3>2. from(i) \in 1 .. n /\ from(i) > n - room
        BY <1>2, <1>3, <1>6, <3>1
    <3> QED
        BY <1>9, <2>1, <2>2, <3>2
  <2>3. CASE ~New(d, i)
    <3>1. i \in 1 .. cpu_cache_count[d] /\ (d = vlock => i <= n - room)
      <4>1. CASE d = g
          BY <1>2, <1>3, <1>10, <2>3, <4>1
      <4>2. CASE d = vlock
          BY <1>2, <1>3, <1>6, <1>10, <4>2
      <4>3. CASE d # g /\ d # vlock
          BY <1>10, <4>3
      <4> QED
          BY <4>1, <4>2, <4>3
    <3> QED
        BY <1>9, <2>1, <2>3, <3>1
  <2> QED
      BY <2>2, <2>3
<1>16. SlotInv'
  <2>0. \A d, e \in CPU : \A i \in 1 .. cpu_cache_count[d], j \in 1 .. cpu_cache_count[e] :
           cpu_cache[d][i] = cpu_cache[e][j] => d = e /\ i = j
      BY DEF PmmInv, SlotInv
  <2>1. \A d \in CPU : \A i \in 1 .. cpu_cache_count'[d] : page_owner'[cpu_cache'[d][i]] = Cache
    <3>1. \A d \in CPU : \A i \in 1 .. cpu_cache_count[d] : page_owner[cpu_cache[d][i]] = Cache
        BY DEF PmmInv, SlotInv
    <3> HIDE DEF from, New
    <3> QED
        BY <1>2, <1>7, <1>15, <3>1
  <2>2. ASSUME NEW d \in CPU, NEW e \in CPU, NEW i \in 1 .. cpu_cache_count'[d],
               NEW j \in 1 .. cpu_cache_count'[e], cpu_cache'[d][i] = cpu_cache'[e][j]
        PROVE  d = e /\ i = j
    <3>1. CASE New(d, i) /\ New(e, j)
      <4>1. /\ from(i) \in 1 .. n /\ from(j) \in 1 .. n
            /\ cpu_cache[vlock][from(i)] = cpu_cache[vlock][from(j)]
          BY <1>15, <2>2, <3>1
      <4>2. from(i) = from(j)
        <5> HIDE DEF from
        <5> QED
            BY <1>2, <2>0, <4>1
      <4> QED
          BY <1>2, <1>3, <3>1, <4>2
    <3>2. CASE ~New(d, i) /\ ~New(e, j)
      <4>1. /\ i \in 1 .. cpu_cache_count[d] /\ j \in 1 .. cpu_cache_count[e]
            /\ cpu_cache[d][i] = cpu_cache[e][j]
          BY <1>15, <2>2, <3>2
      <4> QED
          BY <2>0, <4>1
    <3>3. CASE New(d, i) /\ ~New(e, j)
      <4>1. /\ from(i) \in 1 .. n /\ from(i) > n - room
            /\ j \in 1 .. cpu_cache_count[e] /\ (e = vlock => j <= n - room)
            /\ cpu_cache[vlock][from(i)] = cpu_cache[e][j]
          BY <1>15, <2>2, <3>3
      <4>2. e = vlock /\ from(i) = j
        <5> HIDE DEF from
        <5> QED
            BY <1>2, <2>0, <4>1
      <4> QED
          BY <1>2, <1>3, <4>1, <4>2
    <3>4. CASE ~New(d, i) /\ New(e, j)
      <4>1. /\ from(j) \in 1 .. n /\ from(j) > n - room
            /\ i \in 1 .. cpu_cache_count[d] /\ (d = vlock => i <= n - room)
            /\ cpu_cache[vlock][from(j)] = cpu_cache[d][i]
          BY <1>15, <2>2, <3>4
      <4>2. d = vlock /\ from(j) = i
        <5> HIDE DEF from
        <5> QED
            BY <1>2, <2>0, <4>1
      <4> QED
          BY <1>2, <1>3, <4>1, <4>2
    <3> QED
        BY <3>1, <3>2, <3>3, <3>4
  <2> QED
      BY <2>1, <2>2 DEF SlotInv
<1>17. FoundInv'
  <2>1. ASSUME NEW q \in Page, page_owner'[q] = Cache
        PROVE  \E d \in CPU : \E i \in 1 .. cpu_cache_count'[d] : cpu_cache'[d][i] = q
    <3>1. PICK d \in CPU : \E i \in 1 .. cpu_cache_count[d] : cpu_cache[d][i] = q
        BY <1>7, <2>1 DEF PmmInv, FoundInv
    <3>2. PICK i \in 1 .. cpu_cache_count[d] : cpu_cache[d][i] = q
        BY <3>1
    <3>3. CASE d = vlock /\ i > n - room
      <4> DEFINE j == i - (n - room) + m
      <4>1. j \in 1 .. CacheSize /\ New(g, j) /\ from(j) = i /\ j \in 1 .. cpu_cache_count'[g]
          BY <1>2, <1>3, <1>10, <3>3
      <4>2. cpu_cache'[g][j] = q
          BY <1>2, <1>9, <3>2, <3>3, <4>1
      <4> QED
          BY <1>2, <4>1, <4>2
    <3>4. CASE ~(d = vlock /\ i > n - room)
      <4>1. i \in 1 .. CacheSize /\ ~New(d, i) /\ i \in 1 .. cpu_cache_count'[d]
        <5>1. cpu_cache_count[d] \in 0 .. CacheSize
            BY <1>0 DEF TypeOK
        <5>2. i \in 1 .. CacheSize
            BY <5>1
        <5>3. CASE d = g
          <6>1. i \in 1 .. m /\ cpu_cache_count'[d] = m + room
              BY <1>2, <1>10, <5>3
          <6> QED
              BY <1>2, <1>3, <5>2, <6>1
        <5>4. CASE d # g
            BY <1>2, <1>3, <1>10, <3>4, <5>2, <5>4
        <5> QED
            BY <5>3, <5>4
      <4> QED
          BY <1>9, <3>2, <4>1
    <3> QED
        BY <3>3, <3>4
  <2> QED
      BY Zenon, <1>4, <1>7, <1>13, <2>1 DEF PmmInv, FoundInv
<1> QED
    BY <1>11, <1>12, <1>14, <1>16, <1>17 DEF PmmInv

(* pmm_alloc_pages takes a run of clear pages, none of which has an owner. *)
LEMMA ScanFitsStep ==
    ASSUME PmmInv, NEW t \in Thread, ScanFits(t)
    PROVE  PmmInv'
<1> USE PmmConstants DEF oom, caches, Goto, SetArg, SetIter, Holds, Unlock
<1>0. TypeOK /\ NeverHalts /\ LockInv /\ StealInv
    BY DEF PmmInv
<1>1. PICK f \in Page :
        LET run == f .. f + arg[t] - 1 IN
        /\ ClearRun(f, arg[t])
        /\ used_bitmap' = used_bitmap \cup run
        /\ page_owner' = [p \in Page |-> IF p \in run THEN t ELSE page_owner[p]]
        /\ free_list' = free_list \ run
        /\ list_free_count' = list_free_count - Cardinality(free_list \cap run)
        /\ inuse' = inuse \cup run
        /\ pc' = [pc EXCEPT ![t] = IF \E p \in run : OwnerClash(p, t) THEN "halted" ELSE "idle"]
    BY Zenon DEF ScanFits
<1> DEFINE run == f .. f + arg[t] - 1
<1>2. /\ pc[t] = "flush" /\ glock = t /\ glock' = NoThread /\ gcpu' = 0 /\ 0 \in CPU
      /\ arg' = [arg EXCEPT ![t] = 0] /\ iter' = [iter EXCEPT ![t] = 0]
      /\ UNCHANGED <<caches, vlock, my_n, oom>>
    BY DEF ScanFits, CPU
<1>3. \A p \in run : p \in Page /\ p \notin used_bitmap /\ page_owner[p] = Unset
    BY <1>1 DEF ClearRun, PmmInv, ListInv
<1>4. /\ used_bitmap' = used_bitmap \cup run
      /\ page_owner' = [p \in Page |-> IF p \in run THEN t ELSE page_owner[p]]
      /\ free_list' = free_list \ run
      /\ inuse' = inuse \cup run
      /\ list_free_count' = list_free_count - Cardinality(free_list \cap run)
      /\ pc' = [pc EXCEPT ![t] = "idle"]
    BY Zenon, <1>1, <1>3 DEF OwnerClash
<1> HIDE DEF run
<1>5. \A q \in Page : page_owner'[q] = IF q \in run THEN t ELSE page_owner[q]
    BY <1>4
<1>6. list_free_count' \in Int
  <2>1. IsFiniteSet(Page)
      BY FS_Interval DEF Page
  <2>2. IsFiniteSet(free_list \cap run)
      BY <1>0, <2>1, FS_Subset DEF TypeOK
  <2>3. Cardinality(free_list \cap run) \in Nat
      BY <2>2, FS_CardinalityType
  <2> QED
      BY <1>0, <1>4, <2>3 DEF TypeOK
<1>7. TypeOK'
    BY <1>0, <1>2, <1>3, <1>4, <1>6 DEF TypeOK, PcLabel
<1>8. NeverHalts' /\ LockInv' /\ StealInv'
    BY <1>0, <1>2, <1>4 DEF TypeOK, NeverHalts, LockInv, StealInv
<1>9. ListInv' /\ RsvInv' /\ UseInv'
    BY <1>0, <1>3, <1>4, <1>5 DEF PmmInv, TypeOK, ListInv, RsvInv, UseInv
<1>10. \A u \in Thread : pc'[u] \in {"refill", "freeslow", "freepush"}
          => u # t /\ pc'[u] = pc[u] /\ arg'[u] = arg[u]
    BY <1>0, <1>2, <1>4 DEF TypeOK
<1>11. \A u \in Thread : \A q \in Page : Flying(u, q)' <=> Flying(u, q)
    BY <1>0, <1>2, <1>4 DEF TypeOK, Flying
<1>12. FlyInv'
    BY <1>3, <1>4, <1>5, <1>10, <1>11 DEF PmmInv, FlyInv, Unset
<1>13. \A c \in CPU : \A i \in 1 .. cpu_cache_count[c] :
          cpu_cache[c][i] \in Page /\ cpu_cache[c][i] \notin run
    BY <1>0, <1>3 DEF PmmInv, TypeOK, SlotInv, Cache, Unset
<1>14. SlotInv'
  <2>1. \A c \in CPU : \A i \in 1 .. cpu_cache_count[c] : page_owner'[cpu_cache[c][i]] = Cache
      BY <1>5, <1>13 DEF PmmInv, SlotInv
  <2>2. cpu_cache' = cpu_cache /\ cpu_cache_count' = cpu_cache_count
      BY <1>2
  <2> QED
      BY <2>1, <2>2, SameSlots DEF PmmInv
<1>15. FoundInv'
  <2>1. cpu_cache' = cpu_cache /\ cpu_cache_count' = cpu_cache_count
      BY <1>2
  <2>2. ASSUME NEW q \in Page, page_owner'[q] = Cache
        PROVE  \E c \in CPU : \E i \in 1 .. cpu_cache_count'[c] : cpu_cache'[c][i] = q
    <3>1. page_owner[q] = Cache
        BY <1>5, <2>2 DEF Cache
    <3> QED
        BY <2>1, <3>1 DEF PmmInv, FoundInv
  <2>3. ASSUME NEW q \in Page, page_owner'[q] \in Thread
        PROVE  q \in inuse' \/ \E u \in Thread : Flying(u, q)'
    <3>1. q \in run \/ page_owner[q] \in Thread
        BY <1>5, <2>3
    <3> QED
        BY <1>4, <1>11, <3>1 DEF PmmInv, FoundInv
  <2> QED
      BY <2>2, <2>3 DEF FoundInv
<1> QED
    BY <1>7, <1>8, <1>9, <1>12, <1>14, <1>15 DEF PmmInv

--------------------------------------------------------------------------------
(* A step that moves no page and no thread preserves where the pages are.     *)
LEMMA SamePages ==
    ASSUME PmmInv, UNCHANGED <<free_list, used_bitmap, page_owner, cpu_cache, cpu_cache_count,
                               pc, arg, inuse>>
    PROVE  ListInv' /\ RsvInv' /\ UseInv' /\ FlyInv' /\ SlotInv' /\ FoundInv'
<1>1. ListInv' /\ RsvInv' /\ UseInv'
    BY DEF PmmInv, ListInv, RsvInv, UseInv
<1>2. FlyInv'
    BY DEF PmmInv, FlyInv, Flying
<1>3. SlotInv'
  <2>1. \A c \in CPU : \A i \in 1 .. cpu_cache_count[c] : page_owner'[cpu_cache[c][i]] = Cache
      BY DEF PmmInv, SlotInv
  <2> QED
      BY <2>1, SameSlots DEF PmmInv
<1>4. FoundInv'
    BY DEF PmmInv, FoundInv, Flying
<1> QED
    BY <1>1, <1>2, <1>3, <1>4

(* Every step of the allocator preserves the invariant. *)
LEMMA NextInv ==
    ASSUME PmmInv, ~MigrateInWindow, [Next]_vars
    PROVE  PmmInv'
<1>1. CASE UNCHANGED vars
  <2>1. TypeOK'
      BY Zenon, <1>1 DEF vars, mem, caches, locks, oom, ctl, PmmInv, TypeOK
  <2>2. NeverHalts' /\ LockInv' /\ StealInv'
      BY <1>1 DEF vars, caches, locks, ctl, PmmInv, NeverHalts, LockInv, StealInv
  <2>3. ListInv' /\ RsvInv' /\ UseInv' /\ FlyInv' /\ SlotInv' /\ FoundInv'
      BY <1>1, SamePages DEF vars, mem, caches, ctl
  <2> QED
      BY <2>1, <2>2, <2>3 DEF PmmInv
<1>2. CASE OomWorker
  <2>1. TypeOK'
      BY Zenon, <1>2 DEF OomWorker, mem, caches, locks, ctl, PmmInv, TypeOK
  <2>2. NeverHalts' /\ LockInv' /\ StealInv'
      BY <1>2 DEF OomWorker, caches, locks, ctl, PmmInv, NeverHalts, LockInv, StealInv
  <2>3. ListInv' /\ RsvInv' /\ UseInv' /\ FlyInv' /\ SlotInv' /\ FoundInv'
      BY <1>2, SamePages DEF OomWorker, mem, caches, ctl
  <2> QED
      BY <2>1, <2>2, <2>3 DEF PmmInv
<1>3. CASE FlushCpuCache
    BY <1>3, FlushSteps
<1>4. ASSUME NEW t \in Thread, AllocPage(t) PROVE PmmInv'
    BY <1>4, PopSteps, AllocSlowStep, RefillStep DEF AllocPage
<1>5. ASSUME NEW t \in Thread, Steal(t) PROVE PmmInv'
    BY <1>5, PopSteps, ControlSteps, StealMoveStep DEF Steal
<1>6. ASSUME NEW t \in Thread, Oom(t) PROVE PmmInv'
    BY <1>6, ControlSteps DEF Oom
<1>7. ASSUME NEW t \in Thread, AllocRun(t) PROVE PmmInv'
    BY <1>7, ControlSteps, FlushSteps, ScanFitsStep DEF AllocRun
<1>8. ASSUME NEW t \in Thread, FreePage(t) PROVE PmmInv'
    BY <1>8, FreeSteps, FlushSteps DEF FreePage
<1> QED
    BY <1>1, <1>2, <1>3, <1>4, <1>5, <1>6, <1>7, <1>8 DEF Next

(* The invariant implies the properties the model checker looks at. *)
LEMMA InvImplies == PmmInv => TypeOK /\ NeverHalts /\ CachedPagesMarked /\ PagesAccounted
<1> SUFFICES ASSUME PmmInv PROVE CachedPagesMarked /\ PagesAccounted
    BY DEF PmmInv
<1> USE PmmConstants
<1>1. \A c \in CPU : \A p \in Cached(c) : p \in Page /\ page_owner[p] = Cache /\ p \in used_bitmap
    BY DEF PmmInv, TypeOK, Cached, SlotInv, ListInv, Cache, Unset
<1>2. \A p \in free_list : p \in Page /\ page_owner[p] = Unset /\ p \notin used_bitmap
    BY DEF PmmInv, TypeOK, ListInv
<1>3. \A p \in Reserved : page_owner[p] = Rsv
    BY DEF PmmInv, RsvInv
<1>4. \A t \in Thread : \A p \in InFlight(t) :
         p \in Page /\ page_owner[p] \in Thread /\ p \notin inuse /\ Flying(t, p)
    BY DEF PmmInv, FlyInv, Flying, InFlight
<1>5. \A p \in inuse : page_owner[p] \in Thread
    BY DEF PmmInv, UseInv
<1>6. \A t \in Thread : \A p \in Page : Flying(t, p) => p \in InFlight(t)
    BY DEF Flying, InFlight
<1>7. CachedPagesMarked
    BY <1>1 DEF CachedPagesMarked
<1>8. \A c, d \in CPU : \A i \in 1 .. cpu_cache_count[c], j \in 1 .. cpu_cache_count[d] :
         cpu_cache[c][i] = cpu_cache[d][j] => c = d /\ i = j
    BY DEF PmmInv, SlotInv
<1> DEFINE cached == UNION {Cached(c) : c \in CPU}
           flying == UNION {InFlight(t) : t \in Thread}
<1>9. /\ \A p \in cached : page_owner[p] = Cache
      /\ \A p \in flying : page_owner[p] \in Thread /\ p \notin inuse
    BY <1>1, <1>4
<1>10. \A t, u \in Thread : t # u => InFlight(t) \cap InFlight(u) = {}
    BY <1>4 DEF PmmInv, FlyInv
<1>11. \A p \in Page : page_owner[p] = Cache => p \in cached
    BY DEF PmmInv, FoundInv, Cached
<1>12. \A p \in Page : page_owner[p] \in Thread => p \in inuse \cup flying
    BY <1>6 DEF PmmInv, FoundInv
<1> HIDE DEF cached, flying
<1>13. /\ cached \cap (free_list \cup inuse \cup flying \cup Reserved) = {}
       /\ free_list \cap (inuse \cup flying \cup Reserved) = {}
       /\ inuse \cap (flying \cup Reserved) = {}
       /\ flying \cap Reserved = {}
    BY <1>2, <1>3, <1>5, <1>9 DEF Cache, Unset, Rsv
<1> QED
    BY <1>7, <1>8, <1>10, <1>11, <1>12, <1>13 DEF PagesAccounted, cached, flying

(* The invariant is inductive, so it holds throughout every behaviour. *)
LEMMA Invariance == ASSUME ~MigrateInWindow PROVE Spec => []PmmInv
<1>1. PmmInv /\ [Next]_vars => PmmInv'
    BY NextInv
<1> QED
    BY InitInv, <1>1, PTL DEF Spec

(* Without a migration between current_cpu() and the cache lock, the variables *)
(* keep their types: no per-CPU cache ever overflows.                          *)
THEOREM TypeCorrect == ASSUME ~MigrateInWindow PROVE Spec => []TypeOK
<1>1. PmmInv => TypeOK
    BY InvImplies
<1> QED
    BY Invariance, <1>1, PTL

(* Without such a migration, none of the corruption checks (cli;hlt) can fire. *)
THEOREM ChecksNeverFire == ASSUME ~MigrateInWindow PROVE Spec => []NeverHalts
<1>1. PmmInv => NeverHalts
    BY InvImplies
<1> QED
    BY Invariance, <1>1, PTL

(* Without such a migration, every cached page is marked CACHE and used, as    *)
(* INVARIANTS.md requires.                                                     *)
THEOREM CacheMarks == ASSUME ~MigrateInWindow PROVE Spec => []CachedPagesMarked
<1>1. PmmInv => CachedPagesMarked
    BY InvImplies
<1> QED
    BY Invariance, <1>1, PTL

(* Without such a migration, no page is ever lost, cached twice or handed to   *)
(* two callers.                                                                *)
THEOREM NoPageTwice == ASSUME ~MigrateInWindow PROVE Spec => []PagesAccounted
<1>1. PmmInv => PagesAccounted
    BY InvImplies
<1> QED
    BY Invariance, <1>1, PTL
================================================================================
