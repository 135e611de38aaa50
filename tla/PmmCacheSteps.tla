----------------------------- MODULE PmmCacheSteps -----------------------------
(* The steps that push to, flush and free into the per-CPU caches of Pmm      *)
(* preserve the invariant of PmmInvariant.                                    *)
EXTENDS PmmInvariant

(* Storing a page in hand in a free slot: the push of pmm_free_page. *)
LEMMA PushPages ==
    ASSUME PmmInv, NEW t \in Thread, NEW c \in CPU, NEW p \in Page,
           cpu_cache_count[c] < CacheSize, page_owner[p] \in Thread,
           \A u \in Thread \ {t} : ~Flying(u, p) /\ arg'[u] = arg[u],
           pc[t] \in {"refill", "freeslow", "freepush"} => arg[t] = p,
           inuse' = inuse \ {p}, UNCHANGED <<free_list, used_bitmap>>, Push(t, p, c)
    PROVE  /\ pc' = [pc EXCEPT ![t] = "idle"]
           /\ cpu_cache_count' = [cpu_cache_count EXCEPT ![c] = cpu_cache_count[c] + 1]
           /\ page_owner' \in [Page -> {Unset, Cache, Rsv} \cup Thread]
           /\ cpu_cache' \in [CPU -> [1 .. CacheSize -> Page]]
           /\ cpu_cache_count' \in [CPU -> 0 .. CacheSize]
           /\ ListInv' /\ RsvInv' /\ UseInv' /\ FlyInv' /\ SlotInv' /\ FoundInv'
<1> USE PmmConstants
<1> DEFINE n == cpu_cache_count[c]
<1>1. page_owner[p] \notin {Unset, Cache, Rsv} /\ n \in 0 .. CacheSize /\ n + 1 \in 1 .. CacheSize
    BY DEF PmmInv, TypeOK, Cache, Unset, Rsv
<1>2. /\ page_owner' = [page_owner EXCEPT ![p] = Cache]
      /\ cpu_cache' = [cpu_cache EXCEPT ![c][n + 1] = p]
      /\ cpu_cache_count' = [cpu_cache_count EXCEPT ![c] = n + 1]
      /\ pc' = [pc EXCEPT ![t] = "idle"]
    BY <1>1 DEF Push, Goto
<1>3. /\ page_owner' \in [Page -> {Unset, Cache, Rsv} \cup Thread]
      /\ cpu_cache' \in [CPU -> [1 .. CacheSize -> Page]]
      /\ cpu_cache_count' \in [CPU -> 0 .. CacheSize]
    BY <1>1, <1>2 DEF PmmInv, TypeOK
<1>4. \A q \in Page : page_owner'[q] = IF q = p THEN Cache ELSE page_owner[q]
    BY <1>2 DEF PmmInv, TypeOK
<1>5. p \in used_bitmap
    BY <1>1 DEF PmmInv, ListInv
<1>6. ListInv' /\ RsvInv' /\ UseInv'
    BY <1>1, <1>4, <1>5 DEF PmmInv, TypeOK, ListInv, RsvInv, UseInv
<1>7. \A u \in Thread : pc'[u] \in {"refill", "freeslow", "freepush"}
         => u # t /\ pc'[u] = pc[u] /\ arg'[u] = arg[u]
    BY <1>2 DEF PmmInv, TypeOK
<1>8. FlyInv'
    BY <1>4, <1>7 DEF PmmInv, FlyInv, Flying
<1>9. \A d \in CPU : \A i \in 1 .. cpu_cache_count'[d] :
         \/ d = c /\ i = n + 1 /\ cpu_cache'[d][i] = p
         \/ /\ i \in 1 .. cpu_cache_count[d] /\ (d # c \/ i # n + 1)
            /\ cpu_cache'[d][i] = cpu_cache[d][i]
            /\ cpu_cache[d][i] \in Page /\ cpu_cache[d][i] # p
  <2> SUFFICES ASSUME NEW d \in CPU, NEW i \in 1 .. cpu_cache_count'[d],
                      ~(d = c /\ i = n + 1)
               PROVE  /\ i \in 1 .. cpu_cache_count[d]
                      /\ cpu_cache'[d][i] = cpu_cache[d][i]
                      /\ cpu_cache[d][i] \in Page /\ cpu_cache[d][i] # p
    <3>1. cpu_cache'[c][n + 1] = p
        BY <1>1, <1>2 DEF PmmInv, TypeOK
    <3> QED
        BY <3>1
  <2>1. i \in 1 .. cpu_cache_count[d]
      BY <1>1, <1>2 DEF PmmInv, TypeOK
  <2>2. cpu_cache'[d][i] = cpu_cache[d][i] /\ cpu_cache[d][i] \in Page
    <3>1. /\ cpu_cache \in [CPU -> [1 .. CacheSize -> Page]]
          /\ cpu_cache_count[d] \in 0 .. CacheSize
        BY DEF PmmInv, TypeOK
    <3>2. i \in 1 .. CacheSize
        BY <2>1, <3>1
    <3> HIDE DEF n
    <3> QED
        BY <1>2, <3>1, <3>2
  <2>3. page_owner[cpu_cache[d][i]] = Cache
      BY <2>1 DEF PmmInv, SlotInv
  <2> QED
      BY <1>1, <2>1, <2>2, <2>3
<1>10. SlotInv'
  <2>1. \A d \in CPU : \A i \in 1 .. cpu_cache_count'[d] : page_owner'[cpu_cache'[d][i]] = Cache
      BY <1>4, <1>9 DEF PmmInv, SlotInv
  <2>2. ASSUME NEW d \in CPU, NEW e \in CPU, NEW i \in 1 .. cpu_cache_count'[d],
               NEW j \in 1 .. cpu_cache_count'[e], cpu_cache'[d][i] = cpu_cache'[e][j]
        PROVE  d = e /\ i = j
      BY <1>9, <2>2 DEF PmmInv, SlotInv
  <2> QED
      BY <2>1, <2>2 DEF SlotInv
<1>11. FoundInv'
  <2>1. ASSUME NEW q \in Page, page_owner'[q] = Cache
        PROVE  \E d \in CPU : \E i \in 1 .. cpu_cache_count'[d] : cpu_cache'[d][i] = q
    <3>1. CASE q = p
        BY <1>1, <1>2, <3>1 DEF PmmInv, TypeOK
    <3>2. CASE q # p
      <4>1. PICK d \in CPU : \E i \in 1 .. cpu_cache_count[d] : cpu_cache[d][i] = q
          BY <1>4, <2>1, <3>2 DEF PmmInv, FoundInv
      <4>2. PICK i \in 1 .. cpu_cache_count[d] : cpu_cache[d][i] = q
          BY <4>1
      <4>3. i \in 1 .. cpu_cache_count'[d] /\ cpu_cache'[d][i] = q
          BY <1>1, <1>2, <4>2 DEF PmmInv, TypeOK
      <4> QED
          BY <4>3
    <3> QED
        BY <3>1, <3>2
  <2>2. ASSUME NEW q \in Page, page_owner'[q] \in Thread
        PROVE  q \in inuse' \/ \E u \in Thread : Flying(u, q)'
    <3>1. q # p /\ page_owner[q] \in Thread
        BY <1>4, <2>2
    <3>2. CASE q \in inuse
        BY <3>1, <3>2
    <3>3. ASSUME NEW u \in Thread, Flying(u, q) PROVE Flying(u, q)'
        BY <1>2, <3>1, <3>3 DEF PmmInv, TypeOK, Flying
    <3> QED
        BY <3>1, <3>2, <3>3 DEF PmmInv, FoundInv
  <2> QED
      BY <2>1, <2>2 DEF FoundInv
<1> QED
    BY <1>2, <1>3, <1>6, <1>8, <1>10, <1>11

(* Emptying the upper part of a cache to the free list: cache_flush_half,     *)
(* pmm_flush_cpu_cache and the loop of pmm_alloc_pages.                       *)
LEMMA FlushPages ==
    ASSUME PmmInv, NEW c \in CPU, NEW k \in 0 .. cpu_cache_count[c], FlushAbove(c, k),
           UNCHANGED <<inuse, arg>>,
           \A u \in Thread : pc'[u] \in {"refill", "freeslow", "freepush"}
                         <=> pc[u] \in {"refill", "freeslow", "freepush"}
    PROVE  /\ cpu_cache_count' = [cpu_cache_count EXCEPT ![c] = k]
           /\ free_list' \subseteq Page /\ used_bitmap' \subseteq Page
           /\ page_owner' \in [Page -> {Unset, Cache, Rsv} \cup Thread]
           /\ list_free_count' \in Int
           /\ cpu_cache' \in [CPU -> [1 .. CacheSize -> Page]]
           /\ cpu_cache_count' \in [CPU -> 0 .. CacheSize]
           /\ ListInv' /\ RsvInv' /\ UseInv' /\ FlyInv' /\ SlotInv' /\ FoundInv'
<1> USE PmmConstants
<1> DEFINE n == cpu_cache_count[c]
           ps == CachedAbove(c, k)
<1>1. n \in 0 .. CacheSize /\ k \in 0 .. CacheSize /\ k <= n
    BY DEF PmmInv, TypeOK
<1>2. /\ free_list' = free_list \cup ps
      /\ used_bitmap' = used_bitmap \ ps
      /\ page_owner' = [p \in Page |-> IF p \in ps THEN Unset ELSE page_owner[p]]
      /\ list_free_count' = list_free_count + (n - k)
      /\ cpu_cache_count' = [cpu_cache_count EXCEPT ![c] = k]
      /\ cpu_cache' = cpu_cache
    BY DEF FlushAbove, PutBack
<1>3. \A i \in k + 1 .. n : i \in 1 .. n /\ i \in 1 .. CacheSize
    BY <1>1
<1>4. \A q \in ps : q \in Page /\ page_owner[q] = Cache
    BY <1>3 DEF CachedAbove, PmmInv, TypeOK, SlotInv
<1> HIDE DEF ps
<1>5. /\ free_list' \subseteq Page /\ used_bitmap' \subseteq Page
      /\ page_owner' \in [Page -> {Unset, Cache, Rsv} \cup Thread]
      /\ list_free_count' \in Int
      /\ cpu_cache' \in [CPU -> [1 .. CacheSize -> Page]]
      /\ cpu_cache_count' \in [CPU -> 0 .. CacheSize]
  <2>1. list_free_count' \in Int
      BY <1>1, <1>2 DEF PmmInv, TypeOK
  <2>2. cpu_cache_count' \in [CPU -> 0 .. CacheSize]
      BY <1>1, <1>2 DEF PmmInv, TypeOK
  <2> QED
      BY <1>2, <1>4, <2>1, <2>2 DEF PmmInv, TypeOK
<1>6. \A q \in Page : page_owner'[q] = IF q \in ps THEN Unset ELSE page_owner[q]
    BY <1>2
<1>7. ListInv' /\ RsvInv' /\ UseInv'
    BY <1>2, <1>4, <1>6 DEF PmmInv, TypeOK, ListInv, RsvInv, UseInv, Cache, Rsv
<1>8. FlyInv'
    BY <1>4, <1>6 DEF PmmInv, FlyInv, Flying, Cache
<1>9. \A d \in CPU : \A i \in 1 .. cpu_cache_count'[d] :
         i \in 1 .. cpu_cache_count[d] /\ cpu_cache[d][i] \in Page /\ cpu_cache[d][i] \notin ps
  <2> SUFFICES ASSUME NEW d \in CPU, NEW i \in 1 .. cpu_cache_count'[d]
               PROVE  i \in 1 .. cpu_cache_count[d] /\ cpu_cache[d][i] \in Page /\ cpu_cache[d][i] \notin ps
      OBVIOUS
  <2>1. i \in 1 .. cpu_cache_count[d] /\ (d = c => i <= k)
      BY <1>1, <1>2 DEF PmmInv, TypeOK
  <2>2. cpu_cache[d][i] \in Page
      BY <2>1 DEF PmmInv, TypeOK
  <2>3. ASSUME NEW j \in k + 1 .. n, cpu_cache[c][j] = cpu_cache[d][i] PROVE FALSE
      BY <1>1, <1>3, <2>1, <2>3 DEF PmmInv, SlotInv
  <2> QED
      BY <2>1, <2>2, <2>3 DEF ps, CachedAbove
<1>10. SlotInv'
    BY <1>2, <1>6, <1>9 DEF PmmInv, SlotInv
<1>11. FoundInv'
  <2>1. ASSUME NEW q \in Page, page_owner'[q] = Cache
        PROVE  \E d \in CPU : \E i \in 1 .. cpu_cache_count'[d] : cpu_cache'[d][i] = q
    <3>1. q \notin ps /\ page_owner[q] = Cache
        BY <1>6, <2>1 DEF Cache, Unset
    <3>2. PICK d \in CPU : \E i \in 1 .. cpu_cache_count[d] : cpu_cache[d][i] = q
        BY <3>1 DEF PmmInv, FoundInv
    <3>3. PICK i \in 1 .. cpu_cache_count[d] : cpu_cache[d][i] = q
        BY <3>2
    <3>4. ~(d = c /\ i \in k + 1 .. n)
        BY <3>1, <3>3 DEF ps, CachedAbove
    <3>5. i \in 1 .. cpu_cache_count'[d]
        BY <1>1, <1>2, <3>4 DEF PmmInv, TypeOK
    <3> QED
        BY <1>2, <3>3, <3>5
  <2>2. ASSUME NEW q \in Page, page_owner'[q] \in Thread
        PROVE  q \in inuse' \/ \E u \in Thread : Flying(u, q)'
      BY <1>6, <2>2 DEF PmmInv, FoundInv, Flying, Unset
  <2> QED
      BY <2>1, <2>2 DEF FoundInv
<1> QED
    BY <1>2, <1>5, <1>7, <1>8, <1>10, <1>11

(* The three callers of the flush. *)
LEMMA FlushSteps ==
    ASSUME PmmInv, ~MigrateInWindow,
           FlushCpuCache \/ \E t \in Thread : FlushOne(t) \/ FreeSlow(t)
    PROVE  PmmInv'
<1> USE PmmConstants DEF locks, oom, ctl, Goto, SetIter, Holds, Lock
<1>0. TypeOK /\ NeverHalts /\ LockInv /\ StealInv
    BY DEF PmmInv
<1>1. CASE FlushCpuCache
  <2>1. PICK c \in CPU : FlushAbove(c, 0)
      BY <1>1 DEF FlushCpuCache
  <2>2. 0 \in 0 .. cpu_cache_count[c] /\ UNCHANGED <<locks, oom, ctl, inuse>> /\ glock = NoThread
      BY <1>0, <1>1 DEF FlushCpuCache, TypeOK
  <2>3. \A t \in Thread : pc[t] # "steal2"
      BY <1>0, <2>2 DEF LockInv, NoThread
  <2> QED
      BY <1>0, <2>1, <2>2, <2>3, FlushPages DEF PmmInv, TypeOK, NeverHalts, LockInv, StealInv
<1>2. ASSUME NEW t \in Thread, FlushOne(t) PROVE PmmInv'
  <2>1. /\ iter[t] \in CPU /\ iter[t] + 1 \in 0 .. 2 * NCPU
        /\ 0 \in 0 .. cpu_cache_count[iter[t]]
      BY <1>0, <1>2 DEF FlushOne, TypeOK, CPU
  <2>2. /\ FlushAbove(iter[t], 0) /\ UNCHANGED <<locks, oom, pc, arg, inuse>>
        /\ iter' = [iter EXCEPT ![t] = iter[t] + 1]
      BY <1>2 DEF FlushOne
  <2>3. \A u \in Thread : pc[u] # "steal2"
      BY <1>0, <1>2 DEF FlushOne, LockInv
  <2>4. iter' \in [Thread -> 0 .. 2 * NCPU]
      BY <1>0, <2>1, <2>2 DEF TypeOK
  <2> QED
      BY <1>0, <2>1, <2>2, <2>3, <2>4, FlushPages DEF PmmInv, TypeOK, NeverHalts, LockInv, StealInv
<1>3. ASSUME NEW t \in Thread, FreeSlow(t) PROVE PmmInv'
  <2>1. \A u \in Thread : pc[u] # "steal2" /\ (pc'[u] # "steal2" \/ u = t)
      BY <1>0, <1>3 DEF FreeSlow, LockInv, NoThread, TypeOK, PmmInv
  <2>2. arg[t] \in used_bitmap
      BY <1>3 DEF FreeSlow, PmmInv, FlyInv, ListInv, Unset
  <2>3. PICK c \in CPU : Lock(t, c) /\ FlushAbove(c, cpu_cache_count[c] \div 2)
      BY <1>3, <2>2 DEF FreeSlow
  <2>4. cpu_cache_count[c] \div 2 \in 0 .. cpu_cache_count[c]
      BY <1>0 DEF TypeOK
  <2>5. /\ pc[t] = "freeslow" /\ pc' = [pc EXCEPT ![t] = "freepush"] /\ glock' = t /\ gcpu' = c
        /\ glock = NoThread /\ UNCHANGED <<vlock, my_n, oom, arg, iter, inuse>>
      BY <1>3, <2>2, <2>3 DEF FreeSlow
  <2>6. \A u \in Thread : pc'[u] \in {"refill", "freeslow", "freepush"}
                      <=> pc[u] \in {"refill", "freeslow", "freepush"}
      BY <1>0, <2>5 DEF TypeOK
  <2>7. /\ free_list' \subseteq Page /\ used_bitmap' \subseteq Page
        /\ page_owner' \in [Page -> {Unset, Cache, Rsv} \cup Thread]
        /\ list_free_count' \in Int
        /\ cpu_cache' \in [CPU -> [1 .. CacheSize -> Page]]
        /\ cpu_cache_count' \in [CPU -> 0 .. CacheSize]
        /\ ListInv' /\ RsvInv' /\ UseInv' /\ FlyInv' /\ SlotInv' /\ FoundInv'
      BY <2>3, <2>4, <2>5, <2>6, FlushPages
  <2>8. TypeOK'
      BY <1>0, <2>5, <2>7 DEF TypeOK, PcLabel
  <2>9. NeverHalts' /\ LockInv' /\ StealInv'
      BY <1>0, <2>1, <2>5 DEF TypeOK, NeverHalts, LockInv, StealInv, NoThread
  <2> QED
      BY <2>7, <2>8, <2>9 DEF PmmInv
<1> QED
    BY <1>1, <1>2, <1>3

(* Putting a page in hand straight back on the free list. *)
LEMMA PutBackPages ==
    ASSUME PmmInv, NEW t \in Thread, NEW p \in Page, Flying(t, p), PutBack({p}, 1),
           pc' = [pc EXCEPT ![t] = "idle"], \A u \in Thread \ {t} : arg'[u] = arg[u],
           UNCHANGED <<caches, inuse>>
    PROVE  /\ free_list' \subseteq Page /\ used_bitmap' \subseteq Page
           /\ page_owner' \in [Page -> {Unset, Cache, Rsv} \cup Thread]
           /\ list_free_count' \in Int
           /\ ListInv' /\ RsvInv' /\ UseInv' /\ FlyInv' /\ SlotInv' /\ FoundInv'
<1> USE PmmConstants DEF caches
<1>1. page_owner[p] \in Thread /\ p \notin inuse /\ \A u \in Thread \ {t} : ~Flying(u, p)
    BY DEF PmmInv, FlyInv, Flying
<1>2. /\ free_list' = free_list \cup {p} /\ used_bitmap' = used_bitmap \ {p}
      /\ list_free_count' = list_free_count + 1
      /\ page_owner' = [q \in Page |-> IF q \in {p} THEN Unset ELSE page_owner[q]]
    BY DEF PutBack
<1>3. \A q \in Page : page_owner'[q] = IF q = p THEN Unset ELSE page_owner[q]
    BY <1>2
<1>4. \A u \in Thread : pc'[u] \in {"refill", "freeslow", "freepush"}
         => u # t /\ pc'[u] = pc[u] /\ arg'[u] = arg[u]
    BY DEF PmmInv, TypeOK
<1>5. /\ free_list' \subseteq Page /\ used_bitmap' \subseteq Page
      /\ page_owner' \in [Page -> {Unset, Cache, Rsv} \cup Thread]
      /\ list_free_count' \in Int
    BY <1>2 DEF PmmInv, TypeOK
<1>6. ListInv' /\ RsvInv' /\ UseInv'
    BY <1>1, <1>2, <1>3 DEF PmmInv, TypeOK, ListInv, RsvInv, UseInv, Rsv
<1>7. FlyInv'
    BY <1>1, <1>3, <1>4 DEF PmmInv, FlyInv, Flying
<1>8. \A c \in CPU : \A i \in 1 .. cpu_cache_count[c] :
         cpu_cache[c][i] \in Page /\ cpu_cache[c][i] # p
    BY <1>1 DEF PmmInv, TypeOK, SlotInv, Cache
<1>9. SlotInv'
  <2>1. \A c \in CPU : \A i \in 1 .. cpu_cache_count[c] : page_owner'[cpu_cache[c][i]] = Cache
      BY <1>3, <1>8 DEF PmmInv, SlotInv
  <2> QED
      BY <2>1, SameSlots DEF PmmInv
<1>10. \A u \in Thread : \A q \in Page : q # p /\ Flying(u, q) => Flying(u, q)'
    BY DEF PmmInv, TypeOK, Flying
<1>11. FoundInv'
    BY <1>1, <1>3, <1>10 DEF PmmInv, FoundInv, Unset, Cache
<1> QED
    BY <1>5, <1>6, <1>7, <1>9, <1>11

(* pmm_free_page: the fast path and the push under the global lock. *)
LEMMA FreeSteps ==
    ASSUME PmmInv, ~MigrateInWindow, NEW t \in Thread, FreeFast(t) \/ FreePush(t)
    PROVE  PmmInv'
<1> USE PmmConstants DEF locks, oom, caches, Goto, SetArg, Holds, Unlock
<1>0. TypeOK /\ NeverHalts /\ LockInv /\ StealInv
    BY DEF PmmInv
<1>1. CASE FreeFast(t)
  <2>1. PICK p \in inuse, c \in CPU :
          LET n == cpu_cache_count[c] IN
          /\ CanUse(c)
          /\ inuse' = inuse \ {p}
          /\ IF p \in Cached(c)
             THEN UNCHANGED <<page_owner, caches, pc, arg>>
             ELSE \/ /\ n >= CacheSize
                     /\ Goto(t, "freeslow")
                     /\ SetArg(t, p)
                     /\ UNCHANGED <<page_owner, caches>>
                  \/ /\ n < CacheSize
                     /\ Push(t, p, c)
                     /\ UNCHANGED arg
      BY <1>1 DEF FreeFast
  <2>2. /\ pc[t] = "idle"
        /\ UNCHANGED <<free_list, used_bitmap, list_free_count, locks, oom, iter>>
      BY <1>1 DEF FreeFast
  <2>3. p \in Page /\ page_owner[p] \in Thread /\ \A u \in Thread : ~Flying(u, p)
      BY <1>0 DEF PmmInv, UseInv, FlyInv, Flying, TypeOK
  <2>4. p \notin Cached(c)
      BY <2>3 DEF Cached, PmmInv, SlotInv, Cache
  <2>5. \A u \in Thread : pc[u] = "steal2" => gcpu # c
      BY <1>0, <2>1 DEF CanUse, LockInv, NoThread
  <2>6. CASE cpu_cache_count[c] >= CacheSize
    <3>1. /\ pc' = [pc EXCEPT ![t] = "freeslow"] /\ arg' = [arg EXCEPT ![t] = p]
          /\ UNCHANGED <<page_owner, caches>> /\ inuse' = inuse \ {p}
        BY <1>0, <2>1, <2>4, <2>6 DEF TypeOK
    <3>2. TypeOK'
      <4>1. p \in Nat
          BY <2>3 DEF Page
      <4> QED
          BY <1>0, <2>2, <3>1, <4>1 DEF TypeOK, PcLabel
    <3>3. NeverHalts' /\ LockInv' /\ StealInv'
        BY <1>0, <2>2, <3>1 DEF TypeOK, NeverHalts, LockInv, StealInv
    <3>4. ListInv' /\ RsvInv' /\ UseInv' /\ SlotInv'
      <4>1. /\ page_owner' = page_owner /\ free_list' = free_list /\ used_bitmap' = used_bitmap
            /\ cpu_cache' = cpu_cache /\ cpu_cache_count' = cpu_cache_count
            /\ inuse' \subseteq inuse
          BY <2>2, <3>1
      <4>2. ListInv' /\ RsvInv'
          BY <4>1 DEF PmmInv, ListInv, RsvInv
      <4>3. UseInv'
          BY <4>1 DEF PmmInv, UseInv
      <4>4. SlotInv'
        <5>1. \A d \in CPU : \A i \in 1 .. cpu_cache_count[d] : page_owner'[cpu_cache[d][i]] = Cache
            BY <4>1 DEF PmmInv, SlotInv
        <5> QED
            BY <4>1, <5>1, SameSlots DEF PmmInv
      <4> QED
          BY <4>2, <4>3, <4>4
    <3>5. FlyInv'
        BY <1>0, <2>2, <2>3, <3>1 DEF PmmInv, TypeOK, FlyInv, Flying
    <3>6. \A u \in Thread : \A q \in Page : Flying(u, q) => Flying(u, q)'
        BY <1>0, <2>2, <3>1 DEF TypeOK, Flying
    <3>7. Flying(t, p)'
        BY <1>0, <3>1 DEF TypeOK, Flying
    <3>8. FoundInv'
      <4>1. \A q \in Page : page_owner'[q] \in Thread =>
               q \in inuse' \/ \E u \in Thread : Flying(u, q)'
          BY <3>1, <3>6, <3>7 DEF PmmInv, FoundInv
      <4> QED
          BY <3>1, <4>1 DEF PmmInv, FoundInv
    <3> QED
        BY <3>2, <3>3, <3>4, <3>5, <3>8 DEF PmmInv
  <2>7. CASE cpu_cache_count[c] < CacheSize
    <3>1. Push(t, p, c) /\ UNCHANGED arg /\ inuse' = inuse \ {p}
        BY <1>0, <2>1, <2>4, <2>7 DEF TypeOK
    <3>2. /\ pc' = [pc EXCEPT ![t] = "idle"]
          /\ cpu_cache_count' = [cpu_cache_count EXCEPT ![c] = cpu_cache_count[c] + 1]
          /\ page_owner' \in [Page -> {Unset, Cache, Rsv} \cup Thread]
          /\ cpu_cache' \in [CPU -> [1 .. CacheSize -> Page]]
          /\ cpu_cache_count' \in [CPU -> 0 .. CacheSize]
          /\ ListInv' /\ RsvInv' /\ UseInv' /\ FlyInv' /\ SlotInv' /\ FoundInv'
        BY <2>2, <2>3, <2>7, <3>1, PushPages
    <3>3. TypeOK'
        BY <1>0, <2>2, <3>1, <3>2 DEF TypeOK, PcLabel
    <3>4. NeverHalts' /\ LockInv' /\ StealInv'
        BY <1>0, <2>2, <2>5, <3>2 DEF TypeOK, NeverHalts, LockInv, StealInv
    <3> QED
        BY <3>2, <3>3, <3>4 DEF PmmInv
  <2> QED
      BY <1>0, <2>6, <2>7 DEF TypeOK
<1>2. CASE FreePush(t)
  <2> DEFINE p == arg[t]
  <2>1. /\ pc[t] = "freepush" /\ glock = t /\ glock' = NoThread /\ gcpu' = 0
        /\ arg' = [arg EXCEPT ![t] = 0]
        /\ UNCHANGED <<vlock, my_n, oom, iter, inuse>>
      BY <1>2 DEF FreePush
  <2>2. /\ p \in Page /\ page_owner[p] \in Thread /\ p \notin inuse /\ gcpu \in CPU
        /\ Flying(t, p) /\ \A u \in Thread \ {t} : ~Flying(u, p) /\ arg'[u] = arg[u]
      BY <1>0, <2>1 DEF PmmInv, FlyInv, Flying, TypeOK
  <2>3. \A u \in Thread : pc[u] \in {"refill", "steal", "steal2", "flush", "freepush"} => u = t
      BY <1>0, <2>1 DEF LockInv
  <2>4. 0 \in CPU
      BY DEF CPU
  <2>5. CASE cpu_cache_count[gcpu] < CacheSize
    <3>1. Push(t, p, gcpu) /\ UNCHANGED <<free_list, used_bitmap, list_free_count>>
        BY <1>2, <2>5 DEF FreePush
    <3>2. inuse' = inuse \ {p}
        BY <2>1, <2>2
    <3>3. /\ pc' = [pc EXCEPT ![t] = "idle"]
          /\ page_owner' \in [Page -> {Unset, Cache, Rsv} \cup Thread]
          /\ cpu_cache' \in [CPU -> [1 .. CacheSize -> Page]]
          /\ cpu_cache_count' \in [CPU -> 0 .. CacheSize]
          /\ ListInv' /\ RsvInv' /\ UseInv' /\ FlyInv' /\ SlotInv' /\ FoundInv'
        BY <2>1, <2>2, <2>5, <3>1, <3>2, PushPages
    <3>4. TypeOK'
        BY <1>0, <2>1, <2>4, <3>1, <3>3 DEF TypeOK, PcLabel
    <3>5. NeverHalts' /\ LockInv' /\ StealInv'
        BY <1>0, <2>1, <2>3, <3>3 DEF TypeOK, NeverHalts, LockInv, StealInv
    <3> QED
        BY <3>3, <3>4, <3>5 DEF PmmInv
  <2>6. CASE ~(cpu_cache_count[gcpu] < CacheSize)
    <3>1. PutBack({p}, 1) /\ pc' = [pc EXCEPT ![t] = "idle"] /\ UNCHANGED caches
        BY <1>2, <2>2, <2>6 DEF FreePush, Cache
    <3>2. /\ free_list' \subseteq Page /\ used_bitmap' \subseteq Page
          /\ page_owner' \in [Page -> {Unset, Cache, Rsv} \cup Thread]
          /\ list_free_count' \in Int
          /\ ListInv' /\ RsvInv' /\ UseInv' /\ FlyInv' /\ SlotInv' /\ FoundInv'
        BY Zenon, <2>1, <2>2, <3>1, PutBackPages
    <3>3. TypeOK'
        BY <1>0, <2>1, <2>4, <3>1, <3>2 DEF TypeOK, PcLabel
    <3>4. NeverHalts' /\ LockInv' /\ StealInv'
        BY <1>0, <2>1, <2>3, <3>1 DEF TypeOK, NeverHalts, LockInv, StealInv
    <3> QED
        BY <3>2, <3>3, <3>4 DEF PmmInv
  <2> QED
      BY <2>5, <2>6
<1> QED
    BY <1>1, <1>2

(* pmm_alloc_page: the pops from a cache, from the free list, and the refill. *)
LEMMA PopSteps ==
    ASSUME PmmInv, ~MigrateInWindow, NEW t \in Thread, AllocFast(t) \/ Repop(t)
    PROVE  PmmInv'
<1> USE PmmConstants DEF SetIter
<1>1. CASE AllocFast(t)
  <2>1. PICK c \in CPU : CanUse(c) /\ CacheTryPop(t, c, "slow")
      BY <1>1 DEF AllocFast
  <2>2. /\ pc[t] = "idle"
        /\ UNCHANGED <<free_list, used_bitmap, list_free_count, cpu_cache, locks, oom, arg, iter>>
      BY <1>1 DEF AllocFast
  <2>3. iter' \in [Thread -> 0 .. 2 * NCPU]
      BY <2>2 DEF PmmInv, TypeOK
  <2> QED
      BY <2>1, <2>2, <2>3, PopStep
<1>2. CASE Repop(t)
  <2>1. PICK c \in CPU : CanUse(c) /\ CacheTryPop(t, c, "resteal")
      BY <1>2 DEF Repop
  <2>2. /\ pc[t] = "repop"
        /\ UNCHANGED <<free_list, used_bitmap, list_free_count, cpu_cache, locks, oom, arg>>
        /\ iter' = [iter EXCEPT ![t] = IF pc'[t] = "resteal" THEN iter[t] ELSE 0]
      BY <1>2 DEF Repop
  <2>3. iter' \in [Thread -> 0 .. 2 * NCPU] /\ \A u \in Thread \ {t} : iter'[u] = iter[u]
      BY <2>2 DEF PmmInv, TypeOK
  <2> QED
      BY <2>1, <2>2, <2>3, PopStep
<1> QED
    BY <1>1, <1>2

================================================================================
