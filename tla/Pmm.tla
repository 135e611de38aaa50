---------------------------------- MODULE Pmm ----------------------------------
(* The physical page allocator, os/src/kernel/pmm.c, with numa_available = 0:  *)
(* one global free list, a used bitmap, a page_owner array and one small cache *)
(* of pages per CPU.                                                           *)
(*                                                                             *)
(* A step is one critical section.  pmm_global_lock is held across several     *)
(* steps (glock is the thread holding it, gcpu the CPU it runs on, with        *)
(* interrupts off).  A per-CPU cache lock is taken and released inside one     *)
(* step, except by cache_steal, which keeps the victim's lock (vlock) from the *)
(* moment it reads its own count to the moment it moves the pages.             *)
EXTENDS Integers, FiniteSets

CONSTANTS
    Thread,            \* the kernel threads that call the allocator
    NCPU,              \* smp_nr_cpus()
    TotalPages,        \* total_page_count
    Reserved,          \* pages pmm_init marks used
    Listed,            \* unreserved pages of type-1 memory-map entries
    CacheSize,         \* PMM_PERCPU_CACHE_SIZE
    MaxRun,            \* bound on the count given to pmm_alloc_pages
    MigrateInWindow    \* may a thread migrate between current_cpu() and the
                       \* acquisition of cpu_cache_lock[cpu]?

CPU  == 0 .. NCPU - 1
Page == 0 .. TotalPages - 1

Unset == "unset"       \* PAGE_OWNER_UNSET
Cache == "cache"       \* PAGE_OWNER_CACHE
Rsv   == "reserved"    \* PAGE_OWNER_RESERVED
NoThread == "none"

ASSUME PmmConstants ==
    /\ NCPU \in Nat \ {0}
    /\ TotalPages \in Nat \ {0}
    /\ CacheSize \in Nat \ {0}
    /\ MaxRun \in Nat \ {0}
    /\ Reserved \subseteq Page
    /\ 0 \in Reserved
    /\ Listed \subseteq Page \ Reserved
    /\ {Unset, Cache, Rsv, NoThread} \cap Thread = {}
    /\ MigrateInWindow \in BOOLEAN

VARIABLES
    free_list,         \* node_free_lists[0]; its order is immaterial here
    used_bitmap,       \* the pages whose bit is set
    page_owner,
    list_free_count,
    cpu_cache,         \* cpu_cache[cpu][1..CacheSize], stale slots included
    cpu_cache_count,
    glock, gcpu,       \* holder of pmm_global_lock and its CPU
    vlock, my_n,       \* cache_steal: the victim's lock and the count read early
    oom_scheduled,     \* the flag
    oom_item,          \* oom_work_item in system_wq: "off", "queued" or, added
                       \* twice, "self" (its next pointer points to itself)
    pc,                \* where each thread is; "halted" is the cli;hlt loop
    arg,               \* the page or the count each thread works on
    iter,              \* loop position of pmm_alloc_page's and pmm_alloc_pages' scans
    inuse              \* pages handed to callers and not yet given back

mem    == <<free_list, used_bitmap, page_owner, list_free_count>>
caches == <<cpu_cache, cpu_cache_count>>
locks  == <<glock, gcpu, vlock, my_n>>
oom    == <<oom_scheduled, oom_item>>
ctl    == <<pc, arg, iter>>
vars   == <<mem, caches, locks, oom, ctl, inuse>>

(***************************************************************************)
(* pmm_init.  Pages outside type-1 entries that nothing marks used keep a  *)
(* clear bit although no list holds them.  list_free_count starts at       *)
(* total_page_count, loses the reserved pages and is incremented again for *)
(* every page that add_region_to_free_list links.                          *)
(***************************************************************************)
Init ==
    /\ free_list = Listed
    /\ used_bitmap = Reserved
    /\ page_owner = [p \in Page |-> IF p \in Reserved THEN Rsv ELSE Unset]
    /\ list_free_count = TotalPages - Cardinality(Reserved) + Cardinality(Listed)
    /\ cpu_cache = [c \in CPU |-> [i \in 1 .. CacheSize |-> 0]]
    /\ cpu_cache_count = [c \in CPU |-> 0]
    /\ glock = NoThread /\ gcpu = 0 /\ vlock = -1 /\ my_n = 0
    /\ oom_scheduled = FALSE /\ oom_item = "off"
    /\ pc = [t \in Thread |-> "idle"]
    /\ arg = [t \in Thread |-> 0]
    /\ iter = [t \in Thread |-> 0]
    /\ inuse = {}

Goto(t, l)   == pc' = [pc EXCEPT ![t] = l]
SetArg(t, x) == arg' = [arg EXCEPT ![t] = x]
SetIter(t, x) == iter' = [iter EXCEPT ![t] = x]

Lock(t, c) == glock = NoThread /\ glock' = t /\ gcpu' = c
Unlock     == glock' = NoThread /\ gcpu' = 0
Holds(t)   == glock = t

(* A thread off the global lock can work on cache c when no stealer holds    *)
(* c's lock and c is not running the holder of the global lock with          *)
(* interrupts off -- unless the thread read its CPU number, was migrated and *)
(* only then takes the lock of the CPU it no longer runs on.                 *)
CanUse(c) == vlock # c /\ (MigrateInWindow \/ glock = NoThread \/ gcpu # c)

(* Mutant: the flush loop starts one slot late. *)
CachedAbove_OffByOne(c, k) == {cpu_cache[c][i] : i \in k + 2 .. cpu_cache_count[c]}

Cached(c)        == {cpu_cache[c][i] : i \in 1 .. cpu_cache_count[c]}
CachedAbove(c,k) == {cpu_cache[c][i] : i \in k + 1 .. cpu_cache_count[c]}

(* Mutant: the bit stays set. *)
PutBack_KeepsBit(ps, cnt) ==
    /\ free_list' = free_list \cup ps
    /\ page_owner' = [p \in Page |-> IF p \in ps THEN Unset ELSE page_owner[p]]
    /\ list_free_count' = list_free_count + cnt
    /\ UNCHANGED used_bitmap

(* Link the pages ps on the free list: bit clear, owner UNSET.               *)
PutBack(ps, cnt) ==
    /\ free_list' = free_list \cup ps
    /\ used_bitmap' = used_bitmap \ ps
    /\ page_owner' = [p \in Page |-> IF p \in ps THEN Unset ELSE page_owner[p]]
    /\ list_free_count' = list_free_count + cnt


(* Empty the slots of cache c above the first k to the free list.            *)
FlushAbove(c, k) ==
    /\ PutBack(CachedAbove(c, k), cpu_cache_count[c] - k)
    /\ cpu_cache_count' = [cpu_cache_count EXCEPT ![c] = k]
    /\ UNCHANGED cpu_cache

(* owner_set's check: both the old and the new owner are distinct, and       *)
(* neither is UNSET nor CACHE.                                               *)
OwnerClash(p, owner) == page_owner[p] \notin {Unset, Cache, owner}

----------------------------------------------------------------------------
(* cache_try_pop on cache c by t; a failed pop continues at the label `miss`. *)
CacheTryPop(t, c, miss) ==
    LET n       == cpu_cache_count[c]
        p       == cpu_cache[c][n]
        claimed == p \in used_bitmap /\ page_owner[p] = Cache
    IN
    \/ /\ n = 0
       /\ Goto(t, miss)
       /\ UNCHANGED <<page_owner, cpu_cache_count, inuse>>
    \/ /\ n > 0
       /\ cpu_cache_count' = [cpu_cache_count EXCEPT ![c] = n - 1]
       /\ page_owner' = IF claimed THEN [page_owner EXCEPT ![p] = t] ELSE page_owner
       /\ inuse' = IF claimed THEN inuse \cup {p} ELSE inuse
       /\ Goto(t, IF claimed THEN "idle" ELSE IF p \in used_bitmap THEN miss ELSE "halted")

(* pmm_alloc_page, fast path. *)
AllocFast(t) ==
    /\ pc[t] = "idle"
    /\ \E c \in CPU : CanUse(c) /\ CacheTryPop(t, c, "slow")
    /\ UNCHANGED <<free_list, used_bitmap, list_free_count, cpu_cache, locks, oom, arg, iter>>

(* pmm_alloc_page, slow path: pop_from_node, or start stealing. *)
AllocSlow(t) ==
    /\ pc[t] = "slow"
    /\ \E c \in CPU : Lock(t, c)
    /\ \/ /\ free_list = {}
          /\ Goto(t, "steal")
          /\ SetIter(t, 0)
          /\ UNCHANGED <<mem, arg>>
       \/ \E p \in free_list :
          /\ free_list' = free_list \ {p}
          /\ used_bitmap' = used_bitmap \cup {p}
          /\ page_owner' = [page_owner EXCEPT ![p] = t]
          /\ list_free_count' = list_free_count - 1
          /\ Goto(t, IF p \in used_bitmap \/ OwnerClash(p, t) THEN "halted" ELSE "refill")
          /\ SetArg(t, p)
          /\ UNCHANGED iter
    /\ UNCHANGED <<caches, vlock, my_n, oom, inuse>>

(* cache_refill, then pmm_alloc_page releases the lock and returns the page. *)
(* s lists the pages moved, in the order they fill the slots.                *)
Refill(t) ==
    LET n    == cpu_cache_count[gcpu]
        room == CacheSize - n
        k    == IF Cardinality(free_list) < room THEN Cardinality(free_list) ELSE room
    IN
    /\ pc[t] = "refill" /\ Holds(t)
    /\ \E s \in [1 .. k -> free_list] :
        LET moved == {s[i] : i \in 1 .. k} IN
        /\ \A i, j \in 1 .. k : s[i] = s[j] => i = j
        /\ free_list' = free_list \ moved
        /\ used_bitmap' = used_bitmap \cup moved
        /\ page_owner' = [p \in Page |-> IF p \in moved THEN Cache ELSE page_owner[p]]
        /\ list_free_count' = list_free_count - k
        /\ cpu_cache' = [cpu_cache EXCEPT ![gcpu] =
               [i \in 1 .. CacheSize |-> IF i \in n + 1 .. n + k THEN s[i - n] ELSE @[i]]]
        /\ cpu_cache_count' = [cpu_cache_count EXCEPT ![gcpu] = n + k]
    /\ inuse' = inuse \cup {arg[t]}
    /\ Goto(t, "idle")
    /\ Unlock
    /\ SetArg(t, 0)
    /\ UNCHANGED <<vlock, my_n, oom, iter>>

----------------------------------------------------------------------------
(* pmm_alloc_page, pass 4: two rounds over the other CPUs' caches. *)
NextVictim(t) == SetIter(t, iter[t] + 1)
Victim(t)     == iter[t] % NCPU

StealExhausted(t) ==
    /\ pc[t] = "steal" /\ Holds(t)
    /\ iter[t] = 2 * NCPU
    /\ Goto(t, "oom")
    /\ Unlock
    /\ SetIter(t, 0)
    /\ UNCHANGED <<mem, caches, vlock, my_n, oom, arg, inuse>>

(* The victim is the caller's CPU, its lock is busy (any other CPU may be in *)
(* one of its short critical sections), or it has fewer than two pages.      *)
StealSkip(t) ==
    /\ pc[t] = "steal" /\ Holds(t)
    /\ iter[t] < 2 * NCPU
    /\ NextVictim(t)
    /\ UNCHANGED <<mem, caches, locks, oom, pc, arg, inuse>>

(* cache_steal up to the point where it has computed room. *)
StealBegin(t) ==
    /\ pc[t] = "steal" /\ Holds(t)
    /\ iter[t] < 2 * NCPU
    /\ Victim(t) # gcpu
    /\ cpu_cache_count[Victim(t)] \div 2 > 0
    /\ vlock' = Victim(t)
    /\ my_n' = cpu_cache_count[gcpu]
    /\ Goto(t, "steal2")
    /\ UNCHANGED <<mem, caches, glock, gcpu, oom, arg, iter, inuse>>

(* Mutant: the whole cache is stolen, whatever room the own cache has left. *)
StealRoom_Whole(n) == n

StealRoom(n) ==
    LET room == CacheSize - my_n
    IN IF room > n \div 2 THEN n \div 2 ELSE room

StealOwnLockBusy(t) ==
    /\ pc[t] = "steal2" /\ Holds(t)
    /\ vlock' = -1 /\ my_n' = 0
    /\ NextVictim(t)
    /\ Goto(t, "steal")
    /\ UNCHANGED <<mem, caches, glock, gcpu, oom, arg, inuse>>

(* The rest of cache_steal.  When it moved something the caller drops the    *)
(* global lock and pops from whichever CPU it runs on by then.               *)
StealMove(t) ==
    LET n    == cpu_cache_count[vlock]
        room == StealRoom(n)
    IN
    /\ pc[t] = "steal2" /\ Holds(t)
    /\ cpu_cache' = [cpu_cache EXCEPT ![gcpu] =
           [i \in 1 .. CacheSize |->
               IF i \in my_n + 1 .. my_n + room
               THEN cpu_cache[vlock][n - room + (i - my_n)] ELSE @[i]]]
    /\ cpu_cache_count' = [cpu_cache_count EXCEPT ![vlock] = n - room, ![gcpu] = my_n + room]
    /\ page_owner' = [p \in Page |->
           IF p \in CachedAbove(vlock, n - room) THEN Cache ELSE page_owner[p]]
    /\ vlock' = -1 /\ my_n' = 0
    /\ NextVictim(t)
    /\ \/ room > 0 /\ Goto(t, "repop") /\ Unlock
       \/ room = 0 /\ Goto(t, "steal") /\ UNCHANGED <<glock, gcpu>>
    /\ UNCHANGED <<free_list, used_bitmap, list_free_count, oom, arg, inuse>>

Repop(t) ==
    /\ pc[t] = "repop"
    /\ \E c \in CPU : CanUse(c) /\ CacheTryPop(t, c, "resteal")
    /\ SetIter(t, IF pc'[t] = "resteal" THEN iter[t] ELSE 0)
    /\ UNCHANGED <<free_list, used_bitmap, list_free_count, cpu_cache, locks, oom, arg>>

Resteal(t) ==
    /\ pc[t] = "resteal"
    /\ \E c \in CPU : Lock(t, c)
    /\ Goto(t, "steal")
    /\ UNCHANGED <<mem, caches, vlock, my_n, oom, arg, iter, inuse>>

(* pmm_oom_kill: the test of the flag, and (after kmalloc_compact, whose     *)
(* frees are ordinary calls of pmm_free_page) the store and the enqueueing.  *)
OomTest(t) ==
    /\ pc[t] = "oom"
    /\ Goto(t, IF oom_scheduled THEN "idle" ELSE "oom2")
    /\ UNCHANGED <<mem, caches, locks, oom, arg, iter, inuse>>

OomSchedule(t) ==
    /\ pc[t] = "oom2"
    /\ oom_scheduled' = TRUE
    /\ oom_item' = IF oom_item = "off" THEN "queued" ELSE "self"
    /\ Goto(t, "idle")
    /\ UNCHANGED <<mem, caches, locks, arg, iter, inuse>>

(* pmm_oom_kill_worker on the work-queue thread, which has no process.  An   *)
(* item linked to itself is never unlinked and runs again and again.         *)
OomWorker ==
    /\ oom_item # "off"
    /\ oom_item' = IF oom_item = "queued" THEN "off" ELSE "self"
    /\ oom_scheduled' = FALSE
    /\ UNCHANGED <<mem, caches, locks, ctl, inuse>>

----------------------------------------------------------------------------
(* pmm_alloc_pages (and pmm_alloc_node_pages, which calls it when NUMA is    *)
(* not available).                                                           *)
AllocPages(t) ==
    /\ pc[t] = "idle"
    /\ \E c \in CPU : Lock(t, c)
    /\ \E k \in 1 .. MaxRun : SetArg(t, k)
    /\ SetIter(t, 0)
    /\ Goto(t, "flush")
    /\ UNCHANGED <<mem, caches, vlock, my_n, oom, inuse>>

FlushOne(t) ==
    /\ pc[t] = "flush" /\ Holds(t)
    /\ iter[t] < NCPU
    /\ FlushAbove(iter[t], 0)
    /\ SetIter(t, iter[t] + 1)
    /\ UNCHANGED <<locks, oom, pc, arg, inuse>>

(* The k pages from f on are all clear in the bitmap. *)
ClearRun(f, k) == \A j \in f .. f + k - 1 : j \in Page \ used_bitmap

ScanFails(t) ==
    /\ pc[t] = "flush" /\ Holds(t)
    /\ iter[t] = NCPU
    /\ \A f \in Page : ~ClearRun(f, arg[t])
    /\ Goto(t, "idle")
    /\ Unlock
    /\ SetArg(t, 0) /\ SetIter(t, 0)
    /\ UNCHANGED <<mem, caches, vlock, my_n, oom, inuse>>

ScanFits(t) ==
    /\ pc[t] = "flush" /\ Holds(t)
    /\ iter[t] = NCPU
    /\ \E f \in Page :
        LET run == f .. f + arg[t] - 1 IN
        /\ ClearRun(f, arg[t])
        /\ \A g \in 0 .. f - 1 : ~ClearRun(g, arg[t])
        /\ used_bitmap' = used_bitmap \cup run
        /\ page_owner' = [p \in Page |-> IF p \in run THEN t ELSE page_owner[p]]
        /\ free_list' = free_list \ run
        /\ list_free_count' = list_free_count - Cardinality(free_list \cap run)
        /\ inuse' = inuse \cup run
        /\ Goto(t, IF \E p \in run : OwnerClash(p, t) THEN "halted" ELSE "idle")
    /\ Unlock
    /\ SetArg(t, 0) /\ SetIter(t, 0)
    /\ UNCHANGED <<caches, vlock, my_n, oom>>

----------------------------------------------------------------------------
(* Mutant: the owner of the pushed page is not changed. *)
Push_Unmarked(t, p, c) ==
    /\ cpu_cache' = [cpu_cache EXCEPT ![c][cpu_cache_count[c] + 1] = p]
    /\ cpu_cache_count' = [cpu_cache_count EXCEPT ![c] = cpu_cache_count[c] + 1]
    /\ Goto(t, "idle")
    /\ UNCHANGED page_owner

(* Store p in the next slot of cache c, whose owner must not be CACHE yet.   *)
Push(t, p, c) ==
    LET n == cpu_cache_count[c] IN
    IF page_owner[p] = Cache
    THEN Goto(t, "halted") /\ UNCHANGED <<page_owner, caches>>
    ELSE /\ page_owner' = [page_owner EXCEPT ![p] = Cache]
         /\ cpu_cache' = [cpu_cache EXCEPT ![c][n + 1] = p]
         /\ cpu_cache_count' = [cpu_cache_count EXCEPT ![c] = n + 1]
         /\ Goto(t, "idle")

(* pmm_free_page, fast path: cache_try_push.  A caller gives back a page it   *)
(* was handed, whichever thread allocated it; pmm_free_pages is a loop of it. *)
FreeFast(t) ==
    /\ pc[t] = "idle"
    /\ \E p \in inuse, c \in CPU :
        LET n == cpu_cache_count[c] IN
        /\ CanUse(c)
        /\ inuse' = inuse \ {p}
        /\ IF p \in Cached(c)                   \* reported and dropped
           THEN UNCHANGED <<page_owner, caches, pc, arg>>
           ELSE \/ /\ n >= CacheSize
                   /\ Goto(t, "freeslow")
                   /\ SetArg(t, p)
                   /\ UNCHANGED <<page_owner, caches>>
                \/ /\ n < CacheSize
                   /\ Push(t, p, c)
                   /\ UNCHANGED arg
    /\ UNCHANGED <<free_list, used_bitmap, list_free_count, locks, oom, iter>>

(* pmm_free_page, slow path: the bitmap test, then cache_flush_half. *)
FreeSlow(t) ==
    /\ pc[t] = "freeslow"
    /\ glock = NoThread
    /\ IF arg[t] \notin used_bitmap             \* "double free detected"
       THEN Goto(t, "idle") /\ UNCHANGED <<mem, caches, glock, gcpu>>
       ELSE /\ \E c \in CPU : Lock(t, c) /\ FlushAbove(c, cpu_cache_count[c] \div 2)
            /\ Goto(t, "freepush")
    /\ UNCHANGED <<vlock, my_n, oom, arg, iter, inuse>>

(* ... and the push under the cache lock.  The count is read again: when the  *)
(* cache has filled up in the meantime the page is freed directly.            *)
FreePush(t) ==
    LET p == arg[t] IN
    /\ pc[t] = "freepush" /\ Holds(t)
    /\ IF cpu_cache_count[gcpu] < CacheSize
       THEN Push(t, p, gcpu) /\ UNCHANGED <<free_list, used_bitmap, list_free_count>>
       ELSE IF page_owner[p] = Cache
            THEN Goto(t, "halted") /\ UNCHANGED <<mem, caches>>
            ELSE PutBack({p}, 1) /\ Goto(t, "idle") /\ UNCHANGED caches
    /\ Unlock
    /\ SetArg(t, 0)
    /\ UNCHANGED <<vlock, my_n, oom, iter, inuse>>

(* pmm_flush_cpu_cache, called when a CPU is taken offline. *)
FlushCpuCache ==
    /\ glock = NoThread
    /\ \E c \in CPU : FlushAbove(c, 0)
    /\ UNCHANGED <<locks, oom, ctl, inuse>>

----------------------------------------------------------------------------
AllocPage(t) == AllocFast(t) \/ AllocSlow(t) \/ Refill(t)
Steal(t) ==
    \/ StealExhausted(t) \/ StealSkip(t) \/ StealBegin(t) \/ StealOwnLockBusy(t)
    \/ StealMove(t) \/ Repop(t) \/ Resteal(t)
Oom(t) == OomTest(t) \/ OomSchedule(t)
AllocRun(t) == AllocPages(t) \/ FlushOne(t) \/ ScanFails(t) \/ ScanFits(t)
FreePage(t) == FreeFast(t) \/ FreeSlow(t) \/ FreePush(t)

Next ==
    \/ \E t \in Thread : AllocPage(t) \/ Steal(t) \/ Oom(t) \/ AllocRun(t) \/ FreePage(t)
    \/ OomWorker
    \/ FlushCpuCache

Spec == Init /\ [][Next]_vars

----------------------------------------------------------------------------
PcLabel == {"idle", "slow", "refill", "steal", "steal2", "repop", "resteal", "oom", "oom2",
            "flush", "freeslow", "freepush", "halted"}

(* Every variable keeps its type; in particular a cache never holds more      *)
(* than PMM_PERCPU_CACHE_SIZE pages and only a thread holds pmm_global_lock.  *)
TypeOK ==
    /\ free_list \subseteq Page
    /\ used_bitmap \subseteq Page
    /\ page_owner \in [Page -> {Unset, Cache, Rsv} \cup Thread]
    /\ list_free_count \in Int
    /\ cpu_cache \in [CPU -> [1 .. CacheSize -> Page]]
    /\ cpu_cache_count \in [CPU -> 0 .. CacheSize]
    /\ glock \in Thread \cup {NoThread}
    /\ gcpu \in CPU
    /\ vlock \in CPU \cup {-1}
    /\ my_n \in 0 .. CacheSize
    /\ oom_scheduled \in BOOLEAN
    /\ oom_item \in {"off", "queued", "self"}
    /\ pc \in [Thread -> PcLabel]
    /\ arg \in [Thread -> Nat]
    /\ iter \in [Thread -> 0 .. 2 * NCPU]
    /\ inuse \subseteq Page

(* The pages a thread inside the allocator has in hand: popped but not yet    *)
(* returned, or given back but not yet in a cache or on the list.             *)
InFlight(t) == IF pc[t] \in {"refill", "freeslow", "freepush"} THEN {arg[t]} ELSE {}

(* None of the allocator's own corruption checks (the bitmap and owner tests  *)
(* that end in cli;hlt) can fire while callers free only what they hold.      *)
(* What a halted thread would still hold is therefore immaterial.             *)
NeverHalts == \A t \in Thread : pc[t] # "halted"

(* INVARIANTS.md: any page in a per-CPU cache has page_owner CACHE and its    *)
(* bitmap bit set, whichever of push, refill or steal put it there.           *)
CachedPagesMarked ==
    \A c \in CPU : \A p \in Cached(c) : p \in used_bitmap /\ page_owner[p] = Cache

(* No page is lost or handed out twice: a page in use or in a thread's hands  *)
(* is in no cache and not on the free list, no two slots of the caches hold   *)
(* the same page, and a page marked CACHE sits in some cache.                 *)
PagesAccounted ==
    LET cached == UNION {Cached(c) : c \in CPU}
        flying == UNION {InFlight(t) : t \in Thread}
    IN
    /\ \A c, d \in CPU : \A i \in 1 .. cpu_cache_count[c], j \in 1 .. cpu_cache_count[d] :
          cpu_cache[c][i] = cpu_cache[d][j] => c = d /\ i = j
    /\ \A t, u \in Thread : t # u => InFlight(t) \cap InFlight(u) = {}
    /\ cached \cap (free_list \cup inuse \cup flying \cup Reserved) = {}
    /\ free_list \cap (inuse \cup flying \cup Reserved) = {}
    /\ inuse \cap (flying \cup Reserved) = {}
    /\ flying \cap Reserved = {}
    /\ \A p \in Page : page_owner[p] = Cache => p \in cached
    /\ \A p \in Page : page_owner[p] \in Thread => p \in inuse \cup flying

================================================================================
