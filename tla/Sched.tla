--------------------------------- MODULE Sched ---------------------------------
(* The SMP scheduler of sched.c with the CPU hotplug of smp.c: per-CPU run     *)
(* queues under sched_queue_lock, work stealing, load balancing, aging, wait   *)
(* queues, sleep, exit, join and the reaper.                                   *)
(*                                                                             *)
(* A step is one critical section, or the code up to the next point where      *)
(* another CPU or an interrupt handler can act. The run queue of a CPU and     *)
(* priority is the sequence of the threads on its linked list; rq_counts,      *)
(* rq_total and priority_bitmap are read off it. Clocks are left out: a        *)
(* deadline, a time slice or an aging interval may be over at any time.        *)
EXTENDS Integers, Sequences, FiniteSets, Functions

CONSTANTS
    Thread,        \* the threads that thread_create makes; Boot runs first
    Boot,          \* the thread named "init"
    NCPU,          \* nr_cpus
    MaxPrio,       \* THREAD_MAX_PRIO
    BasePrio,      \* [Thread -> priority given to thread_create]
    Pin,           \* [Thread -> the initial cpu_affinity]
    StealAbove,    \* the 150 of pick_next
    Slack,         \* the 2 of sched_balance_push
    WQ,            \* the wait queues the threads block on
    NewPrio,       \* arguments of sched_set_priority
    NewMask,       \* arguments of sched_set_thread_affinity
    Unplug,        \* the CPUs smp_cpu_offline may be called for
    Windows        \* may a thread be found on its way on to or off a CPU?

CPU    == 0 .. NCPU - 1
Prio   == 0 .. MaxPrio
Idle(c) == <<"idle", c>>
IdleTask == {Idle(c) : c \in CPU}
Task   == Thread \cup IdleTask
None   == <<"none">>

ASSUME SchedConstants ==
    /\ NCPU \in Nat \ {0} /\ MaxPrio \in Nat \ {0} /\ StealAbove \in Nat /\ Slack \in Nat
    /\ Boot \in Thread /\ BasePrio \in [Thread -> Prio \ {0}]
    /\ Pin \in [Thread -> SUBSET CPU \ {{}}]
    /\ NewPrio \subseteq Prio \ {0} /\ NewMask \subseteq (SUBSET CPU \ {{}})
    /\ Unplug \subseteq CPU \ {0} /\ Windows \in BOOLEAN
    /\ Thread \cap (IdleTask \cup {None}) = {}

VARIABLES
    th,            \* [Task -> state, priority, base_priority, cpu_queue, cpu_affinity]
    fresh,         \* the tasks whose saved context is thread_trampoline
    rq,            \* [CPU -> [Prio -> the list from rq_heads to rq_tails]]
    waitq,         \* [WQ -> waiters, newest first]
    joinq,         \* [Thread -> waiters of join_queue, newest first]
    joining,       \* [Thread -> the thread whose join loop it is in]
    cpu_thread,    \* [CPU -> the task whose stack the CPU is on]
    retiring,      \* [CPU -> retiring_thread]
    cpu_state,     \* [CPU -> hotplug state]
    ipi,           \* the CPUs with an offline IPI pending
    pc, peek, nxt, \* where each CPU is, or the queue it tests in sched_wake_one;
                   \* pick_next's locals
    leaving        \* [CPU -> is pick_next called from thread_exit?]

ctl  == <<pc, peek, nxt, leaving>>
wqs  == <<waitq, joinq, joining>>
hw   == <<cpu_thread, retiring, fresh>>
plug == <<cpu_state, ipi>>
vars == <<th, rq, wqs, hw, plug, ctl>>

Live(t)   == \E c \in CPU : cpu_thread[c] = t
Picked(t) == \E c \in CPU : nxt[c] = t
(* With Windows = FALSE, nobody acts on a thread that is between two stacks. *)
Reach(t)  == Windows \/ (~Live(t) /\ ~Picked(t))

Goto(c, l) == pc' = [pc EXCEPT ![c] = l]
Cur(c)     == cpu_thread[c]
Runs(c, t) == pc[c] = "run" /\ Cur(c) = t
(* Thread t, not idle and not in a join loop, is executing on CPU c. *)
Free(c, t) == Runs(c, t) /\ t \in Thread /\ joining[t] = None
(* Interrupts of CPU c are enabled: in a thread, and in sched_block between    *)
(* the release of the queue lock and the cli of schedule().                    *)
IrqOn(c)   == pc[c] = "run" \/ (pc[c] = "sched" /\ th[Cur(c)].state = "BLOCKED")

--------------------------------------------------------------------------------
(* Run queues. Q is a pair of a thread table and the run queues.               *)

Tables == [th |-> th, rq |-> rq]
Store(Q) == th' = Q.th /\ rq' = Q.rq


(* sched_add_thread_to_cpu_locked *)
AddTo(Q, t, c) ==
    [th |-> [Q.th EXCEPT ![t].state = "READY", ![t].cpuq = c],
     rq |-> [Q.rq EXCEPT ![c][Q.th[t].prio] = Append(@, t)]]

(* The CPU that sched_add_thread, called on CPU c, chooses. *)
Place(t, c) ==
    IF c \in th[t].aff THEN c
    ELSE CHOOSE d \in th[t].aff : \A e \in th[t].aff : d <= e

(* Mutant: only the head of a list can be removed. *)
Remove_HeadOnly(Q, t) ==
    [Q EXCEPT !.rq[Q.th[t].cpuq][Q.th[t].prio] = IF @ # <<>> /\ Head(@) = t THEN Tail(@) ELSE @]

(* sched_remove_thread_locked: looks where the thread says it is queued. *)
Remove(Q, t) ==
    [Q EXCEPT !.rq[Q.th[t].cpuq][Q.th[t].prio] = SelectSeq(@, LAMBDA u : u # t)]

(* bitmap_find_highest; -1 when every queue of the CPU is empty. *)
Highest(c) ==
    LET P == {p \in Prio : rq[c][p] # <<>>}
    IN  IF P = {} THEN -1 ELSE CHOOSE p \in P : \A r \in P : r <= p

Load(S)  == Cardinality(UNION {{<<d, p, i>> : i \in DOMAIN rq[d][p]} : d \in S, p \in Prio})
Total(c) == Load({c})

(* The state of a thread that a waker makes ready. *)
Woken(r) == [r EXCEPT !.state = "READY", !.prio = r.base]

(* sched_wake on CPU c: every waiter of w becomes ready, in list order. *)
WakeAll(w, c) ==
    [th |-> [t \in Task |-> IF t \in Range(w) THEN [Woken(th[t]) EXCEPT !.cpuq = Place(t, c)]
                            ELSE th[t]],
     rq |-> [d \in CPU |-> [p \in Prio |->
                rq[d][p] \o SelectSeq(w, LAMBDA t : Place(t, c) = d /\ th[t].base = p)]]]

--------------------------------------------------------------------------------
Record(s, p, c, a) == [state |-> s, prio |-> p, base |-> p, cpuq |-> c, aff |-> a]

(* sched_init and sched_init_ap; sched_init's thread runs on CPU 0. *)
Init ==
    /\ th = [t \in Task |->
                IF t = Boot THEN Record("RUNNING", BasePrio[t], 0, {0})
                ELSE IF t \in Thread THEN Record("NONE", BasePrio[t], 0, Pin[t])
                ELSE Record(IF t = Idle(0) THEN "READY" ELSE "RUNNING", 0, 0, CPU)]
    /\ fresh = {t \in Task : t \in Thread \ {Boot} \/ t = Idle(0)}
    /\ rq = [c \in CPU |-> [p \in Prio |-> <<>>]]
    /\ waitq = [q \in WQ |-> <<>>]
    /\ joinq = [t \in Thread |-> <<>>] /\ joining = [t \in Thread |-> None]
    /\ cpu_thread = [c \in CPU |-> IF c = 0 THEN Boot ELSE Idle(c)]
    /\ retiring = [c \in CPU |-> None]
    /\ cpu_state = [c \in CPU |-> "ONLINE"] /\ ipi = {}
    /\ pc = [c \in CPU |-> "run"] /\ peek = [c \in CPU |-> -1]
    /\ nxt = [c \in CPU |-> None] /\ leaving = [c \in CPU |-> FALSE]

--------------------------------------------------------------------------------
(* What a thread does.                                                         *)

(* thread_create *)
Create(c, t, u) ==
    /\ Free(c, t) /\ th[u].state = "NONE"
    /\ th' = [th EXCEPT ![u].state = "CREATED"]
    /\ UNCHANGED <<rq, wqs, hw, plug, ctl>>

(* sched_add_thread of a thread that was just created *)
Start(c, t, u) ==
    /\ Free(c, t) /\ th[u].state = "CREATED"
    /\ Store(AddTo(Tables, u, Place(u, c)))
    /\ UNCHANGED <<wqs, hw, plug, ctl>>

(* thread_yield, and the schedule() of an interrupt return or of the idle loop *)
Yield(c) ==
    /\ pc[c] = "run" /\ Goto(c, "sched")
    /\ UNCHANGED <<th, rq, wqs, hw, plug, peek, nxt, leaving>>

(* The critical section of sched_block and thread_join: off the run queue, on  *)
(* the wait queue.                                                             *)
GoBlocked(t) ==
    LET Q == IF th[t].state \in {"READY", "RUNNING"} THEN Remove(Tables, t) ELSE Tables
    IN  Store([Q EXCEPT !.th[t].state = "BLOCKED"])

(* sched_block *)
Block(c, t, q) ==
    /\ Free(c, t) /\ GoBlocked(t)
    /\ waitq' = [waitq EXCEPT ![q] = <<t>> \o @]
    /\ Goto(c, "sched")
    /\ UNCHANGED <<joinq, joining, hw, plug, peek, nxt, leaving>>

(* thread_sleep: with interrupts off, and without a look at the run queue *)
Sleep(c, t) ==
    /\ Free(c, t)
    /\ th' = [th EXCEPT ![t].state = "SLEEPING"]
    /\ Goto(c, "sched")
    /\ UNCHANGED <<rq, wqs, hw, plug, peek, nxt, leaving>>


(* One round of thread_join's loop: return when u is dead, else block on u.    *)
(* The memory of a freed thread still reads as TERMINATED until it is reused.  *)
Join(c, t, u) ==
    /\ Runs(c, t) /\ t \in Thread /\ u # t
    /\ joining[t] = u \/ (joining[t] = None /\ th[u].state \notin {"NONE", "FREED"})
    /\ IF th[u].state \in {"ZOMBIE", "TERMINATED", "FREED"}
       THEN /\ joining' = [joining EXCEPT ![t] = None]
            /\ UNCHANGED <<th, rq, joinq, ctl>>
       ELSE /\ GoBlocked(t)
            /\ joining' = [joining EXCEPT ![t] = u]
            /\ joinq' = [joinq EXCEPT ![u] = <<t>> \o @]
            /\ Goto(c, "sched") /\ UNCHANGED <<peek, nxt, leaving>>
    /\ UNCHANGED <<waitq, hw, plug>>

(* sched_finalize_retiring on CPU c, in thread table T *)
Finalize(T, c) ==
    IF retiring[c] = None THEN T ELSE [T EXCEPT ![retiring[c]].state = "TERMINATED"]


(* thread_exit up to pick_next: off the run queue, ZOMBIE, wake the joiners.   *)
Exit(c, t) ==
    /\ Free(c, t) /\ (\A u \in Range(joinq[t]) : Reach(u))
    /\ LET W == WakeAll(joinq[t], c)
           Q == Remove(W, t)
       IN  /\ th' = [Finalize(Q.th, c) EXCEPT ![t].state = "ZOMBIE"]
           /\ rq' = Q.rq
    /\ joinq' = [joinq EXCEPT ![t] = <<>>]
    /\ retiring' = [retiring EXCEPT ![c] = None]
    /\ leaving' = [leaving EXCEPT ![c] = TRUE] /\ Goto(c, "pick")
    /\ UNCHANGED <<waitq, joining, cpu_thread, fresh, plug, peek, nxt>>

(* sched_set_priority *)
SetPriority(c, t, u, p) ==
    /\ Free(c, t) /\ th[u].state \notin {"NONE", "FREED"}
    /\ LET R == [th[u] EXCEPT !.prio = p, !.base = p]
       IN  IF th[u].state = "READY"
           THEN /\ Reach(u)
                /\ Store(AddTo([Remove(Tables, u) EXCEPT !.th[u] = R], u, c))
           ELSE th' = [th EXCEPT ![u] = R] /\ UNCHANGED rq
    /\ UNCHANGED <<wqs, hw, plug, ctl>>

(* sched_set_thread_affinity; a queued thread stays where it is *)
SetAffinity(c, t, u, m) ==
    /\ Free(c, t) /\ th[u].state \notin {"NONE", "FREED"}
    /\ th' = [th EXCEPT ![u].aff = m]
    /\ UNCHANGED <<rq, wqs, hw, plug, ctl>>

--------------------------------------------------------------------------------
(* Wakers: threads and interrupt handlers on any CPU.                          *)

(* With Windows = FALSE, nobody touches a queue between the two tests of       *)
(* sched_wake_one.                                                             *)
Quiet(q) == Windows \/ \A c \in CPU : pc[c] # q

(* sched_wake *)
Wake(c, q) ==
    /\ IrqOn(c) /\ Quiet(q) /\ waitq[q] # <<>> /\ (\A t \in Range(waitq[q]) : Reach(t))
    /\ Store(WakeAll(waitq[q], c))
    /\ waitq' = [waitq EXCEPT ![q] = <<>>]
    /\ UNCHANGED <<joinq, joining, hw, plug, ctl>>

(* sched_wake_one: the test without the lock ... *)
WakeOneTest(c, q) ==
    /\ pc[c] = "run" /\ Quiet(q) /\ waitq[q] # <<>> /\ Reach(Head(waitq[q]))
    /\ Goto(c, q)
    /\ UNCHANGED <<th, rq, wqs, hw, plug, peek, nxt, leaving>>

(* Mutant: takes the head off and wakes the other end. *)
WakeOneTake_WrongEnd(c, q) ==
    /\ pc[c] = q
    /\ IF waitq[q] = <<>>
       THEN Goto(c, "panic") /\ UNCHANGED <<th, rq, waitq>>
       ELSE /\ Store(WakeAll(<<waitq[q][Len(waitq[q])]>>, c))
            /\ waitq' = [waitq EXCEPT ![q] = Tail(@)]
            /\ Goto(c, "run")
    /\ UNCHANGED <<joinq, joining, hw, plug, peek, nxt, leaving>>

(* ... and the locked part, which dereferences the head of the list. *)
WakeOneTake(c, q) ==
    /\ pc[c] = q
    /\ IF waitq[q] = <<>>
       THEN Goto(c, "panic") /\ UNCHANGED <<th, rq, waitq>>
       ELSE /\ Store(WakeAll(<<Head(waitq[q])>>, c))
            /\ waitq' = [waitq EXCEPT ![q] = Tail(@)]
            /\ Goto(c, "run")
    /\ UNCHANGED <<joinq, joining, hw, plug, peek, nxt, leaving>>

(* check_sleepers, for a sleeper whose deadline is over: from the timer tick,  *)
(* a reschedule IPI, the idle loop, and schedule() itself.                     *)
WakeSleeper(c, t) ==
    /\ pc[c] \in {"run", "sched"} /\ th[t].state = "SLEEPING" /\ Reach(t)
    /\ Store(AddTo([Tables EXCEPT !.th[t] = Woken(@)], t, th[t].cpuq))
    /\ UNCHANGED <<wqs, hw, plug, ctl>>

(* Mutant: aging past THREAD_MAX_PRIO. *)
Age_NoCap(c, t) ==
    /\ IrqOn(c) /\ t # Idle(0) /\ th[t].state = "READY" /\ Reach(t)
    /\ Store(AddTo([Remove(Tables, t) EXCEPT !.th[t].prio = @ + 1], t, c))
    /\ UNCHANGED <<wqs, hw, plug, ctl>>

(* Mutant: no aging. *)
Age_Never(c, t) == FALSE /\ UNCHANGED vars

(* The aging loop of sched_timer_tick, for a thread whose interval is over. *)
Age(c, t) ==
    /\ IrqOn(c) /\ t # Idle(0) /\ th[t].state = "READY" /\ th[t].prio < MaxPrio /\ Reach(t)
    /\ Store(AddTo([Remove(Tables, t) EXCEPT !.th[t].prio = @ + 1], t, c))
    /\ UNCHANGED <<wqs, hw, plug, ctl>>

(* sched_balance_push: the first thread of the highest queue that may run on   *)
(* a sufficiently idle CPU moves to the least loaded of those.                 *)
Targets(c, t) == {d \in th[t].aff \ {c} : Total(d) + Slack < Total(c)}
Balance(c) ==
    /\ pc[c] \in {"run", "sched"} /\ Total(c) > 1
    /\ Total(c) > Load(CPU) \div NCPU + Slack
    /\ LET w == SelectSeq(rq[c][Highest(c)], LAMBDA t : Targets(c, t) # {})
           t == Head(w)
           d == CHOOSE d \in Targets(c, t) : \A e \in th[t].aff \ {c} :
                    Total(d) < Total(e) \/ (Total(d) = Total(e) /\ d <= e)
       IN  w # <<>> /\ Reach(t) /\ Store(AddTo(Remove(Tables, t), t, d))
    /\ UNCHANGED <<wqs, hw, plug, ctl>>

(* sched_reap_zombies, called by the idle threads and the shell: frees the     *)
(* dead threads that nobody waits for. A thread that is still linked to others *)
(* on a run queue is unlinked.                                                 *)
Reap(c) ==
    LET S == {t \in Thread : th[t].state = "TERMINATED" /\ joinq[t] = <<>>}
    IN  /\ pc[c] = "run" /\ S # {}
        /\ th' = [t \in Task |-> IF t \in S THEN [th[t] EXCEPT !.state = "FREED"] ELSE th[t]]
        /\ rq' = [d \in CPU |-> [p \in Prio |->
                     IF Len(rq[d][p]) > 1 THEN SelectSeq(rq[d][p], LAMBDA t : t \notin S)
                     ELSE rq[d][p]]]
        /\ UNCHANGED <<wqs, hw, plug, ctl>>

--------------------------------------------------------------------------------
(* schedule() and the end of thread_exit.                                      *)

(* pick_next reads the bitmap of its CPU without the lock and decides where    *)
(* to look.                                                                    *)
Peek(c) ==
    /\ pc[c] \in {"sched", "pick"}
    /\ peek' = [peek EXCEPT ![c] = Highest(c)]
    /\ Goto(c, IF Highest(c) < 0 THEN "steal"
               ELSE IF Highest(c) > StealAbove /\ NCPU > 1 THEN "psteal" ELSE "take")
    /\ UNCHANGED <<th, rq, wqs, hw, plug, nxt, leaving>>

(* sched_steal_thread takes t, the first thread of the highest queue of CPU d. *)
Steals(c, d, t) ==
    /\ d # c /\ Highest(d) >= 0 /\ t = Head(rq[d][Highest(d)])
    /\ t # Idle(d) /\ c \in th[t].aff /\ Reach(t)


Stolen(c, t) == [Remove(Tables, t) EXCEPT !.th[t].cpuq = c]

(* Stealing when the own queue is empty, was emptied meanwhile, or is locked:  *)
(* a sibling's thread, or the idle thread. A contended lock skips a sibling.   *)
Steal(c) ==
    /\ pc[c] = "steal"
    /\ \/ \E d \in CPU, t \in Task :
             Steals(c, d, t) /\ Store(Stolen(c, t)) /\ nxt' = [nxt EXCEPT ![c] = t]
       \/ /\ NCPU > 1 \/ \A d \in CPU, t \in Task : ~Steals(c, d, t)
          /\ nxt' = [nxt EXCEPT ![c] = Idle(c)] /\ UNCHANGED <<th, rq>>
    /\ Goto(c, "commit")
    /\ UNCHANGED <<wqs, hw, plug, peek, leaving>>

(* Mutant: a stolen thread that is not taken is dropped. *)
ProactiveSteal_Drops(c) ==
    /\ pc[c] = "psteal"
    /\ \/ \E d \in CPU, t \in Task :
             /\ Steals(c, d, t) /\ Store(Stolen(c, t))
             /\ IF th[t].prio < peek[c]
                THEN nxt' = [nxt EXCEPT ![c] = t] /\ Goto(c, "commit")
                ELSE Goto(c, "take") /\ UNCHANGED nxt
       \/ Goto(c, "take") /\ UNCHANGED <<th, rq, nxt>>
    /\ UNCHANGED <<wqs, hw, plug, peek, leaving>>

(* Proactive stealing above StealAbove: a stolen thread with a smaller number  *)
(* is taken, any other is queued here.                                         *)
ProactiveSteal(c) ==
    /\ pc[c] = "psteal"
    /\ \/ \E d \in CPU, t \in Task :
             /\ Steals(c, d, t)
             /\ IF th[t].prio < peek[c]
                THEN /\ Store(Stolen(c, t)) /\ nxt' = [nxt EXCEPT ![c] = t] /\ Goto(c, "commit")
                ELSE /\ Store(AddTo(Stolen(c, t), t, Place(t, c))) /\ Goto(c, "take")
                     /\ UNCHANGED nxt
       \/ Goto(c, "take") /\ UNCHANGED <<th, rq, nxt>>
    /\ UNCHANGED <<wqs, hw, plug, peek, leaving>>

(* The locked part of pick_next. *)
Take(c) ==
    /\ pc[c] = "take"
    /\ LET w == rq[c][peek[c]]
       IN  IF w = <<>>
           THEN Goto(c, "steal") /\ UNCHANGED <<rq, nxt>>
           ELSE /\ Windows \/ ~Live(Head(w))
                /\ rq' = [rq EXCEPT ![c][peek[c]] = Tail(@)]
                /\ nxt' = [nxt EXCEPT ![c] = Head(w)]
                /\ Goto(c, "commit")
    /\ UNCHANGED <<th, wqs, hw, plug, peek, leaving>>

(* sched_queue_lock is contended: skip the own queue. *)
TakeContended(c) ==
    /\ pc[c] = "take" /\ NCPU > 1
    /\ Goto(c, "steal")
    /\ UNCHANGED <<th, rq, wqs, hw, plug, peek, nxt, leaving>>

(* schedule() after pick_next: a thread that is still running goes back on a   *)
(* run queue, before its stack pointer is saved.                               *)
Commit(c) ==
    /\ pc[c] = "commit"
    /\ LET t == Cur(c)
           again == ~leaving[c] /\ th[t].state = "RUNNING" /\ t # Idle(c)
           R == IF nxt[c] = t THEN th[t] ELSE [th[t] EXCEPT !.prio = th[t].base]
       IN  /\ IF again THEN Store(AddTo([Tables EXCEPT !.th[t] = R], t, Place(t, c)))
              ELSE UNCHANGED <<th, rq>>
           /\ IF nxt[c] = t /\ ~leaving[c]
              THEN Goto(c, "run") /\ nxt' = [nxt EXCEPT ![c] = None]
              ELSE Goto(c, "switch") /\ UNCHANGED nxt
    /\ peek' = [peek EXCEPT ![c] = -1]
    /\ UNCHANGED <<wqs, hw, plug, leaving>>

(* switch_context. The CPU continues in the next thread: after its own         *)
(* switch_context or in the idle loop, which finalize the retiring thread, or  *)
(* in the trampoline of a new thread, which does not.                          *)
Switch(c) ==
    /\ pc[c] = "switch"
    /\ LET n == nxt[c]
           r == IF leaving[c] THEN Cur(c) ELSE retiring[c]
           ends == r # None /\ n \notin fresh \cap Thread
           T == [th EXCEPT ![n].state = "RUNNING"]
       IN  /\ cpu_thread' = [cpu_thread EXCEPT ![c] = n]
           /\ th' = IF ends THEN [T EXCEPT ![r].state = "TERMINATED"] ELSE T
           /\ retiring' = [retiring EXCEPT ![c] = IF ends THEN None ELSE r]
           /\ fresh' = fresh \ {n}
    /\ nxt' = [nxt EXCEPT ![c] = None] /\ leaving' = [leaving EXCEPT ![c] = FALSE]
    /\ Goto(c, "run")
    /\ UNCHANGED <<rq, wqs, plug, peek>>

--------------------------------------------------------------------------------
(* CPU hotplug.                                                                *)

(* The threads on the queues of CPU d, level after level. *)
Listed(d) ==
    LET upto[p \in Prio] == IF p = 0 THEN rq[d][0] ELSE upto[p - 1] \o rq[d][p]
    IN  upto[MaxPrio]


(* sched_migrate_cpu(d, 0): each thread goes to the end of CPU 0's list of its *)
(* own priority.                                                               *)
MigrateCpu(d) ==
    [th |-> [t \in Task |-> IF t \in Range(Listed(d)) THEN [th[t] EXCEPT !.cpuq = 0] ELSE th[t]],
     rq |-> [rq EXCEPT ![d] = [p \in Prio |-> <<>>],
                       ![0] = [p \in Prio |->
                           rq[0][p] \o SelectSeq(Listed(d), LAMBDA t : th[t].prio = p)]]]

(* smp_cpu_offline up to the IPI. The store of GOING_DOWN before the migration *)
(* is part of the step: who queues or steals a thread in between could as well *)
(* have done so before or after both.                                          *)
CpuOffline(c, t, d) ==
    /\ Free(c, t) /\ d \in Unplug /\ cpu_state[d] = "ONLINE" /\ d \notin ipi
    /\ \A u \in Range(Listed(d)) : Reach(u)
    /\ cpu_state' = [cpu_state EXCEPT ![d] = "GOING_DOWN"] /\ ipi' = ipi \cup {d}
    /\ Store(MigrateCpu(d))
    /\ UNCHANGED <<wqs, hw, ctl>>

(* smp_handle_offline, and the schedule() on the return from the interrupt:    *)
(* the thread that was interrupted is put on CPU 0's queue.                    *)
HandleOffline(d) ==
    /\ d \in ipi /\ IrqOn(d) /\ (Windows \/ pc[d] = "run")
    /\ ipi' = ipi \ {d} /\ cpu_state' = [cpu_state EXCEPT ![d] = "OFFLINE"]
    /\ IF Cur(d) = Idle(d) THEN UNCHANGED <<th, rq>> ELSE Store(AddTo(Tables, Cur(d), 0))
    /\ Goto(d, "sched")
    /\ UNCHANGED <<wqs, hw, peek, nxt, leaving>>

(* smp_cpu_offline gives up waiting for the acknowledgement. *)
OfflineTimeout(d) ==
    /\ cpu_state[d] = "GOING_DOWN"
    /\ cpu_state' = [cpu_state EXCEPT ![d] = "OFFLINE"]
    /\ UNCHANGED <<th, rq, wqs, hw, ipi, ctl>>

(* smp_cpu_online *)
CpuOnline(c, t, d) ==
    /\ Free(c, t) /\ d \in Unplug /\ cpu_state[d] = "OFFLINE"
    /\ cpu_state' = [cpu_state EXCEPT ![d] = "ONLINE"]
    /\ UNCHANGED <<th, rq, wqs, hw, ipi, ctl>>

--------------------------------------------------------------------------------
ThreadStep(c, t) ==
    \/ Sleep(c, t) \/ Exit(c, t)
    \/ \E u \in Thread : Create(c, t, u) \/ Start(c, t, u) \/ Join(c, t, u)
    \/ \E q \in WQ : Block(c, t, q)
    \/ \E u \in Thread, p \in NewPrio : SetPriority(c, t, u, p)
    \/ \E u \in Thread, m \in NewMask : SetAffinity(c, t, u, m)
    \/ \E d \in Unplug : CpuOffline(c, t, d) \/ CpuOnline(c, t, d)

SchedStep(c) ==
    Peek(c) \/ Steal(c) \/ ProactiveSteal(c) \/ Take(c) \/ TakeContended(c) \/ Commit(c) \/ Switch(c)

KernelStep(c) ==
    \/ Yield(c) \/ Balance(c) \/ Reap(c) \/ HandleOffline(c) \/ OfflineTimeout(c)
    \/ \E q \in WQ : Wake(c, q) \/ WakeOneTest(c, q) \/ WakeOneTake(c, q)
    \/ \E t \in Task : WakeSleeper(c, t) \/ Age(c, t)

Next == \E c \in CPU : SchedStep(c) \/ KernelStep(c) \/ \E t \in Thread : ThreadStep(c, t)
Spec == Init /\ [][Next]_vars

--------------------------------------------------------------------------------
States == {"NONE", "CREATED", "READY", "RUNNING", "BLOCKED", "SLEEPING", "ZOMBIE", "TERMINATED", "FREED"}
Labels == {"run", "sched", "pick", "steal", "psteal", "take", "commit", "switch", "panic"}
              \cup WQ

(* Every variable has its type: lists hold threads and locals are in range. *)
TypeOK ==
    /\ th \in [Task -> [state : States, prio : Prio, base : Prio, cpuq : CPU, aff : SUBSET CPU]]
    /\ fresh \subseteq Task
    /\ rq \in [CPU -> [Prio -> Seq(Task)]]
    /\ waitq \in [WQ -> Seq(Thread)] /\ joinq \in [Thread -> Seq(Thread)]
    /\ joining \in [Thread -> Thread \cup {None}]
    /\ cpu_thread \in [CPU -> Task] /\ retiring \in [CPU -> Thread \cup {None}]
    /\ cpu_state \in [CPU -> {"ONLINE", "GOING_DOWN", "OFFLINE"}] /\ ipi \subseteq CPU
    /\ pc \in [CPU -> Labels] /\ peek \in [CPU -> -1 .. MaxPrio]
    /\ nxt \in [CPU -> Task \cup {None}] /\ leaving \in [CPU -> BOOLEAN]

(* The places of task t on the run queues. *)
Places(t) == UNION {{<<c, p, i>> : i \in {j \in DOMAIN rq[c][p] : rq[c][p][j] = t}} :
                        c \in CPU, p \in Prio}
Queued(t) == Places(t) # {}

(* No thread is on two run queues or twice on one (INVARIANTS.md, scheduler). *)
QueuedOnce == \A t \in Task : Cardinality(Places(t)) <= 1


(* A READY thread that is on no CPU and not just being picked is on a run      *)
(* queue: otherwise nothing would ever run it (INVARIANTS.md, scheduler).      *)
ReadyIsQueued ==
    \A t \in Thread : th[t].state = "READY" /\ ~Live(t) /\ ~Picked(t) => Queued(t)


(* A thread is BLOCKED exactly when it is on one wait queue, once: a waker     *)
(* finds every blocked thread and wakes it only once.                          *)
Waits(t) ==
    UNION {{<<q, i>> : i \in {j \in DOMAIN waitq[q] : waitq[q][j] = t}} : q \in WQ}
        \cup UNION {{<<u, i>> : i \in {j \in DOMAIN joinq[u] : joinq[u][j] = t}} : u \in Thread}
BlockedIsWaiting ==
    \A t \in Thread : Cardinality(Waits(t)) = IF th[t].state = "BLOCKED" THEN 1 ELSE 0



--------------------------------------------------------------------------------
(* On one CPU, outside the windows, and with nobody changing priorities: the   *)
(* timer interrupt preempts a running thread, schedule() and sched_wake_one    *)
(* run to their ends, and the ticks age a READY thread again and again, since  *)
(* interrupts are enabled between any two calls of schedule().                 *)
FairSpec ==
    /\ Spec
    /\ \A c \in CPU :
          /\ WF_vars(SchedStep(c)) /\ WF_vars(Yield(c))
          /\ WF_vars(\E q \in WQ : WakeOneTake(c, q))
    /\ \A c \in CPU, t \in Thread : SF_vars(Age(c, t))

(* A READY thread eventually runs, whatever the priorities of the others:      *)
(* aging moves it up to the level where the queue is first come, first served. *)
ReadyRuns == \A t \in Thread : th[t].state = "READY" ~> th[t].state = "RUNNING"
================================================================================
