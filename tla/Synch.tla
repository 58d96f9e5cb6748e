-------------------------------- MODULE Synch --------------------------------
(***************************************************************************)
(* threads/synch.c over the scheduler of Thread.tla: semaphores, locks and *)
(* condition variables, used by threads that are created, preempted and    *)
(* destroyed, and by interrupt handlers.  Each action is a stretch of code *)
(* that runs with interrupts off, or that touches one shared variable;     *)
(* between two actions the timer may give the CPU to another thread.       *)
(*                                                                         *)
(* The callers are arbitrary threads that keep to the ASSERTs of synch.c   *)
(* (a lock is released, waited on and signalled by its holder only) and    *)
(* exit holding no lock.                                                   *)
(***************************************************************************)
EXTENDS Thread, FiniteSets

CONSTANTS
    Semas,         \* semaphores that are not part of a lock
    idle_started,  \* thread_start's semaphore
    Locks,
    tid_lock,      \* the lock of allocate_tid
    Conds,
    lock_of,       \* lock_of[c]: the lock condition variable c goes with
    MaxValue,      \* bound: a semaphore is upped to at most this value
    MaxTid         \* bound: thread identifiers handed out

ASSUME SynchAssumption ==
    /\ idle_started \in Semas
    /\ tid_lock \in Locks
    /\ lock_of \in [Conds -> Locks \ {tid_lock}]
    /\ MaxValue \in Nat /\ MaxTid \in Nat
    /\ NULL \notin Semas \cup Locks \cup Conds
    /\ Semas \cap Locks = {} /\ Semas \cap Threads = {}
    /\ Locks \cap Threads = {} /\ Locks \cap Conds = {}

\* The semaphores: plain ones, one in each lock, and the one in the struct
\* semaphore_elem on the stack of a thread in cond_wait, named by the thread.
Sem == Semas \cup Locks \cup Threads

VARIABLES
    value,         \* value[s] of each semaphore
    waiters,       \* waiters[s]: threads queued on it through `elem'
    holder,        \* holder[l]: the lock's holder field
    cond_waiters,  \* cond_waiters[c]: threads whose semaphore_elem is queued
    pc,            \* where each thread is in synch.c or thread.c
    arg,           \* the semaphore, lock or condition variable it works on
    peer,          \* the thread it is creating, or signalling
    slept,         \* inside sema_down's loop, having blocked at least once
    tid,           \* tid[t]
    next_tid

svars == <<value, waiters, holder, cond_waiters, pc, arg, peer, slept, tid,
           next_tid>>
vars == <<tvars, svars>>

\* pc: "run" is outside the primitives; every other value names the statement
\* the thread executes next.
PC == {"run", "sema_down", "lock_down", "lock_hold", "lock_up",
       "cond_release", "cond_up", "cond_down", "signal_up", "broadcast",
       "broadcast_up", "tid_read", "tid_write", "tid_release", "unblock"}

\* The running thread, outside the primitives and not idle().
me == current

CanCall == current # Idle /\ pc[me] = "run"

\* A thread that slept in sema_down resumes with interrupts off and keeps them
\* off until the loop is left.
InterruptsOn == ~slept[me]

\* lock_held_by_current_thread
HeldByMe(l) == holder[l] = me

Goto(label) == pc' = [pc EXCEPT ![me] = label]

-----------------------------------------------------------------------------
(* sema_down, sema_try_down and sema_up. *)

\* The semaphore the running thread is downing.
DownSema == IF pc[me] = "cond_down" THEN me ELSE arg[me]

\* One turn of sema_down's loop, interrupts off: take a unit, or queue and
\* block.  lock_acquire goes on to set the holder; cond_wait goes on to acquire
\* its lock again.
SemaDown ==
    LET s == DownSema IN
    /\ pc[me] \in {"sema_down", "lock_down", "cond_down"}
    /\ \/ /\ value[s] > 0
          /\ value' = [value EXCEPT ![s] = @ - 1]
          /\ slept' = [slept EXCEPT ![me] = FALSE]
          /\ Goto(CASE pc[me] = "sema_down" -> "run"
                    [] pc[me] = "lock_down" -> "lock_hold"
                    [] OTHER -> "lock_down")
          /\ arg' = IF pc[me] = "cond_down"
                    THEN [arg EXCEPT ![me] = lock_of[arg[me]]] ELSE arg
          /\ UNCHANGED <<waiters, tvars>>
       \/ /\ value[s] = 0
          /\ waiters' = [waiters EXCEPT ![s] = Append(@, me)]
          /\ slept' = [slept EXCEPT ![me] = TRUE]
          /\ Block
          /\ UNCHANGED <<value, pc, arg>>
    /\ UNCHANGED <<holder, cond_waiters, peer, tid, next_tid>>

\* Increment a semaphore and wake nobody.
silent_up(s, hlt) ==
    /\ value' = [value EXCEPT ![s] = @ + 1]
    /\ UNCHANGED <<waiters, current, status, ready_list, all_list, idle_thread,
                   thread_ticks>>
    /\ hlt

\* Mutants of sema_up: list_front for list_pop_front; wake only at value 0.
sema_up_front(s, hlt) ==
    /\ value' = [value EXCEPT ![s] = @ + 1]
    /\ IF waiters[s] # <<>> THEN thread_unblock(Head(waiters[s]))
       ELSE UNCHANGED <<current, status, ready_list, all_list, idle_thread,
                        thread_ticks>>
    /\ hlt
    /\ UNCHANGED waiters

sema_up_once(s, hlt) ==
    \/ value[s] > 0 /\ silent_up(s, hlt)
    \/ /\ value[s] = 0 /\ waiters[s] # <<>>
       /\ value' = [value EXCEPT ![s] = 1]
       /\ thread_unblock(Head(waiters[s]))
       /\ waiters' = [waiters EXCEPT ![s] = Tail(@)]
       /\ hlt
    \/ value[s] = 0 /\ waiters[s] = <<>> /\ silent_up(s, hlt)

\* sema_up(s): unblock the front waiter, then increment.  hlt says what the
\* call does to idle_pc (an interrupt handler takes idle() out of `hlt').
sema_up(s, hlt) ==
    /\ value' = [value EXCEPT ![s] = @ + 1]
    /\ \/ /\ waiters[s] # <<>>
          /\ thread_unblock(Head(waiters[s]))
          /\ waiters' = [waiters EXCEPT ![s] = Tail(@)]
       \/ /\ waiters[s] = <<>>
          /\ UNCHANGED <<waiters, current, status, ready_list, all_list,
                         idle_thread, thread_ticks>>
    /\ hlt

\* A thread calls sema_down (s).
CallSemaDown(s) ==
    /\ CanCall
    /\ Goto("sema_down")
    /\ arg' = [arg EXCEPT ![me] = s]
    /\ UNCHANGED <<tvars, value, waiters, holder, cond_waiters, peer, slept,
                   tid, next_tid>>

\* A thread calls sema_try_down (s) and gets a unit.
CallSemaTryDown(s) ==
    /\ CanCall
    /\ value[s] > 0
    /\ value' = [value EXCEPT ![s] = @ - 1]
    /\ UNCHANGED <<tvars, waiters, holder, cond_waiters, pc, arg, peer, slept,
                   tid, next_tid>>

\* A thread calls sema_up (s).
CallSemaUp(s) ==
    /\ CanCall
    /\ value[s] < MaxValue
    /\ sema_up(s, UNCHANGED idle_pc)
    /\ UNCHANGED <<holder, cond_waiters, pc, arg, peer, slept, tid, next_tid>>

\* An interrupt handler calls sema_up (s).
IntrSemaUp(s) ==
    /\ InterruptsOn
    /\ value[s] < MaxValue
    /\ sema_up(s, leave_hlt)
    /\ UNCHANGED <<holder, cond_waiters, pc, arg, peer, slept, tid, next_tid>>

-----------------------------------------------------------------------------
(* Locks. *)

lock_acquire(l) ==
    /\ CanCall /\ l # tid_lock
    /\ ~HeldByMe(l)
    /\ Goto("lock_down")
    /\ arg' = [arg EXCEPT ![me] = l]
    /\ UNCHANGED <<tvars, value, waiters, holder, cond_waiters, peer, slept,
                   tid, next_tid>>

\* lock_try_acquire, when the semaphore has a unit.
lock_try_acquire(l) ==
    /\ CanCall /\ l # tid_lock
    /\ ~HeldByMe(l)
    /\ value[l] > 0
    /\ value' = [value EXCEPT ![l] = @ - 1]
    /\ Goto("lock_hold")
    /\ arg' = [arg EXCEPT ![me] = l]
    /\ UNCHANGED <<tvars, waiters, holder, cond_waiters, peer, slept, tid,
                   next_tid>>

\* The end of lock_acquire and of lock_try_acquire.
LockHold ==
    /\ pc[me] = "lock_hold"
    /\ holder' = [holder EXCEPT ![arg[me]] = me]
    /\ Goto(IF arg[me] = tid_lock THEN "tid_read" ELSE "run")
    /\ UNCHANGED <<tvars, value, waiters, cond_waiters, arg, peer, slept, tid,
                   next_tid>>

\* Mutant of lock_release: holder is not reset.
lock_release_held(l) ==
    /\ CanCall
    /\ HeldByMe(l)
    /\ Goto("lock_up")
    /\ arg' = [arg EXCEPT ![me] = l]
    /\ UNCHANGED <<tvars, value, waiters, holder, cond_waiters, peer, slept, tid,
                   next_tid>>

\* lock_release up to the sema_up.
lock_release(l) ==
    /\ CanCall
    /\ HeldByMe(l)
    /\ holder' = [holder EXCEPT ![l] = NULL]
    /\ Goto("lock_up")
    /\ arg' = [arg EXCEPT ![me] = l]
    /\ UNCHANGED <<tvars, value, waiters, cond_waiters, peer, slept, tid,
                   next_tid>>

\* Mutant of LockUp: the waiters are not woken.
LockUp_silent ==
    /\ pc[me] \in {"lock_up", "cond_up"}
    /\ silent_up(IF pc[me] = "cond_up" THEN lock_of[arg[me]] ELSE arg[me],
                 UNCHANGED idle_pc)
    /\ Goto(CASE pc[me] = "cond_up" -> "cond_down"
              [] arg[me] = tid_lock -> "unblock"
              [] OTHER -> "run")
    /\ UNCHANGED <<holder, cond_waiters, arg, peer, slept, tid, next_tid>>

\* The sema_up of lock_release; cond_wait and thread_create go on from there.
LockUp ==
    /\ pc[me] \in {"lock_up", "cond_up"}
    /\ sema_up(IF pc[me] = "cond_up" THEN lock_of[arg[me]] ELSE arg[me],
               UNCHANGED idle_pc)
    /\ Goto(CASE pc[me] = "cond_up" -> "cond_down"
              [] arg[me] = tid_lock -> "unblock"
              [] OTHER -> "run")
    /\ UNCHANGED <<holder, cond_waiters, arg, peer, slept, tid, next_tid>>

-----------------------------------------------------------------------------
(* Condition variables. *)

\* cond_wait: a fresh semaphore_elem is queued on the condition variable.
cond_wait(c) ==
    /\ CanCall
    /\ HeldByMe(lock_of[c])
    /\ value' = [value EXCEPT ![me] = 0]
    /\ waiters' = [waiters EXCEPT ![me] = <<>>]
    /\ cond_waiters' = [cond_waiters EXCEPT ![c] = Append(@, me)]
    /\ arg' = [arg EXCEPT ![me] = c]
    /\ Goto("cond_release")
    /\ UNCHANGED <<tvars, holder, peer, slept, tid, next_tid>>

\* cond_wait's lock_release up to the sema_up.
CondRelease ==
    /\ pc[me] = "cond_release"
    /\ holder' = [holder EXCEPT ![lock_of[arg[me]]] = NULL]
    /\ Goto("cond_up")
    /\ UNCHANGED <<tvars, value, waiters, cond_waiters, arg, peer, slept, tid,
                   next_tid>>

\* cond_signal's list_pop_front.
PopWaiter(c, label) ==
    /\ cond_waiters[c] # <<>>
    /\ peer' = [peer EXCEPT ![me] = Head(cond_waiters[c])]
    /\ cond_waiters' = [cond_waiters EXCEPT ![c] = Tail(@)]
    /\ Goto(label)
    /\ UNCHANGED <<tvars, value, waiters, holder, slept, tid, next_tid>>

\* Mutant of cond_signal: the caller need not hold the lock.
cond_signal_unlocked(c) == CanCall /\ PopWaiter(c, "signal_up") /\ UNCHANGED arg

cond_signal(c) ==
    /\ CanCall
    /\ HeldByMe(lock_of[c])
    /\ PopWaiter(c, "signal_up")
    /\ UNCHANGED arg

cond_broadcast(c) ==
    /\ CanCall
    /\ HeldByMe(lock_of[c])
    /\ Goto("broadcast")
    /\ arg' = [arg EXCEPT ![me] = c]
    /\ UNCHANGED <<tvars, value, waiters, holder, cond_waiters, peer, slept,
                   tid, next_tid>>

\* One turn of cond_broadcast's loop, up to cond_signal's sema_up.
Broadcast ==
    /\ pc[me] = "broadcast"
    /\ \/ PopWaiter(arg[me], "broadcast_up") /\ UNCHANGED arg
       \/ /\ cond_waiters[arg[me]] = <<>>
          /\ Goto("run")
          /\ UNCHANGED <<tvars, value, waiters, holder, cond_waiters, arg,
                         peer, slept, tid, next_tid>>

\* Mutant of SignalUp: the waiting thread is not woken.
SignalUp_silent ==
    /\ pc[me] \in {"signal_up", "broadcast_up"}
    /\ silent_up(peer[me], UNCHANGED idle_pc)
    /\ peer' = [peer EXCEPT ![me] = NULL]
    /\ Goto(IF pc[me] = "signal_up" THEN "run" ELSE "broadcast")
    /\ UNCHANGED <<holder, cond_waiters, arg, slept, tid, next_tid>>

\* cond_signal's sema_up on the popped waiter's semaphore.
SignalUp ==
    /\ pc[me] \in {"signal_up", "broadcast_up"}
    /\ sema_up(peer[me], UNCHANGED idle_pc)
    /\ peer' = [peer EXCEPT ![me] = NULL]
    /\ Goto(IF pc[me] = "signal_up" THEN "run" ELSE "broadcast")
    /\ UNCHANGED <<holder, cond_waiters, arg, slept, tid, next_tid>>

-----------------------------------------------------------------------------
(* thread_create, thread_exit, preemption. *)

\* Mutant of thread_create: allocate_tid without tid_lock.
thread_create_unlocked(t) ==
    /\ CanCall
    /\ next_tid <= MaxTid
    /\ init_thread(t)
    /\ pc' = [pc EXCEPT ![me] = "tid_read", ![t] = "run"]
    /\ arg' = [arg EXCEPT ![me] = tid_lock]
    /\ peer' = [peer EXCEPT ![me] = t]
    /\ UNCHANGED <<value, waiters, holder, cond_waiters, slept, tid, next_tid>>

\* thread_create up to allocate_tid's lock_acquire.
thread_create(t) ==
    /\ CanCall
    /\ next_tid <= MaxTid
    /\ init_thread(t)
    /\ pc' = [pc EXCEPT ![me] = "lock_down", ![t] = "run"]
    /\ arg' = [arg EXCEPT ![me] = tid_lock]
    /\ peer' = [peer EXCEPT ![me] = t]
    /\ UNCHANGED <<value, waiters, holder, cond_waiters, slept, tid, next_tid>>

\* allocate_tid: tid = next_tid++, the load and then the store.
TidRead ==
    /\ pc[me] = "tid_read"
    /\ tid' = [tid EXCEPT ![peer[me]] = next_tid]
    /\ Goto("tid_write")
    /\ UNCHANGED <<tvars, value, waiters, holder, cond_waiters, arg, peer,
                   slept, next_tid>>

TidWrite ==
    /\ pc[me] = "tid_write"
    /\ next_tid' = tid[peer[me]] + 1
    /\ Goto("tid_release")
    /\ UNCHANGED <<tvars, value, waiters, holder, cond_waiters, arg, peer,
                   slept, tid>>

\* allocate_tid's lock_release up to the sema_up.
TidRelease ==
    /\ pc[me] = "tid_release"
    /\ holder' = [holder EXCEPT ![tid_lock] = NULL]
    /\ Goto("lock_up")
    /\ UNCHANGED <<tvars, value, waiters, cond_waiters, arg, peer, slept, tid,
                   next_tid>>

\* The end of thread_create: the new thread may be scheduled from here on.
CreateUnblock ==
    /\ pc[me] = "unblock"
    /\ Unblock(peer[me])
    /\ peer' = [peer EXCEPT ![me] = NULL]
    /\ Goto("run")
    /\ UNCHANGED <<value, waiters, holder, cond_waiters, arg, slept, tid,
                   next_tid>>

\* thread_exit's last part.
thread_exit ==
    /\ CanCall
    /\ \A l \in Locks : ~HeldByMe(l)
    /\ exit_schedule
    /\ tid' = [tid EXCEPT ![me] = 0]
    /\ UNCHANGED <<value, waiters, holder, cond_waiters, pc, arg, peer, slept,
                   next_tid>>

CallYield == CanCall /\ Yield /\ UNCHANGED svars

IdleStart == idle_start /\ UNCHANGED svars

\* Mutant of IdleBlock: it halts without blocking.
IdleBlock_hlt ==
    /\ current = Idle /\ idle_pc = "block" /\ idle_pc' = "hlt"
    /\ UNCHANGED <<current, status, ready_list, all_list, idle_thread, thread_ticks,
                   svars>>

IdleUp ==
    /\ current = Idle /\ idle_pc = "started"
    /\ sema_up(idle_started, idle_pc' = "block")
    /\ UNCHANGED <<holder, cond_waiters, pc, arg, peer, slept, tid, next_tid>>

IdleBlock == idle_block /\ UNCHANGED svars

Tick == InterruptsOn /\ thread_tick /\ UNCHANGED svars

-----------------------------------------------------------------------------
Init ==
    /\ ThreadInit
    /\ value = [s \in Sem |-> IF s \in Locks THEN 1 ELSE 0]
    /\ waiters = [s \in Sem |-> <<>>]
    /\ holder = [l \in Locks |-> NULL]
    /\ cond_waiters = [c \in Conds |-> <<>>]
    /\ pc = [t \in Threads |-> IF t = initial_thread THEN "sema_down" ELSE "run"]
    /\ arg = [t \in Threads |-> IF t = initial_thread THEN idle_started ELSE NULL]
    /\ peer = [t \in Threads |-> NULL]
    /\ slept = [t \in Threads |-> FALSE]
    /\ tid = [t \in Threads |-> CASE t = initial_thread -> 1
                                  [] t = Idle -> 2
                                  [] OTHER -> 0]
    /\ next_tid = 3

\* Plain semaphores threads and interrupt handlers use after start-up.
UserSemas == Semas \ {idle_started}

Next ==
    \/ SemaDown \/ LockHold \/ LockUp \/ CondRelease \/ Broadcast \/ SignalUp
    \/ TidRead \/ TidWrite \/ TidRelease \/ CreateUnblock
    \/ thread_exit \/ CallYield \/ IdleStart \/ IdleUp \/ IdleBlock \/ Tick
    \/ \E s \in UserSemas : \/ CallSemaDown(s) \/ CallSemaTryDown(s)
                            \/ CallSemaUp(s) \/ IntrSemaUp(s)
    \/ \E l \in Locks : \/ lock_acquire(l) \/ lock_try_acquire(l)
                        \/ lock_release(l)
    \/ \E c \in Conds : cond_wait(c) \/ cond_signal(c) \/ cond_broadcast(c)
    \/ \E t \in Threads : thread_create(t)

Spec == Init /\ [][Next]_vars

\* The next statement of the running thread inside a primitive, or of idle().
Step ==
    \/ SemaDown \/ LockHold \/ LockUp \/ CondRelease \/ Broadcast \/ SignalUp
    \/ TidRead \/ TidWrite \/ TidRelease \/ CreateUnblock
    \/ IdleStart \/ IdleUp \/ IdleBlock

\* The timer keeps interrupting, and a thread that keeps getting the CPU
\* executes its next statement: a time slice is far longer than one statement.
\* Nothing is assumed of what threads call outside the primitives.
Fairness ==
    /\ WF_vars(Tick)
    /\ \A t \in Threads : SF_vars(current = t /\ Step)

FairSpec == Spec /\ Fairness

-----------------------------------------------------------------------------
\* Every variable holds a value of its C type.
TypeOK ==
    /\ ThreadTypeOK
    /\ value \in [Sem -> Nat]
    /\ waiters \in [Sem -> Seq(Threads)]
    /\ holder \in [Locks -> Threads \cup {NULL}]
    /\ cond_waiters \in [Conds -> Seq(Threads)]
    /\ pc \in [Threads -> PC]
    /\ arg \in [Threads -> Semas \cup Locks \cup Conds \cup {NULL}]
    /\ peer \in [Threads -> Threads \cup {NULL}]
    /\ slept \in [Threads -> BOOLEAN]
    /\ tid \in [Threads -> Nat]
    /\ next_tid \in Nat

\* Thread t has taken lock l's unit and not yet given it back: from the end of
\* lock_acquire's sema_down to lock_release's sema_up.
Owns(t, l) ==
    \/ holder[l] = t
    \/ pc[t] \in {"lock_hold", "lock_up"} /\ arg[t] = l
    \/ pc[t] = "cond_up" /\ lock_of[arg[t]] = l

\* A lock has at most one owner, and its semaphore is 1 exactly when it has none,
\* although holder is written outside the interrupts-off part of lock_acquire
\* and lock_release.
LockExclusive ==
    \A l \in Locks :
        /\ value[l] \in {0, 1}
        /\ value[l] = 1 <=> \A t \in Threads : ~Owns(t, l)
        /\ \A t, u \in Threads : Owns(t, l) /\ Owns(u, l) => t = u

\* A thread being built by thread_create: blocked, and on no list.
BeingCreated(t) ==
    \E u \in Threads :
        /\ peer[u] = t
        /\ pc[u] \in {"lock_down", "lock_hold", "lock_up", "tid_read",
                      "tid_write", "tid_release", "unblock"}

\* A blocked thread other than idle() waits on exactly the semaphore it is
\* downing, once, or is being created; no other thread is on a waiters list.
\* With RunQueueExact: `elem' is never on two lists (the comment in thread.h).
BlockedExact ==
    \A t \in Threads, s \in Sem :
        /\ Distinct(waiters[s])
        /\ t \in Elems(waiters[s]) <=>
               /\ status[t] = "BLOCKED" /\ t # Idle /\ ~BeingCreated(t)
               /\ pc[t] \in {"sema_down", "lock_down", "cond_down"}
               /\ s = (IF pc[t] = "cond_down" THEN t ELSE arg[t])

\* Threads sema_up has unblocked that have not yet left sema_down's loop.
Woken(s) ==
    {t \in Threads : /\ slept[t] /\ status[t] # "BLOCKED"
                     /\ s = (IF pc[t] = "cond_down" THEN t ELSE arg[t])}

\* No wake-up is lost: while a thread sleeps on a semaphore, every unit in it has
\* an unblocked thread on its way, even when another thread downs or try_downs
\* the semaphore first and the woken one goes back to sleep.
NoLostWakeup ==
    \A s \in Sem : waiters[s] # <<>> => value[s] <= Cardinality(Woken(s))

\* Everything on a condition variable's list is the semaphore_elem of a thread
\* that is still in cond_wait and has not been signalled: never a dead stack
\* frame.
CondQueueLive ==
    \A c \in Conds :
        /\ Distinct(cond_waiters[c])
        /\ \A t \in Elems(cond_waiters[c]) :
               /\ pc[t] \in {"cond_release", "cond_up", "cond_down"}
               /\ arg[t] = c
               /\ value[t] = 0

\* The semaphore_elem cond_signal ups after taking it off the list is still the
\* unsignalled semaphore of a thread inside cond_wait.
SignalTargetLive ==
    \A t \in Threads : pc[t] \in {"signal_up", "broadcast_up"} =>
        pc[peer[t]] = "cond_down" /\ value[peer[t]] = 0

\* A condition variable's records are alive wherever they are used: on its list,
\* and in the hands of cond_signal and cond_broadcast.
CondLive == CondQueueLive /\ SignalTargetLive

\* No two threads share an identifier: tid_lock keeps two threads in thread_create
\* apart, although next_tid++ is a load and a store and the holder may be preempted
\* between them.
TidsDistinct ==
    \A t, u \in Threads : t # u /\ tid[t] # 0 => tid[t] # tid[u]

\* A free lock that threads sleep on is taken by someone.
LockProgress ==
    \A l \in Locks : (value[l] = 1 /\ waiters[l] # <<>>) ~> value[l] = 0

\* A signalled thread leaves its wait and competes for the lock.
SignalledWakes ==
    \A t \in Threads : (pc[t] = "cond_down" /\ value[t] = 1) ~> pc[t] = "lock_down"
=============================================================================
