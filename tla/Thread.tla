------------------------------- MODULE Thread -------------------------------
(***************************************************************************)
(* The scheduler of threads/thread.c on its single CPU: which thread runs, *)
(* the status of every thread, the round-robin run queue, the idle thread  *)
(* and its start-up handshake, the time slice, and the life of the pages   *)
(* that hold thread structures.  Who blocks and who is unblocked is left   *)
(* open: any running thread may block, any blocked one may be unblocked.   *)
(* Synch.tla decides both and is shown to implement this specification.    *)
(*                                                                         *)
(* A thread is named by its page: a page that thread_schedule_tail frees   *)
(* may be handed out again by a later thread_create.                       *)
(***************************************************************************)
EXTENDS Lists

CONSTANTS
    Threads,         \* pages that can hold a struct thread
    initial_thread,  \* the page main() runs on
    Idle,            \* the page of the thread running idle()
    NULL,
    TIME_SLICE       \* timer ticks a thread may run for

ASSUME ThreadAssumption ==
    /\ initial_thread \in Threads
    /\ Idle \in Threads \ {initial_thread}
    /\ NULL \notin Threads
    /\ TIME_SLICE \in Nat \ {0}

VARIABLES
    current,       \* the thread the CPU runs (thread_current)
    status,        \* status[t]; "FREE" when t's page is not allocated
    ready_list,    \* run queue, front first
    all_list,      \* threads linked through allelem
    idle_thread,   \* set by idle() the first time it runs
    idle_pc,       \* where idle() is
    thread_ticks   \* timer ticks since the last thread switch

tvars == <<current, status, ready_list, all_list, idle_thread, idle_pc,
           thread_ticks>>

Status == {"FREE", "RUNNING", "READY", "BLOCKED", "DYING"}

-----------------------------------------------------------------------------
(* Parts of actions. *)

\* next_thread_to_run: the front of the run queue, or idle_thread.
next_thread_to_run(rl) == IF rl = <<>> THEN idle_thread ELSE Head(rl)

\* schedule and thread_schedule_tail, entered with the running thread's status
\* set to st and the run queue holding rl: the next thread becomes RUNNING, a
\* new time slice starts, and the page of a dying thread is freed unless it is
\* initial_thread's.
schedule(st, rl) ==
    LET next == next_thread_to_run(rl)
        left == IF st = "DYING" /\ current # initial_thread THEN "FREE" ELSE st
    IN  /\ current' = next
        /\ status' = [status EXCEPT ![current] = left, ![next] = "RUNNING"]
        /\ ready_list' = IF rl = <<>> THEN rl ELSE Tail(rl)
        /\ thread_ticks' = 0

\* thread_block: the running thread stops until thread_unblock.
thread_block ==
    /\ schedule("BLOCKED", ready_list)
    /\ UNCHANGED <<all_list, idle_thread>>

\* Mutants of thread_yield: the idle thread is queued too, or the yielding thread goes
\* to the front.
thread_yield_idle ==
    schedule("READY", Append(ready_list, current)) /\ UNCHANGED <<all_list, idle_thread>>

thread_yield_front ==
    /\ schedule("READY", IF current # idle_thread
                         THEN <<current>> \o ready_list ELSE ready_list)
    /\ UNCHANGED <<all_list, idle_thread>>

\* thread_yield: the run queue never gets the idle thread.
thread_yield ==
    /\ schedule("READY", IF current # idle_thread
                         THEN Append(ready_list, current) ELSE ready_list)
    /\ UNCHANGED <<all_list, idle_thread>>

\* thread_unblock: t goes to the back of the run queue; the CPU is not given up.
thread_unblock(t) ==
    /\ status[t] = "BLOCKED"
    /\ ready_list' = Append(ready_list, t)
    /\ status' = [status EXCEPT ![t] = "READY"]
    /\ UNCHANGED <<current, all_list, idle_thread, thread_ticks>>

\* An interrupt takes a halted idle thread out of its `hlt'.
leave_hlt ==
    idle_pc' = IF current = Idle /\ idle_pc = "hlt" THEN "block" ELSE idle_pc

-----------------------------------------------------------------------------
(* Steps of the running thread. *)

\* thread_create up to init_thread: a free page becomes a blocked thread.
init_thread(t) ==
    /\ current # Idle
    /\ status[t] = "FREE"
    /\ status' = [status EXCEPT ![t] = "BLOCKED"]
    /\ all_list' = all_list \cup {t}
    /\ UNCHANGED <<current, ready_list, idle_thread, idle_pc, thread_ticks>>

\* The end of thread_exit: off all_list, DYING, and away.
exit_schedule ==
    /\ current # Idle
    /\ all_list' = all_list \ {current}
    /\ schedule("DYING", ready_list)
    /\ UNCHANGED <<idle_thread, idle_pc>>

Block == current # Idle /\ thread_block /\ UNCHANGED idle_pc

Yield == current # Idle /\ thread_yield /\ UNCHANGED idle_pc

\* thread_unblock called by the running thread.  idle_thread is never waited
\* for, so nobody unblocks it.
Unblock(t) == t # Idle /\ thread_unblock(t) /\ UNCHANGED idle_pc

-----------------------------------------------------------------------------
(* The idle thread. *)

\* idle() publishes itself.
idle_start ==
    /\ current = Idle /\ idle_pc = "start"
    /\ idle_thread' = Idle
    /\ idle_pc' = "started"
    /\ UNCHANGED <<current, status, ready_list, all_list, thread_ticks>>

\* idle() ups idle_started, which may unblock thread_start's caller.
idle_up ==
    /\ current = Idle /\ idle_pc = "started"
    /\ idle_pc' = "block"
    /\ \/ thread_unblock(initial_thread)
       \/ UNCHANGED <<current, status, ready_list, all_list, idle_thread,
                      thread_ticks>>

\* One turn of idle()'s loop: block, and halt when scheduled again.
idle_block ==
    /\ current = Idle /\ idle_pc = "block"
    /\ thread_block
    /\ idle_pc' = "hlt"

-----------------------------------------------------------------------------
(* Interrupts. *)

\* thread_tick, from the timer interrupt.  When the time slice is used up the
\* interrupt returns through thread_yield.
thread_tick ==
    /\ leave_hlt
    /\ \/ /\ thread_ticks + 1 < TIME_SLICE
          /\ thread_ticks' = thread_ticks + 1
          /\ UNCHANGED <<current, status, ready_list, all_list, idle_thread>>
       \/ /\ thread_ticks + 1 >= TIME_SLICE
          /\ thread_yield

\* A device interrupt whose handler unblocks t.
intr_unblock(t) == t # Idle /\ thread_unblock(t) /\ leave_hlt

\* A device interrupt that wakes nobody.
intr_other ==
    /\ leave_hlt
    /\ UNCHANGED <<current, status, ready_list, all_list, idle_thread,
                   thread_ticks>>

-----------------------------------------------------------------------------
\* thread_start just before it waits for idle(): main runs, idle() is queued.
ThreadInit ==
    /\ current = initial_thread
    /\ status = [t \in Threads |-> CASE t = initial_thread -> "RUNNING"
                                     [] t = Idle -> "READY"
                                     [] OTHER -> "FREE"]
    /\ ready_list = <<Idle>>
    /\ all_list = {initial_thread, Idle}
    /\ idle_thread = NULL
    /\ idle_pc = "start"
    /\ thread_ticks = 0

ThreadNext ==
    \/ \E t \in Threads : init_thread(t) \/ Unblock(t) \/ intr_unblock(t)
    \/ exit_schedule
    \/ Block
    \/ Yield
    \/ idle_start
    \/ idle_up
    \/ idle_block
    \/ thread_tick
    \/ intr_other

ThreadSpec == ThreadInit /\ [][ThreadNext]_tvars

\* The programmable interval timer keeps interrupting.
ThreadFairSpec == ThreadSpec /\ WF_tvars(thread_tick)

-----------------------------------------------------------------------------
Queued == Elems(ready_list)

\* Every variable holds a value of its C type; in particular schedule() never
\* switches to a null pointer (ASSERT (is_thread (next)) in schedule).
ThreadTypeOK ==
    /\ current \in Threads
    /\ status \in [Threads -> Status]
    /\ ready_list \in Seq(Threads)
    /\ all_list \in SUBSET Threads
    /\ idle_thread \in {NULL, Idle}
    /\ idle_pc \in {"start", "started", "block", "hlt"}
    /\ thread_ticks \in 0 .. TIME_SLICE - 1

\* Exactly the thread on the CPU is RUNNING (ASSERT in thread_current), however
\* blocking, yielding, preemption, exit and the idle thread interleave.
OneRunning == \A t \in Threads : status[t] = "RUNNING" <=> t = current

\* The run queue holds exactly the READY threads, each once, and never the idle
\* thread once idle() has published itself (the comment above idle()).  A thread
\* on it twice, or freed while on it, would corrupt the list through `elem'.
RunQueueExact ==
    /\ Distinct(ready_list)
    /\ Queued = {t \in Threads : status[t] = "READY" /\ t # idle_thread}

\* all_list links exactly the pages in use by a thread that has not exited, so
\* thread_foreach never walks through a freed page.
AllListExact ==
    all_list = {t \in Threads : status[t] \in {"RUNNING", "READY", "BLOCKED"}}

\* schedule() has a thread to switch to even before idle() has run.
IdleReachable ==
    idle_thread = NULL => Idle \in Queued \cup {current}

\* Round robin starves nobody: a queued thread gets the CPU.
ReadyRuns ==
    \A t \in Threads : t \in Queued ~> current = t
=============================================================================
