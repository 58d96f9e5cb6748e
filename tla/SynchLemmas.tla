----------------------------- MODULE SynchLemmas -----------------------------
(***************************************************************************)
(* The inductive invariant of Synch.tla, what every step keeps of it, and  *)
(* its preservation by the sema_up and sema_down of a semaphore.           *)
(***************************************************************************)
EXTENDS Synch, ThreadProofs

\* Labels at which the running thread is in allocate_tid with tid_lock held.
TidLabels == {"tid_read", "tid_write", "tid_release"}

\* What each label says about the thread at it: the object it works on, the lock
\* it holds or has just given up, the thread it is creating or signalling.
PcOK(t) ==
    /\ pc[t] = "sema_down" => arg[t] \in Semas
    /\ pc[t] \in {"lock_down", "lock_hold", "lock_up"} => arg[t] \in Locks
    /\ pc[t] \in {"cond_release", "cond_up", "cond_down", "broadcast",
                  "broadcast_up"} => arg[t] \in Conds
    /\ pc[t] \in TidLabels => arg[t] = tid_lock
    /\ pc[t] \in TidLabels <=> holder[tid_lock] = t
    /\ pc[t] = "cond_release" => holder[lock_of[arg[t]]] = t
    /\ pc[t] = "lock_up" => holder[arg[t]] # t
    /\ pc[t] = "cond_up" => holder[lock_of[arg[t]]] # t
    /\ pc[t] \in TidLabels \cup {"unblock", "signal_up", "broadcast_up"}
          => peer[t] \in Threads
    /\ pc[t] \in {"lock_down", "lock_hold", "lock_up"} /\ arg[t] = tid_lock
          => peer[t] \in Threads
    /\ pc[t] = "sema_down" /\ arg[t] = idle_started => t = initial_thread
    /\ status[t] = "FREE" => pc[t] = "run"
    /\ t = Idle => pc[t] = "run"

PcInv == \A t \in Threads : PcOK(t)

\* Nobody waits for the idle thread, and only thread_start waits for its start.
WaitInv ==
    /\ \A s \in Sem : waiters[s] \in Seq(Threads \ {Idle})
    /\ waiters[idle_started] \in Seq({initial_thread})

\* The inductive invariant: the scheduler's, and the one above.
IInv == SchedInv /\ TypeOK /\ PcInv /\ WaitInv /\ LockExclusive

-----------------------------------------------------------------------------
\* sema_up is, for the scheduler, an unblock of some thread or nothing.
LEMMA UpRefines ==
    ASSUME TypeOK, WaitInv, NEW s \in Sem, NEW hlt, sema_up(s, hlt)
    PROVE  /\ hlt
           /\ \/ /\ Head(waiters[s]) \in Threads \ {Idle}
                 /\ thread_unblock(Head(waiters[s]))
              \/ UNCHANGED <<current, status, ready_list, all_list,
                             idle_thread, thread_ticks>>
  BY DEF TypeOK, WaitInv, sema_up

\* Every step of the primitives is a step of the scheduler or leaves it alone.
LEMMA StepRefines ==
    ASSUME IInv, [Next]_vars
    PROVE  [ThreadNext]_tvars
<1> USE ThreadAssumption, SynchAssumption
<1> USE DEF IInv
<1>0. me \in Threads
  BY DEF me, TypeOK, ThreadTypeOK
<1>1. ASSUME SemaDown PROVE [ThreadNext]_tvars
  BY <1>1 DEF SemaDown, ThreadNext
<1>2. ASSUME LockHold \/ CondRelease \/ Broadcast \/ TidRead \/ TidWrite
               \/ TidRelease
      PROVE  [ThreadNext]_tvars
  BY <1>2 DEF LockHold, CondRelease, Broadcast, PopWaiter, TidRead, TidWrite,
              TidRelease
<1>3. ASSUME LockUp PROVE [ThreadNext]_tvars
  <2> DEFINE s == IF pc[me] = "cond_up" THEN lock_of[arg[me]] ELSE arg[me]
  <2>1. s \in Sem /\ sema_up(s, UNCHANGED idle_pc)
    BY <1>0, <1>3 DEF LockUp, PcInv, PcOK, Sem
  <2> HIDE DEF s
  <2> QED BY Zenon, <2>1, UpRefines DEF ThreadNext, Unblock, tvars
<1>4. ASSUME SignalUp PROVE [ThreadNext]_tvars
  <2>1. peer[me] \in Sem /\ sema_up(peer[me], UNCHANGED idle_pc)
    BY <1>0, <1>4 DEF SignalUp, PcInv, PcOK, Sem
  <2> QED BY Zenon, <2>1, UpRefines DEF ThreadNext, Unblock, tvars
<1>5. ASSUME CreateUnblock PROVE [ThreadNext]_tvars
  BY <1>0, <1>5 DEF CreateUnblock, PcInv, PcOK, ThreadNext
<1>6. ASSUME thread_exit PROVE [ThreadNext]_tvars
  BY <1>6 DEF thread_exit, ThreadNext
<1>7. ASSUME CallYield PROVE [ThreadNext]_tvars
  BY <1>7 DEF CallYield, ThreadNext
<1>8. ASSUME IdleStart \/ IdleBlock \/ Tick PROVE [ThreadNext]_tvars
  BY <1>8 DEF IdleStart, IdleBlock, Tick, ThreadNext
<1>9. ASSUME IdleUp PROVE [ThreadNext]_tvars
  <2>1. idle_started \in Sem /\ sema_up(idle_started, idle_pc' = "block")
    BY <1>9 DEF IdleUp, Sem
  <2>2. waiters[idle_started] # <<>> =>
            Head(waiters[idle_started]) = initial_thread
    BY DEF WaitInv
  <2> QED BY <1>9, <2>1, <2>2 DEF IdleUp, sema_up, idle_up, ThreadNext
<1>10. ASSUME NEW s \in UserSemas, CallSemaUp(s) PROVE [ThreadNext]_tvars
  <2>1. s \in Sem /\ sema_up(s, UNCHANGED idle_pc)
    BY <1>10 DEF CallSemaUp, Sem, UserSemas
  <2> QED BY Zenon, <2>1, UpRefines DEF ThreadNext, Unblock, tvars
<1>11. ASSUME NEW s \in UserSemas, IntrSemaUp(s) PROVE [ThreadNext]_tvars
  <2>1. s \in Sem /\ sema_up(s, leave_hlt)
    BY <1>11 DEF IntrSemaUp, Sem, UserSemas
  <2> QED BY <2>1, UpRefines DEF ThreadNext, intr_unblock, intr_other
<1>12. ASSUME NEW s \in UserSemas, CallSemaDown(s) \/ CallSemaTryDown(s)
       PROVE  [ThreadNext]_tvars
  BY <1>12 DEF CallSemaDown, CallSemaTryDown
<1>13. ASSUME NEW l \in Locks,
              lock_acquire(l) \/ lock_try_acquire(l) \/ lock_release(l)
       PROVE  [ThreadNext]_tvars
  BY <1>13 DEF lock_acquire, lock_try_acquire, lock_release
<1>14. ASSUME NEW c \in Conds, cond_wait(c) \/ cond_signal(c) \/ cond_broadcast(c)
       PROVE  [ThreadNext]_tvars
  BY <1>14 DEF cond_wait, cond_signal, cond_broadcast, PopWaiter
<1>15. ASSUME NEW t \in Threads, thread_create(t) PROVE [ThreadNext]_tvars
  BY <1>15 DEF thread_create, ThreadNext
<1>16. ASSUME UNCHANGED vars PROVE [ThreadNext]_tvars
  BY <1>16 DEF vars
<1> QED BY <1>1, <1>2, <1>3, <1>4, <1>5, <1>6, <1>7, <1>8, <1>9, <1>10, <1>11,
           <1>12, <1>13, <1>14, <1>15, <1>16 DEF Next

-----------------------------------------------------------------------------
\* No step but the end of thread_exit frees a thread's page.
LEMMA FreeOnlyByExit ==
    ASSUME ThreadTypeOK, [ThreadNext]_tvars, ~exit_schedule,
           NEW t \in Threads, status'[t] = "FREE"
    PROVE  status[t] = "FREE"
<1> USE ThreadAssumption DEF ThreadTypeOK, schedule, next_thread_to_run
<1>1. CASE \E u \in Threads : init_thread(u) \/ Unblock(u) \/ intr_unblock(u)
  BY <1>1 DEF init_thread, Unblock, intr_unblock, thread_unblock
<1>2. CASE Block \/ idle_block
  BY <1>2 DEF Block, idle_block, thread_block
<1>3. CASE Yield \/ thread_tick
  BY <1>3 DEF Yield, thread_tick, thread_yield
<1>4. CASE idle_start \/ idle_up \/ intr_other \/ UNCHANGED tvars
  BY <1>4 DEF idle_start, idle_up, intr_other, thread_unblock, tvars
<1> QED BY <1>1, <1>2, <1>3, <1>4 DEF ThreadNext

\* A step keeps what PcInv says of a thread that it does not move, if it does not
\* change the locks the thread holds.
LEMMA PcOthers ==
    ASSUME NEW t \in Threads, PcOK(t),
           pc'[t] = pc[t], arg'[t] = arg[t], peer'[t] = peer[t],
           status'[t] = "FREE" => status[t] = "FREE",
           \A l \in Locks : holder'[l] = t <=> holder[l] = t
    PROVE  PcOK(t)'
<1>1. pc[t] = "cond_release" \/ pc[t] = "cond_up" => lock_of[arg[t]] \in Locks
  BY SynchAssumption DEF PcOK
<1> QED BY <1>1, SynchAssumption DEF PcOK, TidLabels

\* What sema_up does to the semaphore's fields.
LEMMA UpFields ==
    ASSUME TypeOK, WaitInv, NEW s \in Sem, NEW hlt, sema_up(s, hlt)
    PROVE  /\ value' = [value EXCEPT ![s] = @ + 1]
           /\ value' \in [Sem -> Nat]
           /\ waiters' \in [Sem -> Seq(Threads)]
           /\ WaitInv'
<1> USE SynchAssumption, ThreadAssumption
<1>1. idle_started \in Sem
  BY DEF Sem
<1>2. /\ value' = [value EXCEPT ![s] = @ + 1]
      /\ \/ waiters[s] # <<>> /\ waiters' = [waiters EXCEPT ![s] = Tail(@)]
         \/ waiters' = waiters
  BY DEF sema_up
<1>3. value' \in [Sem -> Nat]
  BY <1>2 DEF TypeOK
<1>4. CASE waiters[s] # <<>> /\ waiters' = [waiters EXCEPT ![s] = Tail(@)]
  <2>1. /\ Tail(waiters[s]) \in Seq(Threads \ {Idle})
        /\ s = idle_started => Tail(waiters[s]) \in Seq({initial_thread})
    BY <1>4 DEF WaitInv
  <2>2. Tail(waiters[s]) \in Seq(Threads)
    BY <1>4 DEF TypeOK
  <2> QED BY <1>1, <1>2, <1>3, <1>4, <2>1, <2>2 DEF WaitInv, TypeOK
<1> QED BY Zenon, <1>2, <1>3, <1>4 DEF TypeOK, WaitInv

\* Ownership of every lock but k is unchanged; k is left alone, is taken by m when
\* it is free, or becomes free: then every lock stays exclusive.
LEMMA LockStep ==
    ASSUME LockExclusive, NEW k \in Locks,
           \A l \in Locks \ {k} : value'[l] = value[l],
           \A t \in Threads, l \in Locks \ {k} : Owns(t, l)' <=> Owns(t, l),
           \/ /\ value'[k] = value[k]
              /\ \A t \in Threads : Owns(t, k)' <=> Owns(t, k)
           \/ /\ value'[k] = 0
              /\ \E m \in Threads : \A t \in Threads : Owns(t, k)' <=> t = m
           \/ /\ value'[k] = 1
              /\ \A t \in Threads : ~Owns(t, k)'
    PROVE  LockExclusive'
<1> SUFFICES ASSUME NEW l \in Locks
             PROVE  /\ value'[l] \in {0, 1}
                    /\ value'[l] = 1 <=> \A t \in Threads : ~Owns(t, l)'
                    /\ \A t, u \in Threads : Owns(t, l)' /\ Owns(u, l)' => t = u
  BY DEF LockExclusive
<1>1. CASE l # k
  BY <1>1 DEF LockExclusive
<1>2. CASE l = k
  BY <1>2 DEF LockExclusive
<1> QED BY <1>1, <1>2

\* A step that changes nobody's ownership and no lock's value keeps the locks
\* exclusive.
LEMMA LocksUntouched ==
    ASSUME LockExclusive,
           \A l \in Locks : value'[l] = value[l],
           \A t \in Threads, l \in Locks : Owns(t, l)' <=> Owns(t, l)
    PROVE  LockExclusive'
<1>1. tid_lock \in Locks
  BY SynchAssumption
<1> QED BY <1>1, LockStep

\* Inside sema_down: taking a lock's unit makes the thread its only owner.
LEMMA SemaDownInv == IInv /\ [ThreadNext]_tvars /\ SemaDown => IInv'
<1> SUFFICES ASSUME IInv, [ThreadNext]_tvars, SemaDown PROVE IInv'
  OBVIOUS
<1> USE ThreadAssumption, SynchAssumption DEF IInv
<1>1. SchedInv' /\ ThreadTypeOK'
  BY SchedStep DEF SchedInv
<1>2. me \in Threads /\ me # Idle /\ DownSema \in Sem
  BY Zenon DEF SemaDown, DownSema, TypeOK, ThreadTypeOK, me, PcInv, PcOK, Sem
<1>3. \A t \in Threads : status'[t] = "FREE" => status[t] = "FREE"
  <2>1. ~exit_schedule
    BY <1>2 DEF SemaDown, Block, thread_block, exit_schedule, SchedInv,
       AllListExact, OneRunning, tvars, me
  <2> QED BY <2>1, FreeOnlyByExit DEF TypeOK
<1>4. CASE value[DownSema] > 0
  <2>0. /\ value' = [value EXCEPT ![DownSema] = @ - 1]
        /\ slept' = [slept EXCEPT ![me] = FALSE]
        /\ pc' = [pc EXCEPT ![me] = CASE pc[me] = "sema_down" -> "run"
                                      [] pc[me] = "lock_down" -> "lock_hold"
                                      [] OTHER -> "lock_down"]
        /\ arg' = IF pc[me] = "cond_down"
                  THEN [arg EXCEPT ![me] = lock_of[arg[me]]] ELSE arg
        /\ UNCHANGED <<waiters, holder, cond_waiters, peer, tid, next_tid>>
    BY <1>4 DEF SemaDown, Goto
  <2>1. /\ value' \in [Sem -> Nat] /\ value \in [Sem -> Nat]
        /\ \A s \in Sem \ {DownSema} : value'[s] = value[s]
        /\ value'[DownSema] = value[DownSema] - 1
    BY <1>2, <1>4, <2>0 DEF TypeOK
  <2>5. PcOK(me)
    BY Zenon, <1>2 DEF PcInv
  <2>6. WaitInv'
    BY <2>0 DEF WaitInv
  <2>2. CASE pc[me] = "sema_down"
    <3>1. arg[me] \in Semas /\ DownSema = arg[me]
          /\ pc' = [pc EXCEPT ![me] = "run"] /\ arg' = arg
      BY <1>2, <2>0, <2>2 DEF PcInv, PcOK, DownSema
    <3>2. TypeOK'
      BY <1>1, <1>2, <2>0, <2>1, <3>1 DEF TypeOK, PC
    <3>7. pc'[me] = "run" /\ \A t \in Threads \ {me} : pc'[t] = pc[t]
      BY <1>2, <3>1 DEF TypeOK
    <3>8. \A t \in Threads : t = me => PcOK(t)'
      BY <1>2, <1>3, <2>0, <2>2, <2>5, <3>1, <3>7 DEF PcOK, TidLabels
    <3>9. \A t \in Threads \ {me} : PcOK(t)'
      BY <1>3, <2>0, <3>1, <3>7, PcOthers DEF PcInv
    <3>3. PcInv' /\ WaitInv'
      BY Zenon, <2>6, <3>8, <3>9 DEF PcInv
    <3>4. \A t \in Threads, l \in Locks : Owns(t, l)' <=> Owns(t, l)
      BY <1>2, <2>0, <2>2, <3>1 DEF TypeOK, Owns
    <3>5. LockExclusive'
      BY <2>1, <3>1, <3>4, LocksUntouched DEF Sem
    <3> QED BY <1>1, <3>2, <3>3, <3>5
  <2>3. CASE pc[me] = "lock_down"
    <3>1. arg[me] \in Locks /\ DownSema = arg[me]
          /\ pc' = [pc EXCEPT ![me] = "lock_hold"] /\ arg' = arg
      BY <1>2, <2>0, <2>3 DEF PcInv, PcOK, DownSema
    <3>2. TypeOK'
      BY <1>1, <1>2, <2>0, <2>1, <3>1 DEF TypeOK, PC
    <3>7. pc'[me] = "lock_hold" /\ \A t \in Threads \ {me} : pc'[t] = pc[t]
      BY <1>2, <3>1 DEF TypeOK
    <3>8. \A t \in Threads : t = me => PcOK(t)'
      BY <1>2, <1>3, <2>0, <2>3, <2>5, <3>1, <3>7 DEF PcOK, TidLabels
    <3>9. \A t \in Threads \ {me} : PcOK(t)'
      BY <1>3, <2>0, <3>1, <3>7, PcOthers DEF PcInv
    <3>3. PcInv' /\ WaitInv'
      BY Zenon, <2>6, <3>8, <3>9 DEF PcInv
    <3>4. \A t \in Threads, l \in Locks :
              Owns(t, l)' <=> Owns(t, l) \/ (t = me /\ l = arg[me])
      BY <1>2, <2>0, <2>3, <3>1 DEF TypeOK, Owns
    <3>5. value[arg[me]] = 1 /\ \A t \in Threads : ~Owns(t, arg[me])
      BY <1>4, <3>1 DEF LockExclusive
    <3>6. LockExclusive'
      BY <1>2, <2>1, <3>1, <3>4, <3>5, LockStep DEF Sem
    <3> QED BY <1>1, <3>2, <3>3, <3>6
  <2>4. CASE pc[me] = "cond_down"
    <3>1. arg[me] \in Conds /\ DownSema = me /\ lock_of[arg[me]] \in Locks
          /\ pc' = [pc EXCEPT ![me] = "lock_down"]
          /\ arg' = [arg EXCEPT ![me] = lock_of[arg[me]]]
          /\ lock_of[arg[me]] # tid_lock
      BY <1>2, <2>0, <2>4 DEF PcInv, PcOK, DownSema
    <3>2. TypeOK'
      BY <1>1, <1>2, <2>0, <2>1, <3>1 DEF TypeOK, PC
    <3>7. /\ pc'[me] = "lock_down" /\ arg'[me] = lock_of[arg[me]]
          /\ \A t \in Threads \ {me} : pc'[t] = pc[t] /\ arg'[t] = arg[t]
      BY <1>2, <3>1 DEF TypeOK
    <3>8. \A t \in Threads : t = me => PcOK(t)'
      BY <1>2, <1>3, <2>0, <2>4, <2>5, <3>1, <3>7 DEF PcOK, TidLabels
    <3>9. \A t \in Threads \ {me} : PcOK(t)'
      BY <1>3, <2>0, <3>7, PcOthers DEF PcInv
    <3>3. PcInv' /\ WaitInv'
      BY Zenon, <2>6, <3>8, <3>9 DEF PcInv
    <3>4. \A t \in Threads, l \in Locks : Owns(t, l)' <=> Owns(t, l)
      BY <1>2, <2>0, <2>4, <3>1 DEF TypeOK, Owns
    <3>5. LockExclusive'
      BY <1>2, <2>1, <3>1, <3>4, LocksUntouched DEF Sem
    <3> QED BY <1>1, <3>2, <3>3, <3>5
  <2> QED BY <2>2, <2>3, <2>4 DEF SemaDown
<1>5. CASE value[DownSema] = 0
  <2>1. /\ waiters' = [waiters EXCEPT ![DownSema] = Append(@, me)]
        /\ slept' = [slept EXCEPT ![me] = TRUE]
        /\ UNCHANGED <<value, pc, arg, holder, cond_waiters, peer, tid,
                       next_tid>>
    BY <1>5 DEF SemaDown
  <2>2. TypeOK'
    BY <1>1, <1>2, <2>1 DEF TypeOK
  <2>3. PcInv'
    BY <1>3, <2>1 DEF PcInv, PcOK
  <2>4. WaitInv'
    <3>1. DownSema = idle_started => me = initial_thread
      BY <1>2 DEF SemaDown, DownSema, PcInv, PcOK
    <3>2. idle_started \in Sem
      BY DEF Sem
    <3> QED BY <1>2, <2>1, <3>1, <3>2 DEF WaitInv, TypeOK
  <2>5. LockExclusive'
    BY <2>1, LocksUntouched DEF Owns
  <2> QED BY <1>1, <2>2, <2>3, <2>4, <2>5
<1>6. value[DownSema] \in Nat
  BY <1>2 DEF TypeOK
<1> QED BY <1>4, <1>5, <1>6

\* Only the end of thread_exit takes a thread off all_list.
LEMMA NotExit ==
    ASSUME SchedInv, all_list \subseteq all_list' PROVE ~exit_schedule
  BY DEF SchedInv, AllListExact, OneRunning, ThreadTypeOK, exit_schedule

\* The scheduler's part of the invariant, for a step that frees no page.
LEMMA SchedPart ==
    ASSUME IInv, [ThreadNext]_tvars, all_list \subseteq all_list'
    PROVE  /\ SchedInv' /\ ThreadTypeOK'
           /\ \A t \in Threads : status'[t] = "FREE" => status[t] = "FREE"
<1>1. SchedInv'
  BY SchedStep DEF IInv
<1> QED BY <1>1, NotExit, FreeOnlyByExit DEF IInv, SchedInv

\* sema_up on a semaphore that is not a lock's, called at label "run", by an
\* interrupt handler, or by idle().
LEMMA PlainUpInv ==
    ASSUME IInv, [ThreadNext]_tvars, NEW s \in Sem \ Locks, NEW hlt,
           sema_up(s, hlt),
           UNCHANGED <<holder, cond_waiters, pc, arg, peer, slept, tid, next_tid>>
    PROVE  IInv'
<1> USE ThreadAssumption, SynchAssumption DEF IInv
<1>1. all_list' = all_list
  BY DEF sema_up, thread_unblock
<1>2. /\ SchedInv' /\ ThreadTypeOK'
      /\ \A t \in Threads : status'[t] = "FREE" => status[t] = "FREE"
  BY <1>1, SchedPart
<1>3. /\ value' = [value EXCEPT ![s] = @ + 1]
      /\ value' \in [Sem -> Nat] /\ waiters' \in [Sem -> Seq(Threads)]
      /\ WaitInv'
  BY UpFields
<1>4. TypeOK'
  BY <1>2, <1>3 DEF TypeOK
<1>5. PcInv'
  BY <1>2, PcOthers DEF PcInv
<1>6. \A l \in Locks : value'[l] = value[l]
  BY <1>3 DEF TypeOK, Sem
<1>7. LockExclusive'
  BY <1>6, LocksUntouched DEF Owns
<1> QED BY <1>2, <1>3, <1>4, <1>5, <1>7
==============================================================================
