----------------------------- MODULE SynchProofs -----------------------------
(***************************************************************************)
(* Locks exclude each other, and the primitives implement the scheduler,   *)
(* for any threads, locks, semaphores and condition variables.             *)
(***************************************************************************)
EXTENDS SynchLocks

\* A step of the running thread between two labels at which it owns no lock
\* through its label: cond_wait, cond_signal, cond_broadcast, their loop, and the
\* arithmetic of allocate_tid.
LEMMA LabelInv ==
    ASSUME IInv, UNCHANGED <<tvars, holder>>,
           value' \in [Sem -> Nat], \A l \in Locks : value'[l] = value[l],
           waiters' \in [Sem -> Seq(Threads)], WaitInv',
           cond_waiters' \in [Conds -> Seq(Threads)],
           slept' = slept, tid' \in [Threads -> Nat], next_tid' \in Nat,
           NEW lab \in PC \ {"lock_hold", "lock_up", "cond_up"},
           pc[me] \notin {"lock_hold", "lock_up", "cond_up"},
           NEW a \in Semas \cup Locks \cup Conds \cup {NULL},
           NEW p \in Threads \cup {NULL},
           pc' = [pc EXCEPT ![me] = lab], arg' = [arg EXCEPT ![me] = a],
           peer' = [peer EXCEPT ![me] = p],
           \A t \in Threads : t = me => PcOK(t)'
    PROVE  IInv'
<1> USE ThreadAssumption, SynchAssumption DEF IInv
<1>0. me \in Threads
  BY DEF me, TypeOK, ThreadTypeOK
<1>1. SchedInv' /\ ThreadTypeOK' /\ status' = status
  BY Zenon DEF SchedInv, ThreadTypeOK, OneRunning, RunQueueExact, AllListExact,
         IdleReachable, IdleInv, tvars, Queued
<1>2. TypeOK'
  BY <1>0, <1>1 DEF TypeOK
<1>3. PcInv'
  BY Zenon, <1>0, <1>1, PcOthers DEF PcInv, TypeOK
<1>4. \A t \in Threads, l \in Locks : Owns(t, l)' <=> Owns(t, l)
  BY <1>0 DEF Owns, TypeOK
<1>5. LockExclusive'
  BY <1>4, LocksUntouched
<1> QED BY <1>1, <1>2, <1>3, <1>5

\* cond_wait, cond_signal and cond_broadcast.
LEMMA CondInv ==
    ASSUME IInv, NEW c \in Conds, cond_wait(c) \/ cond_signal(c) \/ cond_broadcast(c)
    PROVE  IInv'
<1> USE ThreadAssumption, SynchAssumption DEF IInv
<1>0. /\ me \in Threads /\ me # Idle /\ pc[me] = "run" /\ status[me] # "FREE"
      /\ me \in Sem /\ me \notin Locks /\ me # idle_started
      /\ holder[lock_of[c]] = me /\ UNCHANGED <<tvars, holder, slept, tid, next_tid>>
  <2>1. CanCall /\ HeldByMe(lock_of[c])
    BY DEF cond_wait, cond_signal, cond_broadcast
  <2>2. UNCHANGED <<tvars, holder, slept, tid, next_tid>>
    BY DEF cond_wait, cond_signal, cond_broadcast, PopWaiter
  <2>3. me \in Threads /\ status[me] # "FREE"
    BY DEF me, TypeOK, ThreadTypeOK, SchedInv, OneRunning
  <2> QED BY <2>1, <2>2, <2>3 DEF CanCall, HeldByMe, Sem, me
<1>1. /\ value \in [Sem -> Nat] /\ waiters \in [Sem -> Seq(Threads)]
      /\ cond_waiters \in [Conds -> Seq(Threads)] /\ tid \in [Threads -> Nat]
      /\ next_tid \in Nat /\ status' = status
      /\ arg \in [Threads -> Semas \cup Locks \cup Conds \cup {NULL}]
      /\ peer \in [Threads -> Threads \cup {NULL}] /\ pc \in [Threads -> PC]
  BY <1>0 DEF TypeOK, tvars
<1>2. holder[tid_lock] # me
  BY Zenon, <1>0 DEF PcInv, PcOK, TidLabels
<1>3. ASSUME cond_wait(c) PROVE IInv'
  <2>1. /\ value' = [value EXCEPT ![me] = 0]
        /\ waiters' = [waiters EXCEPT ![me] = <<>>]
        /\ cond_waiters' = [cond_waiters EXCEPT ![c] = Append(@, me)]
        /\ arg' = [arg EXCEPT ![me] = c] /\ pc' = [pc EXCEPT ![me] = "cond_release"]
        /\ peer' = peer
    BY <1>3 DEF cond_wait, Goto
  <2>2. /\ value' \in [Sem -> Nat] /\ \A l \in Locks : value'[l] = value[l]
        /\ waiters' \in [Sem -> Seq(Threads)]
        /\ cond_waiters' \in [Conds -> Seq(Threads)]
    <3>1. me \in Sem /\ me \notin Locks /\ Locks \subseteq Sem
      BY <1>0 DEF Sem
    <3>2. value' \in [Sem -> Nat] /\ \A l \in Locks : value'[l] = value[l]
      BY <1>1, <2>1, <3>1
    <3>3. waiters' \in [Sem -> Seq(Threads)]
      BY <1>1, <2>1, <3>1
    <3>4. cond_waiters' \in [Conds -> Seq(Threads)]
      BY <1>0, <1>1, <2>1
    <3> QED BY <3>2, <3>3, <3>4
  <2>3. WaitInv'
    BY <1>0, <1>1, <2>1 DEF WaitInv
  <2>4. \A t \in Threads : t = me => PcOK(t)'
    BY <1>0, <1>1, <1>2, <2>1 DEF PcOK, TidLabels
  <2>5. /\ "cond_release" \in PC \ {"lock_hold", "lock_up", "cond_up"}
        /\ peer' = [peer EXCEPT ![me] = peer[me]] /\ peer[me] \in Threads \cup {NULL}
    BY <1>0, <1>1, <2>1 DEF PC
  <2> QED BY Zenon, <1>0, <1>1, <2>1, <2>2, <2>3, <2>4, <2>5, LabelInv
<1>4. ASSUME cond_signal(c) PROVE IInv'
  <2>1. /\ cond_waiters[c] # <<>>
        /\ peer' = [peer EXCEPT ![me] = Head(cond_waiters[c])]
        /\ cond_waiters' = [cond_waiters EXCEPT ![c] = Tail(@)]
        /\ arg' = arg /\ pc' = [pc EXCEPT ![me] = "signal_up"]
        /\ UNCHANGED <<value, waiters>>
    BY <1>4 DEF cond_signal, PopWaiter, Goto
  <2>2. /\ cond_waiters' \in [Conds -> Seq(Threads)]
        /\ Head(cond_waiters[c]) \in Threads /\ WaitInv'
    BY <1>1, <2>1 DEF WaitInv
  <2>3. \A t \in Threads : t = me => PcOK(t)'
    BY <1>0, <1>1, <1>2, <2>1, <2>2 DEF PcOK, TidLabels
  <2>4. /\ "signal_up" \in PC \ {"lock_hold", "lock_up", "cond_up"}
        /\ arg' = [arg EXCEPT ![me] = arg[me]]
        /\ arg[me] \in Semas \cup Locks \cup Conds \cup {NULL}
    BY <1>0, <1>1, <2>1 DEF PC
  <2> QED BY Zenon, <1>0, <1>1, <2>1, <2>2, <2>3, <2>4, LabelInv
<1>5. ASSUME cond_broadcast(c) PROVE IInv'
  <2>1. /\ arg' = [arg EXCEPT ![me] = c] /\ pc' = [pc EXCEPT ![me] = "broadcast"]
        /\ UNCHANGED <<value, waiters, cond_waiters, peer>>
    BY <1>5 DEF cond_broadcast, Goto
  <2>2. \A t \in Threads : t = me => PcOK(t)'
    BY <1>0, <1>1, <1>2, <2>1 DEF PcOK, TidLabels
  <2>3. /\ "broadcast" \in PC \ {"lock_hold", "lock_up", "cond_up"} /\ WaitInv'
        /\ peer' = [peer EXCEPT ![me] = peer[me]] /\ peer[me] \in Threads \cup {NULL}
    BY <1>0, <1>1, <2>1 DEF PC, WaitInv
  <2> QED BY Zenon, <1>0, <1>1, <2>1, <2>2, <2>3, LabelInv
<1> QED BY <1>3, <1>4, <1>5

\* One turn of cond_broadcast's loop.
LEMMA BroadcastInv == IInv /\ Broadcast => IInv'
<1> SUFFICES ASSUME IInv, Broadcast PROVE IInv'
  OBVIOUS
<1> USE ThreadAssumption, SynchAssumption DEF IInv
<1>0. /\ me \in Threads /\ status[me] # "FREE" /\ PcOK(me)
      /\ pc[me] = "broadcast" /\ arg[me] \in Conds /\ me # Idle
      /\ holder[tid_lock] # me
      /\ UNCHANGED <<tvars, value, waiters, holder, arg, slept, tid, next_tid>>
  <2>1. me \in Threads /\ status[me] # "FREE" /\ PcOK(me)
    BY DEF me, TypeOK, ThreadTypeOK, SchedInv, OneRunning, PcInv
  <2>2. /\ pc[me] = "broadcast"
        /\ UNCHANGED <<tvars, value, waiters, holder, arg, slept, tid, next_tid>>
    BY DEF Broadcast, PopWaiter
  <2> QED BY <2>1, <2>2 DEF PcOK, TidLabels
<1>1. /\ value \in [Sem -> Nat] /\ waiters \in [Sem -> Seq(Threads)]
      /\ cond_waiters \in [Conds -> Seq(Threads)] /\ tid \in [Threads -> Nat]
      /\ next_tid \in Nat /\ status' = status /\ WaitInv'
      /\ arg \in [Threads -> Semas \cup Locks \cup Conds \cup {NULL}]
      /\ arg' = [arg EXCEPT ![me] = arg[me]]
      /\ peer \in [Threads -> Threads \cup {NULL}] /\ pc \in [Threads -> PC]
  BY <1>0 DEF TypeOK, tvars, WaitInv
<1>2. ASSUME PopWaiter(arg[me], "broadcast_up") PROVE IInv'
  <2>1. /\ cond_waiters[arg[me]] # <<>>
        /\ peer' = [peer EXCEPT ![me] = Head(cond_waiters[arg[me]])]
        /\ cond_waiters' = [cond_waiters EXCEPT ![arg[me]] = Tail(@)]
        /\ pc' = [pc EXCEPT ![me] = "broadcast_up"]
    BY <1>2 DEF PopWaiter, Goto
  <2>2. /\ cond_waiters' \in [Conds -> Seq(Threads)]
        /\ Head(cond_waiters[arg[me]]) \in Threads
        /\ "broadcast_up" \in PC \ {"lock_hold", "lock_up", "cond_up"}
    BY <1>0, <1>1, <2>1 DEF PC
  <2>3. \A t \in Threads : t = me => PcOK(t)'
    BY <1>0, <1>1, <2>1, <2>2 DEF PcOK, TidLabels
  <2> QED BY Zenon, <1>0, <1>1, <2>1, <2>2, <2>3, LabelInv
<1>3. ASSUME ~PopWaiter(arg[me], "broadcast_up") PROVE IInv'
  <2>1. pc' = [pc EXCEPT ![me] = "run"] /\ UNCHANGED <<cond_waiters, peer>>
    BY <1>3 DEF Broadcast, Goto
  <2>2. /\ "run" \in PC \ {"lock_hold", "lock_up", "cond_up"}
        /\ peer' = [peer EXCEPT ![me] = peer[me]] /\ peer[me] \in Threads \cup {NULL}
    BY <1>0, <1>1, <2>1 DEF PC
  <2>3. \A t \in Threads : t = me => PcOK(t)'
    BY <1>0, <1>1, <2>1, <2>2 DEF PcOK, TidLabels
  <2> QED BY Zenon, <1>0, <1>1, <2>1, <2>2, <2>3, LabelInv
<1> QED BY <1>2, <1>3

\* allocate_tid's load and store, under tid_lock.
LEMMA TidInv ==
    ASSUME IInv, TidRead \/ TidWrite
    PROVE  IInv'
<1> USE ThreadAssumption, SynchAssumption DEF IInv
<1>0. /\ me \in Threads /\ status[me] # "FREE" /\ PcOK(me)
      /\ pc[me] \in {"tid_read", "tid_write"} /\ me # Idle /\ peer[me] \in Threads
      /\ UNCHANGED <<tvars, value, waiters, holder, cond_waiters, arg, peer, slept>>
  <2>1. me \in Threads /\ status[me] # "FREE" /\ PcOK(me)
    BY DEF me, TypeOK, ThreadTypeOK, SchedInv, OneRunning, PcInv
  <2>2. /\ pc[me] \in {"tid_read", "tid_write"}
        /\ UNCHANGED <<tvars, value, waiters, holder, cond_waiters, arg, peer, slept>>
    BY DEF TidRead, TidWrite
  <2> QED BY <2>1, <2>2 DEF PcOK, TidLabels
<1>1. /\ value \in [Sem -> Nat] /\ waiters \in [Sem -> Seq(Threads)]
      /\ cond_waiters \in [Conds -> Seq(Threads)] /\ status' = status /\ WaitInv'
      /\ arg \in [Threads -> Semas \cup Locks \cup Conds \cup {NULL}]
      /\ arg' = [arg EXCEPT ![me] = arg[me]]
      /\ peer \in [Threads -> Threads \cup {NULL}] /\ pc \in [Threads -> PC]
      /\ peer' = [peer EXCEPT ![me] = peer[me]]
  BY <1>0 DEF TypeOK, tvars, WaitInv
<1>2. tid' \in [Threads -> Nat] /\ next_tid' \in Nat
  <2>1. CASE TidRead
    BY <1>0, <2>1 DEF TypeOK, TidRead
  <2>2. CASE TidWrite
    BY <1>0, <2>2 DEF TypeOK, TidWrite
  <2> QED BY <2>1, <2>2
<1>3. PICK lab \in {"tid_write", "tid_release"} : pc' = [pc EXCEPT ![me] = lab]
  BY DEF TidRead, TidWrite, Goto
<1>4. lab \in PC \ {"lock_hold", "lock_up", "cond_up"}
  BY DEF PC
<1>5. \A t \in Threads : t = me => PcOK(t)'
  BY Zenon, <1>0, <1>1, <1>3 DEF PcOK, TidLabels
<1> QED BY Zenon, <1>0, <1>1, <1>2, <1>3, <1>4, <1>5, LabelInv

\* thread_create: the new thread owns nothing, and its creator moves on to
\* allocate_tid.
LEMMA CreateInv ==
    ASSUME IInv, [ThreadNext]_tvars, NEW u \in Threads, thread_create(u)
    PROVE  IInv'
<1> USE ThreadAssumption, SynchAssumption DEF IInv
<1>0. /\ me \in Threads /\ me # Idle /\ status[me] # "FREE" /\ PcOK(me)
      /\ pc[me] = "run" /\ holder[tid_lock] # me
  <2>1. me \in Threads /\ status[me] # "FREE" /\ PcOK(me)
    BY DEF me, TypeOK, ThreadTypeOK, SchedInv, OneRunning, PcInv
  <2>2. me # Idle /\ pc[me] = "run"
    BY DEF thread_create, CanCall, me
  <2> QED BY <2>1, <2>2 DEF PcOK, TidLabels
<1>1. status[u] = "FREE" /\ all_list \subseteq all_list'
  BY DEF thread_create, init_thread
<1>2. u # me /\ pc[u] = "run"
  BY <1>0, <1>1 DEF PcInv, PcOK
<1>3. /\ SchedInv' /\ ThreadTypeOK'
      /\ \A t \in Threads : status'[t] = "FREE" => status[t] = "FREE"
  BY Zenon, <1>1, SchedPart
<1>4. /\ arg' = [arg EXCEPT ![me] = tid_lock] /\ peer' = [peer EXCEPT ![me] = u]
      /\ pc' = [pc EXCEPT ![me] = "lock_down", ![u] = "run"]
      /\ UNCHANGED <<value, waiters, holder, cond_waiters, slept, tid, next_tid>>
  BY DEF thread_create
<1>5. /\ pc' \in [Threads -> PC] /\ pc'[me] = "lock_down"
      /\ \A t \in Threads \ {me} : pc'[t] = pc[t]
  BY Zenon, <1>0, <1>2, <1>4 DEF TypeOK, PC
<1>6. TypeOK' /\ WaitInv'
  <2>1. arg' \in [Threads -> Semas \cup Locks \cup Conds \cup {NULL}]
    BY Zenon, <1>4 DEF TypeOK
  <2>2. peer' \in [Threads -> Threads \cup {NULL}]
    BY Zenon, <1>4 DEF TypeOK
  <2>3. TypeOK'
    BY <1>3, <1>4, <1>5, <2>1, <2>2 DEF TypeOK
  <2> QED BY <1>4, <2>3 DEF WaitInv
<1>7. \A t \in Threads : t = me => PcOK(t)'
  BY <1>0, <1>3, <1>4, <1>5 DEF PcOK, TidLabels, TypeOK
<1>8. PcInv'
  BY Zenon, <1>0, <1>3, <1>4, <1>5, <1>7, PcOthers DEF PcInv, TypeOK
<1>9. \A t \in Threads, l \in Locks : Owns(t, l)' <=> Owns(t, l)
  BY <1>0, <1>4, <1>5 DEF Owns, TypeOK
<1>10. LockExclusive'
  BY <1>4, <1>9, LocksUntouched
<1> QED BY <1>3, <1>6, <1>8, <1>10

\* thread_exit: the page is given up by a thread that owns nothing.
LEMMA ExitInv == IInv /\ [ThreadNext]_tvars /\ thread_exit => IInv'
<1> SUFFICES ASSUME IInv, [ThreadNext]_tvars, thread_exit PROVE IInv'
  OBVIOUS
<1> USE ThreadAssumption, SynchAssumption DEF IInv
<1>0. me \in Threads /\ pc[me] = "run" /\ PcOK(me)
  BY DEF me, TypeOK, ThreadTypeOK, PcInv, thread_exit, CanCall
<1>1. SchedInv' /\ ThreadTypeOK'
  BY SchedStep DEF SchedInv
<1>2. /\ tid' = [tid EXCEPT ![me] = 0]
      /\ UNCHANGED <<value, waiters, holder, cond_waiters, pc, arg, peer, slept,
                     next_tid>>
  BY DEF thread_exit
<1>3. TypeOK' /\ WaitInv'
  BY <1>0, <1>1, <1>2 DEF TypeOK, WaitInv
<1>4. \A t \in Threads \ {me} : status'[t] = "FREE" => status[t] = "FREE"
  BY DEF thread_exit, exit_schedule, schedule, me, TypeOK, ThreadTypeOK
<1>5. \A t \in Threads : t = me => PcOK(t)'
  BY <1>0, <1>2 DEF PcOK, TidLabels
<1>6. PcInv'
  BY <1>2, <1>4, <1>5, PcOthers DEF PcInv
<1>7. LockExclusive'
  BY <1>2, LocksUntouched DEF Owns
<1> QED BY <1>1, <1>3, <1>6, <1>7

\* The end of thread_create.
LEMMA CreateUnblockInv == IInv /\ [ThreadNext]_tvars /\ CreateUnblock => IInv'
<1> SUFFICES ASSUME IInv, [ThreadNext]_tvars, CreateUnblock PROVE IInv'
  OBVIOUS
<1> USE ThreadAssumption, SynchAssumption DEF IInv
<1>0. me \in Threads /\ pc[me] = "unblock" /\ PcOK(me)
  BY DEF me, TypeOK, ThreadTypeOK, PcInv, CreateUnblock
<1>1. /\ SchedInv' /\ ThreadTypeOK'
      /\ \A t \in Threads : status'[t] = "FREE" => status[t] = "FREE"
  <2>1. all_list' = all_list
    BY Zenon DEF CreateUnblock, Unblock, thread_unblock
  <2> QED BY <2>1, SchedPart
<1>2. /\ peer' = [peer EXCEPT ![me] = NULL] /\ pc' = [pc EXCEPT ![me] = "run"]
      /\ UNCHANGED <<value, waiters, holder, cond_waiters, arg, slept, tid, next_tid>>
  BY DEF CreateUnblock, Goto
<1>3. TypeOK' /\ WaitInv'
  BY <1>0, <1>1, <1>2 DEF TypeOK, WaitInv, PC
<1>4. \A t \in Threads : t = me => PcOK(t)'
  BY <1>0, <1>1, <1>2 DEF PcOK, TidLabels, TypeOK
<1>5. PcInv'
  BY <1>1, <1>2, <1>4, PcOthers DEF PcInv, TypeOK
<1>6. \A t \in Threads, l \in Locks : Owns(t, l)' <=> Owns(t, l)
  BY <1>0, <1>2 DEF Owns, TypeOK
<1>7. LockExclusive'
  BY <1>2, <1>6, LocksUntouched
<1> QED BY <1>1, <1>3, <1>5, <1>7

\* Steps of the scheduler alone: yielding, preemption, the idle thread.
LEMMA SvarsInv ==
    ASSUME IInv, [ThreadNext]_tvars, UNCHANGED svars, all_list' = all_list
    PROVE  IInv'
<1> USE ThreadAssumption, SynchAssumption DEF IInv
<1>1. /\ SchedInv' /\ ThreadTypeOK'
      /\ \A t \in Threads : status'[t] = "FREE" => status[t] = "FREE"
  BY SchedPart
<1>2. TypeOK' /\ WaitInv'
  BY <1>1 DEF TypeOK, WaitInv, svars
<1>3. PcInv'
  BY Zenon, <1>1, PcOthers DEF PcInv, svars
<1>4. LockExclusive'
  BY LocksUntouched DEF Owns, svars
<1> QED BY <1>1, <1>2, <1>3, <1>4

-----------------------------------------------------------------------------
\* The invariant holds when main reaches thread_start's sema_down.
LEMMA SynchInit == Init => IInv
<1> SUFFICES ASSUME Init PROVE IInv
  OBVIOUS
<1> USE ThreadAssumption, SynchAssumption
<1>1. SchedInv /\ ThreadTypeOK
  BY SchedInit DEF Init, SchedInv
<1>2. TypeOK
  BY <1>1 DEF Init, TypeOK, PC
<1>3. WaitInv
  BY DEF Init, WaitInv, Sem
<1>4. PcInv
  BY DEF Init, ThreadInit, PcInv, PcOK, TidLabels
<1>5. LockExclusive
  <2>1. \A t \in Threads, l \in Locks : ~Owns(t, l)
    BY DEF Init, Owns
  <2>2. \A l \in Locks : value[l] = 1
    BY DEF Init, Sem
  <2> QED BY <2>1, <2>2 DEF LockExclusive
<1> QED BY <1>1, <1>2, <1>3, <1>4, <1>5 DEF IInv

\* Every step of the primitives, of thread_create and thread_exit, of idle() and
\* of the timer keeps the invariant.
LEMMA SynchStep == IInv /\ [Next]_vars => IInv'
<1> SUFFICES ASSUME IInv, [Next]_vars PROVE IInv'
  OBVIOUS
<1> USE SynchAssumption
<1>0. [ThreadNext]_tvars
  BY StepRefines
<1>1. ASSUME SemaDown PROVE IInv'
  BY <1>0, <1>1, SemaDownInv
<1>2. ASSUME LockHold PROVE IInv'
  BY <1>2, AcquireInv DEF LockHold
<1>3. ASSUME LockUp PROVE IInv'
  BY <1>0, <1>3, LockUpInv
<1>4. ASSUME CondRelease PROVE IInv'
  <2>1. me \in Threads /\ PcOK(me)
    BY DEF IInv, TypeOK, ThreadTypeOK, PcInv, me
  <2>2. /\ me # Idle /\ lock_of[arg[me]] \in Locks
        /\ holder[lock_of[arg[me]]] = me
    BY <1>4, <2>1 DEF CondRelease, PcOK
  <2> QED BY Zenon, <1>4, <2>2, ReleaseInv DEF CondRelease, Goto
<1>5. ASSUME Broadcast PROVE IInv'
  BY <1>5, BroadcastInv
<1>6. ASSUME SignalUp PROVE IInv'
  BY <1>0, <1>6, SignalUpInv
<1>7. ASSUME TidRead \/ TidWrite PROVE IInv'
  BY <1>7, TidInv
<1>8. ASSUME TidRelease PROVE IInv'
  <2>1. me \in Threads /\ PcOK(me)
    BY DEF IInv, TypeOK, ThreadTypeOK, PcInv, me
  <2>2. me # Idle /\ holder[tid_lock] = me
    BY <1>8, <2>1 DEF TidRelease, PcOK, TidLabels
  <2> QED BY Zenon, <1>8, <2>2, ReleaseInv DEF TidRelease, Goto
<1>9. ASSUME CreateUnblock PROVE IInv'
  BY <1>0, <1>9, CreateUnblockInv
<1>10. ASSUME thread_exit PROVE IInv'
  BY <1>0, <1>10, ExitInv
<1>11. ASSUME CallYield \/ IdleStart \/ IdleBlock \/ Tick PROVE IInv'
  <2>1. UNCHANGED svars /\ all_list' = all_list
    BY <1>11 DEF CallYield, Yield, thread_yield, IdleStart, idle_start, IdleBlock,
                 idle_block, thread_block, Tick, thread_tick
  <2> QED BY <1>0, <2>1, SvarsInv
<1>12. ASSUME IdleUp PROVE IInv'
  <2>1. idle_started \in Sem \ Locks
    BY DEF Sem
  <2> QED BY <1>0, <1>12, <2>1, PlainUpInv DEF IdleUp
<1>13. ASSUME NEW s \in UserSemas,
              CallSemaDown(s) \/ CallSemaTryDown(s) PROVE IInv'
  BY <1>13, MoveInv DEF CallSemaDown, CallSemaTryDown
<1>14. ASSUME NEW s \in UserSemas, CallSemaUp(s) \/ IntrSemaUp(s) PROVE IInv'
  <2>1. s \in Sem \ Locks
    BY DEF Sem, UserSemas
  <2> QED BY Zenon, <1>0, <1>14, <2>1, PlainUpInv DEF CallSemaUp, IntrSemaUp
<1>15. ASSUME NEW l \in Locks, lock_acquire(l) \/ lock_try_acquire(l) PROVE IInv'
  BY <1>15, AcquireInv DEF lock_acquire, lock_try_acquire
<1>16. ASSUME NEW l \in Locks, lock_release(l) PROVE IInv'
  BY Zenon, <1>16, ReleaseInv DEF lock_release, CanCall, HeldByMe, Goto, me
<1>17. ASSUME NEW c \in Conds, cond_wait(c) \/ cond_signal(c) \/ cond_broadcast(c)
       PROVE  IInv'
  BY <1>17, CondInv
<1>18. ASSUME NEW t \in Threads, thread_create(t) PROVE IInv'
  BY <1>0, <1>18, CreateInv
<1>19. ASSUME UNCHANGED vars PROVE IInv'
  BY <1>0, <1>19, SvarsInv DEF vars, tvars
<1> QED BY <1>1, <1>2, <1>3, <1>4, <1>5, <1>6, <1>7, <1>8, <1>9, <1>10, <1>11,
           <1>12, <1>13, <1>14, <1>15, <1>16, <1>17, <1>18, <1>19 DEF Next

\* The inductive invariant holds in every reachable state.
LEMMA SynchInvariant == Spec => []IInv
  BY SynchInit, SynchStep, PTL DEF Spec

\* synch.c's locks exclude each other for any number of threads and locks: a lock
\* has one owner at most, and its semaphore counts exactly that.
THEOREM MutualExclusion == Spec => []LockExclusive
<1>1. IInv => LockExclusive
  BY DEF IInv
<1> QED BY <1>1, SynchInvariant, PTL

\* Every field of the semaphores, locks, condition variables and threads keeps
\* its type; no semaphore goes below zero.
THEOREM SynchTyping == Spec => []TypeOK
<1>1. IInv => TypeOK
  BY DEF IInv
<1> QED BY <1>1, SynchInvariant, PTL

\* The primitives use the scheduler only as its specification allows: whoever
\* sema_up, idle() or thread_create unblocks is blocked, and whoever blocks runs.
THEOREM SynchImplementsThread == Spec => ThreadSpec
<1>1. Init => ThreadInit
  BY DEF Init
<1>2. IInv /\ [Next]_vars => [ThreadNext]_tvars
  BY StepRefines
<1> QED BY <1>1, <1>2, SynchInvariant, PTL DEF Spec, ThreadSpec
==============================================================================
