------------------------------ MODULE SynchLocks ------------------------------
(***************************************************************************)
(* The steps of lock_acquire and lock_release, and the sema_up that hands  *)
(* a lock or a signal over, keep the inductive invariant.                  *)
(***************************************************************************)
EXTENDS SynchLemmas

\* Calls and returns that move one thread between labels that own nothing.
LEMMA MoveInv ==
    ASSUME IInv, UNCHANGED <<tvars, waiters, holder>>,
           NEW s \in UserSemas, CallSemaDown(s) \/ CallSemaTryDown(s)
    PROVE  IInv'
<1> USE ThreadAssumption, SynchAssumption DEF IInv
<1>0. /\ me \in Threads /\ me # Idle /\ pc[me] = "run" /\ status[me] # "FREE"
      /\ s \in Semas /\ s # idle_started /\ s \in Sem
  BY DEF me, TypeOK, ThreadTypeOK, CallSemaDown, CallSemaTryDown, CanCall,
         UserSemas, Sem, SchedInv, OneRunning
<1>1. SchedInv' /\ ThreadTypeOK'
  BY DEF SchedInv, ThreadTypeOK, OneRunning, RunQueueExact, AllListExact,
         IdleReachable, IdleInv, tvars, Queued
<1>2. WaitInv' /\ status' = status
  BY DEF WaitInv, tvars
<1>3. CASE CallSemaDown(s)
  <2>1. /\ pc' = [pc EXCEPT ![me] = "sema_down"]
        /\ arg' = [arg EXCEPT ![me] = s]
        /\ UNCHANGED <<value, cond_waiters, peer, slept, tid, next_tid>>
    BY <1>3 DEF CallSemaDown, Goto
  <2>2. TypeOK'
    BY <1>0, <1>1, <2>1 DEF TypeOK, PC
  <2>3. \A t \in Threads : t = me => PcOK(t)'
    BY <1>0, <1>2, <2>1 DEF TypeOK, PcInv, PcOK, TidLabels
  <2>4. PcInv'
    BY Zenon, <1>2, <2>1, <2>3, PcOthers DEF PcInv, TypeOK
  <2>5. \A t \in Threads, l \in Locks : Owns(t, l)' <=> Owns(t, l)
    BY <1>0, <2>1 DEF TypeOK, Owns
  <2> QED BY <1>1, <1>2, <2>1, <2>2, <2>4, <2>5, LocksUntouched
<1>4. CASE CallSemaTryDown(s)
  <2>1. /\ value' = [value EXCEPT ![s] = @ - 1] /\ value[s] > 0
        /\ UNCHANGED <<cond_waiters, pc, arg, peer, slept, tid, next_tid>>
    BY <1>4 DEF CallSemaTryDown
  <2>2. value' \in [Sem -> Nat] /\ \A l \in Locks : value'[l] = value[l]
    <3>1. /\ value \in [Sem -> Nat] /\ s \in Sem /\ s \notin Locks /\ Locks \subseteq Sem
          /\ value[s] - 1 \in Nat
      BY <1>0, <2>1 DEF TypeOK, Sem
    <3> QED BY <2>1, <3>1
  <2>3. TypeOK'
    BY <1>1, <2>1, <2>2 DEF TypeOK
  <2>4. PcInv'
    BY <1>2, <2>1, PcOthers DEF PcInv
  <2>5. LockExclusive'
    BY <2>1, <2>2, LocksUntouched DEF Owns
  <2> QED BY <1>1, <1>2, <2>3, <2>4, <2>5
<1> QED BY <1>3, <1>4

\* lock_acquire's call, lock_try_acquire, and the store to holder.
LEMMA AcquireInv ==
    ASSUME IInv, UNCHANGED <<tvars, waiters>>,
           \/ \E l \in Locks : lock_acquire(l) \/ lock_try_acquire(l)
           \/ LockHold
    PROVE  IInv'
<1> USE ThreadAssumption, SynchAssumption DEF IInv
<1>0. me \in Threads
  BY DEF me, TypeOK, ThreadTypeOK
<1>1. SchedInv' /\ ThreadTypeOK'
  BY DEF SchedInv, ThreadTypeOK, OneRunning, RunQueueExact, AllListExact,
         IdleReachable, IdleInv, tvars, Queued
<1>2. WaitInv'
  BY DEF WaitInv
<1>3. ASSUME NEW l \in Locks, lock_acquire(l) PROVE IInv'
  <2>1. TypeOK'
    BY <1>0, <1>1, <1>3 DEF lock_acquire, Goto, TypeOK, PC
  <2>2. PcInv'
    <3>1. /\ pc' = [pc EXCEPT ![me] = "lock_down"] /\ arg' = [arg EXCEPT ![me] = l]
          /\ l # tid_lock /\ me # Idle /\ UNCHANGED <<holder, peer, status>>
          /\ pc[me] = "run" /\ status[me] # "FREE"
      BY <1>3 DEF lock_acquire, CanCall, Goto, tvars, SchedInv, OneRunning,
                  ThreadTypeOK, me
    <3>2. \A t \in Threads : t = me => PcOK(t)'
      BY <1>0, <3>1 DEF TypeOK, PcInv, PcOK, TidLabels
    <3> QED BY Zenon, <3>1, <3>2, PcOthers DEF PcInv, TypeOK
  <2>3. \A t \in Threads, k \in Locks : Owns(t, k)' <=> Owns(t, k)
    BY <1>0, <1>3 DEF lock_acquire, CanCall, Goto, TypeOK, Owns
  <2>4. LockExclusive'
    BY <1>3, <2>3, LocksUntouched DEF lock_acquire
  <2> QED BY <1>1, <1>2, <2>1, <2>2, <2>4
<1>4. ASSUME NEW l \in Locks, lock_try_acquire(l) PROVE IInv'
  <2>0. l \in Sem /\ value[l] = 1 /\ \A t \in Threads : ~Owns(t, l)
    BY <1>4 DEF lock_try_acquire, LockExclusive, Sem
  <2>1. TypeOK'
    BY <1>0, <1>1, <1>4, <2>0 DEF lock_try_acquire, Goto, TypeOK, PC
  <2>2. PcInv'
    <3>1. /\ pc' = [pc EXCEPT ![me] = "lock_hold"] /\ arg' = [arg EXCEPT ![me] = l]
          /\ l # tid_lock /\ me # Idle /\ UNCHANGED <<holder, peer, status>>
          /\ pc[me] = "run" /\ status[me] # "FREE"
      BY <1>4 DEF lock_try_acquire, CanCall, Goto, tvars, SchedInv, OneRunning,
                  ThreadTypeOK, me
    <3>2. \A t \in Threads : t = me => PcOK(t)'
      BY <1>0, <3>1 DEF TypeOK, PcInv, PcOK, TidLabels
    <3> QED BY Zenon, <3>1, <3>2, PcOthers DEF PcInv, TypeOK
  <2>3. \A t \in Threads, k \in Locks :
            Owns(t, k)' <=> Owns(t, k) \/ (t = me /\ k = l)
    BY <1>0, <1>4 DEF lock_try_acquire, CanCall, Goto, TypeOK, Owns
  <2>4. value'[l] = 0 /\ \A k \in Locks \ {l} : value'[k] = value[k]
    BY <1>4, <2>0 DEF lock_try_acquire, TypeOK, Sem
  <2>5. LockExclusive'
    BY <1>0, <2>0, <2>3, <2>4, LockStep
  <2> QED BY <1>1, <1>2, <2>1, <2>2, <2>5
<1>5. ASSUME LockHold PROVE IInv'
  <2>0. arg[me] \in Locks /\ me # Idle
        /\ (arg[me] = tid_lock => peer[me] \in Threads)
    BY <1>0, <1>5 DEF LockHold, PcInv, PcOK
  <2>1. Owns(me, arg[me])
    BY <1>5, <2>0 DEF LockHold, Owns
  <2>2. \A t \in Threads : Owns(t, arg[me]) => t = me
    BY <1>0, <2>0, <2>1 DEF LockExclusive
  <2>3. TypeOK'
    BY <1>0, <1>1, <1>5, <2>0 DEF LockHold, Goto, TypeOK, PC
  <2>4. PcInv'
    <3>1. \A t \in Threads \ {me} : holder[arg[me]] # t
      BY <2>2 DEF Owns
    <3>2. /\ pc' = [pc EXCEPT ![me] = IF arg[me] = tid_lock THEN "tid_read" ELSE "run"]
          /\ holder' = [holder EXCEPT ![arg[me]] = me]
          /\ status' = status /\ arg' = arg /\ peer' = peer
      BY <1>5 DEF LockHold, Goto, tvars
    <3>3. /\ \A k \in Locks : holder'[k] = IF k = arg[me] THEN me ELSE holder[k]
          /\ \A t \in Threads \ {me} : pc'[t] = pc[t]
          /\ pc'[me] = IF arg[me] = tid_lock THEN "tid_read" ELSE "run"
      BY <1>0, <2>0, <3>2 DEF TypeOK
    <3>4. PcOK(me) /\ pc[me] = "lock_hold"
      BY Zenon, <1>0, <1>5 DEF PcInv, LockHold
    <3>5. \A t \in Threads : t = me => PcOK(t)'
      BY <1>0, <2>0, <3>2, <3>3, <3>4 DEF PcOK, TidLabels
    <3>6. \A t \in Threads \ {me} : PcOK(t)'
      BY <3>1, <3>2, <3>3, PcOthers DEF PcInv
    <3> QED BY Zenon, <3>5, <3>6 DEF PcInv
  <2>5. \A t \in Threads, k \in Locks : Owns(t, k)' <=> Owns(t, k)
    <3> SUFFICES ASSUME NEW t \in Threads, NEW k \in Locks
                 PROVE  Owns(t, k)' <=> Owns(t, k)
      OBVIOUS
    <3>1. CASE t = me
      BY <1>0, <1>5, <2>0, <3>1 DEF LockHold, Goto, TypeOK, Owns
    <3>2. CASE t # me
      BY <1>0, <1>5, <2>0, <2>2, <3>2 DEF LockHold, Goto, TypeOK, Owns
    <3> QED BY <3>1, <3>2
  <2>6. LockExclusive'
    BY <1>5, <2>5, LocksUntouched DEF LockHold
  <2> QED BY <1>1, <1>2, <2>3, <2>4, <2>6
<1> QED BY <1>3, <1>4, <1>5

\* The store to holder in lock_release, from lock_release's own callers, from
\* cond_wait and from allocate_tid: the thread keeps owning the lock until the
\* sema_up.
LEMMA ReleaseInv ==
    ASSUME IInv, UNCHANGED <<tvars, waiters, value, cond_waiters, peer, slept, tid,
                             next_tid>>,
           me # Idle, NEW k \in Locks, holder[k] = me,
           holder' = [holder EXCEPT ![k] = NULL],
           \/ /\ pc[me] = "run" /\ pc' = [pc EXCEPT ![me] = "lock_up"]
              /\ arg' = [arg EXCEPT ![me] = k]
           \/ /\ pc[me] = "tid_release" /\ pc' = [pc EXCEPT ![me] = "lock_up"]
              /\ arg' = arg /\ k = tid_lock
           \/ /\ pc[me] = "cond_release" /\ pc' = [pc EXCEPT ![me] = "cond_up"]
              /\ arg' = arg /\ k = lock_of[arg[me]]
    PROVE  IInv'
<1> USE ThreadAssumption, SynchAssumption DEF IInv
<1>0. me \in Threads /\ status[me] # "FREE"
  BY DEF me, TypeOK, ThreadTypeOK, SchedInv, OneRunning
<1>1. SchedInv' /\ ThreadTypeOK' /\ WaitInv' /\ status' = status
  BY DEF SchedInv, ThreadTypeOK, OneRunning, RunQueueExact, AllListExact,
         IdleReachable, IdleInv, tvars, Queued, WaitInv
<1>2. /\ pc' \in [Threads -> PC]
      /\ arg' \in [Threads -> Semas \cup Locks \cup Conds \cup {NULL}]
      /\ \A t \in Threads \ {me} : pc'[t] = pc[t] /\ arg'[t] = arg[t]
  <2>1. "lock_up" \in PC /\ "cond_up" \in PC
    BY DEF PC
  <2>2. pc' \in [Threads -> PC] /\ \A t \in Threads \ {me} : pc'[t] = pc[t]
    <3>1. PICK lab \in PC : pc' = [pc EXCEPT ![me] = lab]
      BY <2>1
    <3> QED BY <1>0, <3>1 DEF TypeOK
  <2>3. /\ arg' \in [Threads -> Semas \cup Locks \cup Conds \cup {NULL}]
        /\ \A t \in Threads \ {me} : arg'[t] = arg[t]
    <3>1. arg \in [Threads -> Semas \cup Locks \cup Conds \cup {NULL}]
      BY DEF TypeOK
    <3>2. arg' = arg \/ arg' = [arg EXCEPT ![me] = k]
      OBVIOUS
    <3> QED BY <1>0, <3>1, <3>2
  <2> QED BY <2>2, <2>3
<1>8. TypeOK'
  <2>1. holder' \in [Locks -> Threads \cup {NULL}]
    BY DEF TypeOK
  <2> QED BY <1>1, <1>2, <2>1 DEF TypeOK
<1>3. \A l \in Locks : holder'[l] = IF l = k THEN NULL ELSE holder[l]
  BY DEF TypeOK
<1>4. \A t \in Threads : t = me => PcOK(t)'
  <2>1. /\ PcOK(me) /\ me # NULL
        /\ k = tid_lock <=> pc[me] = "tid_release"
        /\ pc[me] = "cond_release" => arg[me] \in Conds
    <3>1. PcOK(me)
      BY Zenon, <1>0 DEF PcInv
    <3> QED BY <1>0, <3>1 DEF PcOK, TidLabels
  <2>2. CASE pc[me] = "run"
    <3>1. pc'[me] = "lock_up" /\ arg'[me] = k /\ k # tid_lock
      BY <1>0, <2>1, <2>2 DEF TypeOK
    <3>2. holder'[k] # me /\ holder'[tid_lock] # me
      BY <1>3, <2>1, <2>2, <3>1 DEF PcOK, TidLabels
    <3> QED BY <1>0, <1>1, <3>1, <3>2 DEF PcOK, TidLabels
  <2>3. CASE pc[me] = "tid_release"
    <3>1. pc'[me] = "lock_up" /\ arg' = arg /\ k = tid_lock
      BY <1>0, <2>1, <2>3 DEF TypeOK
    <3>2. holder'[tid_lock] # me /\ arg[me] = tid_lock /\ peer[me] \in Threads
      BY <1>3, <2>1, <2>3, <3>1 DEF PcOK, TidLabels
    <3> QED BY <1>0, <1>1, <3>1, <3>2 DEF PcOK, TidLabels
  <2>4. CASE pc[me] = "cond_release"
    <3>1. /\ pc'[me] = "cond_up" /\ arg'[me] = arg[me] /\ k = lock_of[arg[me]]
          /\ arg[me] \in Conds
      BY <1>0, <2>1, <2>4 DEF TypeOK
    <3>2. holder'[k] # me /\ (holder'[tid_lock] = me <=> holder[tid_lock] = me)
      BY <1>3, <2>1, <2>4
    <3> QED BY <1>0, <1>1, <2>1, <2>4, <3>1, <3>2 DEF PcOK, TidLabels
  <2> QED BY Zenon, <2>2, <2>3, <2>4
<1>5. PcInv'
  <2>1. /\ holder[k] = me /\ \A t \in Threads : t # NULL
        /\ \A t \in Threads : peer'[t] = peer[t] /\ status'[t] = status[t]
    BY <1>1
  <2>2. \A t \in Threads \ {me}, l \in Locks : holder'[l] = t <=> holder[l] = t
    <3> SUFFICES ASSUME NEW t \in Threads \ {me}, NEW l \in Locks
                 PROVE  holder'[l] = t <=> holder[l] = t
      OBVIOUS
    <3>1. CASE l = k
      <4>1. holder'[l] = NULL /\ holder[l] = me /\ t # NULL /\ t # me
        BY <1>3, <2>1, <3>1
      <4> QED BY Zenon, <4>1
    <3>2. CASE l # k
      BY Zenon, <1>3, <3>2
    <3> QED BY <3>1, <3>2
  <2>3. \A t \in Threads \ {me} : PcOK(t)'
    BY <1>2, <2>1, <2>2, PcOthers DEF PcInv
  <2> QED BY Zenon, <1>4, <2>3 DEF PcInv
<1>6. \A t \in Threads, l \in Locks : Owns(t, l)' <=> Owns(t, l)
  <2>1. pc[me] = "tid_release" => arg[me] = tid_lock
    <3>1. PcOK(me)
      BY Zenon, <1>0 DEF PcInv
    <3> QED BY <3>1 DEF PcOK, TidLabels
  <2>2. \A t \in Threads : Owns(t, k) => t = me
    BY <1>0 DEF LockExclusive, Owns
  <2> SUFFICES ASSUME NEW t \in Threads, NEW l \in Locks
               PROVE  Owns(t, l)' <=> Owns(t, l)
    OBVIOUS
  <2>3. CASE t # me
    BY <1>0, <1>3, <2>3 DEF Owns, TypeOK
  <2>4. CASE t = me
    BY <1>0, <1>3, <2>1, <2>4 DEF Owns, TypeOK
  <2> QED BY Zenon, <2>3, <2>4
<1>7. LockExclusive'
  BY <1>6, LocksUntouched
<1> QED BY <1>1, <1>5, <1>7, <1>8


\* The sema_up of lock_release gives the lock's unit back: nobody owns it.
LEMMA LockUpInv == IInv /\ [ThreadNext]_tvars /\ LockUp => IInv'
<1> SUFFICES ASSUME IInv, [ThreadNext]_tvars, LockUp PROVE IInv'
  OBVIOUS
<1> USE ThreadAssumption, SynchAssumption DEF IInv
<1> DEFINE k == IF pc[me] = "cond_up" THEN lock_of[arg[me]] ELSE arg[me]
<1>0. me \in Threads /\ me # Idle /\ status[me] # "FREE" /\ PcOK(me)
  BY DEF me, TypeOK, ThreadTypeOK, SchedInv, OneRunning, PcInv, PcOK, LockUp
<1>1. k \in Locks /\ k \in Sem /\ holder[k] # me /\ Owns(me, k)
  BY <1>0 DEF LockUp, PcOK, Sem, Owns
<1>2. sema_up(k, UNCHANGED idle_pc)
  BY DEF LockUp
<1>3. all_list' = all_list
  BY <1>2 DEF sema_up, thread_unblock
<1>4. /\ SchedInv' /\ ThreadTypeOK'
      /\ \A t \in Threads : status'[t] = "FREE" => status[t] = "FREE"
  BY <1>3, SchedPart
<1>5. /\ value' = [value EXCEPT ![k] = @ + 1]
      /\ value' \in [Sem -> Nat] /\ waiters' \in [Sem -> Seq(Threads)]
      /\ WaitInv'
  BY <1>1, <1>2, UpFields
<1>6. /\ UNCHANGED <<holder, cond_waiters, arg, peer, slept, tid, next_tid>>
      /\ \/ pc[me] = "cond_up" /\ pc' = [pc EXCEPT ![me] = "cond_down"]
         \/ /\ pc[me] = "lock_up" /\ arg[me] = tid_lock
            /\ pc' = [pc EXCEPT ![me] = "unblock"]
         \/ /\ pc[me] = "lock_up" /\ arg[me] # tid_lock
            /\ pc' = [pc EXCEPT ![me] = "run"]
  <2>1. UNCHANGED <<holder, cond_waiters, arg, peer, slept, tid, next_tid>>
    BY DEF LockUp
  <2>2. CASE pc[me] = "cond_up"
    <3>1. arg[me] # tid_lock
      BY <1>0, <2>2 DEF PcOK
    <3> QED BY Zenon, <2>1, <2>2, <3>1 DEF LockUp, Goto
  <2>3. CASE pc[me] = "lock_up"
    BY Zenon, <2>1, <2>3 DEF LockUp, Goto
  <2> QED BY <2>2, <2>3 DEF LockUp
<1> HIDE DEF k
<1>7. TypeOK'
  BY Zenon, <1>0, <1>4, <1>5, <1>6 DEF TypeOK, PC
<1>8. \A t \in Threads : t = me => PcOK(t)'
  <2>1. \/ pc[me] = "cond_up" /\ pc'[me] = "cond_down"
        \/ pc[me] = "lock_up" /\ arg[me] = tid_lock /\ pc'[me] = "unblock"
        \/ pc[me] = "lock_up" /\ arg[me] # tid_lock /\ pc'[me] = "run"
    BY <1>0, <1>6 DEF TypeOK
  <2> QED BY <1>0, <1>4, <1>6, <2>1 DEF PcOK, TidLabels
<1>9. PcInv'
  BY <1>0, <1>4, <1>6, <1>8, PcOthers DEF PcInv, TypeOK
<1>10. value[k] = 0 /\ \A t \in Threads : Owns(t, k) => t = me
  BY <1>0, <1>1 DEF LockExclusive
<1>11. value'[k] = 1 /\ \A l \in Locks \ {k} : value'[l] = value[l]
  BY <1>1, <1>5, <1>10 DEF TypeOK, Sem
<1>12. \A t \in Threads, l \in Locks : Owns(t, l)' <=> Owns(t, l) /\ l # k
  <2> SUFFICES ASSUME NEW t \in Threads, NEW l \in Locks
               PROVE  Owns(t, l)' <=> Owns(t, l) /\ l # k
    OBVIOUS
  <2>1. CASE t # me
    BY <1>0, <1>6, <1>10, <2>1 DEF Owns, TypeOK
  <2>2. CASE t = me
    BY <1>0, <1>1, <1>6, <2>2 DEF Owns, TypeOK, k
  <2> QED BY <2>1, <2>2
<1>13. LockExclusive'
  BY <1>1, <1>11, <1>12, LockStep
<1> QED BY <1>4, <1>5, <1>7, <1>9, <1>13

\* cond_signal's sema_up: the semaphore is a waiting thread's, not a lock's.
LEMMA SignalUpInv == IInv /\ [ThreadNext]_tvars /\ SignalUp => IInv'
<1> SUFFICES ASSUME IInv, [ThreadNext]_tvars, SignalUp PROVE IInv'
  OBVIOUS
<1> USE ThreadAssumption, SynchAssumption DEF IInv
<1>0. me \in Threads /\ me # Idle /\ status[me] # "FREE" /\ PcOK(me)
  BY DEF me, TypeOK, ThreadTypeOK, SchedInv, OneRunning, PcInv, PcOK, SignalUp
<1>1. peer[me] \in Threads /\ peer[me] \in Sem /\ peer[me] \notin Locks
  BY Zenon, <1>0 DEF SignalUp, PcOK, Sem
<1>2. sema_up(peer[me], UNCHANGED idle_pc)
  BY DEF SignalUp
<1>3. all_list' = all_list
  BY <1>2 DEF sema_up, thread_unblock
<1>4. /\ SchedInv' /\ ThreadTypeOK'
      /\ \A t \in Threads : status'[t] = "FREE" => status[t] = "FREE"
  BY <1>3, SchedPart
<1>5. /\ value' = [value EXCEPT ![peer[me]] = @ + 1]
      /\ value' \in [Sem -> Nat] /\ waiters' \in [Sem -> Seq(Threads)]
      /\ WaitInv'
  BY <1>1, <1>2, UpFields
<1>6. /\ UNCHANGED <<holder, cond_waiters, arg, slept, tid, next_tid>>
      /\ peer' = [peer EXCEPT ![me] = NULL]
      /\ \/ pc[me] = "signal_up" /\ pc' = [pc EXCEPT ![me] = "run"]
         \/ pc[me] = "broadcast_up" /\ pc' = [pc EXCEPT ![me] = "broadcast"]
  BY Zenon DEF SignalUp, Goto
<1>7. TypeOK'
  BY Zenon, <1>0, <1>4, <1>5, <1>6 DEF TypeOK, PC
<1>8. \A t \in Threads : t = me => PcOK(t)'
  <2>1. \/ pc[me] = "signal_up" /\ pc'[me] = "run"
        \/ pc[me] = "broadcast_up" /\ pc'[me] = "broadcast"
    BY <1>0, <1>6 DEF TypeOK
  <2> QED BY <1>0, <1>4, <1>6, <2>1 DEF PcOK, TidLabels
<1>9. PcInv'
  BY <1>0, <1>4, <1>6, <1>8, PcOthers DEF PcInv, TypeOK
<1>10. \A l \in Locks : value'[l] = value[l]
  BY <1>1, <1>5 DEF TypeOK, Sem
<1>11. \A t \in Threads, l \in Locks : Owns(t, l)' <=> Owns(t, l)
  BY <1>0, <1>6 DEF Owns, TypeOK
<1>12. LockExclusive'
  BY <1>10, <1>11, LocksUntouched
<1> QED BY <1>4, <1>5, <1>7, <1>9, <1>12
==============================================================================
