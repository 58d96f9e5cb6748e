---------------------------- MODULE ThreadProofs ----------------------------
(***************************************************************************)
(* The scheduler's invariants, for any set of threads and any time slice.  *)
(***************************************************************************)
EXTENDS Thread, TLAPS

(* What list_push_back and list_pop_front do to the elements on a list and to *)
(* their being distinct, for any list over any set.                           *)

\* list_push_back: the list is not empty and gains exactly e.
LEMMA PushBackElems ==
    ASSUME NEW S, NEW q \in Seq(S), NEW e \in S
    PROVE  /\ Append(q, e) \in Seq(S)
           /\ Append(q, e) # <<>>
           /\ Elems(Append(q, e)) = Elems(q) \cup {e}
<1>1. /\ Append(q, e) \in Seq(S) /\ Append(q, e) # <<>>
      /\ DOMAIN Append(q, e) = 1 .. Len(q) + 1
      /\ DOMAIN q = 1 .. Len(q) /\ Len(q) \in Nat
      /\ \A i \in 1 .. Len(q) : Append(q, e)[i] = q[i]
      /\ Append(q, e)[Len(q) + 1] = e
  OBVIOUS
<1>2. ASSUME NEW x PROVE x \in Elems(Append(q, e)) <=> x \in Elems(q) \cup {e}
  <2>1. ASSUME x \in Elems(q) PROVE x \in Elems(Append(q, e))
    <3>1. PICK i \in DOMAIN q : x = q[i]
      BY <2>1 DEF Elems
    <3>2. i \in DOMAIN Append(q, e) /\ Append(q, e)[i] = x
      BY <1>1, <3>1
    <3> QED BY <3>2 DEF Elems
  <2>2. e \in Elems(Append(q, e))
    <3>1. Len(q) + 1 \in DOMAIN Append(q, e)
      BY <1>1
    <3> QED BY <1>1, <3>1 DEF Elems
  <2>3. ASSUME x \in Elems(Append(q, e)) PROVE x \in Elems(q) \cup {e}
    <3>1. PICK i \in DOMAIN Append(q, e) : x = Append(q, e)[i]
      BY <2>3 DEF Elems
    <3>2. CASE i \in 1 .. Len(q)
      BY <1>1, <3>1, <3>2 DEF Elems
    <3>3. CASE i = Len(q) + 1
      BY <1>1, <3>1, <3>3
    <3> QED BY <1>1, <3>1, <3>2, <3>3
  <2> QED BY <2>1, <2>2, <2>3
<1> QED BY <1>1, <1>2

\* list_push_back keeps the elements distinct if e was not on the list.
LEMMA PushBackDistinct ==
    ASSUME NEW S, NEW q \in Seq(S), NEW e \in S, Distinct(q), e \notin Elems(q)
    PROVE  Distinct(Append(q, e))
<1>1. /\ DOMAIN Append(q, e) = 1 .. Len(q) + 1
      /\ DOMAIN q = 1 .. Len(q) /\ Len(q) \in Nat
      /\ \A i \in 1 .. Len(q) : Append(q, e)[i] = q[i]
      /\ Append(q, e)[Len(q) + 1] = e
  OBVIOUS
<1>2. \A i \in 1 .. Len(q) : q[i] # e
  BY <1>1 DEF Elems
<1> QED BY <1>1, <1>2 DEF Distinct

\* list_pop_front: the front leaves the list and nothing else changes.
LEMMA PopFront ==
    ASSUME NEW S, NEW q \in Seq(S), q # <<>>, Distinct(q)
    PROVE  /\ Head(q) \in S
           /\ Head(q) \in Elems(q)
           /\ Tail(q) \in Seq(S)
           /\ Distinct(Tail(q))
           /\ Elems(Tail(q)) = Elems(q) \ {Head(q)}
<1>1. /\ Head(q) \in S /\ Tail(q) \in Seq(S)
      /\ Len(q) \in Nat /\ Len(q) >= 1
      /\ DOMAIN q = 1 .. Len(q) /\ DOMAIN Tail(q) = 1 .. Len(q) - 1
      /\ Head(q) = q[1]
      /\ \A i \in 1 .. Len(q) - 1 : Tail(q)[i] = q[i + 1]
  OBVIOUS
<1>2. Head(q) \in Elems(q)
  BY <1>1 DEF Elems
<1>3. Distinct(Tail(q))
  BY <1>1 DEF Distinct
<1>4. ASSUME NEW x PROVE x \in Elems(Tail(q)) <=> x \in Elems(q) \ {Head(q)}
  <2>1. ASSUME x \in Elems(Tail(q)) PROVE x \in Elems(q) \ {Head(q)}
    <3>1. PICK i \in DOMAIN Tail(q) : x = Tail(q)[i]
      BY <2>1 DEF Elems
    <3>2. i + 1 \in DOMAIN q /\ x = q[i + 1] /\ i + 1 # 1
      BY <1>1, <3>1
    <3> QED BY <1>1, <3>2 DEF Elems, Distinct
  <2>2. ASSUME x \in Elems(q) \ {Head(q)} PROVE x \in Elems(Tail(q))
    <3>1. PICK i \in DOMAIN q : x = q[i]
      BY <2>2 DEF Elems
    <3>2. i # 1
      BY <1>1, <2>2, <3>1
    <3>3. i - 1 \in DOMAIN Tail(q) /\ Tail(q)[i - 1] = x
      BY <1>1, <3>1, <3>2
    <3> QED BY <3>3 DEF Elems
  <2> QED BY <2>1, <2>2
<1> QED BY <1>1, <1>2, <1>3, <1>4

-----------------------------------------------------------------------------
(* The scheduler. *)

\* What the invariants need besides themselves: idle() has published itself
\* exactly when it is past its first statement, and the idle thread never exits.
IdleInv ==
    /\ idle_thread = NULL <=> idle_pc = "start"
    /\ status[Idle] \in {"RUNNING", "READY", "BLOCKED"}

\* The inductive invariant of the scheduler.
SchedInv ==
    /\ ThreadTypeOK
    /\ OneRunning
    /\ RunQueueExact
    /\ AllListExact
    /\ IdleReachable
    /\ IdleInv

\* The part of SchedInv that schedule() can disturb, except all_list's.
SwitchInv ==
    /\ current \in Threads
    /\ status \in [Threads -> Status]
    /\ ready_list \in Seq(Threads)
    /\ thread_ticks \in 0 .. TIME_SLICE - 1
    /\ OneRunning
    /\ RunQueueExact
    /\ IdleReachable
    /\ status[Idle] \in {"RUNNING", "READY", "BLOCKED"}

\* schedule() re-establishes the invariant from any legal entry: the running
\* thread's new status is st, and rl is the run queue, with the running thread
\* pushed on it exactly when it is to be READY and is not the idle thread.
LEMMA ScheduleSwitch ==
    ASSUME SchedInv,
           NEW st \in {"READY", "BLOCKED", "DYING"},
           NEW rl \in Seq(Threads),
           Distinct(rl),
           Elems(rl) = Queued \cup (IF st = "READY" /\ current # idle_thread
                                    THEN {current} ELSE {}),
           current = Idle => st # "DYING" /\ (st = "READY" \/ idle_thread = Idle),
           schedule(st, rl),
           idle_thread' = idle_thread
    PROVE  /\ SwitchInv'
           /\ \A t \in Threads : t # current =>
                 (status'[t] \in {"RUNNING", "READY", "BLOCKED"}
                    <=> status[t] \in {"RUNNING", "READY", "BLOCKED"})
           /\ status'[current] \in {"RUNNING", "READY", "BLOCKED"}
                 <=> st # "DYING"
<1> DEFINE next == next_thread_to_run(rl)
           left == IF st = "DYING" /\ current # initial_thread
                   THEN "FREE" ELSE st
<1> USE ThreadAssumption
<1>0. /\ current \in Threads /\ status \in [Threads -> Status]
      /\ ready_list \in Seq(Threads) /\ idle_thread \in {NULL, Idle}
      /\ Idle \in Threads /\ thread_ticks \in 0 .. TIME_SLICE - 1
  BY DEF SchedInv, ThreadTypeOK
<1>1. /\ Queued = {t \in Threads : status[t] = "READY" /\ t # idle_thread}
      /\ \A t \in Threads : status[t] = "RUNNING" <=> t = current
      /\ idle_thread = NULL => Idle \in Queued \cup {current}
      /\ status[Idle] \in {"RUNNING", "READY", "BLOCKED"}
  BY DEF SchedInv, RunQueueExact, OneRunning, IdleReachable, IdleInv
<1>2. rl = <<>> => Elems(rl) = {}
  BY DEF Elems
<1>3. rl # <<>> => next = Head(rl) /\ next \in Elems(rl)
  BY PopFront DEF next_thread_to_run
<1>4. rl = <<>> => idle_thread = Idle /\ next = Idle
  BY <1>0, <1>1, <1>2 DEF next_thread_to_run
<1>5. next \in Threads /\ (next = current => st # "DYING")
  BY <1>0, <1>1, <1>3, <1>4
<1>6. /\ current' = next
      /\ status' = [status EXCEPT ![current] = left, ![next] = "RUNNING"]
      /\ ready_list' = IF rl = <<>> THEN rl ELSE Tail(rl)
      /\ thread_ticks' = 0
  BY DEF schedule
<1>7. /\ ready_list' \in Seq(Threads) /\ Distinct(ready_list')
      /\ Elems(ready_list') = Elems(rl) \ {next}
  <2>1. CASE rl = <<>>
    BY <1>2, <1>6, <2>1
  <2>2. CASE rl # <<>>
    BY <1>3, <1>6, <2>2, PopFront
  <2> QED BY <2>1, <2>2
<1>8. /\ status' \in [Threads -> Status]
      /\ status'[next] = "RUNNING"
      /\ next # current => status'[current] = left
      /\ \A t \in Threads \ {current, next} : status'[t] = status[t]
      /\ left \in Status \ {"RUNNING"}
      /\ st # "DYING" => left = st
      /\ st = "DYING" => left \in {"FREE", "DYING"}
  BY <1>0, <1>5, <1>6 DEF Status
<1>9. status[next] \in {"RUNNING", "READY", "BLOCKED"}
  BY <1>0, <1>1, <1>3, <1>4, <1>5
<1>10. OneRunning'
  BY <1>0, <1>1, <1>5, <1>6, <1>8 DEF OneRunning
<1>11. Queued' = {t \in Threads : status'[t] = "READY" /\ t # idle_thread'}
  <2>1. Queued' = (Queued \cup (IF st = "READY" /\ current # idle_thread
                               THEN {current} ELSE {})) \ {next}
    BY <1>7 DEF Queued
  <2>2. ASSUME NEW t \in Threads
        PROVE  t \in Queued' <=> status'[t] = "READY" /\ t # idle_thread
    <3>1. CASE t = next
      BY <1>8, <2>1, <3>1
    <3>2. CASE t = current /\ t # next
      BY <1>1, <1>8, <2>1, <3>2
    <3>3. CASE t # current /\ t # next
      BY <1>1, <1>8, <2>1, <3>3
    <3> QED BY <3>1, <3>2, <3>3
  <2>3. Queued' \subseteq Threads
    BY <1>0, <1>1, <2>1
  <2> QED BY <2>2, <2>3
<1>12. IdleReachable'
  BY <1>0, <1>1, <1>6, <1>7, <1>4 DEF IdleReachable, Queued
<1>13. status'[Idle] \in {"RUNNING", "READY", "BLOCKED"}
  BY <1>0, <1>1, <1>8
<1>14. SwitchInv'
  BY <1>5, <1>6, <1>7, <1>8, <1>10, <1>11, <1>12, <1>13
     DEF SwitchInv, RunQueueExact
<1>15. \A t \in Threads : t # current =>
          (status'[t] \in {"RUNNING", "READY", "BLOCKED"}
             <=> status[t] \in {"RUNNING", "READY", "BLOCKED"})
  BY <1>8, <1>9
<1>16. status'[current] \in {"RUNNING", "READY", "BLOCKED"} <=> st # "DYING"
  BY <1>5, <1>8
<1> QED BY <1>14, <1>15, <1>16

\* Steps that end in thread_block keep the invariant.
LEMMA BlockStep ==
    ASSUME SchedInv, thread_block, current = Idle => idle_thread = Idle,
           idle_pc' \in {idle_pc, "hlt"}, idle_pc = "start" => idle_pc' = "start"
    PROVE  SchedInv'
<1> USE ThreadAssumption
<1>1. /\ ready_list \in Seq(Threads) /\ Distinct(ready_list)
      /\ Elems(ready_list) = Queued
      /\ schedule("BLOCKED", ready_list)
      /\ all_list' = all_list /\ idle_thread' = idle_thread
  BY DEF SchedInv, ThreadTypeOK, RunQueueExact, Queued, thread_block
<1>2. /\ SwitchInv'
      /\ \A t \in Threads : t # current =>
            (status'[t] \in {"RUNNING", "READY", "BLOCKED"}
               <=> status[t] \in {"RUNNING", "READY", "BLOCKED"})
      /\ status'[current] \in {"RUNNING", "READY", "BLOCKED"}
  BY <1>1, ScheduleSwitch
<1>3. AllListExact'
  BY <1>1, <1>2 DEF SchedInv, AllListExact, OneRunning, ThreadTypeOK
<1> QED BY <1>1, <1>2, <1>3
        DEF SchedInv, SwitchInv, ThreadTypeOK, IdleInv

\* Steps that end in thread_yield keep the invariant.
LEMMA YieldStep ==
    ASSUME SchedInv, thread_yield,
           idle_pc' = idle_pc \/ (idle_pc = "hlt" /\ idle_pc' = "block")
    PROVE  SchedInv'
<1> USE ThreadAssumption
<1> DEFINE rl == IF current # idle_thread THEN Append(ready_list, current)
                 ELSE ready_list
<1>1. /\ ready_list \in Seq(Threads) /\ Distinct(ready_list)
      /\ Elems(ready_list) = Queued /\ current \in Threads
      /\ current \notin Queued
      /\ schedule("READY", rl)
      /\ all_list' = all_list /\ idle_thread' = idle_thread
  BY DEF SchedInv, ThreadTypeOK, RunQueueExact, OneRunning, Queued, thread_yield
<1>2. /\ rl \in Seq(Threads) /\ Distinct(rl)
      /\ Elems(rl) = Queued \cup (IF current # idle_thread
                                  THEN {current} ELSE {})
  BY <1>1, PushBackElems, PushBackDistinct
<1>3. /\ SwitchInv'
      /\ \A t \in Threads : t # current =>
            (status'[t] \in {"RUNNING", "READY", "BLOCKED"}
               <=> status[t] \in {"RUNNING", "READY", "BLOCKED"})
      /\ status'[current] \in {"RUNNING", "READY", "BLOCKED"}
  <2> HIDE DEF rl
  <2> QED BY <1>1, <1>2, ScheduleSwitch
<1>4. AllListExact'
  BY <1>1, <1>3 DEF SchedInv, AllListExact, OneRunning, ThreadTypeOK
<1> QED BY <1>1, <1>3, <1>4
        DEF SchedInv, SwitchInv, ThreadTypeOK, IdleInv

\* thread_unblock of a thread other than idle() keeps the invariant.
LEMMA UnblockStep ==
    ASSUME SchedInv, NEW t \in Threads, t # Idle, thread_unblock(t),
           idle_pc' = idle_pc \/ (idle_pc = "hlt" /\ idle_pc' = "block")
                              \/ (idle_pc = "started" /\ idle_pc' = "block")
    PROVE  SchedInv'
<1> USE ThreadAssumption
<1>1. /\ ready_list \in Seq(Threads) /\ Distinct(ready_list)
      /\ Elems(ready_list) = Queued /\ t \notin Queued /\ t # current
      /\ status \in [Threads -> Status] /\ status[t] = "BLOCKED"
      /\ ready_list' = Append(ready_list, t)
      /\ status' = [status EXCEPT ![t] = "READY"]
      /\ UNCHANGED <<current, all_list, idle_thread, thread_ticks>>
  BY DEF SchedInv, ThreadTypeOK, RunQueueExact, OneRunning, Queued,
         thread_unblock
<1>2. /\ ready_list' \in Seq(Threads) /\ Distinct(ready_list')
      /\ Queued' = Queued \cup {t}
  BY <1>1, PushBackElems, PushBackDistinct DEF Queued
<1>3. /\ ThreadTypeOK' /\ OneRunning' /\ IdleReachable' /\ IdleInv'
  BY <1>1, <1>2 DEF SchedInv, ThreadTypeOK, OneRunning, IdleReachable,
                    IdleInv, Status
<1>4. RunQueueExact'
  BY <1>1, <1>2 DEF SchedInv, RunQueueExact, ThreadTypeOK
<1>5. AllListExact'
  BY <1>1 DEF SchedInv, AllListExact
<1> QED BY <1>3, <1>4, <1>5 DEF SchedInv

\* Every step of the scheduler keeps the invariant.
LEMMA SchedStep == SchedInv /\ [ThreadNext]_tvars => SchedInv'
<1> SUFFICES ASSUME SchedInv, [ThreadNext]_tvars PROVE SchedInv'
  OBVIOUS
<1> USE ThreadAssumption
<1>1. ASSUME NEW t \in Threads, init_thread(t) PROVE SchedInv'
  <2>1. t # current /\ t # Idle /\ t \notin Queued
    BY <1>1 DEF SchedInv, ThreadTypeOK, OneRunning, RunQueueExact, IdleInv,
                init_thread
  <2>2. ThreadTypeOK' /\ OneRunning' /\ IdleReachable' /\ IdleInv'
    BY <1>1, <2>1 DEF SchedInv, ThreadTypeOK, OneRunning, IdleReachable,
                      IdleInv, Status, init_thread, Queued
  <2>3. RunQueueExact' /\ AllListExact'
    BY <1>1, <2>1 DEF SchedInv, ThreadTypeOK, RunQueueExact, AllListExact,
                      init_thread, Queued
  <2> QED BY <2>2, <2>3 DEF SchedInv
<1>2. ASSUME exit_schedule PROVE SchedInv'
  <2>1. /\ ready_list \in Seq(Threads) /\ Distinct(ready_list)
        /\ Elems(ready_list) = Queued /\ current # Idle
        /\ schedule("DYING", ready_list)
        /\ all_list' = all_list \ {current}
        /\ UNCHANGED <<idle_thread, idle_pc>>
    BY <1>2 DEF SchedInv, ThreadTypeOK, RunQueueExact, Queued, exit_schedule
  <2>2. /\ SwitchInv'
        /\ \A t \in Threads : t # current =>
              (status'[t] \in {"RUNNING", "READY", "BLOCKED"}
                 <=> status[t] \in {"RUNNING", "READY", "BLOCKED"})
        /\ status'[current] \notin {"RUNNING", "READY", "BLOCKED"}
    BY <2>1, ScheduleSwitch
  <2>3. AllListExact'
    BY <2>1, <2>2 DEF SchedInv, AllListExact, ThreadTypeOK
  <2> QED BY <2>1, <2>2, <2>3
          DEF SchedInv, SwitchInv, ThreadTypeOK, IdleInv
<1>3. ASSUME Block \/ idle_block PROVE SchedInv'
  BY <1>3, BlockStep DEF Block, idle_block, SchedInv, IdleInv, ThreadTypeOK
<1>4. ASSUME Yield PROVE SchedInv'
  BY <1>4, YieldStep DEF Yield
<1>5. ASSUME NEW t \in Threads, Unblock(t) \/ intr_unblock(t) PROVE SchedInv'
  BY <1>5, UnblockStep DEF Unblock, intr_unblock, leave_hlt
<1>6. ASSUME idle_start PROVE SchedInv'
  <2>1. Idle \notin Queued
    BY <1>6 DEF SchedInv, RunQueueExact, OneRunning, idle_start
  <2> QED
    BY <1>6, <2>1 DEF SchedInv, ThreadTypeOK, OneRunning, RunQueueExact,
                AllListExact, IdleReachable, IdleInv, idle_start, Queued
<1>7. ASSUME idle_up PROVE SchedInv'
  <2>1. CASE thread_unblock(initial_thread)
    BY <1>7, <2>1, UnblockStep DEF idle_up
  <2>2. CASE UNCHANGED <<current, status, ready_list, all_list, idle_thread,
                         thread_ticks>>
    BY <1>7, <2>2 DEF SchedInv, ThreadTypeOK, OneRunning, RunQueueExact,
                AllListExact, IdleReachable, IdleInv, idle_up, Queued
  <2> QED BY <1>7, <2>1, <2>2 DEF idle_up
<1>8. ASSUME thread_tick PROVE SchedInv'
  <2>1. CASE thread_yield
    BY <1>8, <2>1, YieldStep DEF thread_tick, leave_hlt
  <2>2. CASE ~thread_yield
    BY <1>8, <2>2 DEF SchedInv, ThreadTypeOK, OneRunning, RunQueueExact,
                AllListExact, IdleReachable, IdleInv, thread_tick, leave_hlt,
                Queued
  <2> QED BY <2>1, <2>2
<1>9. ASSUME intr_other PROVE SchedInv'
  BY <1>9 DEF SchedInv, ThreadTypeOK, OneRunning, RunQueueExact, AllListExact,
              IdleReachable, IdleInv, intr_other, leave_hlt, Queued
<1>10. ASSUME UNCHANGED tvars PROVE SchedInv'
  BY <1>10 DEF SchedInv, ThreadTypeOK, OneRunning, RunQueueExact, AllListExact,
               IdleReachable, IdleInv, tvars, Queued
<1> QED BY <1>1, <1>2, <1>3, <1>4, <1>5, <1>6, <1>7, <1>8, <1>9, <1>10
        DEF ThreadNext

\* The state thread_start hands over satisfies the invariant.
LEMMA SchedInit == ThreadInit => SchedInv
<1> SUFFICES ASSUME ThreadInit PROVE SchedInv
  OBVIOUS
<1> USE ThreadAssumption
<1>1. Queued = {Idle} /\ Distinct(ready_list) /\ ready_list \in Seq(Threads)
  BY DEF ThreadInit, Queued, Elems, Distinct
<1>2. /\ ThreadTypeOK /\ OneRunning /\ IdleReachable /\ IdleInv
  BY <1>1 DEF ThreadInit, ThreadTypeOK, OneRunning, IdleReachable, IdleInv,
              Status
<1>3. RunQueueExact /\ AllListExact
  BY <1>1 DEF ThreadInit, RunQueueExact, AllListExact
<1> QED BY <1>2, <1>3 DEF SchedInv

\* The inductive invariant holds in every reachable state of the scheduler.
THEOREM SchedInvariant == ThreadSpec => []SchedInv
  BY SchedInit, SchedStep, PTL DEF ThreadSpec

\* schedule() always finds a thread: current is never a null pointer, and every
\* field keeps its type, in every reachable state.
THEOREM ThreadTyping == ThreadSpec => []ThreadTypeOK
<1>1. SchedInv => ThreadTypeOK
  BY DEF SchedInv
<1> QED BY <1>1, SchedInvariant, PTL

\* However threads block, yield, exit and are preempted, exactly one runs and
\* the run queue holds exactly the other READY threads, each once, and never
\* the published idle thread.
THEOREM RunQueueSafe == ThreadSpec => [](OneRunning /\ RunQueueExact)
<1>1. SchedInv => OneRunning /\ RunQueueExact
  BY DEF SchedInv
<1> QED BY <1>1, SchedInvariant, PTL

\* thread_foreach never reaches a freed page.
THEOREM AllListSafe == ThreadSpec => []AllListExact
<1>1. SchedInv => AllListExact
  BY DEF SchedInv
<1> QED BY <1>1, SchedInvariant, PTL
=============================================================================
