---------------------------- MODULE ProcessProofs ----------------------------
(***************************************************************************)
(* For any number of processes: parent and child use the memory they share *)
(* without a lock only while it is there, process_execute and process_wait *)
(* return only when the outcome is known, the child's executable is then   *)
(* writable again, and only a page fault of the kernel itself leaves       *)
(* file_lock behind.                                                       *)
(***************************************************************************)
EXTENDS ProcessLemmas

\* The child ups its parent's semaphore when it has loaded or failed: the parent is
\* there, and has not been upped before.
LEMMA StartReturnInv ==
    ASSUME IInv, NEW p \in Procs, StartReturn(p)
    PROVE  IInv'
<1> USE DEF IInv, TypeInv, At, Goto, family, record, handshake, loading, filing, locking
<1>1. TypeInv'
  BY ProcsFacts, StatusFacts DEF KinInv, LoadInv, Loads, Records, PC, StartReturn
<1>2. KinInv'
  BY ProcsFacts DEF KinInv, LoadInv, WaitInv, StartReturn
<1>3. LoadInv'
  BY ProcsFacts DEF KinInv, LoadInv, Loads, StartReturn
<1>4. WaitInv'
  BY ProcsFacts DEF KinInv, WaitInv, Done, Records, StartReturn
<1>5. OffInv'
  BY ProcsFacts DEF KinInv, WaitInv, OffInv, Done, Records, Runs, StartReturn
<1>6. LockInv'
  BY ProcsFacts DEF KinInv, LockInv, Holds, StartReturn
<1> QED BY <1>1, <1>2, <1>3, <1>4, <1>5, <1>6

\* thread_create makes a process, its record and the handshake.
LEMMA ExecuteInv ==
    ASSUME IInv, NEW p \in Procs, process_execute(p)
    PROVE  IInv'
<1> DEFINE t == next_tid
<1>1. t \in Procs /\ t \in Nat /\ t # p /\ t # main /\ pc[t] = "unused" /\ pc[p] = "user"
  BY ProcsFacts DEF IInv, TypeInv, KinInv, At, process_execute
<1>2. /\ pc' = [pc EXCEPT ![t] = "start", ![p] = "exec"]
      /\ parent' = [parent EXCEPT ![t] = p]
      /\ children' = [children EXCEPT ![p] = @ \cup {t}]
      /\ child' = [child EXCEPT ![t] = NewChild]
      /\ target' = [target EXCEPT ![p] = t]
      /\ next_tid' = t + 1 /\ t <= MaxTid
      /\ file_lock' = file_lock
         \/ (file_lock # NULL /\ pc[file_lock] = "dead" /\ file_lock' = t)
      /\ UNCHANGED <<st_exit, sema_wait, eax, exec_file, fault_locked, off>>
  BY DEF process_execute, loading
<1>3. NewChild \in Records /\ NewChild.mem = "live" /\ NewChild.sema = 0
  BY StatusFacts DEF NewChild, Records
<1> HIDE DEF t
<1>4. TypeInv'
  <2>1. next_tid' \in 2..(MaxTid + 1)
    BY <1>1, <1>2, ProcessAssumption DEF Procs, t
  <2> QED
    BY <1>1, <1>2, <1>3, <2>1 DEF IInv, TypeInv, PC
<1>5. \A q \in Procs : q < next_tid' => q = t \/ q < next_tid
  BY <1>1, <1>2, ProcsFacts DEF t
<1>6. KinInv'
  <2>1. \A q \in Procs : (pc'[q] = "unused") = (q >= next_tid')
    BY <1>1, <1>2, <1>5, ProcsFacts DEF IInv, TypeInv, KinInv, t
  <2>2. \A q \in Procs : q # main /\ q < next_tid' =>
           parent'[q] \in Procs /\ parent'[q] # q /\ child'[q].mem # "none"
    BY <1>1, <1>2, <1>3, <1>5 DEF IInv, TypeInv, KinInv
  <2>3. ASSUME NEW q \in Procs, NEW u \in Procs, u \in children'[q]
        PROVE  u # main /\ u < next_tid' /\ parent'[u] = q /\ child'[u].mem = "live"
    <3>1. CASE u \in children[q]
      <4>1. u # main /\ u < next_tid /\ u # t /\ parent[u] = q /\ child[u].mem = "live"
        BY <3>1, <1>1, ProcsFacts DEF IInv, KinInv, t
      <4> QED
        BY <4>1, <1>1, <1>2, ProcsFacts DEF IInv, TypeInv, t
    <3>2. CASE u \notin children[q]
      <4>1. u = t /\ q = p
        BY <3>2, <2>3, <1>2 DEF IInv, TypeInv
      <4> QED
        BY <4>1, <1>1, <1>2, <1>3 DEF IInv, TypeInv
    <3> QED
      BY <3>1, <3>2
  <2> QED
    BY <2>1, <2>2, <2>3 DEF KinInv
<1>7. LoadInv'
  <2>1. ASSUME NEW u \in Procs, pc'[u] \in Loads
        PROVE  /\ u # main /\ pc'[parent'[u]] = "exec" /\ target'[parent'[u]] = u
               /\ sema_wait'[parent'[u]] = 0
    <3>1. CASE u = t
      BY <3>1, <1>1, <1>2 DEF IInv, TypeInv, LoadInv
    <3>2. CASE u # t
      <4>1. pc[u] \in Loads /\ parent'[u] = parent[u]
        BY <3>2, <2>1, <1>1, <1>2 DEF IInv, TypeInv, Loads
      <4>2. parent[u] \in Procs /\ parent[u] \notin {p, t} /\ u # main
        BY <4>1, <1>1, ProcsFacts DEF IInv, TypeInv, KinInv, LoadInv, Loads
      <4> QED
        BY <4>1, <4>2, <1>1, <1>2, Zenon DEF IInv, TypeInv, LoadInv
    <3> QED
      BY <3>1, <3>2
  <2>2. \A q \in Procs : pc'[q] # "exec" => sema_wait'[q] = 0
    BY <1>1, <1>2 DEF IInv, TypeInv, LoadInv
  <2>4. next_tid' = next_tid + 1 /\ next_tid \in Nat
    BY <1>1, <1>2 DEF t
  <2>3. ASSUME NEW q \in Procs, pc'[q] = "exec"
        PROVE  target'[q] \in Procs /\ target'[q] < next_tid' /\ parent'[target'[q]] = q
    <3>1. CASE q = p
      BY <3>1, <1>1, <1>2 DEF IInv, TypeInv
    <3>2. CASE q # p
      <4>1. pc[q] = "exec" /\ target'[q] = target[q]
        BY <3>2, <2>3, <1>1, <1>2 DEF IInv, TypeInv
      <4>2. target[q] \in Procs /\ target[q] < next_tid /\ parent[target[q]] = q
        BY <4>1 DEF IInv, LoadInv
      <4>3. target[q] # t /\ target[q] < next_tid'
        BY <4>2, <2>4, ProcsFacts DEF t
      <4> QED
        BY <4>1, <4>2, <4>3, <1>2 DEF IInv, TypeInv
    <3> QED
      BY <3>1, <3>2
  <2> QED
    BY <2>1, <2>2, <2>3 DEF LoadInv
<1>8. WaitInv'
  BY <1>1, <1>2, <1>3 DEF IInv, TypeInv, WaitInv, Done
<1>9. OffInv'
  BY <1>1, <1>2, <1>3 DEF IInv, TypeInv, OffInv
<1>10. LockInv'
  BY <1>1, <1>2 DEF IInv, TypeInv, LockInv, Holds
<1> QED BY <1>4, <1>6, <1>7, <1>8, <1>9, <1>10 DEF IInv

\* The parent leaves process_execute after that up.
LEMMA ExecReturnInv ==
    ASSUME IInv, NEW p \in Procs, ExecReturn(p)
    PROVE  IInv'
<1> USE DEF IInv, TypeInv, At, Goto, family, record, handshake, loading, filing, locking
<1>1. TypeInv'
  BY ProcsFacts, StatusFacts DEF KinInv, LoadInv, Loads, Records, PC, ExecReturn
<1>2. KinInv'
  BY ProcsFacts DEF KinInv, LoadInv, WaitInv, ExecReturn
<1>3. LoadInv'
  BY ProcsFacts DEF KinInv, LoadInv, Loads, ExecReturn
<1>4. WaitInv'
  BY ProcsFacts DEF KinInv, WaitInv, Done, Records, ExecReturn
<1>5. OffInv'
  BY ProcsFacts DEF KinInv, WaitInv, OffInv, Done, Records, Runs, ExecReturn
<1>6. LockInv'
  BY ProcsFacts DEF KinInv, LockInv, Holds, ExecReturn
<1> QED BY <1>1, <1>2, <1>3, <1>4, <1>5, <1>6

\* process_wait finds the record of t on p's list, or fails.
LEMMA WaitBeginInv ==
    ASSUME IInv, NEW p \in Procs, NEW t \in Procs, process_wait(p, t)
    PROVE  IInv'
<1>1. CASE t \notin children[p] \/ child[t].succ
  <2>1. UNCHANGED <<pc, child, target, parent, children, next_tid, st_exit, sema_wait,
                   exec_file, file_lock, fault_locked, off>>
        /\ eax' = [eax EXCEPT ![p] = ERROR]
    BY <1>1, StatusFacts DEF process_wait, family, loading, locking
  <2> QED
    BY <2>1, StatusFacts
    DEF IInv, TypeInv, KinInv, LoadInv, WaitInv, OffInv, LockInv
<1>2. CASE t \in children[p] /\ ~child[t].succ
  <2>1. /\ child' = [child EXCEPT ![t].succ = TRUE]
        /\ target' = [target EXCEPT ![p] = t]
        /\ pc' = [pc EXCEPT ![p] = "wait"] /\ pc[p] = "user"
        /\ UNCHANGED <<eax, parent, children, next_tid, st_exit, sema_wait, exec_file,
                       file_lock, fault_locked, off>>
    BY <1>2 DEF process_wait, At, Goto, family, loading, locking
  <2>2. \A q \in Procs : /\ child'[q].mem = child[q].mem /\ child'[q].sema = child[q].sema
                          /\ child'[q].st_exit = child[q].st_exit
    BY <2>1 DEF IInv, TypeInv, Records
  <2>3. TypeInv'
    BY <2>1, Zenon DEF IInv, TypeInv, Records, PC
  <2>4. KinInv'
    BY <2>1, <2>2, ProcsFacts DEF IInv, TypeInv, KinInv
  <2>5. LoadInv'
    BY <2>1, ProcsFacts DEF IInv, TypeInv, KinInv, LoadInv, Loads
  <2>6. WaitInv'
    BY <2>1, <2>2, <1>2 DEF IInv, TypeInv, WaitInv, Done
  <2>7. OffInv' /\ LockInv'
    BY <2>1, <2>2 DEF IInv, TypeInv, OffInv, LockInv, Holds
  <2> QED
    BY <2>3, <2>4, <2>5, <2>6, <2>7 DEF IInv
<1> QED
  BY <1>1, <1>2 DEF process_wait

\* process_wait frees the record: by its up the child is past its last use, and with
\* interrupts on it has closed its executable.
LEMMA WaitReturnInv ==
    ASSUME IInv, NEW p \in Procs, WaitReturn(p)
    PROVE  IInv'
<1> DEFINE t == target[p]
<1>1. pc[p] = "wait" /\ off \in {NULL, p} /\ t \in children[p] /\ t \in Procs
  BY DEF IInv, TypeInv, WaitInv, WaitReturn, At, Runs
<1>2. /\ child[t].sema > 0
      /\ eax' = [eax EXCEPT ![p] = child[t].st_exit]
      /\ children' = [children EXCEPT ![p] = @ \ {t}]
      /\ child' = [child EXCEPT ![t].mem = "freed", ![t].sema = @ - 1]
      /\ target' = [target EXCEPT ![p] = NULL]
      /\ pc' = [pc EXCEPT ![p] = "user"]
      /\ UNCHANGED <<parent, next_tid, st_exit, sema_wait, exec_file, file_lock, fault_locked, off>>
  BY DEF WaitReturn, Goto, loading, locking
<1> HIDE DEF t
<1>3. /\ \A q \in Procs : q # t => child'[q] = child[q]
      /\ child'[t] = [child[t] EXCEPT !.mem = "freed", !.sema = @ - 1]
      /\ child[t] \in Records
  BY <1>1, <1>2 DEF IInv, TypeInv
<1>4. /\ child'[t] \in Records /\ child'[t].mem = "freed"
      /\ child'[t].st_exit = child[t].st_exit
  BY <1>2, <1>3, FreedRecord, Zenon
<1>5. TypeInv'
  <2>1. child' \in [Procs -> Records]
    BY <1>2, <1>3, <1>4, Zenon DEF IInv, TypeInv
  <2>2. eax' \in [Procs -> Int]
    BY <1>2, <1>3 DEF IInv, TypeInv, Records
  <2> QED
    BY <1>1, <1>2, <2>1, <2>2 DEF IInv, TypeInv, PC
<1>6. KinInv'
  BY <1>1, <1>2, <1>3, <1>4, ProcsFacts DEF IInv, TypeInv, KinInv
<1>7. LoadInv'
  <2>1. ASSUME NEW u \in Procs, pc'[u] \in Loads
        PROVE  /\ u # main /\ pc'[parent[u]] = "exec" /\ target'[parent[u]] = u
               /\ sema_wait[parent[u]] = 0
    <3>1. pc[u] \in Loads
      BY <2>1, <1>1, <1>2 DEF IInv, TypeInv, Loads
    <3>2. parent[u] \in Procs /\ parent[u] # p
      BY <3>1, <1>1, ProcsFacts DEF IInv, TypeInv, KinInv, LoadInv, Loads
    <3> QED
      BY <3>1, <3>2, <1>1, <1>2 DEF IInv, TypeInv, LoadInv
  <2>2. \A q \in Procs : pc'[q] # "exec" => sema_wait[q] = 0
    BY <1>1, <1>2 DEF IInv, TypeInv, LoadInv
  <2>3. \A q \in Procs : pc'[q] = "exec" =>
            target'[q] \in Procs /\ target'[q] < next_tid /\ parent[target'[q]] = q
    BY <1>1, <1>2 DEF IInv, TypeInv, LoadInv
  <2> QED
    BY <1>2, <2>1, <2>2, <2>3 DEF LoadInv
<1>8. WaitInv'
  <2>1. pc[t] \in Done /\ t # p /\ child[t].st_exit = st_exit[t]
    BY <1>1, <1>2 DEF IInv, WaitInv, Done
  <2>2. \A q \in Procs : pc'[q] = "wait" => target'[q] \in children'[q]
    BY <1>1, <1>2 DEF IInv, TypeInv, WaitInv
  <2>3. \A q \in Procs : child'[q].mem = "freed" => pc'[q] \in Done
    BY <1>1, <1>2, <1>3, <2>1 DEF IInv, TypeInv, WaitInv, Done
  <2>4. \A q \in Procs : child'[q].sema > 0 => pc'[q] \in Done /\ child'[q].st_exit = st_exit[q]
    BY <1>1, <1>2, <1>3, <1>4, <2>1 DEF IInv, TypeInv, WaitInv, Done
  <2> QED
    BY <1>2, <2>2, <2>3, <2>4, Zenon DEF WaitInv
<1>9. OffInv'
  <2>1. pc[t] \in Done /\ t # p
    BY <1>1, <1>2 DEF IInv, WaitInv, Done
  <2>2. ~exec_file[t]
    BY <2>1, <1>1, ProcsFacts DEF IInv, OffInv, Done
  <2> QED
    BY <1>1, <1>2, <1>3, <2>2 DEF IInv, TypeInv, OffInv
<1>10. LockInv'
  BY <1>1, <1>2 DEF IInv, TypeInv, LockInv, Holds
<1> QED
  BY <1>5, <1>6, <1>7, <1>8, <1>9, <1>10 DEF IInv

\* thread_exit hands its status over, with interrupts off.
LEMMA ExitUpInv ==
    ASSUME IInv, NEW p \in Procs, ExitUp(p)
    PROVE  IInv'
<1>1. /\ pc[p] = "exit_off" /\ p # main /\ off \in {NULL, p} /\ off' = p
      /\ child' = [child EXCEPT ![p].st_exit = st_exit[p], ![p].sema = @ + 1]
      /\ pc' = [pc EXCEPT ![p] = "exit_exec"]
      /\ UNCHANGED <<parent, children, next_tid, st_exit, sema_wait, target, eax,
                     exec_file, file_lock, fault_locked>>
  BY DEF ExitUp, At, Runs, Goto, family, handshake, loading, locking
<1>2. /\ \A q \in Procs : q # p => child'[q] = child[q]
      /\ child'[p] = [child[p] EXCEPT !.st_exit = st_exit[p], !.sema = @ + 1]
      /\ child[p] \in Records /\ st_exit[p] \in Int
  BY <1>1 DEF IInv, TypeInv
<1>3. /\ child'[p] \in Records /\ child'[p].mem = child[p].mem
      /\ child'[p].st_exit = st_exit[p]
  <2>1. child[p].sema + 1 \in Nat
    BY <1>2 DEF Records
  <2>2. child'[p] = [mem |-> child[p].mem, st_exit |-> st_exit[p], succ |-> child[p].succ,
                     sema |-> child[p].sema + 1]
    BY <1>2, Zenon DEF Records
  <2> QED
    BY <1>2, <2>1, <2>2 DEF Records
<1>4. TypeInv'
  <2>1. child' \in [Procs -> Records]
    BY <1>1, <1>2, <1>3 DEF IInv, TypeInv
  <2> QED
    BY <1>1, <2>1 DEF IInv, TypeInv, PC
<1>5. KinInv'
  BY <1>1, <1>2, <1>3, ProcsFacts DEF IInv, TypeInv, KinInv
<1>6. LoadInv'
  <2>1. Moves(p)
    BY <1>1 DEF IInv, TypeInv, Moves, Loads
  <2> QED
    BY <2>1, MovesStep
<1>7. WaitInv'
  BY <1>1, <1>2, <1>3 DEF IInv, TypeInv, WaitInv, Done
<1>8. OffInv'
  BY <1>1, <1>2, <1>3, ProcsFacts DEF IInv, TypeInv, WaitInv, OffInv, Done
<1>9. LockInv'
  BY <1>1 DEF IInv, TypeInv, LockInv, Holds
<1> QED
  BY <1>4, <1>5, <1>6, <1>7, <1>8, <1>9 DEF IInv

-----------------------------------------------------------------------------
\* The actions by which parent and child touch each other.
OtherAction(p) ==
    \/ StartReturn(p) \/ process_execute(p) \/ ExecReturn(p)
    \/ (\E t \in Procs : process_wait(p, t))
    \/ WaitReturn(p) \/ ExitUp(p)

\* Every step is one or the other.
LEMMA NextCases == Next => \E p \in Procs : QuietAction(p) \/ OtherAction(p)
BY DEF Next, KernelStep, QuietAction, OtherAction

\* Every step keeps the invariant.
LEMMA ProcessStep == IInv /\ [Next]_vars => IInv'
<1> SUFFICES ASSUME IInv, [Next]_vars PROVE IInv'
  OBVIOUS
<1>1. CASE Next
  <2>1. PICK p \in Procs : QuietAction(p) \/ OtherAction(p)
    BY <1>1, NextCases
  <2>2. CASE QuietAction(p)
    BY <2>2, QuietActions
  <2>3. CASE OtherAction(p)
    BY <2>3, StartReturnInv, ExecuteInv, ExecReturnInv, WaitBeginInv, WaitReturnInv,
       ExitUpInv DEF OtherAction
  <2> QED
    BY <2>1, <2>2, <2>3
<1>2. CASE UNCHANGED vars
  BY <1>2 DEF vars, IInv, TypeInv, KinInv, LoadInv, WaitInv, OffInv, LockInv
<1> QED
  BY <1>1, <1>2

\* The invariant holds in every reachable state.
LEMMA ProcessInvariant == Spec => []IInv
BY InitInv, ProcessStep, PTL DEF Spec

\* thread_exit never stores into a freed struct child, and start_process never ups a
\* semaphore in a struct thread that is gone.
THEOREM SharedRecordsLive == Spec => []RecordsLive
<1>1. IInv => ChildInfoLive
  <2> SUFFICES ASSUME IInv, NEW p \in Procs, pc[p] = "exit_off", p # main
               PROVE  child[p].mem = "live"
    BY DEF ChildInfoLive
  <2>1. child[p].mem \in {"none", "live", "freed"}
    BY DEF IInv, TypeInv, Records
  <2>2. p < next_tid
    BY ProcsFacts DEF IInv, KinInv
  <2> QED
    BY <2>1, <2>2 DEF IInv, KinInv, WaitInv, Done
<1>2. IInv => ParentLive
  BY DEF IInv, LoadInv, Loads, ParentLive
<1> QED
  BY <1>1, <1>2, ProcessInvariant, PTL DEF RecordsLive

\* When process_wait has returned, writes to the child's executable are allowed again,
\* although thread_exit ups the semaphore before it closes the file.
THEOREM WaitMeansWritable == Spec => []WritableAfterWait
<1>1. IInv => WritableAfterWait
  BY DEF IInv, OffInv, WritableAfterWait
<1> QED
  BY <1>1, ProcessInvariant, PTL

\* Whoever holds file_lock will release it, unless a page fault of the kernel itself has
\* ended a process inside the lock: no error path of load(), no call and no exit leaves
\* it behind.
THEOREM FileLockReleased == Spec => []LockReleased
<1>1. IInv => LockReleased
  BY DEF IInv, TypeInv, LockInv, LockReleased, Leaked, Holds
<1> QED
  BY <1>1, ProcessInvariant, PTL

\* process_execute returns only when its child is through load(), and process_wait only
\* with the status the child exited with.
THEOREM ResultsFinal == Spec => ResultsRight
<1> DEFINE ExecStep ==
             \A p \in Procs : pc[p] = "exec" /\ pc'[p] = "user" => pc[target[p]] \notin Loads
           WaitStep ==
             \A p \in Procs : \A t \in children[p] \ children'[p] :
               /\ pc[t] \in Done
               /\ eax'[p] = st_exit[t]
               /\ \A q \in Procs : t \notin children'[q]
<1>1. ASSUME IInv, Next PROVE ExecStep /\ WaitStep
  <2>1. PICK r \in Procs : QuietAction(r) \/ OtherAction(r)
    BY <1>1, NextCases
  <2>2. CASE QuietAction(r)
    <3>1. Quiet(r)
      BY <1>1, <2>2, QuietActions
    <3>2. ExecStep
      BY <3>1 DEF Quiet, Moves
    <3>3. WaitStep
      BY <3>1 DEF Quiet
    <3> QED
      BY <3>2, <3>3
  <2>3. CASE ExecReturn(r)
    <3>1. sema_wait[r] > 0 /\ pc' = [pc EXCEPT ![r] = "user"] /\ children' = children
      BY <2>3 DEF ExecReturn, Goto, family
    <3>2. pc[target[r]] \notin Loads
      <4>1. pc[r] = "exec" /\ target[r] \in Procs /\ parent[target[r]] = r
        BY <1>1, <2>3 DEF ExecReturn, At, IInv, LoadInv
      <4> QED
        BY <1>1, <3>1, <4>1 DEF IInv, LoadInv
    <3>3. ExecStep
      BY <1>1, <3>1, <3>2 DEF IInv, TypeInv
    <3>4. WaitStep
      BY <3>1
    <3> QED
      BY <3>3, <3>4
  <2>4. CASE WaitReturn(r)
    <3>1. /\ pc[r] = "wait" /\ pc' = [pc EXCEPT ![r] = "user"]
          /\ children' = [children EXCEPT ![r] = @ \ {target[r]}]
          /\ eax' = [eax EXCEPT ![r] = child[target[r]].st_exit]
          /\ child[target[r]].sema > 0
      BY <2>4 DEF WaitReturn, At, Goto
    <3>2. target[r] \in Procs /\ target[r] \in children[r]
      BY <1>1, <3>1 DEF IInv, TypeInv, WaitInv
    <3>3. pc[target[r]] \in Done /\ child[target[r]].st_exit = st_exit[target[r]]
      BY <1>1, <3>1, <3>2 DEF IInv, WaitInv
    <3>4. \A q \in Procs : target[r] \notin children'[q]
      BY <1>1, <3>1, <3>2 DEF IInv, TypeInv, KinInv
    <3>5. ExecStep
      BY <1>1, <3>1 DEF IInv, TypeInv
    <3>6. WaitStep
      BY <1>1, <3>1, <3>2, <3>3, <3>4 DEF IInv, TypeInv
    <3> QED
      BY <3>5, <3>6
  <2>5. CASE StartReturn(r) \/ process_execute(r) \/ (\E t \in Procs : process_wait(r, t))
             \/ ExitUp(r)
    <3>1. \A p \in Procs : pc[p] = "exec" => pc'[p] # "user"
      BY <1>1, <2>5, ProcsFacts
      DEF IInv, TypeInv, StartReturn, process_execute, process_wait, ExitUp, At, Goto
    <3>2. \A p \in Procs : children[p] \subseteq children'[p]
      BY <1>1, <2>5
      DEF IInv, TypeInv, StartReturn, process_execute, process_wait, ExitUp, family
    <3> QED
      BY <3>1, <3>2
  <2> QED
    BY <2>1, <2>2, <2>3, <2>4, <2>5 DEF OtherAction
<1>2. IInv /\ [Next]_vars => [ExecStep]_vars /\ [WaitStep]_vars
  BY <1>1
<1>3. Spec => [][ExecStep]_vars /\ [][WaitStep]_vars
  BY <1>2, ProcessInvariant, PTL DEF Spec
<1> QED
  BY <1>3 DEF ResultsRight, ExecAfterLoad, WaitStatus, Loads, Done

=============================================================================
