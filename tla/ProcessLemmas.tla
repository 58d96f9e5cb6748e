---------------------------- MODULE ProcessLemmas ----------------------------
(***************************************************************************)
(* The inductive invariant of Process.tla, and the actions that keep it    *)
(* because they touch neither the records nor the handshake.               *)
(***************************************************************************)
EXTENDS Process, TLAPS

\* From thread_create to the up of the parent's semaphore; past the up of the child's;
\* with file_lock held.
Loads == {"start", "load", "load_lock", "load_open", "load_read", "loaded", "failed"}
Done == {"exit_exec", "close", "close_wait", "dead"}
Holds == {"load_open", "load_read", "io"}

Records == [mem : {"none", "live", "freed"}, st_exit : Int, succ : BOOLEAN, sema : Nat]

TypeInv ==
    /\ pc \in [Procs -> PC]
    /\ parent \in [Procs -> Procs \cup {NULL}]
    /\ children \in [Procs -> SUBSET Procs]
    /\ child \in [Procs -> Records]
    /\ st_exit \in [Procs -> Int]
    /\ sema_wait \in [Procs -> {0, 1}]
    /\ target \in [Procs -> Procs \cup {NULL}]
    /\ eax \in [Procs -> Int]
    /\ exec_file \in [Procs -> BOOLEAN]
    /\ file_lock \in Procs \cup {NULL}
    /\ off \in Procs \cup {NULL}
    /\ next_tid \in 2..(MaxTid + 1)

\* Processes exist up to next_tid, and a record on a list belongs to a child of the
\* list's owner.
KinInv ==
    /\ \A t \in Procs : (pc[t] = "unused") = (t >= next_tid)
    /\ \A t \in Procs : t # main /\ t < next_tid =>
          parent[t] \in Procs /\ parent[t] # t /\ child[t].mem # "none"
    /\ \A p, t \in Procs : t \in children[p] =>
          t # main /\ t < next_tid /\ parent[t] = p /\ child[t].mem = "live"

\* While a child loads, its parent sleeps in process_execute for this child, whose up
\* has not come.
LoadInv ==
    /\ \A t \in Procs : pc[t] \in Loads =>
          /\ t # main
          /\ pc[parent[t]] = "exec" /\ target[parent[t]] = t /\ sema_wait[parent[t]] = 0
    /\ \A p \in Procs : pc[p] # "exec" => sema_wait[p] = 0
    /\ \A p \in Procs : pc[p] = "exec" =>
          target[p] \in Procs /\ target[p] < next_tid /\ parent[target[p]] = p

\* A record is freed, and its semaphore upped, only when the child is past its last
\* use of it; the status in it is then the child's.
WaitInv ==
    /\ \A p \in Procs : pc[p] = "wait" => target[p] \in children[p]
    /\ \A t \in Procs : child[t].mem = "freed" => pc[t] \in Done
    /\ \A t \in Procs : child[t].sema > 0 =>
          pc[t] \in Done /\ child[t].st_exit = st_exit[t]

\* From its up to the end of ExitExec an exiting process has interrupts off.
OffInv ==
    /\ \A t \in Procs : pc[t] = "exit_exec" => off = t
    /\ \A t \in Procs : pc[t] \in {"close", "close_wait", "dead"} => ~exec_file[t]
    /\ \A t \in Procs : child[t].mem = "freed" => ~exec_file[t]

\* A process inside file_lock is its holder; a holder outside it is what a page fault
\* of the kernel has left behind.
LockInv ==
    /\ \A p \in Procs : pc[p] \in Holds => file_lock = p
    /\ \A p \in Procs : file_lock = p => pc[p] \in Holds \/ fault_locked

IInv == TypeInv /\ KinInv /\ LoadInv /\ WaitInv /\ OffInv /\ LockInv

-----------------------------------------------------------------------------
\* Process numbers, and the next one to be handed out.
LEMMA ProcsFacts ==
    /\ main \in Procs /\ NULL \notin Procs
    /\ \A p \in Procs : p \in Nat /\ p >= main /\ p <= MaxTid
    /\ TypeInv => next_tid \in Nat /\ next_tid > main
    /\ TypeInv => (next_tid <= MaxTid => next_tid \in Procs)
BY ProcessAssumption DEF Procs, main, NULL, TypeInv

\* Every exit status, -1 and the null pointer are integers.
LEMMA StatusFacts == ERROR \in Int /\ NULL \in Int /\ Statuses \subseteq Int
BY ProcessAssumption DEF ERROR, NULL, Statuses

\* What process_wait makes of a record: it is freed with its status in it.
LEMMA FreedRecord ==
    ASSUME NEW r \in Records, r.sema > 0
    PROVE  LET c == [r EXCEPT !.mem = "freed", !.sema = @ - 1] IN
           c \in Records /\ c.mem = "freed" /\ c.st_exit = r.st_exit /\ c.sema = r.sema - 1
<1>1. r.sema - 1 \in Nat
  BY DEF Records
<1> QED
  BY <1>1, Zenon DEF Records

\* The state in which main starts satisfies the invariant.
LEMMA InitInv == Init => IInv
<1> SUFFICES ASSUME Init PROVE IInv
  OBVIOUS
<1>1. \A t \in Procs : (t # main) = (t >= 2)
  BY DEF Procs, main
<1>2. TypeInv
  <2>1. [NewChild EXCEPT !.mem = "none"] \in Records
    BY StatusFacts, Zenon DEF NewChild, Records
  <2>2. 2 \in 2..(MaxTid + 1)
    BY ProcessAssumption
  <2>3. /\ pc \in [Procs -> PC]
        /\ child \in [Procs -> Records]
    BY <2>1 DEF Init, PC
  <2>4. /\ parent \in [Procs -> Procs \cup {NULL}] /\ children \in [Procs -> SUBSET Procs]
        /\ st_exit \in [Procs -> Int] /\ eax \in [Procs -> Int]
        /\ target \in [Procs -> Procs \cup {NULL}]
        /\ file_lock \in Procs \cup {NULL} /\ off \in Procs \cup {NULL}
    BY StatusFacts DEF Init
  <2>5. sema_wait \in [Procs -> {0, 1}] /\ exec_file \in [Procs -> BOOLEAN]
    BY DEF Init
  <2> QED
    BY <2>2, <2>3, <2>4, <2>5 DEF Init, TypeInv
<1>3. KinInv
  BY <1>1, ProcsFacts DEF Init, KinInv
<1>4. LoadInv /\ WaitInv /\ OffInv
  BY DEF Init, NewChild, LoadInv, WaitInv, OffInv, Loads, Done
<1>5. LockInv
  BY ProcsFacts DEF Init, LockInv, Holds
<1> QED
  BY <1>2, <1>3, <1>4, <1>5 DEF IInv

\* p moves on, into or out of no call that waits for a child.
Moves(p) ==
    /\ \A q \in Procs : q # p => pc'[q] = pc[q]
    /\ pc[p] \notin {"unused", "exec", "wait"} /\ pc'[p] \notin {"unused", "exec", "wait"}
    /\ pc'[p] \in Loads => pc[p] \in Loads
    /\ UNCHANGED <<parent, next_tid, sema_wait, target>>

\* The records do not change either.
Quiet(p) ==
    /\ Moves(p)
    /\ \A q \in Procs : q # p => st_exit'[q] = st_exit[q]
    /\ pc[p] \in Done => pc'[p] \in Done /\ st_exit'[p] = st_exit[p]
    /\ UNCHANGED <<children, child>>

\* Such a step keeps what holds of loading children and their parents.
LEMMA MovesStep ==
    ASSUME IInv, NEW p \in Procs, Moves(p)
    PROVE  LoadInv'
<1>1. ASSUME NEW t \in Procs, pc'[t] \in Loads
      PROVE  /\ t # main
             /\ pc'[parent[t]] = "exec" /\ target[parent[t]] = t /\ sema_wait[parent[t]] = 0
  <2>1. pc[t] \in Loads
    BY <1>1 DEF Moves
  <2>2. parent[t] \in Procs /\ pc[parent[t]] = "exec"
    BY <2>1, ProcsFacts DEF IInv, TypeInv, KinInv, LoadInv, Loads
  <2> QED
    BY <2>1, <2>2 DEF IInv, LoadInv, Moves
<1>2. \A q \in Procs : pc'[q] # "exec" => sema_wait[q] = 0
  BY DEF IInv, LoadInv, Moves
<1>3. \A q \in Procs : pc'[q] = "exec" =>
          target[q] \in Procs /\ target[q] < next_tid /\ parent[target[q]] = q
  BY DEF IInv, LoadInv, Moves
<1> QED
  BY <1>1, <1>2, <1>3 DEF LoadInv, Moves

\* A step that leaves the records alone too keeps every relation between parent and
\* child.
LEMMA QuietStep ==
    ASSUME IInv, NEW p \in Procs, Quiet(p)
    PROVE  KinInv' /\ LoadInv' /\ WaitInv'
<1>1. KinInv'
  BY ProcsFacts DEF IInv, TypeInv, KinInv, Moves, Quiet
<1>2. LoadInv'
  BY MovesStep DEF Quiet
<1>3. WaitInv'
  BY DEF IInv, TypeInv, WaitInv, Moves, Quiet
<1> QED
  BY <1>1, <1>2, <1>3

\* The actions that are such steps.
QuietAction(p) ==
    \/ start_process(p) \/ load(p) \/ LoadLock(p) \/ LoadOpen(p) \/ LoadFail(p) \/ LoadFault(p)
    \/ LoadDone(p) \/ CallLock(p) \/ CallUnlock(p) \/ CallFault(p) \/ ExecFails(p)
    \/ (\E s \in Statuses : sys_exit(p, s))
    \/ process_exit(p) \/ (p = main /\ ExitMain) \/ ExitExec(p)
    \/ ExitClose(p) \/ ExitCloseWait(p) \/ ExitCloseWake(p) \/ AcquireHeld(p) \/ ExitDie(p)

\* They keep the invariant: what is left to show is who holds file_lock, and who runs
\* with interrupts off.
LEMMA QuietActions ==
    ASSUME IInv, NEW p \in Procs, QuietAction(p)
    PROVE  Quiet(p) /\ IInv'
<1> DEFINE Goal == Quiet(p) /\ LockInv' /\ OffInv' /\ TypeInv'
<1> SUFFICES Goal
  BY QuietStep DEF IInv
<1> USE DEF IInv, TypeInv, At, Goto, family, record, handshake, loading, filing, locking
<1>1. ASSUME start_process(p) PROVE Goal
  <2>1. Quiet(p)
    BY <1>1 DEF Moves, Quiet, Loads, Done, start_process
  <2>2. LockInv'
    BY <1>1, ProcsFacts DEF LockInv, Holds, start_process
  <2>3. OffInv'
    BY <1>1, ProcsFacts DEF WaitInv, OffInv, Done, Runs, start_process
  <2>4. TypeInv'
    BY <1>1, ProcsFacts DEF PC, start_process
  <2> QED BY <2>1, <2>2, <2>3, <2>4
<1>2. ASSUME load(p) PROVE Goal
  <2>1. Quiet(p)
    BY <1>2 DEF Moves, Quiet, Loads, Done, load
  <2>2. LockInv'
    BY <1>2, ProcsFacts DEF LockInv, Holds, load
  <2>3. OffInv'
    BY <1>2, ProcsFacts DEF WaitInv, OffInv, Done, Runs, load
  <2>4. TypeInv'
    BY <1>2, ProcsFacts DEF PC, load
  <2> QED BY <2>1, <2>2, <2>3, <2>4
<1>3. ASSUME LoadLock(p) PROVE Goal
  <2>1. Quiet(p)
    BY <1>3 DEF Moves, Quiet, Loads, Done, LoadLock
  <2>2. LockInv'
    BY <1>3, ProcsFacts DEF LockInv, Holds, LoadLock
  <2>3. OffInv'
    BY <1>3, ProcsFacts DEF WaitInv, OffInv, Done, Runs, LoadLock
  <2>4. TypeInv'
    BY <1>3, ProcsFacts DEF PC, LoadLock
  <2> QED BY <2>1, <2>2, <2>3, <2>4
<1>4. ASSUME LoadOpen(p) PROVE Goal
  <2>1. Quiet(p)
    BY <1>4 DEF Moves, Quiet, Loads, Done, LoadOpen
  <2>2. LockInv'
    BY <1>4, ProcsFacts DEF LockInv, Holds, LoadOpen
  <2>3. OffInv'
    BY <1>4, ProcsFacts DEF WaitInv, OffInv, Done, Runs, LoadOpen
  <2>4. TypeInv'
    BY <1>4, ProcsFacts DEF PC, LoadOpen
  <2> QED BY <2>1, <2>2, <2>3, <2>4
<1>5. ASSUME LoadFail(p) PROVE Goal
  <2>1. Quiet(p)
    BY <1>5 DEF Moves, Quiet, Loads, Done, LoadFail
  <2>2. LockInv'
    BY <1>5, ProcsFacts DEF LockInv, Holds, LoadFail
  <2>3. OffInv'
    BY <1>5, ProcsFacts DEF WaitInv, OffInv, Done, Runs, LoadFail
  <2>4. TypeInv'
    BY <1>5, ProcsFacts DEF PC, LoadFail
  <2> QED BY <2>1, <2>2, <2>3, <2>4
<1>6. ASSUME LoadDone(p) PROVE Goal
  <2>1. Quiet(p)
    BY <1>6 DEF Moves, Quiet, Loads, Done, LoadDone
  <2>2. LockInv'
    BY <1>6, ProcsFacts DEF LockInv, Holds, LoadDone
  <2>3. OffInv'
    BY <1>6, ProcsFacts DEF WaitInv, OffInv, Done, Runs, LoadDone
  <2>4. TypeInv'
    BY <1>6, ProcsFacts DEF PC, LoadDone
  <2> QED BY <2>1, <2>2, <2>3, <2>4
<1>7. ASSUME CallLock(p) PROVE Goal
  <2>1. Quiet(p)
    BY <1>7 DEF Moves, Quiet, Loads, Done, CallLock
  <2>2. LockInv'
    BY <1>7, ProcsFacts DEF LockInv, Holds, CallLock
  <2>3. OffInv'
    BY <1>7, ProcsFacts DEF WaitInv, OffInv, Done, Runs, CallLock
  <2>4. TypeInv'
    BY <1>7, ProcsFacts DEF PC, CallLock
  <2> QED BY <2>1, <2>2, <2>3, <2>4
<1>8. ASSUME CallUnlock(p) PROVE Goal
  <2>1. Quiet(p)
    BY <1>8 DEF Moves, Quiet, Loads, Done, CallUnlock
  <2>2. LockInv'
    BY <1>8, ProcsFacts DEF LockInv, Holds, CallUnlock
  <2>3. OffInv'
    BY <1>8, ProcsFacts DEF WaitInv, OffInv, Done, Runs, CallUnlock
  <2>4. TypeInv'
    BY <1>8, ProcsFacts DEF PC, CallUnlock
  <2> QED BY <2>1, <2>2, <2>3, <2>4
<1>9. ASSUME NEW s \in Statuses, sys_exit(p, s) PROVE Goal
  <2>1. Quiet(p)
    BY <1>9 DEF Moves, Quiet, Loads, Done, sys_exit
  <2>2. LockInv'
    BY <1>9, ProcsFacts DEF LockInv, Holds, sys_exit
  <2>3. OffInv'
    BY <1>9, ProcsFacts DEF WaitInv, OffInv, Done, Runs, sys_exit
  <2>4. TypeInv'
    BY <1>9, ProcsFacts, StatusFacts DEF PC, sys_exit
  <2> QED BY <2>1, <2>2, <2>3, <2>4
<1>10. ASSUME process_exit(p) PROVE Goal
  <2>1. Quiet(p)
    BY <1>10 DEF Moves, Quiet, Loads, Done, process_exit
  <2>2. LockInv'
    BY <1>10, ProcsFacts DEF LockInv, Holds, process_exit
  <2>3. OffInv'
    BY <1>10, ProcsFacts DEF WaitInv, OffInv, Done, Runs, process_exit
  <2>4. TypeInv'
    BY <1>10, ProcsFacts DEF PC, process_exit
  <2> QED BY <2>1, <2>2, <2>3, <2>4
<1>11. ASSUME p = main, ExitMain PROVE Goal
  <2>1. Quiet(p)
    BY <1>11 DEF Moves, Quiet, Loads, Done, ExitMain
  <2>2. LockInv'
    BY <1>11, ProcsFacts DEF LockInv, Holds, ExitMain
  <2>3. OffInv'
    BY <1>11, ProcsFacts DEF WaitInv, OffInv, Done, Runs, ExitMain
  <2>4. TypeInv'
    BY <1>11, ProcsFacts, StatusFacts DEF PC, ExitMain
  <2> QED BY <2>1, <2>2, <2>3, <2>4
<1>12. ASSUME ExitExec(p) PROVE Goal
  <2>1. Quiet(p)
    BY <1>12 DEF Moves, Quiet, Loads, Done, ExitExec
  <2>2. LockInv'
    BY <1>12, ProcsFacts DEF LockInv, Holds, ExitExec
  <2>3. OffInv'
    BY <1>12, ProcsFacts DEF WaitInv, OffInv, Done, Runs, ExitExec
  <2>4. TypeInv'
    BY <1>12, ProcsFacts DEF PC, ExitExec
  <2> QED BY <2>1, <2>2, <2>3, <2>4
<1>13. ASSUME ExitClose(p) PROVE Goal
  <2>1. Quiet(p)
    BY <1>13 DEF Moves, Quiet, Loads, Done, ExitClose
  <2>2. LockInv'
    BY <1>13, ProcsFacts DEF LockInv, Holds, ExitClose
  <2>3. OffInv'
    BY <1>13, ProcsFacts DEF WaitInv, OffInv, Done, Runs, ExitClose
  <2>4. TypeInv'
    BY <1>13, ProcsFacts DEF PC, ExitClose
  <2> QED BY <2>1, <2>2, <2>3, <2>4
<1>14. ASSUME ExitCloseWait(p) PROVE Goal
  <2>1. Quiet(p)
    BY <1>14 DEF Moves, Quiet, Loads, Done, ExitCloseWait
  <2>2. LockInv'
    BY <1>14, ProcsFacts DEF LockInv, Holds, ExitCloseWait
  <2>3. OffInv'
    BY <1>14, ProcsFacts DEF WaitInv, OffInv, Done, Runs, ExitCloseWait
  <2>4. TypeInv'
    BY <1>14, ProcsFacts DEF PC, ExitCloseWait
  <2> QED BY <2>1, <2>2, <2>3, <2>4
<1>15. ASSUME ExitCloseWake(p) PROVE Goal
  <2>1. Quiet(p)
    BY <1>15 DEF Moves, Quiet, Loads, Done, ExitCloseWake
  <2>2. LockInv'
    BY <1>15, ProcsFacts DEF LockInv, Holds, ExitCloseWake
  <2>3. OffInv'
    BY <1>15, ProcsFacts DEF WaitInv, OffInv, Done, Runs, ExitCloseWake
  <2>4. TypeInv'
    BY <1>15, ProcsFacts DEF PC, ExitCloseWake
  <2> QED BY <2>1, <2>2, <2>3, <2>4
<1>16. ASSUME ExitDie(p) PROVE Goal
  <2>1. Quiet(p)
    BY <1>16 DEF Moves, Quiet, Loads, Done, ExitDie
  <2>2. LockInv'
    BY <1>16, ProcsFacts DEF LockInv, Holds, ExitDie
  <2>3. OffInv'
    BY <1>16, ProcsFacts DEF WaitInv, OffInv, Done, Runs, ExitDie
  <2>4. TypeInv'
    BY <1>16, ProcsFacts DEF PC, ExitDie
  <2> QED BY <2>1, <2>2, <2>3, <2>4
<1>17. ASSUME LoadFault(p) PROVE Goal
  <2>1. Quiet(p)
    BY <1>17 DEF Moves, Quiet, Loads, Done, LoadFault
  <2>2. LockInv'
    BY <1>17, ProcsFacts DEF LockInv, Holds, LoadFault
  <2>3. OffInv'
    BY <1>17, ProcsFacts DEF WaitInv, OffInv, Done, Runs, LoadFault
  <2>4. TypeInv'
    BY <1>17, ProcsFacts, StatusFacts DEF PC, LoadFault
  <2> QED BY <2>1, <2>2, <2>3, <2>4
<1>18. ASSUME CallFault(p) PROVE Goal
  <2>1. Quiet(p)
    BY <1>18 DEF Moves, Quiet, Loads, Done, CallFault
  <2>2. LockInv'
    BY <1>18, ProcsFacts DEF LockInv, Holds, CallFault
  <2>3. OffInv'
    BY <1>18, ProcsFacts DEF WaitInv, OffInv, Done, Runs, CallFault
  <2>4. TypeInv'
    BY <1>18, ProcsFacts, StatusFacts DEF PC, CallFault
  <2> QED BY <2>1, <2>2, <2>3, <2>4
<1>19. ASSUME ExecFails(p) PROVE Goal
  <2>1. Quiet(p)
    BY <1>19 DEF Moves, Quiet, Loads, Done, ExecFails
  <2>2. LockInv'
    BY <1>19, ProcsFacts DEF LockInv, Holds, ExecFails
  <2>3. OffInv'
    BY <1>19, ProcsFacts DEF WaitInv, OffInv, Done, Runs, ExecFails
  <2>4. TypeInv'
    BY <1>19, ProcsFacts, StatusFacts DEF PC, ExecFails
  <2> QED BY <2>1, <2>2, <2>3, <2>4
<1>20. ASSUME AcquireHeld(p) PROVE Goal
  <2>1. Quiet(p)
    BY <1>20 DEF Moves, Quiet, Loads, Done, AcquireHeld
  <2>2. LockInv'
    BY <1>20, ProcsFacts DEF LockInv, Holds, AcquireHeld
  <2>3. OffInv'
    BY <1>20, ProcsFacts DEF WaitInv, OffInv, Done, Runs, AcquireHeld
  <2>4. TypeInv'
    BY <1>20, ProcsFacts, StatusFacts DEF PC, AcquireHeld
  <2> QED BY <2>1, <2>2, <2>3, <2>4
<1> HIDE DEF Goal
<1> QED
  BY <1>1, <1>2, <1>3, <1>4, <1>5, <1>6, <1>7, <1>8, <1>9, <1>10,
     <1>11, <1>12, <1>13, <1>14, <1>15, <1>16, <1>17, <1>18, <1>19, <1>20
  DEF QuietAction

=============================================================================
