------------------------------- MODULE Process -------------------------------
(***************************************************************************)
(* User processes: process_execute and the load handshake, process_wait,   *)
(* thread_exit, and the part of load() that takes file_lock and denies     *)
(* writes to the executable (userprog/process.c, threads/thread.c, the     *)
(* process calls of userprog/syscall.c).                                   *)
(*                                                                         *)
(* A process is named by its tid; tids are handed out in order and not     *)
(* reused.  Semaphores and file_lock have the meaning that Synch.tla gives *)
(* them.  Memory may run out whenever a page, a page directory or a name   *)
(* is allocated; page directories and copies of names are not counted.     *)
(* The kernel itself may fault on user memory while it holds file_lock: it *)
(* reads the user's strings and buffers, and writes the arguments to the   *)
(* new stack, with the lock held, and page_fault then ends the process     *)
(* without releasing it.  `panic' is a failed ASSERT: the machine stops.   *)
(***************************************************************************)
EXTENDS Integers, FiniteSets

CONSTANTS
    ExitStatuses,  \* what processes pass to exit, -1 apart
    MaxTid,        \* bound: processes ever created, main included
    MaxFiles,      \* bound: files a process has open
    MaxCalls       \* bound: file system calls made

ASSUME ProcessAssumption ==
    /\ ExitStatuses \subseteq Nat
    /\ MaxTid \in Nat \ {0} /\ MaxFiles \in Nat /\ MaxCalls \in Nat

Procs == 1 .. MaxTid
main == 1
NULL == 0
ERROR == -1          \* TID_ERROR, and st_exit before any exit (UINT32_MAX)
Statuses == ExitStatuses \cup {ERROR}

VARIABLES
    pc,            \* where each process is
    parent,
    children,      \* tids of the struct childs on the process's list
    child,         \* child[t]: the struct child thread_create made for t
    st_exit,
    sema_wait,     \* value of the process's load semaphore
    child_loaded,
    target,        \* the child it is executing or waiting for
    eax,           \* what its last exec or wait returned, until it exits
    load_result,   \* what load() returned: "none" until it has
    file_lock,     \* its holder
    fault_locked,  \* a page fault of the kernel has ended a process inside file_lock
    exec_file,     \* the executable is open, with writes denied
    files,         \* number of open files
    calls,         \* file system calls made so far
    off,           \* the process that runs with interrupts off
    next_tid,
    panic

vars == <<pc, parent, children, child, st_exit, sema_wait, child_loaded, target, eax,
          load_result, file_lock, fault_locked, exec_file, files, calls, off, next_tid,
          panic>>

\* Groups of variables that most actions leave alone.
family == <<parent, children, next_tid>>
record == <<child, st_exit>>
handshake == <<sema_wait, child_loaded, target, eax>>
loading == <<load_result, exec_file>>
filing == <<files, calls>>
locking == <<file_lock, fault_locked>>

PC == {"unused", "start", "load", "load_lock", "load_open", "load_read", "loaded",
       "failed", "user", "exec", "wait", "io", "exit", "exit_off", "exit_exec",
       "close", "close_wait", "dead"}

\* p may execute: interrupts are on, or p is the one that turned them off.
Runs(p) == ~panic /\ off \in {NULL, p}

At(p, label) == Runs(p) /\ pc[p] = label

Goto(p, label) == pc' = [pc EXCEPT ![p] = label]

NewChild == [mem |-> "live", st_exit |-> ERROR, succ |-> FALSE, sema |-> 0]

-----------------------------------------------------------------------------
(* exec *)

\* process_execute when it cannot copy the name, finds no program in it, or gets no
\* page for the thread.
ExecFails(p) ==
    /\ At(p, "user")
    /\ eax' = [eax EXCEPT ![p] = ERROR]
    /\ UNCHANGED <<pc, family, record, sema_wait, child_loaded, target, loading, locking,
                   filing, off, panic>>

\* process_execute up to its sema_down: thread_create makes the child's record
\* and lets the child run.  The page it gets may be that of a process that died as
\* the holder of file_lock, whose holder field then points to the new process.
process_execute(p) ==
    /\ At(p, "user") /\ next_tid <= MaxTid
    /\ LET t == next_tid IN
       /\ parent' = [parent EXCEPT ![t] = p]
       /\ children' = [children EXCEPT ![p] = @ \cup {t}]
       /\ child' = [child EXCEPT ![t] = NewChild]
       /\ target' = [target EXCEPT ![p] = t]
       /\ pc' = [pc EXCEPT ![t] = "start", ![p] = "exec"]
       /\ \/ UNCHANGED file_lock
          \/ /\ file_lock # NULL /\ pc[file_lock] = "dead"
             /\ file_lock' = t
    /\ next_tid' = next_tid + 1
    /\ UNCHANGED <<st_exit, sema_wait, child_loaded, eax, loading, fault_locked, filing,
                   off, panic>>

\* Mutant of ExecReturn: the semaphore is not waited for.
ExecReturn_early(p) ==
    /\ At(p, "exec")
    /\ eax' = [eax EXCEPT ![p] = IF child_loaded[p] THEN target[p] ELSE ERROR]
    /\ target' = [target EXCEPT ![p] = NULL]
    /\ Goto(p, "user")
    /\ UNCHANGED <<family, record, sema_wait, child_loaded, loading, locking,
                   filing, off, panic>>

\* process_execute after its sema_down.  The flag it tests is the caller's own.
ExecReturn(p) ==
    /\ At(p, "exec") /\ sema_wait[p] > 0
    /\ sema_wait' = [sema_wait EXCEPT ![p] = @ - 1]
    /\ eax' = [eax EXCEPT ![p] = IF child_loaded[p] THEN target[p] ELSE ERROR]
    /\ target' = [target EXCEPT ![p] = NULL]
    /\ Goto(p, "user")
    /\ UNCHANGED <<family, record, child_loaded, loading, locking, filing, off,
                   panic>>

\* start_process up to load(): a page directory, unless memory is out.
start_process(p) ==
    /\ At(p, "start")
    /\ Goto(p, "load") \/ Goto(p, "failed")
    /\ UNCHANGED <<family, record, handshake, loading, locking, filing, off, panic>>


\* start_process after load(): record the outcome and let the parent go on.
StartReturn(p) ==
    /\ At(p, "loaded") \/ At(p, "failed")
    /\ child_loaded' = [child_loaded EXCEPT ![p] = pc[p] = "loaded"]
    /\ sema_wait' = [sema_wait EXCEPT ![parent[p]] = @ + 1]
    /\ Goto(p, IF pc[p] = "loaded" THEN "user" ELSE "exit")
    /\ UNCHANGED <<family, record, target, eax, loading, locking, filing, off, panic>>

-----------------------------------------------------------------------------
(* load *)

\* load() before it takes file_lock: the name's copy, and a second page directory,
\* either of which may fail.  A missing page directory goes to `done', which
\* releases the lock that was not taken: lock_release asserts that the caller is its
\* holder, as it is on the page of a process that died with the lock.
load(p) ==
    /\ At(p, "load")
    /\ \/ /\ Goto(p, "load_lock")
          /\ UNCHANGED <<load_result, file_lock, panic>>
       \/ /\ load_result' = [load_result EXCEPT ![p] = "false"]
          /\ Goto(p, "failed")
          /\ UNCHANGED <<file_lock, panic>>
       \/ /\ file_lock = p
          /\ file_lock' = NULL
          /\ load_result' = [load_result EXCEPT ![p] = "false"]
          /\ Goto(p, "failed")
          /\ UNCHANGED panic
       \/ /\ file_lock # p
          /\ panic' = TRUE
          /\ UNCHANGED <<pc, load_result, file_lock>>
    /\ UNCHANGED <<family, record, handshake, exec_file, fault_locked, filing, off>>

\* acquire_file_lock.
LoadLock(p) ==
    /\ At(p, "load_lock") /\ file_lock = NULL
    /\ file_lock' = p
    /\ Goto(p, "load_open")
    /\ UNCHANGED <<fault_locked, family, record, handshake, loading, filing, off, panic>>

\* load() from filesys_open to file_deny_write.
LoadOpen(p) ==
    /\ At(p, "load_open")
    /\ exec_file' = [exec_file EXCEPT ![p] = TRUE]
    /\ Goto(p, "load_read")
    /\ UNCHANGED <<family, record, handshake, load_result, locking, filing,
                   off, panic>>

\* Mutant of LoadFail: an error path that keeps file_lock.
LoadFail_locked(p) ==
    /\ At(p, "load_open") \/ At(p, "load_read")
    /\ load_result' = [load_result EXCEPT ![p] = "false"]
    /\ Goto(p, "failed")
    /\ UNCHANGED <<family, record, handshake, exec_file, locking, filing, off, panic>>

\* The error paths of load() with file_lock held.
LoadFail(p) ==
    /\ At(p, "load_open") \/ At(p, "load_read")
    /\ file_lock' = NULL
    /\ load_result' = [load_result EXCEPT ![p] = "false"]
    /\ Goto(p, "failed")
    /\ UNCHANGED <<fault_locked, family, record, handshake, exec_file, filing, off, panic>>

\* setup_stack and push_argument write to the new stack.  A claim that goes wrong, or
\* arguments that need more than its one page, are a page fault of the kernel:
\* sys_exit (-1) from page_fault, with file_lock held and the parent still waiting.
LoadFault(p) ==
    /\ At(p, "load_read")
    /\ fault_locked' = TRUE
    /\ st_exit' = [st_exit EXCEPT ![p] = ERROR]
    /\ Goto(p, "exit")
    /\ UNCHANGED <<family, child, handshake, loading, file_lock, filing, off, panic>>

LoadDone(p) ==
    /\ At(p, "load_read")
    /\ file_lock' = NULL
    /\ load_result' = [load_result EXCEPT ![p] = "true"]
    /\ Goto(p, "loaded")
    /\ UNCHANGED <<fault_locked, family, record, handshake, exec_file, filing, off, panic>>

-----------------------------------------------------------------------------
(* wait *)

\* process_wait (t) up to its sema_down.
process_wait(p, t) ==
    /\ At(p, "user")
    /\ \/ /\ t \notin children[p] \/ child[t].succ
          /\ eax' = [eax EXCEPT ![p] = ERROR]
          /\ UNCHANGED <<pc, child, target>>
       \/ /\ t \in children[p] /\ ~child[t].succ
          /\ child' = [child EXCEPT ![t].succ = TRUE]
          /\ target' = [target EXCEPT ![p] = t]
          /\ Goto(p, "wait")
          /\ UNCHANGED eax
    /\ UNCHANGED <<family, st_exit, sema_wait, child_loaded, loading, locking,
                   filing, off, panic>>

\* Mutant of WaitReturn: the record is read and freed without waiting.
WaitReturn_early(p) ==
    /\ At(p, "wait")
    /\ LET t == target[p] IN
       /\ eax' = [eax EXCEPT ![p] = child[t].st_exit]
       /\ children' = [children EXCEPT ![p] = @ \ {t}]
       /\ child' = [child EXCEPT ![t].mem = "freed"]
    /\ target' = [target EXCEPT ![p] = NULL]
    /\ Goto(p, "user")
    /\ UNCHANGED <<parent, next_tid, st_exit, sema_wait, child_loaded, loading,
                   locking, filing, off, panic>>

\* process_wait after its sema_down: read the status, unlink and free the record.
WaitReturn(p) ==
    /\ At(p, "wait")
    /\ LET t == target[p] IN
       /\ child[t].sema > 0
       /\ eax' = [eax EXCEPT ![p] = child[t].st_exit]
       /\ children' = [children EXCEPT ![p] = @ \ {t}]
       /\ child' = [child EXCEPT ![t].mem = "freed", ![t].sema = @ - 1]
    /\ target' = [target EXCEPT ![p] = NULL]
    /\ Goto(p, "user")
    /\ UNCHANGED <<parent, next_tid, st_exit, sema_wait, child_loaded, loading,
                   locking, filing, off, panic>>

-----------------------------------------------------------------------------
(* File system calls, as far as they take file_lock and open or close files. *)

CallLock(p) ==
    /\ At(p, "user") /\ p # main /\ calls < MaxCalls /\ file_lock = NULL
    /\ calls' = calls + 1
    /\ file_lock' = p
    /\ Goto(p, "io")
    /\ UNCHANGED <<fault_locked, family, record, handshake, loading, files, off, panic>>

CallUnlock(p) ==
    /\ At(p, "io")
    /\ file_lock' = NULL
    /\ Goto(p, "user")
    /\ \/ UNCHANGED files
       \/ files[p] < MaxFiles /\ files' = [files EXCEPT ![p] = @ + 1]
       \/ files[p] > 0 /\ files' = [files EXCEPT ![p] = @ - 1]
    /\ UNCHANGED <<fault_locked, family, record, handshake, loading, calls, off, panic>>

\* Only the first byte of a name, and the ends of a buffer, are known to be mapped:
\* the file system faults on the rest, and page_fault ends the process inside the lock.
CallFault(p) ==
    /\ At(p, "io")
    /\ fault_locked' = TRUE
    /\ st_exit' = [st_exit EXCEPT ![p] = ERROR]
    /\ eax' = [eax EXCEPT ![p] = NULL]
    /\ Goto(p, "exit")
    /\ UNCHANGED <<family, child, sema_wait, child_loaded, target, loading, file_lock,
                   filing, off, panic>>

-----------------------------------------------------------------------------
(* exit *)

\* sys_exit, invalid_access, kill; and main when run_actions is done.
sys_exit(p, status) ==
    /\ At(p, "user")
    /\ st_exit' = [st_exit EXCEPT ![p] = status]
    /\ eax' = [eax EXCEPT ![p] = NULL]
    /\ Goto(p, "exit")
    /\ UNCHANGED <<family, child, sema_wait, child_loaded, target, loading, locking, filing,
                   off, panic>>

\* process_exit, the first thing thread_exit does: the process gives up its memory.
process_exit(p) ==
    /\ At(p, "exit")
    /\ Goto(p, "exit_off")
    /\ UNCHANGED <<family, record, handshake, loading, locking, filing, off, panic>>

\* Mutant of ExitUp: interrupts stay on.
ExitUp_on(p) ==
    /\ At(p, "exit_off") /\ p # main
    /\ child' = [child EXCEPT ![p].st_exit = st_exit[p], ![p].sema = @ + 1]
    /\ Goto(p, "exit_exec")
    /\ UNCHANGED <<family, st_exit, handshake, loading, locking, filing, off, panic>>

\* thread_exit once interrupts are off and its message is printed (printing may
\* let other threads run): hand the status to whoever waits.
ExitUp(p) ==
    /\ At(p, "exit_off") /\ p # main
    /\ off' = p
    /\ child' = [child EXCEPT ![p].st_exit = st_exit[p], ![p].sema = @ + 1]
    /\ Goto(p, "exit_exec")
    /\ UNCHANGED <<family, st_exit, handshake, loading, locking, filing, panic>>

\* The same for main, whose child_info is a null pointer: the store faults, and
\* page_fault turns interrupts on and exits again with status -1.
ExitMain ==
    /\ At(main, "exit_off")
    /\ st_exit' = [st_exit EXCEPT ![main] = ERROR]
    /\ Goto(main, "exit")
    /\ UNCHANGED <<family, child, handshake, loading, locking, filing, off, panic>>

\* thread_exit allows writes to the executable and closes it, interrupts off.
ExitExec(p) ==
    /\ At(p, "exit_exec")
    /\ exec_file' = [exec_file EXCEPT ![p] = FALSE]
    /\ Goto(p, "close")
    /\ UNCHANGED <<family, record, handshake, load_result, locking, filing,
                   off, panic>>

\* One turn of thread_exit's loop over the open files, when file_lock is free.
ExitClose(p) ==
    /\ At(p, "close") /\ files[p] > 0 /\ file_lock = NULL
    /\ files' = [files EXCEPT ![p] = @ - 1]
    /\ UNCHANGED <<pc, family, record, handshake, loading, locking, calls, off, panic>>


\* The same when file_lock is held: the thread blocks, and others run until the
\* lock is free again.
ExitCloseWait(p) ==
    /\ At(p, "close") /\ files[p] > 0 /\ file_lock \notin {NULL, p}
    /\ off' = NULL
    /\ Goto(p, "close_wait")
    /\ UNCHANGED <<family, record, handshake, loading, locking, filing, panic>>

ExitCloseWake(p) ==
    /\ At(p, "close_wait") /\ file_lock = NULL
    /\ off' = p
    /\ files' = [files EXCEPT ![p] = @ - 1]
    /\ Goto(p, "close")
    /\ UNCHANGED <<family, record, handshake, loading, locking, calls, panic>>

\* acquire_file_lock by its holder fails an ASSERT of lock_acquire: a process that a
\* fault ended inside the lock closes its files, or one on such a process's page loads.
AcquireHeld(p) ==
    /\ At(p, "load_lock") \/ (At(p, "close") /\ files[p] > 0)
    /\ file_lock = p
    /\ panic' = TRUE
    /\ UNCHANGED <<pc, family, record, handshake, loading, locking, filing, off>>

\* The end of thread_exit: the next thread runs with interrupts on, and the page is
\* freed.
ExitDie(p) ==
    /\ At(p, "close") /\ files[p] = 0
    /\ off' = NULL
    /\ Goto(p, "dead")
    /\ UNCHANGED <<family, record, handshake, loading, locking, filing, panic>>

-----------------------------------------------------------------------------
\* main runs, before its first process_execute.
Init ==
    /\ pc = [p \in Procs |-> IF p = main THEN "user" ELSE "unused"]
    /\ parent = [p \in Procs |-> NULL]
    /\ children = [p \in Procs |-> {}]
    /\ child = [p \in Procs |-> [NewChild EXCEPT !.mem = "none"]]
    /\ st_exit = [p \in Procs |-> ERROR]
    /\ sema_wait = [p \in Procs |-> 0]
    /\ child_loaded = [p \in Procs |-> TRUE]
    /\ target = [p \in Procs |-> NULL]
    /\ eax = [p \in Procs |-> NULL]
    /\ load_result = [p \in Procs |-> "none"]
    /\ file_lock = NULL
    /\ fault_locked = FALSE
    /\ exec_file = [p \in Procs |-> FALSE]
    /\ files = [p \in Procs |-> 0]
    /\ calls = 0
    /\ off = NULL
    /\ next_tid = 2
    /\ panic = FALSE

\* What a process does inside the kernel without being asked to.
KernelStep(p) ==
    \/ ExecReturn(p) \/ start_process(p) \/ StartReturn(p)
    \/ load(p) \/ LoadLock(p) \/ LoadOpen(p) \/ LoadFail(p)
    \/ LoadFault(p) \/ LoadDone(p)
    \/ WaitReturn(p) \/ CallUnlock(p) \/ CallFault(p) \/ AcquireHeld(p)
    \/ process_exit(p) \/ ExitUp(p) \/ ExitExec(p) \/ ExitClose(p)
    \/ ExitCloseWait(p) \/ ExitCloseWake(p) \/ ExitDie(p)
    \/ p = main /\ ExitMain

Next ==
    \E p \in Procs :
        \/ KernelStep(p)
        \/ ExecFails(p) \/ process_execute(p) \/ CallLock(p)
        \/ \E t \in Procs : process_wait(p, t)
        \/ \E s \in Statuses : sys_exit(p, s)

Spec == Init /\ [][Next]_vars

\* The scheduler starves nobody (ReadyRuns of Thread.tla), and processes make a
\* bounded number of file system calls, so that weak fairness covers file_lock.
FairSpec == Spec /\ \A p \in Procs : WF_vars(KernelStep(p))

-----------------------------------------------------------------------------
\* thread_exit stores into a struct child that process_wait has not freed, although
\* parent and child share it without a lock.
ChildInfoLive ==
    \A p \in Procs : pc[p] = "exit_off" /\ p # main => child[p].mem = "live"

\* start_process ups the semaphore inside its parent's struct thread: the parent is
\* still there, waiting.
ParentLive ==
    \A p \in Procs : pc[p] \in {"loaded", "failed"} => pc[parent[p]] = "exec"

\* Neither side of a parent and child uses the other's memory after it is freed.
RecordsLive == ChildInfoLive /\ ParentLive

\* process_execute returns when, and only when, the child it created has been
\* through load() or died before it.
ExecAfterLoad ==
    [][\A p \in Procs : pc[p] = "exec" /\ pc'[p] = "user" =>
           pc[target[p]] \notin {"start", "load", "load_lock", "load_open",
                                 "load_read", "loaded", "failed"}]_vars

\* process_wait returns the status the child exited with, after the child has
\* passed it on, and the child is then no longer known to anybody.
WaitStatus ==
    [][\A p \in Procs : \A t \in children[p] \ children'[p] :
           /\ pc[t] \in {"exit_exec", "close", "close_wait", "dead"}
           /\ eax'[p] = st_exit[t]
           /\ \A q \in Procs : t \notin children'[q]]_vars

\* What exec and wait tell is final: neither returns before its outcome is known.
ResultsRight == ExecAfterLoad /\ WaitStatus

\* When process_wait returns, writes to the child's executable are allowed again
\* (tests/userprog/rox-child.inc), although thread_exit ups the semaphore first.
WritableAfterWait ==
    \A t \in Procs : child[t].mem = "freed" => ~exec_file[t]

\* The holder of file_lock is not between acquiring and releasing it: nobody will
\* release the lock.
Leaked == file_lock # NULL /\ pc[file_lock] \notin {"load_open", "load_read", "io"}

\* file_lock is left behind only by a page fault of the kernel itself (CallFault,
\* LoadFault): no error path of load(), no call and no exit keeps it.
LockReleased == Leaked => fault_locked

\* process_execute returns: a child reports the end of its load whatever goes wrong in
\* it, unless file_lock has been left behind.
ExecReturns == \A p \in Procs : pc[p] = "exec" ~> (pc[p] = "user" \/ panic \/ Leaked)

\* process_wait returns once the child is exiting.
WaitReturns ==
    \A p \in Procs : (pc[p] = "wait" /\ pc[target[p]] = "exit") ~> (pc[p] # "wait" \/ panic)



-----------------------------------------------------------------------------
(* What the repository says of the program and the code does not do. *)

\* tests/userprog/exec-missing.c: exec of a program that cannot be loaded returns -1.
ExecReportsFailure ==
    \A p \in Procs : eax[p] \in Procs => load_result[eax[p]] # "false"

=============================================================================
