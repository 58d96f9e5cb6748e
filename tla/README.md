# A TLA+ model of this Pintos kernel

Pintos is a small teaching kernel for one x86 CPU: threads, synchronization
primitives, user processes, a simple file system, virtual memory and a few
device drivers. This directory specifies the parts of it whose correctness
depends on the order in which things happen, checks them with TLC on small
instances, and proves the central ones with TLAPS for instances of any size.
The sequential algorithms (library, loader, archives, display) are operators,
checked against reference definitions on all small inputs.
`PROJECT.json` holds the tables: components, runs, mutants, the map from each
definition to source lines, findings, hazards and theorems. Paths below are
relative to `src/pintos/`.

## The system

| part | state | operations | what is hard about it |
|---|---|---|---|
| scheduler, `threads/thread.c` | running thread, statuses, `ready_list`, `all_list`, idle thread, time slice | create, block, unblock, yield, exit, tick | preemption at any statement, start-up before there is an idle thread, a page reused while something still links it |
| synchronization, `threads/synch.c` | semaphore values and waiters, lock holders, condition queues | down, try, up, acquire, release, wait, signal, broadcast | a woken thread runs later and competes; condition queues link records on stacks |
| interrupts, `threads/interrupt.c` | handler context, yield-on-return flag | external interrupt entry and exit | may come between any two statements with interrupts on |
| memory, `threads/palloc.c`, `malloc.c` | page bitmaps, arenas, free lists | get, free | freeing pages takes no lock |
| processes, `userprog/process.c`, `thread_exit` | parent/child records, load semaphore, exit status, executable | exec, load, wait, exit | records shared by two processes without a lock; exit runs with interrupts off and still takes `file_lock` |
| system calls and faults, `userprog/syscall.c`, `exception.c` | open files, `file_lock` | the handlers | faults on user memory inside a call |
| virtual memory, `vm/` | page tables, frame table, clock hand, swap slots | fault, claim, evict, pin, swap | the frame lock is given up in the middle of an eviction |
| file system, `filesys/` | free map, disk and memory inodes, directory, open files | create, open, remove, close, read, write | several block writes for one operation; removal of open files; memory running out |
| devices, `devices/` | interrupt queues, UART registers, IDE channels, ticks | put and get a byte, interrupt handlers, block read and write, sleep | handlers wake threads; a lost wake-up or a disabled interrupt is for ever |
| console and library, `lib/` | console lock; lists, hash tables, bitmaps | print; container operations | the lock is recursive; word and bit arithmetic |

The scheduler runs one thread at a time. Semaphores block and unblock threads
through it, and locks and condition variables are built from semaphores.
Processes and the file system use locks (`tid_lock`, `file_lock`) and semaphores
(the load handshake, the wait for a child). Device handlers use `thread_unblock`
directly. The file system uses the disk driver one sector at a time, and
`thread_exit` calls into the file system with interrupts off.

## Modules

| module | models |
|---|---|
| `Lists` | a kernel list as the sequence of its elements, and `list_remove` |
| `Thread` | the scheduler |
| `Synch`, `MCSynch` | `synch.c`, `thread_create`, `allocate_tid` and `thread_exit` over the scheduler; the instances checked |
| `Process` | exec, load, wait and exit, with `file_lock` |
| `FileSys` | free map, inodes, root directory, open files, one block write at a time |
| `Files` | what a file system promises: names, contents, open files |
| `Serial` | interrupt queues, serial port, keyboard, input buffer |
| `Vm`, `MCVm` | frame table and clock, supplemental page tables, what runs of swap, `page_fault`, buffer pinning |
| `Block` | registration, roles and bounds of block devices, partition tables, as operators |
| `Ide`, `MCIde` | one ATA channel with its disks, under `Block` |
| `Malloc` | the page allocator and malloc, realloc, free |
| `KernelList`, `KernelHash`, `KernelBitmap` | `lib/kernel`, with their pointers, buckets and words |
| `LibString`, `LibStdio`, `LibMath` | `string.c`; printf; division, sorting, searching, numbers, the random generator |
| `FileData` | the bytes of a file: chunks, bounce buffers, positions, denied writes |
| `Archive` | ustar headers; extract and append |
| `Loader` | segments of an executable, lazy loading, argument passing |
| `Vga` | the text display |
| `Library` | the modules from `KernelList` to `Vga`, each next to what it promises |
| `ThreadProofs` | lemmas on lists; theorems about the scheduler |
| `SynchLemmas`, `SynchLocks`, `SynchProofs` | the inductive invariant of `Synch`, its preservation, and the theorems it gives |
| `ProcessLemmas`, `ProcessProofs` | the same for `Process` |
| `SerialLemmas`, `SerialProofs` | lemmas on the rings of `intq.c`; the same for `Serial` |

Variables keep the names of the code's fields and variables, and actions those
of its functions. A function that can be preempted is split at the statements
where that matters; `pc` holds where a thread is. Code with interrupts off is
one step. A definition called `f_something` next to `f` is a *mutant*: `f` with
a plausible mistake, used to make sure that the properties notice it. The run
with the mutant in place of `f` must fail.

**Thread.** Threads are named by their page, so a page freed by
`thread_schedule_tail` can come back as another thread. `schedule(st, rl)` is
`schedule` with `thread_schedule_tail`; the actions differ in the status and the
run queue with which they enter it. Who blocks and is unblocked is left open.

**Synch** extends `Thread`: its actions are steps of the running thread through
`synch.c`, and every scheduler effect is an operator of `Thread`. `arg[t]` and
`peer[t]` are the arguments of the call a thread is in. Callers are arbitrary
threads that keep to the ASSERTs and comments of the functions (for example,
they hold the lock when they signal). A thread's priority has no effect in this
kernel and is left out.

**Process** takes semaphores and locks as atomic (`Synch` justifies it) and adds
what exec, wait and exit share: `struct child`, the load semaphore in the
parent's `struct thread`, `file_lock` and the executable with writes denied.
`off` is the process that runs with interrupts off; others run only when it
sleeps. Inside `load` and inside the file system calls the kernel itself may fault
on user memory (`LoadFault`, `CallFault`); `page_fault` then ends the process while
it holds `file_lock`, which nobody gives back. `fault_locked` remembers that this
has happened, and everything that takes the lock afterwards waits for ever.

**FileSys** gives every sector a value: an inode, the saved free map, the
directory or data. `op` is the operation holding `file_lock` and where it is.
`Boot` ends everything in memory at any moment and reads the disk again; with
that, every prefix of the block writes of an operation is a state in which the
machine may come back. `stopped` records that the code has reached a failed
ASSERT, disk I/O with interrupts off, or an inode that has been freed; nothing
happens after that.

**Serial** numbers bytes as they are written or received. Everything in
`intq.c` runs with interrupts off, so a step lasts until the thread sleeps.
Output comes from the holder of the console lock, which may sleep, and from code
that may not. Reading a line status register bit and the shift register of the
UART are external and taken from how `serial.c` uses them.

**Vm** makes one action of every section under `frame_lock`, since nothing in
such a section sleeps, and interleaves the sections freely. `evict_frame` gives
the lock up around its I/O, and this window is where most of its behaviour is.
The model keeps what the code really does there: the eviction goes on with the
page it read from the entry when it chose it (`call.page`), the clock may pick the
same victim again, and the entry that is removed in the end is the one that is now
at the remembered address, chosen or not; `mistaken` remembers that it was another.
Freeing a frame takes it off the table and releases the page in two steps. `load`
holds `file_lock`, and a fault on the new stack ends the process with it.
`page_destroy` hands `struct frame *` to a function that looks for a
kernel address, so that entries of exited processes stay in the table, and their
struct may be allocated again. Following a stray pointer or a failed ASSERT sets
`halted`.

Swap needs an explanation. `vm_init` runs before `ide_init` (`threads/init.c:110`
and `136`), so there is no swap device yet and the memory swap is chosen. Its map
of available slots starts with every bit true (`swap.c:64`), and a slot is looked
for among the bits that are false (`82`).
`swap_out` therefore always fails, and everything behind it (`swap.c:86`,
`swap_in`, `vm_swap_free`) cannot run. The model has the part that can.

**Ide** is driven by two kinds of steps: the threads through `ide_read` and
`ide_write` under the channel's lock, and the controller, which is external and
taken from what the driver expects of it. Disks answer late, interrupt twice or
for no reason, and a busy disk takes a command or ignores it. A disk may be slower
than `wait_until_idle`, which then returns as if nothing were wrong: `gave_up` has
the disks to which that has happened. Detection and the scan of the partition tables
are steps of the boot thread; `read_partition_table` reads through the driver, and
`calls` is its recursion.

**Malloc** has one pool, whose bits are scanned, set and cleared one at a time, and
arenas of two blocks. An empty arena's blocks are taken off the free list and its page
is wiped and freed in steps of their own. Pages are freed without the pool's lock, as in the code.

**Library** runs one unit per behaviour. A structure (list, hash table, bitmap,
open file, screen) goes through any sequence of calls with malloc failing at
will; `impl` is what the code keeps, `ref` the mathematical object, `got` and
`want` the results of the last call. A function without state has one state per
input. Word widths, radixes and table sizes are constants, so that every carry,
wrap-around and boundary is reached with small numbers.

## Runs

| run | shows |
|---|---|
| `synch` | tids are unique although threads create threads at the same time; no thread sleeps on a semaphore that has a unit for it while nobody is on the way to take it; the run queue is exact; `Synch` implements `Thread` |
| `synch_live` | mutual exclusion at every preemption point; a blocked thread is on exactly one wait list; condition queues link only records of threads still in `cond_wait`; free locks are taken, signalled threads leave their wait, queued threads get the CPU |
| `process` | child records and parent semaphores are alive when used; exec returns after the load; wait returns the child's status, after the executable is writable again; `file_lock` is left behind by a fault of the kernel on user memory and by nothing else; unless it is, exec and exit finish, and wait returns once the child exits |
| `filesys` | with or without malloc failing and whenever the machine stops: no sector has two owners and on disk nothing leads to a free or foreign sector; open counts are exact. With enough memory sectors are lost only when a create fails after it got its data sectors or when the machine stops halfway, and `FileSys` implements `Files` |
| `serial` | bytes in order, no lost wake-up, no missing interrupt enable; output drains, readers are served |
| `vm` | a claim never maps a page that is mapped; `file_lock` is given back on every way out of load, read and write but a fault on a new stack; every frame in use is in the frame table or about to be released, and an entry is pinned only while a claim or a call on it goes on, unless an eviction has removed an entry it did not choose |
| `disk` | transfers belong to the thread's own command and a read sees the last write, unless `wait_until_idle` gave up on that disk; no request leaves its partition, however malformed the table; every request ends or panics, with slow disks too |
| `memory` | blocks in use never overlap each other or a free list; free lists and the counts of arenas agree; contents survive other calls and realloc; as long as calls are under way, calls return |
| `library` | lists, hash tables, bitmaps, files and the screen are what they stand for after any calls; strings, printf, division, sorting, searching, archives, segments and arguments are what their comments promise, or deviate exactly where the list below says |

`FramesAccounted` without its condition holds on the instance of the run. On one with
two code pages, three frames and four addresses it does not: two evictions choose the
same victim, the first one's entry is freed and its address used again, and the second
removes the new entry, whose frame nobody finds any more. With the condition the four
properties hold there too (10,334,500 states, too slow to be a run).

### Where the code does something else than the repository says

Each of these is a *violation* run: TLC produces the behaviour.

| run | what happens |
|---|---|
| `exec_missing` | exec of a program that does not load returns a tid: the parent tests its own `child_loaded` |
| `vm_contents` | a stack page that was evicted comes back with another page's contents: it is taken for zeroed, but a frame obtained by eviction is not |
| `partition` | the table of an extended partition is looked for in sector 0 and not in the sector given |

Also in the models, without a run of their own:

- `thread_exit` of main stores through a null `child_info`, faults, and is called
  again (`thread.c:313`; `ExitMain` of `Process`).
- The last close of a removed file by an exiting process writes to the disk with
  interrupts off (`thread.c:331`, against the ASSERT in `ide.c:411`; `stopped` of
  `FileSys`).
- The executable is closed without `file_lock` and may free an inode that
  `inode_open` has just found (`thread.c:320`, `inode.c:122`; `stopped`).
- With two readers of the keyboard the second calls `wait` on a queue that is no
  longer empty, a failed ASSERT (`intq.c:46`, `91`; `Serial` ends there).
- `load` releases `file_lock` without holding it when there is no memory for a
  page directory (`process.c:353`, `458`; `panic` of `Process`).
- A malloc that fails in `inode_read_at` looks like the end of the directory, so
  that `dir_add` overwrites an entry in use, although `directory.c:163` excludes
  it (`FileSys`).
- A kernel fault on user memory in a file system call or in `load` ends the process
  with `file_lock` held (`exception.c:182`; `fault_locked` of `Process`).
- `wait_until_idle` waits 1000 times 10 microseconds, not the "10 seconds" of its
  comment (`ide.c:435`, `444`), and its callers go on with a busy disk (`gave_up`).
- An extended partition whose table leads to itself recurses until the stack is used
  up (`partition.c:130`; a panic of `Ide`).
- `argv` has 50 places and the new stack one page, and neither is compared with the
  arguments (`process.c:73`, `79`, `81`; `Loader`, property `TextAgrees`).
- `umod64` and `smod64` give a remainder that needs more than 32 bits wrongly
  (`arithmetic.c:131`, `150`; `LibMath`, property `NumbersAgree`).
- `memmove` returns DST plus SIZE when it copies upwards, against `string.c:22`
  (`string.c:45`; `LibString`).
- The `'` flag of printf counts its commas among the digits a precision asks for
  (`LibStdio`).
- `vm_alloc_page` leaves the initializer of a page unset, and `page_destroy`
  looks frames up by the wrong address (`Vm`).

Met while reading, and short sequential paths: `load` frees its copy of the name
twice when the file is missing or its header is bad (`process.c:363`, `380`,
`459`) and overwrites the page directory of `start_process` (`133`, `350`). A
negative `*` width with the `0` flag pads on both sides (`stdio.c:373`, `390`).
`bitmap.c:316` promises 0 for
a scan of no bits and gets START. calloc's test (`malloc.c:166`) does not exclude
every overflow its comment speaks of. `fsutil_extract` keeps its position from one
call to the next.

### Bounds

- `Synch`: the initial thread and the idle thread, with three more in `synch` and two
  in `synch_live`, which is enough for a holder, a waiter and a newcomer, for two
  threads that create a third and a fourth at the same time, and for a page to be
  reused. The further threads of `synch` are symmetric. `TIME_SLICE` is 1.
  `MaxTid` and `MaxValue` bound counters that otherwise grow for ever.
- `Process`: main and two further processes (`MaxTid = 3`): a child of a child,
  or two children of main. `MaxFiles = 1`, `MaxCalls = 2` give contention for
  `file_lock` in load, in calls and in exit. `ExitStatuses = {0}` next to -1, the
  value of a process that has not exited or was killed. `CHECK_DEADLOCK FALSE`:
  all processes may have exited, or the kernel panicked. The theorems below have
  none of these bounds.
- `FileSys`: two names, two directory entries and two open files, seven sectors
  of which three are free, so that the device, the directory and the inode table
  fill up and space gets fragmented. Sizes 0, 1 and 2 are the file without data,
  the shortest one, and the one whose creation takes several writes.
- `Serial`: queues of three slots (`INTQ_BUFSIZE` is 64 in the code), so that
  they fill after two bytes and wrap around twice. `MaxOut` and `MaxIn` bound the
  bytes; a bounded run ends, hence `CHECK_DEADLOCK FALSE`.
- `Vm`: two processes with three pages each, two frames, a buffer over all three
  pages, three addresses for a `struct frame`: fewer frames than one process
  needs, so that claims evict the caller's and the other's pages. Processes and
  addresses are symmetric: nothing orders them. Processes exit
  and the kernel may halt, hence `CHECK_DEADLOCK FALSE`.
- `Ide`: two threads with two requests each, two disks, up to two spurious
  interrupts; a regular, a malformed and an oversized disk, and one whose extended
  partition leads to itself; sector numbers of three bits, so that start plus size
  wraps. `MaxDepth` is the depth of recursion the kernel's stack has room for; a
  deeper call is a panic. Requests run out, hence
  `CHECK_DEADLOCK FALSE`.
- `Malloc`: two threads holding up to two blocks, two descriptors, three pages,
  big blocks of two pages: arenas fill, empty and return while the other thread
  scans.
- `Library`: four or five elements in a structure; memory of six bytes for
  strings; words of two and eight bits, a `long long` of 20 in printf, for two commas;
  an `argv` of four places and a stack of 36 bytes, so that both overflow; sectors of two bytes; pages of four bytes
  in an address space of sixteen; a screen of two rows of four characters. Each is
  the smallest size with a first, an inner and a last place on both sides of every
  boundary in the code. The bucket constants of `hash.c` (4 and 2) are scaled to 1
  so that tables grow and shrink with few elements. Every unit is finite and may
  end, hence `CHECK_DEADLOCK FALSE`.

### Fairness

- `Synch`: weak fairness of the timer tick (the interval timer is programmed once
  and never stopped), and a thread that has the CPU again and again takes a step
  (strong fairness: each time it runs, a tick may come first, but a time slice is
  long enough for some statement sooner or later).
- `Process`: weak fairness of each process's steps inside the kernel.
  `ReadyRuns` gives it the CPU; user code is not assumed to do anything.
- `Serial`: woken threads run, the UART finishes a byte, its enabled interrupts
  are delivered, start-up reaches `serial_init_queue`. Nobody is assumed to type
  or to print.
- `Ide`: threads with a request run, the disk finishes a command, its interrupt
  is handled. Spurious interrupts are never assumed.
- `Malloc`: a thread in a call runs (weak fairness). A thread that waits for a lock may
  find it taken again each time it is woken (`synch.c:69`), so that no single call is
  sure to return; `CallsReturn` says that some call does as long as any is under way.
- `FileSys`, `Vm` and `Library` have safety properties only.

## Theorems

Proved from the assumptions on constants named in the modules. `ThreadAssumption`
and `SynchAssumption`: the initial and the idle thread are two different threads,
a time slice is positive, semaphores, locks and conditions are different things,
every condition has its lock, which is not `tid_lock`. `ProcessAssumption`: exit
statuses are natural numbers and the bounds are natural numbers, with room for
main. `SerialAssumption`: a queue has room for a byte, and the writer is not one of
the readers. Sets and bounds may have any size.

| theorem | statement |
|---|---|
| `ThreadTyping` | `schedule` always finds a thread |
| `RunQueueSafe` | one RUNNING thread; the run queue is exact |
| `AllListSafe` | `all_list` is exact |
| `SynchTyping` | types; no semaphore below zero |
| `MutualExclusion` | a lock has one owner, and its semaphore is 1 exactly when nobody owns it, is about to record that it does, or is in the middle of releasing it |
| `SynchImplementsThread` | `Synch` implements `Thread`'s specification |
| `SharedRecordsLive` | `thread_exit` never stores into a freed `struct child`; `start_process` never ups a semaphore of a parent that is gone |
| `ResultsFinal` | `process_execute` returns only after the load, `process_wait` only with the status of the exited child |
| `WaitMeansWritable` | after `process_wait` the child's executable is writable again |
| `FileLockReleased` | `file_lock` is held only in `load` and in file system calls, unless the kernel has faulted there on user memory: no other path or error path leaves it behind |
| `ConsoleBytesInOrder` | the output and the input queue lose, repeat and reorder no byte |
| `ConsoleWaiters` | sleeping threads are the recorded waiters, and what they wait for has not happened yet |

For the scheduler the inductive invariant `SchedInv` is the conjunction of the
invariants above, `IdleReachable` (before `idle()` has run, it is queued or
running) and `IdleInv`: `idle_thread` is null exactly while `idle()` is
at its first statement, and the idle thread never exits. Without it a state in
which `idle_thread` is null and the idle thread blocks would have to be
considered, and `schedule` would have nobody to switch to. One lemma, about
`schedule` entered with any status and queue, serves blocking, yielding and
exit.

For the primitives `IInv` adds `PcInv`, what each label says of the thread at it
(the object it works on, the lock it holds or has just given up), and `WaitInv`
(nobody waits for the idle thread, only start-up waits for `idle_started`).
`MutualExclusion` needs the first: between the two statements of `lock_release`
the lock has no holder and a semaphore of 0, and only the label of the releasing
thread says that this is right. `StepRefines` maps every step to one of `Thread`
or a stutter, so that the scheduler's invariant comes for free.

For processes `IInv` has six parts. `KinInv`: tids are handed out in order, and a
record on a list belongs to a living child record of the list's owner. `LoadInv`:
while a child loads, its parent is in `process_execute`, waits for this child and
has not been upped. `WaitInv`: a record is freed or upped only when its child is
past its last store, and then holds the child's status. `OffInv`: between its up
and the close of its executable a process has interrupts off, so that no parent can
run there. `LockInv`: a process at a label between acquire and release holds
`file_lock`, and a holder is at such a label unless the kernel has faulted there. `TypeInv` has the types. None of the theorems is inductive alone:
`WaitMeansWritable`, for example, rests on the order up, close, interrupts on,
which is what `WaitInv` and `OffInv` say together. Most actions are `Quiet` (they
touch neither records nor handshake) and share one lemma; the six others have one
each. TLC finds the same invariant true on the instance of `Process.cfg` (95,763
states).

For the console `SerialInv` says with `Ring(q, lo, hi)` what a queue of any size holds:
the bytes numbered above `lo` up to `hi`, at the places from tail on, where head and
tail differ by their number, once around the ring at most. `BytesInOrder` speaks of the
sequence of bytes read off a queue; that a put or a take keeps it needs each byte's
place. `Waits` relates the states of the threads to the waiter of each queue and to
the lock of the input buffer: only with the lock is there one reader that can be the
waiter. One lemma each about putting, taking and dropping a byte serves every action.

Only model-checked: the file system, virtual memory, the disk and the allocators; the
condition queues, `BlockedExact` and `NoLostWakeup`; the library, most of which is
written with RECURSIVE operators, as the C code loops; all liveness. Liveness under
fairness and ENABLED are out of the prover's reach, as are facts by induction
over data (what a recursive definition computes for every input) and modules
with RECURSIVE operators.

## Not modelled

- Boot, the command line, descriptor tables and task state: run once, before there
  is a second thread; their effects are the initial states of the modules.
- Clock, speaker and power-off: port I/O nobody else depends on. The busy waits of
  the timer depend on the speed of the hardware; `timer_sleep` is a loop of
  `thread_yield`.
- The decoding of system call numbers and arguments, and the exceptions other than
  page faults, which kill the process at once.
- Console and debugging: the console takes one lock around a line and counts the
  depth of its holder. A panic ends a behaviour in every module.
- `dir_readdir`, a scan for the `ls` command; `file_reopen`, and of virtual memory `vm_pin_buffer`,
  `vm_unpin_buffer`, `mm_unmap` and the `vm_supt_*` functions other than
  `vm_supt_install_filesys`, which nothing that runs calls. The swap code behind the
  failing `swap_out` cannot run.
- Scan codes and shift keys of the keyboard, attributes and beep of the display,
  mode, owner and time of archive headers, the comparison of ELF header fields with
  constants: data no property tells apart.
- The user library, which consists of trap stubs, and `sema_self_test`, a test.
