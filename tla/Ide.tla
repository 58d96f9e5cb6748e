--------------------------------- MODULE Ide ---------------------------------
(***************************************************************************)
(* One ATA channel with its disks (devices/ide.c), under the block layer   *)
(* (Block.tla): detection at boot, then reads and writes of the devices    *)
(* with a role by threads that share the channel.  The controller is       *)
(* external: a disk asserts BSY and DRQ as the driver expects, interrupts  *)
(* when a sector is ready or written, and may interrupt for no reason.  It *)
(* may be slower than either wait of the driver: wait_until_idle, which    *)
(* then goes on as if the disk were idle, and wait_while_busy.             *)
(***************************************************************************)
EXTENDS Block, FiniteSets

CONSTANTS
    Threads,       \* threads that use the disks once the system is up
    Disks,         \* the devices that may be on the channel, 0 and 1
    Layouts,       \* what a disk may hold: [size, tables]
    Huge,          \* capacity from which a disk is ignored
    MaxRequests,   \* bound: requests made
    MaxSpurious,   \* bound: interrupts for no reason
    boot           \* the initial thread, which detects the disks

ASSUME IdeAssumption ==
    /\ Width \in Nat \ {0} /\ Huge \in Nat /\ MaxDepth \in Nat
    /\ MaxRequests \in Nat /\ MaxSpurious \in Nat
    /\ Disks \in {{0}, {0, 1}} /\ boot \notin Threads
    /\ \A l \in Layouts :
        /\ l.size \in 0 .. Width - 1
        /\ l.tables[0] \in Seq([type : PartitionTypes, offset : 0 .. Width - 1,
                                size : 0 .. Width - 1])

Workers == Threads \cup {boot}

VARIABLES
    layout,        \* what each disk holds
    is_ata,
    blocks,        \* all_blocks
    calls,         \* the calls of read_partition_table that boot is in
    probing,       \* the disk that boot identifies; 2 once it is done
    pc, request,   \* per thread: where it is, and [op, disk, sector, block]
    lock,          \* the channel's lock
    expecting_interrupt,
    completion_wait,
    status,        \* external: per disk, "idle", "busy" or "drq"
    command,       \* external: the command each disk is at
    irq,           \* external: an interrupt is pending
    data,          \* external: data[d][s]: the thread that wrote the sector last
    latest,        \* the thread whose data the controller took last for the sector
    gave_up,       \* the disks that wait_until_idle has given up on while they worked
    requests, spurious,
    panic

vars == <<layout, is_ata, blocks, calls, probing, pc, request, lock, expecting_interrupt,
          completion_wait, status, command, irq, data, latest, gave_up, requests, spurious,
          panic>>
world == <<layout, is_ata, blocks, calls, probing, requests>>
channel == <<expecting_interrupt, completion_wait>>
controller == <<status, command, irq, data, latest, gave_up, spurious>>

None == [op |-> "none", disk |-> 0, sector |-> 0, block |-> 0]
At(t, l) == ~ panic /\ pc[t] = l
Goto(t, l) == pc' = [pc EXCEPT ![t] = l]

\* external: the disk has nothing more to do.
Idle(d) ==
    /\ status' = [status EXCEPT ![d] = "idle"] /\ command' = [command EXCEPT ![d] = None]

Init ==
    /\ layout \in [Disks -> Layouts] /\ is_ata = [d \in Disks |-> FALSE]
    /\ blocks = <<>> /\ calls = <<>> /\ probing = 0
    /\ pc = [t \in Workers |-> IF t = boot THEN "probe" ELSE "idle"]
    /\ request = [t \in Workers |-> None] /\ lock = {}
    /\ expecting_interrupt = FALSE /\ completion_wait = 0
    /\ status = [d \in Disks |-> "idle"] /\ command = [d \in Disks |-> None]
    /\ irq = FALSE
    /\ data = [d \in Disks |-> [s \in 0 .. Width - 1 |-> boot]] /\ latest = data
    /\ gave_up = {}
    /\ requests = 0 /\ spurious = 0 /\ panic = FALSE

(***************************************************************************)
(* Boot: ide_init finds the ATA disks, then identifies one after the other. *)
(***************************************************************************)

\* The loop of ide_init goes on to the next ATA disk.
NextDisk(from, ata) ==
    LET left == {d \in Disks : d >= from /\ ata[d]}
    IN  IF left = {}
        THEN /\ probing' = 2 /\ Goto(boot, "idle")
             /\ request' = [request EXCEPT ![boot] = None]
        ELSE /\ probing' = First(left) /\ Goto(boot, "select")
             /\ request' = [request EXCEPT ![boot] =
                    [op |-> "identify", disk |-> First(left), sector |-> 0, block |-> 0]]

\* reset_channel and check_device_type: each device is an ATA disk, something else,
\* or absent.
check_device_type ==
    /\ At(boot, "probe")
    /\ \E ata \in [Disks -> BOOLEAN] : is_ata' = ata /\ NextDisk(0, ata)
    /\ UNCHANGED <<layout, blocks, calls, lock, channel, controller, requests, panic>>

\* identify_ata_device, once the disk has answered: a huge disk is ignored, any
\* other is registered and partition_scan called.
IdentifyDone ==
    LET d == layout[probing]
        raw == [disk |-> probing, type |-> "raw", start |-> 0, size |-> d.size]
    IN  /\ At(boot, "input") /\ request[boot].op = "identify"
        /\ IF d.size >= Huge
           THEN /\ is_ata' = [is_ata EXCEPT ![probing] = FALSE]
                /\ NextDisk(probing + 1, is_ata) /\ UNCHANGED <<blocks, calls>>
           ELSE /\ blocks' = block_register(blocks, raw)
                /\ calls' = Called(<<>>, d.size, 0, 0)
                /\ Goto(boot, "scan") /\ request' = [request EXCEPT ![boot] = None]
                /\ UNCHANGED <<is_ata, probing>>
        /\ Idle(probing)
        /\ UNCHANGED <<layout, lock, channel, irq, data, latest, gave_up, requests,
                       spurious,
                       panic>>

\* read_partition_table: block_read of the table, then one entry after the other.  One
\* call too many overruns the stack of the initial thread.
read_partition_table ==
    LET d == layout[probing]
        c == Head(calls)
        pt == TableRead(d.tables, c.sector)
        e == pt[c.entry]
        nested == Nested(NextEntry(calls), d.size, c, e)
    IN  /\ At(boot, "scan") /\ calls # <<>>
        /\ \/ /\ c.entry = 0
              /\ request' = [request EXCEPT ![boot] =
                    [op |-> "read", disk |-> probing, sector |-> 0, block |-> 0]]
              /\ Goto(boot, "lock") /\ UNCHANGED <<blocks, calls, panic>>
           \/ /\ c.entry \in 1 .. Len(pt)
              /\ IF e.size # 0 /\ e.type = Extended
                 THEN /\ panic' = (Len(nested) > MaxDepth)
                      /\ calls' = nested /\ UNCHANGED blocks
                 ELSE /\ calls' = NextEntry(calls) /\ UNCHANGED panic
                      /\ blocks' = IF e.size = 0 THEN blocks
                                   ELSE found_partition(probing, d.size, blocks, e, c.sector)
              /\ UNCHANGED <<pc, request>>
           \/ /\ c.entry > Len(pt)
              /\ calls' = Tail(calls) /\ UNCHANGED <<blocks, pc, request, panic>>
        /\ UNCHANGED <<layout, is_ata, probing, requests, lock, channel, controller>>

\* The scan is over.
partition_scan ==
    /\ At(boot, "scan") /\ calls = <<>> /\ NextDisk(probing + 1, is_ata)
    /\ UNCHANGED <<layout, is_ata, blocks, calls, requests, lock, channel, controller,
                   panic>>

(***************************************************************************)
(* ide_read and ide_write.                                                 *)
(***************************************************************************)

\* block_read or block_write of the device with a role.
BlockCall(t) ==
    /\ At(t, "idle") /\ probing \notin Disks /\ requests < MaxRequests /\ t # boot
    /\ \E role \in Roles, op \in {"read", "write"} :
        LET i == locate_block_device(blocks, role)
        IN  /\ i # 0
            /\ \E s \in 0 .. blocks[i].size :
                IF check_sector(blocks[i], s)
                THEN /\ request' = [request EXCEPT ![t] =
                            [op |-> op, disk |-> blocks[i].disk, block |-> i,
                             sector |-> partition_sector(blocks[i], s)]]
                     /\ Goto(t, "lock") /\ UNCHANGED panic
                ELSE panic' = TRUE /\ UNCHANGED <<request, pc>>
    /\ requests' = requests + 1
    /\ UNCHANGED <<layout, is_ata, blocks, calls, probing, lock, channel, controller>>

lock_acquire(t) ==
    /\ At(t, "lock") /\ lock = {} /\ lock' = {t} /\ Goto(t, "select")
    /\ UNCHANGED <<world, request, channel, controller, panic>>

\* Mutant: the wait is for DRQ to clear, not for BSY.
select_sector_drq(t) ==
    /\ At(t, "select") /\ irq' = FALSE
    /\ gave_up' = IF status[request[t].disk] # "drq" THEN gave_up
                  ELSE gave_up \cup {request[t].disk}
    /\ Goto(t, "issue")
    /\ UNCHANGED <<world, request, lock, channel, status, command, data, latest, spurious,
                   panic>>

\* select_device_wait: wait_until_idle polls the status register, which clears a
\* pending interrupt, before and after the disk is selected.  It returns when the
\* disk is idle, and also after 1000 polls of a disk that is not.
select_sector(t) ==
    /\ At(t, "select") /\ irq' = FALSE
    /\ gave_up' = IF status[request[t].disk] = "idle" THEN gave_up
                  ELSE gave_up \cup {request[t].disk}
    /\ Goto(t, "issue")
    /\ UNCHANGED <<world, request, lock, channel, status, command, data, latest, spurious,
                   panic>>

\* external: the disk takes a command; while it is busy it may also ignore it.
Take(d, c) ==
    \/ status' = [status EXCEPT ![d] = "busy"] /\ command' = [command EXCEPT ![d] = c]
    \/ status[d] = "busy" /\ UNCHANGED <<status, command>>

\* Mutant: the flag is never set.
issue_pio_command_deaf(t) ==
    /\ At(t, "issue")
    /\ Take(request[t].disk, request[t])
    /\ Goto(t, IF request[t].op = "write" THEN "poll" ELSE "down")
    /\ UNCHANGED <<world, request, lock, channel, irq, data, latest, gave_up, spurious,
                   panic>>

issue_pio_command(t) ==
    /\ At(t, "issue") /\ expecting_interrupt' = TRUE
    /\ Take(request[t].disk, request[t])
    /\ Goto(t, IF request[t].op = "write" THEN "poll" ELSE "down")
    /\ UNCHANGED <<world, request, lock, completion_wait, irq, data, latest, gave_up,
                   spurious, panic>>

\* sema_down, before a sector is read and after one was written.
sema_down(t) ==
    /\ At(t, "down") /\ completion_wait > 0
    /\ completion_wait' = completion_wait - 1
    /\ IF request[t].op = "write"
       THEN /\ Goto(t, "idle") /\ lock' = {}
            /\ request' = [request EXCEPT ![t] = None]
       ELSE Goto(t, "poll") /\ UNCHANGED <<lock, request>>
    /\ UNCHANGED <<world, expecting_interrupt, controller, panic>>

\* Mutant: BSY is not waited for.
wait_while_busy_not(t) ==
    /\ At(t, "poll")
    /\ Goto(t, IF request[t].op = "write" THEN "output" ELSE "input")
    /\ UNCHANGED <<world, request, lock, channel, controller, panic>>

\* wait_while_busy: it ends when BSY clears, with DRQ as its result, or after 30
\* seconds.  Without DRQ, ide_read and ide_write panic and the disk that was to be
\* identified is ignored.
wait_while_busy(t) ==
    /\ At(t, "poll")
    /\ IF status[request[t].disk] = "drq"
       THEN /\ Goto(t, IF request[t].op = "write" THEN "output" ELSE "input")
            /\ UNCHANGED <<panic, is_ata, probing, request>>
       ELSE IF request[t].op = "identify"
            THEN /\ is_ata' = [is_ata EXCEPT ![probing] = FALSE]
                 /\ NextDisk(probing + 1, is_ata) /\ UNCHANGED panic
            ELSE panic' = TRUE /\ UNCHANGED <<pc, is_ata, probing, request>>
    /\ UNCHANGED <<layout, blocks, calls, requests, lock, channel, controller>>

\* The end of ide_read; boot goes on with the table it has read.
input_sector(t) ==
    /\ At(t, "input") /\ request[t].op = "read"
    /\ Idle(request[t].disk)
    /\ lock' = {} /\ request' = [request EXCEPT ![t] = None]
    /\ IF t = boot THEN Goto(t, "scan") /\ calls' = NextEntry(calls)
       ELSE Goto(t, "idle") /\ UNCHANGED calls
    /\ UNCHANGED <<layout, is_ata, blocks, probing, requests, channel, irq, data, latest,
                   gave_up, spurious, panic>>

output_sector(t) ==
    /\ At(t, "output")
    /\ LET d == request[t].disk
       IN  /\ status' = [status EXCEPT ![d] = "busy"]
           /\ command' = [command EXCEPT ![d].op = "store"]
           /\ latest' = [latest EXCEPT ![d][command[d].sector] = t]
    /\ Goto(t, "down")
    /\ UNCHANGED <<world, request, lock, channel, irq, data, gave_up, spurious, panic>>

interrupt_handler ==
    /\ ~ panic /\ irq /\ irq' = FALSE
    /\ completion_wait' = IF expecting_interrupt THEN completion_wait + 1
                          ELSE completion_wait
    /\ UNCHANGED <<world, pc, request, lock, expecting_interrupt, status, command, data,
                   latest, gave_up, spurious, panic>>

(***************************************************************************)
(* The controller.                                                         *)
(***************************************************************************)

\* A sector is ready to be read, or may be sent; only the former interrupts.
Ready(d) ==
    /\ ~ panic /\ status[d] = "busy" /\ command[d].op # "store"
    /\ status' = [status EXCEPT ![d] = "drq"]
    /\ irq' = (irq \/ command[d].op # "write")
    /\ UNCHANGED <<world, pc, request, lock, channel, command, data, latest, gave_up,
                   spurious, panic>>

Stored(d) ==
    /\ ~ panic /\ status[d] = "busy" /\ command[d].op = "store"
    /\ data' = [data EXCEPT ![d][command[d].sector] = latest[d][command[d].sector]]
    /\ Idle(d) /\ irq' = TRUE
    /\ UNCHANGED <<world, pc, request, lock, channel, latest, gave_up, spurious, panic>>

Spurious ==
    /\ ~ panic /\ spurious < MaxSpurious /\ ~ irq
    /\ irq' = TRUE /\ spurious' = spurious + 1
    /\ UNCHANGED <<world, pc, request, lock, channel, status, command, data, latest,
                   gave_up, panic>>

Step(t) ==
    \/ lock_acquire(t) \/ select_sector(t) \/ issue_pio_command(t) \/ sema_down(t)
    \/ wait_while_busy(t) \/ input_sector(t) \/ output_sector(t)

Next ==
    \/ check_device_type \/ IdentifyDone \/ read_partition_table \/ partition_scan
    \/ \E t \in Workers : BlockCall(t) \/ Step(t)
    \/ interrupt_handler \/ Spurious
    \/ \E d \in Disks : Ready(d) \/ Stored(d)

\* Threads run, interrupts are delivered and the controller finishes what it began.
Fairness ==
    /\ \A t \in Workers : WF_vars(Step(t))
    /\ WF_vars(check_device_type) /\ WF_vars(IdentifyDone)
    /\ WF_vars(read_partition_table) /\ WF_vars(partition_scan)
    /\ WF_vars(interrupt_handler)
    /\ \A d \in Disks : WF_vars(Ready(d)) /\ WF_vars(Stored(d))
Spec == Init /\ [][Next]_vars /\ Fairness

\* A sector is transferred only while the disk asks for it, and for the command of the
\* thread that transfers it, whatever interrupts came early or late.  Only a disk that
\* wait_until_idle gave up on may be at another command.
Protocol ==
    \A t \in Workers : pc[t] \in {"input", "output"} =>
        LET d == request[t].disk
        IN  status[d] = "drq" /\ (d \in gave_up \/ command[d] = request[t])

\* A read returns what the last write sent for that sector, also when that write
\* returned early because of a spurious interrupt, as expecting_interrupt is never
\* cleared: the wait before the next command makes up for it, unless it gives up.
ReadsLatest ==
    \A t \in Threads : pc[t] = "input" =>
        LET c == command[request[t].disk]
        IN  c.disk \in gave_up \/ data[c.disk][c.sector] = latest[c.disk][c.sector]

\* A request through a partition stays inside the partition, and that inside its
\* disk, for every partition table.
InsidePartition ==
    \A t \in Threads : request[t].block # 0 =>
        LET b == blocks[request[t].block]
        IN  /\ b.start <= request[t].sector /\ request[t].sector < b.start + b.size
            /\ b.start + b.size <= layout[b.disk].size

\* Every request completes unless the system panics: no completion is lost, although
\* sema_down has no time-out, not even when a slow disk ignores a command.
RequestsComplete ==
    \A t \in Workers : (pc[t] # "idle") ~> (pc[t] = "idle" \/ panic)
===============================================================================
