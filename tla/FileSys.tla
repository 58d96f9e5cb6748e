------------------------------ MODULE FileSys ------------------------------
(***************************************************************************)
(* The file system of filesys/: the free map, inodes on disk and in        *)
(* memory, the root directory and open files, with the system calls that   *)
(* use them.  Every operation holds file_lock from beginning to end, so at *)
(* most one is in progress, but it proceeds one block write at a time: the *)
(* machine may stop between any two, and thread_exit closes a process's    *)
(* executable without the lock, with interrupts off.                       *)
(*                                                                         *)
(* Data is abstracted to one value per sector.  The inodes of the free map *)
(* and of the root directory are always open and are left out, as is a     *)
(* file's position, which its process can set to anything between calls.   *)
(***************************************************************************)
EXTENDS Integers, Sequences, FiniteSets, TLC

CONSTANTS
    Names,        \* names of files; "" is the name dir_add refuses
    Sizes,        \* sizes of new files, in sectors
    Values,       \* what a sector may hold
    NSectors,     \* sectors of the device
    DirEntries,   \* entries of the root directory (16 in do_format)
    NFiles        \* bound: files open at once

ASSUME FileSysAssumption ==
    /\ "" \notin Names /\ 0 \in Values
    /\ Sizes \subseteq Nat /\ NSectors \in Nat /\ NSectors > 4
    /\ DirEntries \in Nat \ {0} /\ NFiles \in Nat \ {0}

\* The names are interchangeable.
NameSymmetry == Permutations(Names)

Sectors == 0 .. NSectors - 1
Slots == 1 .. DirEntries
Fds == 1 .. NFiles
NoSector == -1

\* Where do_format puts the data of the free map and of the root directory; their
\* inodes are in sectors 0 and 1.
MapData == 2
RootData == 3
Reserved == 0 .. 3

VARIABLES
    disk,         \* disk[s]: what the sector holds
    free_map,     \* sectors in use, in memory
    open_inodes,  \* open_inodes[s]: the in-memory inode of sector s, when open
    files,        \* files[f]: the inode and deny_write of the open file f
    op,           \* the operation that holds file_lock, and where it is
    stopped,      \* why the kernel stopped, if it did
    lossy,        \* history: sectors may have been left marked for no file
    low_memory    \* whether malloc may fail in the file system

vars == <<disk, free_map, open_inodes, files, op, stopped, lossy, low_memory>>

Dir == disk[RootData][2]
NoEntry == [name |-> "", sector |-> NoSector]
NoFile == [sector |-> NoSector, deny |-> FALSE]
NoOp == [pc |-> "idle", name |-> "", sector |-> NoSector, start |-> 0, cnt |-> 0,
         at |-> 0, fd |-> 0, deny |-> FALSE, hit |-> FALSE]

\* Bound: what writes store; contents are compared with enough memory only.
Written == IF low_memory THEN {0} ELSE Values

\* file_lock is free; the operation that holds it is at label l.
Idle == stopped = "no" /\ op.pc = "idle"
At(l) == stopped = "no" /\ op.pc = l

Run(start, cnt) == start .. start + cnt - 1

-----------------------------------------------------------------------------
(* Free map. *)

\* bitmap_scan: where cnt unmarked sectors in a row start, and the first of them.
Fits(cnt) == {s \in Sectors : s + cnt <= NSectors /\ Run(s, cnt) \cap free_map = {}}
bitmap_scan(cnt) == CHOOSE s \in Fits(cnt) : \A r \in Fits(cnt) : s <= r

\* The free map in memory becomes m, and is written to its file.
bitmap_write(m) ==
    /\ free_map' = m
    /\ disk' = [disk EXCEPT ![MapData] = <<"map", m>>]

\* Mutant of free_map_allocate: the map is not written to disk.
free_map_allocate_memory(S) == free_map' = free_map \cup S /\ UNCHANGED disk

free_map_allocate(S) == bitmap_write(free_map \cup S)

\* free_map_release.  Nobody looks at whether the write succeeded.
free_map_release(S) ==
    \/ bitmap_write(free_map \ S)
    \/ low_memory /\ free_map' = free_map \ S /\ UNCHANGED disk

\* ASSERT (bitmap_all (...)) in free_map_release.
Asserted(ok) == stopped' = IF ok THEN "no" ELSE "assert"

-----------------------------------------------------------------------------
(* filesys_create *)

\* Sector for the inode.  With none left the call fails and changes nothing.
filesys_create(n, z) ==
    /\ Idle /\ Fits(1) # {}
    /\ LET s == bitmap_scan(1) IN
       /\ free_map_allocate({s})
       /\ op' = [NoOp EXCEPT !.pc = "inode_create", !.name = n, !.sector = s, !.cnt = z]
    /\ UNCHANGED <<open_inodes, files, stopped, lossy, low_memory>>

\* Sectors for the data.
inode_create ==
    /\ At("inode_create")
    /\ \/ /\ Fits(op.cnt) # {}
          /\ LET b == bitmap_scan(op.cnt) IN
             /\ free_map_allocate(Run(b, op.cnt))
             /\ op' = [op EXCEPT !.pc = "inode_write", !.start = b]
       \/ /\ Fits(op.cnt) = {} \/ low_memory
          /\ op' = [op EXCEPT !.pc = "undo"]
          /\ UNCHANGED <<disk, free_map>>
    /\ UNCHANGED <<open_inodes, files, stopped, lossy, low_memory>>

inode_write ==
    /\ At("inode_write")
    /\ disk' = [disk EXCEPT ![op.sector] = <<"inode", op.start, op.cnt>>]
    /\ op' = [op EXCEPT !.pc = IF op.cnt = 0 THEN "dir_add" ELSE "zero"]
    /\ UNCHANGED <<free_map, open_inodes, files, stopped, lossy, low_memory>>

\* One sector of zeros.
inode_zero ==
    /\ At("zero")
    /\ disk' = [disk EXCEPT ![op.start + op.at] = <<"data", 0>>]
    /\ op' = [op EXCEPT !.at = @ + 1, !.pc = IF op.at + 1 = op.cnt THEN "dir_add" ELSE @]
    /\ UNCHANGED <<free_map, open_inodes, files, stopped, lossy, low_memory>>

\* How many directory entries a scan gets to see: all, unless a bounce buffer
\* cannot be allocated (inode_read_at then returns a short count).
Readable == IF low_memory THEN 0 .. DirEntries ELSE {DirEntries}

\* lookup: the entries called n among the first k; it returns the first one.
lookup(n, k) == {i \in 1 .. k : Dir[i].name = n}

\* Where dir_add stops looking for a free entry.
FreeSlots == {j \in Slots : /\ Dir[j].name = "" \/ low_memory
                            /\ \A i \in 1 .. j - 1 : Dir[i].name # ""}

PutEntry(j, e) == disk' = [disk EXCEPT ![RootData] = <<"dir", [Dir EXCEPT ![j] = e]>>]

dir_add ==
    /\ At("dir_add")
    /\ \E k \in Readable :
       LET valid == op.name # "" /\ lookup(op.name, k) = {} IN
       \/ /\ valid
          /\ \E j \in FreeSlots : PutEntry(j, [name |-> op.name, sector |-> op.sector])
          /\ op' = NoOp
          /\ UNCHANGED <<lossy, low_memory>>
       \/ /\ ~valid \/ FreeSlots = {} \/ low_memory
          /\ op' = [op EXCEPT !.pc = "undo"]
          /\ lossy' = (lossy \/ op.cnt > 0)
          /\ UNCHANGED <<disk, low_memory>>
    /\ UNCHANGED <<free_map, open_inodes, files, stopped>>

\* A create that failed gives the sector of the inode back, and only that one.
filesys_create_undo ==
    /\ At("undo")
    /\ free_map_release({op.sector})
    /\ Asserted(op.sector \in free_map)
    /\ op' = NoOp
    /\ UNCHANGED <<open_inodes, files, lossy, low_memory>>

-----------------------------------------------------------------------------
(* Open, remove, close. *)

\* The inode of sector s as inode_open makes it from disk.
NewInode(s) ==
    [open_cnt |-> 1, removed |-> FALSE, deny_write_cnt |-> 0,
     start |-> disk[s][2], length |-> disk[s][3]]

\* lookup by filesys_open and filesys_remove, and the walk of inode_open through
\* open_inodes.  Without an entry the call fails and changes nothing.
LookupAndWalk(n, pc, f, d) ==
    /\ Idle
    /\ \E k \in Readable :
       /\ lookup(n, k) # {}
       /\ LET i == CHOOSE i \in lookup(n, k) : \A j \in lookup(n, k) : i <= j IN
          op' = [NoOp EXCEPT !.pc = pc, !.at = i, !.sector = Dir[i].sector, !.fd = f,
                             !.deny = d, !.hit = Dir[i].sector \in DOMAIN open_inodes]
    /\ UNCHANGED <<disk, free_map, open_inodes, files, stopped, lossy, low_memory>>

filesys_open(n, f, d) == files[f] = NoFile /\ LookupAndWalk(n, "open", f, d)

filesys_remove(n) == LookupAndWalk(n, "remove", 0, FALSE)

\* Mutant of inode_open: an inode that is open already is not counted again.
inode_open_uncounted(d) ==
    LET s == op.sector
        n == IF op.hit THEN open_inodes[s] ELSE NewInode(s)
    IN  /\ op.hit => s \in DOMAIN open_inodes
        /\ open_inodes' = (s :> [n EXCEPT !.deny_write_cnt = IF d THEN @ + 1 ELSE @])
                          @@ open_inodes

\* The end of inode_open: count one more opener of the inode the walk stopped at, or
\* read the inode from disk.
inode_open(d) ==
    LET s == op.sector
        n == IF op.hit THEN [open_inodes[s] EXCEPT !.open_cnt = @ + 1] ELSE NewInode(s)
    IN  /\ op.hit => s \in DOMAIN open_inodes
        /\ open_inodes' = (s :> [n EXCEPT !.deny_write_cnt = IF d THEN @ + 1 ELSE @])
                          @@ open_inodes

\* The inode the walk stopped at has been freed meanwhile: what inode_open goes on
\* with is no inode.
inode_open_stale ==
    /\ At("open") \/ At("remove")
    /\ op.hit /\ op.sector \notin DOMAIN open_inodes
    /\ stopped' = "stale"
    /\ UNCHANGED <<disk, free_map, open_inodes, files, op, lossy, low_memory>>

\* filesys_open gives its caller a file; load() denies writes to it at once.
file_open ==
    /\ At("open")
    /\ inode_open(op.deny)
    /\ files' = [files EXCEPT ![op.fd] = [sector |-> op.sector, deny |-> op.deny]]
    /\ op' = NoOp
    /\ UNCHANGED <<disk, free_map, stopped, lossy, low_memory>>

\* malloc fails in inode_open or file_open: whatever was opened is closed again.
OpenFails ==
    /\ low_memory /\ (At("open") \/ At("remove"))
    /\ op' = NoOp
    /\ UNCHANGED <<disk, free_map, open_inodes, files, stopped, lossy, low_memory>>

dir_remove ==
    /\ At("remove")
    /\ inode_open(FALSE)
    /\ op' = [op EXCEPT !.pc = "erase"]
    /\ UNCHANGED <<disk, free_map, files, stopped, lossy, low_memory>>

dir_erase ==
    /\ At("erase")
    /\ PutEntry(op.at, NoEntry)
    /\ op' = [op EXCEPT !.pc = "inode_remove"]
    /\ UNCHANGED <<free_map, open_inodes, files, stopped, lossy, low_memory>>

\* Mutant of inode_close: a removed inode's sectors are given back although the
\* inode has other openers.
inode_close_eager(s, n) ==
    /\ open_inodes' =
           IF n.open_cnt > 1 THEN [open_inodes EXCEPT ![s] = [n EXCEPT !.open_cnt = @ - 1]]
           ELSE [r \in DOMAIN open_inodes \ {s} |-> open_inodes[r]]
    /\ \/ /\ n.removed
          /\ free_map_release({s})
          /\ Asserted(s \in free_map)
          /\ op' = [NoOp EXCEPT !.pc = "release", !.start = n.start, !.cnt = n.length]
       \/ ~n.removed /\ op' = NoOp /\ UNCHANGED <<disk, free_map, stopped>>

\* inode_close of the inode n of sector s with interrupts on: the last opener
\* of a removed inode gives its sector back, and goes on to release the data.
inode_close(s, n) ==
    LET freed == n.removed /\ n.open_cnt = 1 IN
    /\ open_inodes' =
           IF n.open_cnt > 1 THEN [open_inodes EXCEPT ![s] = [n EXCEPT !.open_cnt = @ - 1]]
           ELSE [r \in DOMAIN open_inodes \ {s} |-> open_inodes[r]]
    /\ \/ /\ freed
          /\ free_map_release({s})
          /\ Asserted(s \in free_map)
          /\ op' = [NoOp EXCEPT !.pc = "release", !.start = n.start, !.cnt = n.length]
       \/ ~freed /\ op' = NoOp /\ UNCHANGED <<disk, free_map, stopped>>

\* inode_remove, and the inode_close that ends dir_remove.
inode_remove ==
    /\ At("inode_remove")
    /\ inode_close(op.sector, [open_inodes[op.sector] EXCEPT !.removed = TRUE])
    /\ UNCHANGED <<files, lossy, low_memory>>

\* dir_remove when the entry cannot be written: only the inode_close.
EraseFails ==
    /\ low_memory /\ At("erase")
    /\ inode_close(op.sector, open_inodes[op.sector])
    /\ UNCHANGED <<files, lossy, low_memory>>

inode_release ==
    /\ At("release")
    /\ free_map_release(Run(op.start, op.cnt))
    /\ Asserted(Run(op.start, op.cnt) \subseteq free_map)
    /\ op' = NoOp
    /\ UNCHANGED <<open_inodes, files, lossy, low_memory>>

sys_close(f) ==
    /\ Idle /\ files[f] # NoFile /\ ~files[f].deny
    /\ inode_close(files[f].sector, open_inodes[files[f].sector])
    /\ files' = [files EXCEPT ![f] = NoFile]
    /\ UNCHANGED <<lossy, low_memory>>

\* file_close in thread_exit, with interrupts off: releasing sectors writes to the
\* disk, and issue_pio_command asserts that interrupts are on.
ExitClose(f) ==
    LET s == files[f].sector
        n == [open_inodes[s] EXCEPT !.deny_write_cnt = IF files[f].deny THEN @ - 1 ELSE @,
                                    !.open_cnt = @ - 1]
    IN  /\ open_inodes' = IF n.open_cnt > 0 THEN [open_inodes EXCEPT ![s] = n]
                          ELSE [r \in DOMAIN open_inodes \ {s} |-> open_inodes[r]]
        /\ stopped' = IF n.removed /\ n.open_cnt = 0 THEN "io_off"
                      ELSE IF n.deny_write_cnt < 0 THEN "assert" ELSE "no"
        /\ files' = [files EXCEPT ![f] = NoFile]
        /\ UNCHANGED <<disk, free_map, op, lossy, low_memory>>

\* The open files of the exiting process, each under file_lock.
exit_close(f) == Idle /\ files[f] # NoFile /\ ~files[f].deny /\ ExitClose(f)

\* Its executable, without the lock: another operation may be in progress.
exit_exec(f) == stopped = "no" /\ files[f].deny /\ ExitClose(f)

-----------------------------------------------------------------------------
(* sys_write; and the machine stopping. *)

\* Mutant of sys_write: deny_write_cnt is not looked at.
sys_write_denied(f, i, cnt) ==
    /\ Idle /\ files[f] # NoFile /\ ~files[f].deny
    /\ i < open_inodes[files[f].sector].length
    /\ op' = [NoOp EXCEPT !.pc = "write", !.fd = f, !.at = i, !.cnt = cnt]
    /\ UNCHANGED <<disk, free_map, open_inodes, files, stopped, lossy, low_memory>>

\* inode_write_at looks at deny_write_cnt once, before the first of cnt sectors.
sys_write(f, i, cnt) ==
    /\ Idle /\ files[f] # NoFile /\ ~files[f].deny
    /\ LET n == open_inodes[files[f].sector] IN n.deny_write_cnt = 0 /\ i < n.length
    /\ op' = [NoOp EXCEPT !.pc = "write", !.fd = f, !.at = i, !.cnt = cnt]
    /\ UNCHANGED <<disk, free_map, open_inodes, files, stopped, lossy, low_memory>>

\* One sector; the write ends early at the end of the file.
inode_write_at(v) ==
    /\ At("write")
    /\ LET n == open_inodes[files[op.fd].sector] IN
       /\ disk' = [disk EXCEPT ![n.start + op.at] = <<"data", v>>]
       /\ op' = IF op.cnt = 1 \/ op.at + 1 = n.length THEN NoOp
                ELSE [op EXCEPT !.at = @ + 1, !.cnt = @ - 1]
    /\ UNCHANGED <<free_map, open_inodes, files, stopped, lossy, low_memory>>

\* Power off, halt or panic at any moment, and filesys_init at the next boot.
Boot ==
    /\ free_map' = disk[MapData][2]
    /\ open_inodes' = <<>>
    /\ files' = [f \in Fds |-> NoFile]
    /\ op' = NoOp
    /\ stopped' = "no"
    /\ lossy' = \/ lossy \/ op.pc # "idle" \/ stopped # "no"
                \/ \E s \in DOMAIN open_inodes : open_inodes[s].removed
    /\ UNCHANGED <<disk, low_memory>>

\* A freshly formatted device (do_format).
Init ==
    /\ disk = [s \in Sectors |->
                 CASE s = 0 -> <<"inode", MapData, 1>>
                   [] s = 1 -> <<"inode", RootData, 1>>
                   [] s = MapData -> <<"map", Reserved>>
                   [] s = RootData -> <<"dir", [i \in Slots |-> NoEntry]>>
                   [] OTHER -> <<"data", 0>>]
    /\ free_map = Reserved
    /\ open_inodes = <<>>
    /\ files = [f \in Fds |-> NoFile]
    /\ op = NoOp
    /\ stopped = "no"
    /\ lossy = FALSE
    /\ low_memory \in BOOLEAN

Next ==
    \/ \E n \in Names \cup {""}, z \in Sizes : filesys_create(n, z)
    \/ inode_create \/ inode_write \/ inode_zero \/ dir_add \/ filesys_create_undo
    \/ \E n \in Names, f \in Fds, d \in BOOLEAN : filesys_open(n, f, d)
    \/ \E n \in Names : filesys_remove(n)
    \/ inode_open_stale \/ file_open \/ OpenFails \/ dir_remove \/ dir_erase \/ EraseFails
    \/ inode_remove \/ inode_release
    \/ \E f \in Fds : sys_close(f) \/ exit_close(f) \/ exit_exec(f)
    \/ \E f \in Fds, i \in Sectors, cnt \in Sizes \ {0} : sys_write(f, i, cnt)
    \/ \E v \in Written : inode_write_at(v)
    \/ Boot

Spec == Init /\ [][Next]_vars

-----------------------------------------------------------------------------
Entries == {i \in Slots : Dir[i].name # ""}

\* The sectors of an inode in sector s with cnt data sectors from b.
Extent(s, b, cnt) == {s} \cup Run(b, cnt)

DiskExtent(s) == Extent(s, disk[s][2], disk[s][3])
OpenExtent(s) == Extent(s, open_inodes[s].start, open_inodes[s].length)

\* Inodes some name or opener refers to, and the sectors each of them owns.
Inodes == {Dir[i].sector : i \in Entries} \cup DOMAIN open_inodes
ExtentOf(s) == IF s \in DOMAIN open_inodes THEN OpenExtent(s) ELSE DiskExtent(s)

\* No sector serves two purposes: the files that have a name or an opener own
\* disjoint sectors, all marked in the free map and none of them the file system's
\* own (free_map_allocate, inode_close).  With enough memory none is lost either:
\* between operations every marked sector belongs to a file, unless a create failed
\* after it had its data sectors (filesys_create gives back the inode's sector only)
\* or the machine stopped halfway.
SectorsAccounted ==
    /\ \A s \in Inodes : ExtentOf(s) \subseteq free_map \ Reserved
    /\ \A s, t \in Inodes : s # t => ExtentOf(s) \cap ExtentOf(t) = {}
    /\ ~low_memory /\ op.pc = "idle" /\ stopped = "no" /\ ~lossy =>
          free_map = Reserved \cup UNION {ExtentOf(s) : s \in Inodes}

\* The disk is sound whenever the machine stops: every directory entry leads to an
\* inode, whose sectors are marked on disk and belong to no other entry.  This is
\* the order of the writes in filesys_create and in dir_remove.
DiskSound ==
    /\ \A i \in Entries :
          /\ disk[Dir[i].sector][1] = "inode"
          /\ DiskExtent(Dir[i].sector) \subseteq disk[MapData][2] \ Reserved
    /\ \A i, j \in Entries : i # j =>
          DiskExtent(Dir[i].sector) \cap DiskExtent(Dir[j].sector) = {}

\* open_cnt counts exactly the files open on the inode, and the removal in
\* progress; deny_write_cnt those that deny writes (ASSERTs of inode_deny_write
\* and inode_allow_write); no ASSERT of free_map_release fails.
OpenCounts ==
    /\ stopped # "assert"
    /\ \A s \in Sectors :
       LET on == {f \in Fds : files[f].sector = s}
           mine == op.pc \in {"erase", "inode_remove"} /\ op.sector = s
       IN  IF s \in DOMAIN open_inodes
           THEN /\ open_inodes[s].open_cnt = Cardinality(on) + (IF mine THEN 1 ELSE 0)
                /\ open_inodes[s].deny_write_cnt = Cardinality({f \in on : files[f].deny})
           ELSE on = {} /\ ~mine

\* The abstract file system; it is promised with enough memory only, so that a
\* behaviour with little of it stands for one without files.
EntryOf(n) == {Dir[i].sector : i \in {i \in Slots : Dir[i].name = n}}
NameOf == [n \in Names |-> IF low_memory \/ EntryOf(n) = {} THEN NoSector ELSE CHOOSE s \in EntryOf(n) : TRUE]
FirstData(s) == IF s \in DOMAIN open_inodes THEN open_inodes[s].start ELSE disk[s][2]
LengthOf(s) == IF s \in DOMAIN open_inodes THEN open_inodes[s].length ELSE disk[s][3]
Live == {Dir[i].sector : i \in Entries} \cup {files[f].sector : f \in Fds}

F == INSTANCE Files WITH
        Ids <- Sectors, NoId <- NoSector,
        names <- NameOf,
        content <- [s \in Sectors |->
                      IF ~low_memory /\ s \in Live THEN [i \in 1 .. LengthOf(s) |-> disk[FirstData(s) + i - 1][2]]
                      ELSE <<>>],
        open <- [f \in Fds |-> IF low_memory THEN NoSector ELSE files[f].sector],
        deny <- [f \in Fds |-> ~low_memory /\ files[f].deny]

\* With enough memory, names, contents and open files behave as Files.tla says, at every block write
\* and across restarts.
ImplementsFiles == F!Spec
=============================================================================
