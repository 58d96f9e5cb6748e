-------------------------------- MODULE Block --------------------------------
(***************************************************************************)
(* Block devices and partitions (devices/block.c, devices/partition.c, and *)
(* the choice of devices for roles in threads/init.c), as operators.       *)
(*                                                                         *)
(* A disk is its size and, for the sectors that hold one, a partition      *)
(* table: a sequence of entries [type, offset, size].  A sector without    *)
(* table has no valid signature.  Sector numbers wrap at Width.  A block   *)
(* device is [disk, type, start, size]; the whole disk starts at 0.        *)
(***************************************************************************)
EXTENDS Integers, Sequences

CONSTANTS
    Width,      \* sector numbers are computed modulo this
    MaxDepth    \* bound: calls of read_partition_table that the kernel stack holds

Extended == "extended"
Roles == {"filesys", "scratch", "swap"}
PartitionTypes == Roles \cup {"kernel", "foreign", Extended}

\* block_register appends to all_blocks, in probe order.
block_register(blocks, b) == Append(blocks, b)

\* Mutant: the end is compared without looking for wrap-around.
found_partition_wrap(disk, size, blocks, e, sector) ==
    LET start == (e.offset + sector) % Width
        last == (start + e.size) % Width
    IN  IF start >= size \/ last > size THEN blocks
        ELSE block_register(blocks, [disk |-> disk, type |-> e.type, start |-> start,
                                     size |-> e.size])

\* found_partition: a partition inside the device is registered.
found_partition(disk, size, blocks, e, sector) ==
    LET start == (e.offset + sector) % Width
        last == (start + e.size) % Width
    IN  IF start >= size \/ last < start \/ last > size THEN blocks
        ELSE block_register(blocks, [disk |-> disk, type |-> e.type, start |-> start,
                                     size |-> e.size])

\* The table that a call for `sector' parses: block_read is always given sector 0.
TableRead(tables, sector) == tables[0]

\* A call of read_partition_table is [sector, primary, entry]: its arguments, and the
\* entry it is at, 0 until the table is read.  The calls under way are a stack,
\* innermost first; one for a sector past the end returns at once.
Called(calls, size, sector, primary) ==
    IF sector >= size THEN calls
    ELSE <<[sector |-> sector, primary |-> primary, entry |-> 0]>> \o calls

\* The innermost call goes on to its next entry.
NextEntry(calls) == [calls EXCEPT ![1].entry = @ + 1]

\* An extended partition in the table of call c.  The entry's offset is absolute in
\* the table of sector 0, otherwise it counts from the primary extended partition.
Nested(calls, size, c, e) ==
    IF c.sector = 0 THEN Called(calls, size, e.offset, e.offset)
    ELSE Called(calls, size, (e.offset + c.primary) % Width, c.primary)

First(S) == CHOOSE i \in S : \A j \in S : i <= j

\* The device for a role: the first of that type, 0 when there is none.
locate_block_device(blocks, role) ==
    LET of == {i \in 1 .. Len(blocks) : blocks[i].type = role}
    IN  IF of = {} THEN 0 ELSE First(of)

\* check_sector panics beyond the device's end; partition_read and partition_write
\* then add the partition's start, and the disk checks again.
check_sector(b, sector) == sector < b.size
partition_sector(b, sector) == (b.start + sector) % Width
===============================================================================
