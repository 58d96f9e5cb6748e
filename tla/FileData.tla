------------------------------ MODULE FileData ------------------------------
(***************************************************************************)
(* The bytes of a file: filesys/file.c over inode_read_at and               *)
(* inode_write_at of filesys/inode.c, which go sector by sector and use a   *)
(* bounce buffer where a chunk is not a whole sector.  `enough' says        *)
(* whether malloc has room for that buffer.  A disk maps sectors to         *)
(* sequences of SectorSize bytes.                                           *)
(***************************************************************************)
EXTENDS Integers, Sequences, FiniteSets, FiniteSetsExt

CONSTANTS SectorSize    \* BLOCK_SECTOR_SIZE, 512 in the code

bytes_to_sectors(size) == (size + SectorSize - 1) \div SectorSize
inode_length(inode) == inode.length
byte_to_sector(inode, pos) ==
    IF pos < inode.length THEN inode.start + (pos \div SectorSize) ELSE -1

\* The bytes that one turn of the loop copies; none ends it.
Chunk(inode, size, offset) ==
    Max({0, Min({size, inode_length(inode) - offset, SectorSize - (offset % SectorSize)})})
Bounced(offset, n) == ~ (offset % SectorSize = 0 /\ n = SectorSize)

RECURSIVE inode_read_at(_, _, _, _, _)
inode_read_at(disk, inode, size, offset, enough) ==
    LET n == Chunk(inode, size, offset)
        ofs == offset % SectorSize
    IN  IF n = 0 \/ (Bounced(offset, n) /\ ~ enough) THEN <<>>
        ELSE SubSeq(disk[byte_to_sector(inode, offset)], ofs + 1, ofs + n)
                \o inode_read_at(disk, inode, size - n, offset + n, enough)

\* Mutant: only the data before the chunk is kept.
Bounce_before(sector, ofs, bytes) ==
    LET old == IF ofs > 0 THEN sector ELSE [i \in 1..SectorSize |-> 0]
    IN  [i \in 1..SectorSize |-> IF i \in (ofs + 1)..(ofs + Len(bytes)) THEN bytes[i - ofs]
                                 ELSE old[i]]

\* The bounce buffer: what the sector holds around the chunk is read first.
Bounce(sector, ofs, bytes) ==
    LET old == IF ofs > 0 \/ Len(bytes) < SectorSize - ofs THEN sector
               ELSE [i \in 1..SectorSize |-> 0]
    IN  [i \in 1..SectorSize |-> IF i \in (ofs + 1)..(ofs + Len(bytes)) THEN bytes[i - ofs]
                                 ELSE old[i]]

RECURSIVE WriteLoop(_, _, _, _, _, _)
WriteLoop(disk, inode, buffer, offset, written, enough) ==
    LET n == Chunk(inode, Len(buffer) - written, offset)
        s == byte_to_sector(inode, offset)
        bytes == SubSeq(buffer, written + 1, written + n)
    IN  IF n = 0 \/ (Bounced(offset, n) /\ ~ enough) THEN [disk |-> disk, n |-> written]
        ELSE WriteLoop([disk EXCEPT ![s] = IF Bounced(offset, n)
                                           THEN Bounce(@, offset % SectorSize, bytes)
                                           ELSE bytes],
                       inode, buffer, offset + n, written + n, enough)

inode_write_at(disk, inode, buffer, offset, enough) ==
    IF inode.deny_write_cnt > 0 THEN [disk |-> disk, n |-> 0]
    ELSE WriteLoop(disk, inode, buffer, offset, 0, enough)

\* The counter, with the ASSERTs on it; one file is open.
inode_deny_write(inode) ==
    [inode EXCEPT !.deny_write_cnt = @ + 1, !.panic = @ \/ inode.deny_write_cnt + 1 > 1]
inode_allow_write(inode) ==
    [inode EXCEPT !.deny_write_cnt = @ - 1, !.panic = @ \/ inode.deny_write_cnt \notin 1..1]

\* x is [disk, inode, pos, deny_write]: an open file and the device.
file_read(x, size, enough) ==
    LET bytes == inode_read_at(x.disk, x.inode, size, x.pos, enough)
    IN  [x |-> [x EXCEPT !.pos = @ + Len(bytes)], bytes |-> bytes]
file_write(x, buffer, enough) ==
    LET r == inode_write_at(x.disk, x.inode, buffer, x.pos, enough)
    IN  [x |-> [x EXCEPT !.disk = r.disk, !.pos = @ + r.n], n |-> r.n]
file_deny_write(x) ==
    IF x.deny_write THEN x
    ELSE [x EXCEPT !.deny_write = TRUE, !.inode = inode_deny_write(@)]
file_allow_write(x) ==
    IF ~ x.deny_write THEN x
    ELSE [x EXCEPT !.deny_write = FALSE, !.inode = inode_allow_write(@)]
file_length(x) == inode_length(x.inode)
file_seek(x, pos) == [x EXCEPT !.pos = pos]
file_tell(x) == x.pos
=============================================================================
