-------------------------------- MODULE MCIde --------------------------------
(***************************************************************************)
(* Ide for TLC: disks of a few sectors and sector numbers of three bits.   *)
(***************************************************************************)
EXTENDS Ide, SequencesExt

Entry(t, o, s) == [type |-> t, offset |-> o, size |-> s]
Layout(n, es) == [size |-> n, tables |-> 0 :> es]

\* A regular disk; one whose partitions overlap, start or end past the device or wrap
\* around, with an extended one; one whose extended partition leads to itself; one
\* that is too large.
MCLayouts ==
    { Layout(4, <<Entry("filesys", 1, 2), Entry("swap", 3, 1)>>),
      Layout(3, <<Entry("swap", 2, 7), Entry("filesys", 2, 1), Entry("scratch", 2, 2),
                  Entry("extended", 2, 1)>>),
      Layout(2, <<Entry("extended", 1, 1)>>),
      Layout(7, <<Entry("filesys", 1, 2)>>) }

\* An extended partition: a second table, with one logical partition.
MCExtended ==
    { [size |-> 6, tables |-> 0 :> <<Entry("filesys", 1, 1), Entry("extended", 3, 3)>>
                              @@ 3 :> <<Entry("swap", 1, 1)>>] }

\* What the comments of partition.c describe: the partitions of the table in sector
\* 0, and of the chain of tables of each extended partition.
RECURSIVE Described(_, _, _, _)
Described(d, sector, primary, depth) ==
    IF depth = 0 \/ sector \notin DOMAIN d.tables THEN {}
    ELSE LET es == {e \in ToSet(d.tables[sector]) : e.size # 0}
             nested(e) == IF sector = 0 THEN Described(d, e.offset, e.offset, depth - 1)
                          ELSE Described(d, e.offset + primary, primary, depth - 1)
         IN  {[type |-> e.type, start |-> e.offset + sector, size |-> e.size] :
                e \in {f \in es : f.type # Extended /\ f.offset + sector + f.size <= d.size}}
             \cup UNION {nested(e) : e \in {f \in es : f.type = Extended}}

\* The scan registers the partitions of the table in every sector it is called for:
\* "Reads the partition table in the given SECTOR of BLOCK".
ScansSector ==
    \A d \in Disks : probing \notin Disks /\ is_ata[d] =>
        {[type |-> b.type, start |-> b.start, size |-> b.size] :
            b \in {c \in ToSet(blocks) : c.disk = d /\ c.type # "raw"}}
        = Described(layout[d], 0, 0, MaxDepth)
===============================================================================
