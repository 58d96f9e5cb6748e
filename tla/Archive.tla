------------------------------ MODULE Archive -------------------------------
(***************************************************************************)
(* ustar archives (lib/ustar.c), and the commands that copy files to and    *)
(* from the scratch device (filesys/fsutil.c).  A header is its fields and  *)
(* a sector a sequence of bytes; field sizes and the radix of the numbers   *)
(* are scaled down.                                                         *)
(***************************************************************************)
EXTENDS LibString, SequencesExt

CONSTANTS
    NameSize,           \* sizeof h->name, 100 in the code
    SizeDigits,         \* digits of h->size, 11 in the code
    ScratchSize         \* sectors of the scratch device

Radix == 4              \* 8 in the code
SumDigits == 4          \* digits of h->chksum, 7 in the code
ULongMax == 255
IntMax == 127

\* Characters: a null, blank, slash, dot, a letter, the magic, the digits.
Blank == 1
Slash == 2
Dot == 3
Magic == 5
Digit(k) == 6 + k
IsDigit(c) == c \in Digit(0)..Digit(Radix - 1)
Regular == Digit(0)
Directory == Digit(1)

Octal(value, n) ==
    [i \in 1..n |-> Digit((value \div Radix^(n - i)) % Radix)] \o <<Nul>>
Padded(s, n) == s \o [i \in 1..(n - Len(s)) |-> Nul]

\* struct ustar_header as bytes, and the fields of a sector.
Flat(h) == h.name \o h.size \o h.chksum \o <<h.typeflag, h.magic, h.prefix>>
HeaderSize == NameSize + SizeDigits + 1 + SumDigits + 1 + 3
Fields(s) ==
    LET sum == NameSize + SizeDigits + 1
        flag == sum + SumDigits + 2
    IN  [name |-> SubSeq(s, 1, NameSize), size |-> SubSeq(s, NameSize + 1, sum),
         chksum |-> SubSeq(s, sum + 1, flag - 1), typeflag |-> s[flag],
         magic |-> s[flag + 1], prefix |-> s[flag + 2]]

calculate_chksum(h) ==
    FoldSeq(LAMBDA x, y : x + y, 0,
            Flat([h EXCEPT !.chksum = [i \in 1..(SumDigits + 1) |-> Blank]]))

RECURSIVE Stripped(_)
Stripped(s) ==
    IF \E p \in {<<Slash>>, <<Dot, Slash>>, <<Dot, Dot, Slash>>} : IsPrefix(p, s)
    THEN Stripped(SubSeq(s, SelectInSeq(s, LAMBDA c : c = Slash) + 1, Len(s)))
    ELSE s
strip_antisocial_prefixes(s) ==
    IF Stripped(s) \in {<<>>, <<Dot, Dot>>} THEN <<Dot>> ELSE Stripped(s)

\* The header's bytes, or <<>> for a name that is too long.
ustar_make_header(file_name, type, size) ==
    LET name == strip_antisocial_prefixes(file_name)
        h == [name |-> Padded(name, NameSize), size |-> Octal(size, SizeDigits),
              chksum |-> Padded(<<>>, SumDigits + 1), typeflag |-> type, magic |-> Magic,
              prefix |-> Nul]
    IN  IF Len(name) > NameSize - 1 THEN <<>>
        ELSE Flat([h EXCEPT !.chksum = Octal(calculate_chksum(h), SumDigits)])

\* The value of a field, or -1; from the digit at ofs on.
RECURSIVE OctalFrom(_, _, _)
OctalFrom(s, ofs, value) ==
    IF ofs > Len(s) THEN -1
    ELSE IF IsDigit(s[ofs])
    THEN IF value > ULongMax \div Radix THEN -1
         ELSE OctalFrom(s, ofs + 1, s[ofs] - Digit(0) + value * Radix)
    ELSE IF s[ofs] \in {Blank, Nul} /\ ofs > 1 THEN value ELSE -1
parse_octal_field(s) == OctalFrom(s, 1, 0)

is_all_zeros(s) == \A i \in DOMAIN s : s[i] = Nul

Parsed(type, name, size) == [type |-> type, name |-> name, size |-> size]
BadHeader == Parsed("error", <<>>, 0)
EndOfArchive == Parsed("eof", <<>>, 0)

ustar_parse_header(s) ==
    LET h == Fields(s)
        size == IF h.typeflag = Regular THEN parse_octal_field(h.size) ELSE 0
        end == SelectInSeq(h.name, LAMBDA c : c = Nul)
    IN  IF is_all_zeros(s) THEN EndOfArchive
        ELSE IF \/ h.magic # Magic \/ parse_octal_field(h.chksum) # calculate_chksum(h)
                \/ Last(h.name) # Nul \/ h.prefix # Nul
                \/ h.typeflag \notin {Regular, Directory}
                \/ size = -1 \/ size > IntMax
        THEN BadHeader
        ELSE Parsed(IF h.typeflag = Regular THEN "file" ELSE "directory",
                    strip_antisocial_prefixes(SubSeq(h.name, 1, end - 1)), size)
-----------------------------------------------------------------------------
ZeroSector == Padded(<<>>, HeaderSize)
Scratch == [dev |-> [i \in 0..(ScratchSize - 1) |-> ZeroSector], sector |-> 0, panic |-> FALSE]

\* block_write at sector s; past the end it panics.
Write(a, s, bytes) ==
    IF s >= ScratchSize THEN [a EXCEPT !.panic = TRUE] ELSE [a EXCEPT !.dev[s] = bytes]
Put(a, bytes) == [Write(a, a.sector, bytes) EXCEPT !.sector = @ + 1]

RECURSIVE CopyOut(_, _)
CopyOut(a, data) ==
    LET n == Min({Len(data), HeaderSize})
    IN  IF a.panic \/ data = <<>> THEN a
        ELSE CopyOut(Put(a, Padded(SubSeq(data, 1, n), HeaderSize)),
                     SubSeq(data, n + 1, Len(data)))

\* The archive with one more file, and its end marked by two zero sectors.
fsutil_append(a, name, data) ==
    LET header == ustar_make_header(name, Regular, Len(data))
        b == CopyOut(Put(a, header), data)
    IN  IF a.panic \/ header = <<>> THEN [a EXCEPT !.panic = TRUE]
        ELSE IF b.panic THEN b
        ELSE Write(Write(b, b.sector, ZeroSector), b.sector + 1, ZeroSector)

\* The data of a file of `size' bytes from sector s on.
RECURSIVE CopyIn(_, _, _)
CopyIn(a, s, size) ==
    IF size <= 0 THEN <<>>
    ELSE SubSeq(a.dev[s], 1, Min({size, HeaderSize})) \o CopyIn(a, s + 1, size - HeaderSize)

\* The files put into the file system, in order, up to a panic: a bad header, a name
\* that filesys_create has already, or the file after the first `room' ones, which the
\* file system cannot create, open or write.  The position is a static variable.
RECURSIVE Extract(_, _, _, _)
Extract(a, s, files, room) ==
    LET h == IF s < ScratchSize THEN ustar_parse_header(a.dev[s]) ELSE BadHeader
        known == {files[i].name : i \in DOMAIN files}
        last == s + ((h.size + HeaderSize - 1) \div HeaderSize)
    IN  IF h.type = "eof" THEN [files |-> files, sector |-> s + 1, panic |-> FALSE]
        ELSE IF h.type = "directory" THEN Extract(a, s + 1, files, room)
        ELSE IF \/ h.type = "error" \/ h.name \in known \/ last >= ScratchSize
                \/ Len(files) >= room
        THEN [files |-> files, sector |-> s + 1, panic |-> TRUE]
        ELSE Extract(a, last + 1,
                     Append(files, [name |-> h.name, data |-> CopyIn(a, s + 1, h.size)]), room)

\* The first two sectors are erased afterwards.
fsutil_extract(a, sector, room) ==
    [got |-> Extract(a, sector, <<>>, room),
     a |-> Write(Write(a, 0, ZeroSector), 1, ZeroSector)]
-----------------------------------------------------------------------------
(* What they promise. *)

SectorsFor(f) == 1 + ((Len(f.data) + HeaderSize - 1) \div HeaderSize)

\* A file's header is read back as it was made, and a header with any one byte
\* changed is refused unless it means the same.
HeaderRight(f) ==
    LET s == ustar_make_header(f.name, Regular, Len(f.data))
        name == strip_antisocial_prefixes(f.name)
    IN  /\ ~ \E p \in {<<Slash>>, <<Dot, Slash>>, <<Dot, Dot, Slash>>} : IsPrefix(p, name)
        /\ strip_antisocial_prefixes(name) = name
        /\ (s = <<>>) = (Len(name) >= NameSize)
        /\ s # <<>> =>
            /\ Len(s) = HeaderSize
            /\ ustar_parse_header(s) = Parsed("file", name, Len(f.data))
            /\ \A i \in DOMAIN s : \A c \in 0..Digit(Radix - 1) :
                ustar_parse_header([s EXCEPT ![i] = c])
                    \in {BadHeader, ustar_parse_header(s)}

\* x, extracted from an archive of these files, is the files, or the first of them up
\* to a name that comes twice or a file there is no room for.
Extracted(x, files, names, room) ==
    LET all == [i \in DOMAIN files |-> [name |-> names[i], data |-> files[i].data]] IN
    /\ x.got.panic = (Cardinality(ToSet(names)) # Len(names) \/ Len(names) > room)
    /\ IsPrefix(x.got.files, all)
    /\ ~ x.got.panic =>
        /\ x.got.files = all
        /\ \A s \in {0, x.got.sector} :
              LET again == fsutil_extract(x.a, s, room).got
              IN  again.files = <<>> /\ ~ again.panic

\* Appending files and extracting them gives the files back, whatever they hold;
\* what does not fit is refused; a file system that fails on the way
\* gets the files before that one; extracting again, at once or after a restart,
\* gives nothing.
ArchiveRight(files) ==
    LET step(a, f) == fsutil_append(a, f.name, f.data)
        archive == FoldLeft(step, Scratch, files)
        names == [i \in DOMAIN files |-> strip_antisocial_prefixes(files[i].name)]
        need == FoldLeft(LAMBDA n, f : n + SectorsFor(f), 2, files)
        fits == need <= ScratchSize /\ \A i \in DOMAIN names : Len(names[i]) < NameSize
    IN  /\ archive.panic = ~ fits
        /\ fits => \A room \in 0..Len(files) :
              Extracted(fsutil_extract(archive, 0, room), files, names, room)
=============================================================================
