------------------------------ MODULE Library -------------------------------
(***************************************************************************)
(* The kernel's library routines, and the sequential algorithms of the file *)
(* system, the loader and the display, against what they promise.  A        *)
(* behaviour exercises one unit: a list, a hash table, a bitmap, an open    *)
(* file or the screen goes through any sequence of calls, `impl' being the  *)
(* structure the code keeps and `ref' what it stands for, with the last     *)
(* call's result (got) beside the result its comment gives (want); a pure   *)
(* function is a state per input.                                           *)
(***************************************************************************)
EXTENDS KernelList, KernelHash, KernelBitmap, LibString, LibStdio, LibMath,
        FileData, Archive, Loader, Vga

CONSTANTS
    MemorySize,         \* bytes of the string routines' memory
    MaxArray,           \* elements of the arrays that are sorted
    MaxDraws,           \* random bytes drawn
    MaxLength,          \* bytes of a file
    MaxLine,            \* characters of a command line
    MaxLines            \* lines printed since the screen was cleared

VARIABLES unit, impl, ref, got, want

vars == <<unit, impl, ref, got, want>>

Call(i, r, g, w) ==
    /\ UNCHANGED unit
    /\ impl' = i /\ ref' = r /\ got' = g /\ want' = w
-----------------------------------------------------------------------------
\* The position of the first element of s with property P, one past the end without.
SelectInSeqOrEnd(s, P(_)) ==
    LET i == SelectInSeq(s, P) IN IF i = 0 THEN Len(s) + 1 ELSE i

Free == {e \in Elems : \A l \in ListNames : e \notin Range(ref[l])}

\* The node at position p of list l; the tail is one past the last.
NodeAt(l, p) == IF p <= Len(ref[l]) THEN ref[l][p] ELSE list_end(l)
Without(s, e) == SelectSeq(s, LAMBDA x : x # e)
Sorted(s) == \A i \in 1..(Len(s) - 1) : Key(s[i]) <= Key(s[i + 1])

\* The stable sort: an element comes after those with a smaller key and after
\* the equal ones that came before it.
StableSort(s) ==
    LET Precedes(j, i) == Key(s[j]) < Key(s[i]) \/ (Key(s[j]) = Key(s[i]) /\ j <= i)
        Rank(i) == Cardinality({j \in DOMAIN s : Precedes(j, i)})
    IN  [k \in DOMAIN s |-> s[CHOOSE i \in DOMAIN s : Rank(i) = k]]

\* The positions of s whose predecessor has another key.
Heads(s) == {i \in DOMAIN s : i = 1 \/ Key(s[i]) # Key(s[i - 1])}
Pick(s, I) == LET ps == SetToSortSeq(I, <) IN [k \in DOMAIN ps |-> s[ps[k]]]

ListInsert ==
    unit = "list" /\ \E l \in ListNames : \E e \in Free, p \in 1..(Len(ref[l]) + 1) :
        Call(list_insert(impl, NodeAt(l, p), e),
             [ref EXCEPT ![l] = InsertAt(@, p, e)], 0, 0)

ListPush ==
    unit = "list" /\ \E l \in ListNames : \E e \in Free :
        \/ Call(list_push_front(impl, l, e), [ref EXCEPT ![l] = <<e>> \o @], 0, 0)
        \/ Call(list_push_back(impl, l, e), [ref EXCEPT ![l] = Append(@, e)], 0, 0)

ListPop ==
    unit = "list" /\ \E l \in ListNames :
        /\ ref[l] # <<>>
        /\ \/ Call(list_pop_front(impl, l), [ref EXCEPT ![l] = Tail(@)],
                   list_front(impl, l), Head(ref[l]))
           \/ Call(list_pop_back(impl, l), [ref EXCEPT ![l] = Front(@)],
                   list_back(impl, l), Last(ref[l]))

\* list_remove returns the element that followed the removed one.
ListRemove ==
    unit = "list" /\ \E l \in ListNames : \E p \in DOMAIN ref[l] :
        Call(list_remove(impl, ref[l][p]), [ref EXCEPT ![l] = Without(@, ref[l][p])],
             list_next(impl, ref[l][p]), NodeAt(l, p + 1))

\* Elements p up to q of list k move before element b of list l, outside them.
ListSplice ==
    unit = "list" /\ \E k, l \in ListNames : \E p, q \in 1..(Len(ref[k]) + 1), b \in 1..(Len(ref[l]) + 1) :
        LET moved == SubSeq(ref[k], p, q - 1)
            cut == [ref EXCEPT ![k] = SubSeq(@, 1, p - 1) \o SubSeq(@, q, Len(@))]
            at == IF k = l /\ b >= q THEN b - (q - p) ELSE b
        IN  /\ p <= q
            /\ k = l => b \notin p..(q - 1)
            /\ Call(list_splice(impl, NodeAt(l, b), NodeAt(k, p), NodeAt(k, q)),
                    [cut EXCEPT ![l] = SubSeq(@, 1, at - 1) \o moved \o SubSeq(@, at, Len(@))],
                    0, 0)

ListReorder ==
    unit = "list" /\ \E l \in ListNames :
        \/ Call(list_reverse(impl, l), [ref EXCEPT ![l] = Reverse(@)], 0, 0)
        \/ Call(list_sort(impl, l), [ref EXCEPT ![l] = StableSort(@)], 0, 0)

ListInsertOrdered ==
    unit = "list" /\ \E l \in ListNames : \E e \in Free :
        /\ Sorted(ref[l])
        /\ Call(list_insert_ordered(impl, l, e),
                [ref EXCEPT ![l] = StableSort(Append(@, e))], 0, 0)

\* The duplicates go to the end of the other list, or nowhere.
ListUnique ==
    unit = "list" /\ \E l \in ListNames : \E d \in (ListNames \cup {"null"}) \ {l} :
        LET kept == [ref EXCEPT ![l] = Pick(@, Heads(@))]
            dups == Pick(ref[l], DOMAIN ref[l] \ Heads(ref[l]))
        IN  Call(list_unique(impl, l, d),
                 IF d = "null" THEN kept ELSE [kept EXCEPT ![d] = @ \o dups], 0, 0)
-----------------------------------------------------------------------------
EqualIn(e) == {x \in ref : HashEqual(x, e)}
TheEqual(e) == IF EqualIn(e) = {} THEN HashNull ELSE CHOOSE x \in EqualIn(e) : TRUE

HashInsert ==
    unit = "hash" /\ \E e \in HashElems \ ref : \E r \in hash_insert(impl, e) :
        Call(r.h, IF EqualIn(e) = {} THEN ref \cup {e} ELSE ref, r.old, TheEqual(e))

HashReplace ==
    unit = "hash" /\ \E e \in HashElems \ ref : \E r \in hash_replace(impl, e) :
        Call(r.h, (ref \ EqualIn(e)) \cup {e}, r.old, TheEqual(e))

HashDelete ==
    unit = "hash" /\ \E e \in HashElems : \E r \in hash_delete(impl, e) :
        Call(r.h, ref \ EqualIn(e), r.old, TheEqual(e))

HashClear == unit = "hash" /\ Call(hash_clear(impl), {}, 0, 0)
-----------------------------------------------------------------------------
Bits == 0..(BitCnt - 1)
Upto(i, n) == i..(i + n - 1)

BitFlip == unit = "bitmap" /\ \E i \in Bits :
    Call([impl EXCEPT !.b = bitmap_flip(@, i)],
         [ref EXCEPT !.b = SymDiff(@, {i})], 0, 0)

BitSet == unit = "bitmap" /\ \E i \in 0..BitCnt : \E n \in 0..(BitCnt - i), v \in BOOLEAN :
    Call([impl EXCEPT !.b = bitmap_set_multiple(@, i, n, v)],
         [ref EXCEPT !.b = IF v THEN @ \cup Upto(i, n) ELSE @ \ Upto(i, n)], 0, 0)

\* The first group at or after START, or BITMAP_ERROR.
FirstGroup(start, n, v) ==
    LET hits == {i \in start..(BitCnt - n) : \A j \in Upto(i, n) : (j \in ref.b) = v}
    IN  IF hits = {} THEN BITMAP_ERROR ELSE Min(hits)

BitScanFlip == unit = "bitmap" /\ \E i \in 0..BitCnt, n \in 1..(BitCnt + 1), v \in BOOLEAN :
    LET r == bitmap_scan_and_flip(impl.b, i, n, v)
        g == FirstGroup(i, n, v)
    IN  Call([impl EXCEPT !.b = r.b],
             [ref EXCEPT !.b = IF g = BITMAP_ERROR THEN @
                               ELSE IF v THEN @ \ Upto(g, n) ELSE @ \cup Upto(g, n)],
             r.idx, g)

BitSave ==
    unit = "bitmap" /\ Call([impl EXCEPT !.file = bitmap_write(impl.b)],
                             [ref EXCEPT !.file = ref.b], 0, 0)
BitLoad ==
    unit = "bitmap" /\ Call([impl EXCEPT !.b = bitmap_read(impl.file)],
                             [ref EXCEPT !.b = ref.file], 0, 0)
-----------------------------------------------------------------------------
Draw == unit = "random" /\ ref < MaxDraws /\ LET r == random_byte(impl) IN Call(r.g, ref + 1, 0, 0)
-----------------------------------------------------------------------------
\* The file starts at sector 1; the sectors around it belong to others.
FileSectors(length) == 0..(bytes_to_sectors(length) + 1)
Other(length) == {0, bytes_to_sectors(length) + 1}
NewFile(length) ==
    [disk |-> [s \in FileSectors(length) |->
                  [i \in 1..SectorSize |-> IF s \in Other(length) THEN 9 ELSE 0]],
     inode |-> [start |-> 1, length |-> length, deny_write_cnt |-> 0, panic |-> FALSE],
     pos |-> 0, deny_write |-> FALSE]

\* A read or write that malloc cuts short has still moved the bytes it reports.
FileRead == unit = "file" /\ \E n \in 0..(2 * SectorSize + 1), enough \in BOOLEAN :
    LET r == file_read(impl, n, enough)
        all == SubSeq(ref.bytes, ref.pos + 1, Min({ref.pos + n, Len(ref.bytes)}))
        done == IF enough THEN all ELSE SubSeq(all, 1, Len(r.bytes))
    IN  Call(r.x, [ref EXCEPT !.pos = @ + Len(done)], r.bytes, done)

FileWrite == unit = "file" /\ \E buffer \in SeqOf({1, 2}, SectorSize + 1), enough \in BOOLEAN :
    LET r == file_write(impl, buffer, enough)
        room == IF ref.deny THEN 0
                ELSE Max({0, Min({Len(buffer), Len(ref.bytes) - ref.pos})})
        n == IF enough THEN room ELSE Min({r.n, room})
    IN  Call(r.x, [ref EXCEPT !.pos = @ + n,
                              !.bytes = [i \in DOMAIN @ |->
                                            IF i \in (ref.pos + 1)..(ref.pos + n)
                                            THEN buffer[i - ref.pos] ELSE @[i]]], <<r.n>>, <<n>>)

FileSeek == unit = "file" /\ \E pos \in 0..(Len(ref.bytes) + 1) :
    Call(file_seek(impl, pos), [ref EXCEPT !.pos = pos], <<>>, <<>>)

FileDeny == unit = "file" /\
    \/ Call(file_deny_write(impl), [ref EXCEPT !.deny = TRUE], <<>>, <<>>)
    \/ Call(file_allow_write(impl), [ref EXCEPT !.deny = FALSE], <<>>, <<>>)
-----------------------------------------------------------------------------
PutChar == unit = "vga" /\ \E c \in Controls :
    LET t == Typed(ref, c)
    IN  Len(t.lines) <= MaxLines /\ Call(vga_putc(impl, c), t, 0, 0)
-----------------------------------------------------------------------------
State(u, i, r) == unit = u /\ impl = i /\ ref = r /\ got = 0 /\ want = 0

\* The words malloc returned: the bits past the end hold anything.
Junk == [0..(elem_cnt - 1) -> {{}, 0..(ELEM_BITS - 1)}]
Saved(junk) == [b |-> bitmap_create(junk), file |-> bitmap_create(junk)]

\* Memories of the string routines end in a null byte.
Memories == {Append(m, Nul) : m \in [1..(MemorySize - 1) -> 0..2]}

Flags == {"MINUS", "PLUS", "SPACE", "POUND", "ZERO", "GROUP"}
\* Every flag with every conversion, of values with and without commas; every type;
\* pointers; and strings, with the null pointer.
Requests ==
    [flags : SUBSET Flags, width : {-3, 0, 3}, precision : {-1, 0, 2, BufSize + 2},
     star : {FALSE}, type : {"LONGLONG"}, conv : {"d", "o", "x", "X"},
     raw : {0, 9, 12345, 2^20 - 85}]
    \cup
    [flags : {{}, {"ZERO"}}, width : {2}, precision : {-1}, star : BOOLEAN,
     type : DOMAIN TypeBits, conv : {"d", "u"}, raw : 0..31]
    \cup
    [flags : {{}, {"MINUS"}, {"ZERO"}}, width : {-3, 0, 3}, precision : {-1, 0, 2},
     star : BOOLEAN, type : {"INT"}, conv : {"p"}, raw : {0, 31}]
    \cup
    [flags : {{}, {"MINUS"}}, width : {-3, 0, 3}, precision : {-1, 0, 2}, star : BOOLEAN,
     type : {"INT"}, conv : {"s"}, raw : {<<>>, <<"a">>, <<"b", "a">>, <<"a", "b", "b", "a">>}]

Decimal(n) ==
    LET m == Abs(n)
    IN  (IF n < 0 THEN <<-3>> ELSE <<>>)
            \o (IF m > 9 THEN <<m \div 10, m % 10>> ELSE <<m>>)

\* Files with names to strip, too long and equal ones, of part of a sector, a whole
\* one and more, all zero or not.
ArchiveNames == {<<4>>, <<Slash, 4>>, <<Dot, Dot, Slash, Dot, Slash, 4>>, <<Dot, Dot>>,
                 <<4, Slash, 4>>, <<4, 4, 4, 4>>}
ArchiveFile(name, n, c) == [name |-> name, data |-> [i \in 1..n |-> c]]
ArchiveFiles ==
    {ArchiveFile(name, n, c) : name \in ArchiveNames,
                               n \in {0, 1, HeaderSize, HeaderSize + 1}, c \in {0, 4}}

FileOf(n) == [i \in 1..n |-> 100 + i]
BlankScreen == [y \in 0..(ROW_CNT - 1) |-> BlankRow]
Shown(y, x) == [lines |-> [i \in 1..(y + 1) |-> BlankRow], x |-> x]

Init ==
    \/ State("list", list_init, [l \in ListNames |-> <<>>])
    \/ State("hash", hash_init, {})
    \/ \E junk \in Junk : State("bitmap", Saved(junk), [b |-> {}, file |-> {}])
    \/ \E m \in Memories : State("string", m, 0)
    \/ \E r \in Requests : State("printf", r, 0)
    \/ \E ofs \in 0..(2 * PerLine), n \in 0..(2 * PerLine + 1) : State("dump", n, ofs)
    \/ \E n \in 0..(B * B - 1) : State("division", n, 0)
    \/ \E a \in SeqOf(1..3, MaxArray) : State("sort", a, 0)
    \/ \E n \in (-(2^(IntBits - 1)))..(2^(IntBits - 1) - 1) : State("atoi", n, 0)
    \/ \E seed \in [1..2 -> 0..(TableSize - 1)] : State("random", random_init(seed), 0)
    \/ \E n \in 0..MaxLength :
          State("file", NewFile(n), [bytes |-> [i \in 1..n |-> 0], pos |-> 0, deny |-> FALSE])
    \/ \E f \in ArchiveFiles : State("header", f, 0)
    \/ \E files \in SeqOf(ArchiveFiles, 2) : State("archive", files, 0)
    \/ \E a, b \in 0..(AddressSize - 1) : State("segment", [offset |-> a, vaddr |-> b], 0)
    \/ \E line \in SeqOf({1, 2}, MaxLine) : State("args", line, 0)
    \/ \E y \in 0..(ROW_CNT - 1), x \in 0..(COL_CNT - 1) :
          State("vga", init(BlankScreen, x + COL_CNT * y), Shown(y, x))

Next ==
    \/ ListInsert \/ ListPush \/ ListPop \/ ListRemove \/ ListSplice
    \/ ListReorder \/ ListInsertOrdered \/ ListUnique
    \/ HashInsert \/ HashReplace \/ HashDelete \/ HashClear
    \/ BitFlip \/ BitSet \/ BitScanFlip \/ BitSave \/ BitLoad
    \/ Draw
    \/ FileRead \/ FileWrite \/ FileSeek \/ FileDeny
    \/ PutChar

Spec == Init /\ [][Next]_vars
-----------------------------------------------------------------------------
\* After any calls, no ASSERT of list.c has failed, the links of each list hold
\* exactly the sequence it stands for, forwards and backwards, and the queries
\* answer for it: the size, the order, the earliest of the largest and of the
\* smallest elements (list_sort is stable, list_splice moves, list_unique keeps
\* the first of each run).
ListsAgree ==
    unit = "list" =>
        /\ ~impl.panic /\ got = want
        /\ \A l \in ListNames :
            LET s == ref[l]
                Best(e) == \A d \in Range(s) : Key(d) <= Key(e)
                Worst(e) == \A d \in Range(s) : Key(d) >= Key(e)
            IN  /\ Walk(impl, list_begin(impl, l), list_end(l)) = s
                /\ WalkBack(impl, list_back(impl, l), list_head(l)) = Reverse(s)
                /\ list_size(impl, l) = Len(s) /\ list_empty(impl, l) = (s = <<>>)
                /\ is_sorted(impl, list_begin(impl, l), list_end(l)) = Sorted(s)
                /\ list_max(impl, l) = NodeAt(l, SelectInSeqOrEnd(s, Best))
                /\ list_min(impl, l) = NodeAt(l, SelectInSeqOrEnd(s, Worst))

\* After any calls, also when malloc fails inside rehash, hash_find finds an
\* equal element exactly when the table holds one, hash_size counts the
\* elements, and hash_apply and the iterator meet each of them once.
HashAgrees ==
    unit = "hash" =>
        /\ got = want
        /\ is_power_of_2(bucket_cnt(impl))
        /\ hash_size(impl) = Cardinality(ref) /\ hash_empty(impl) = (ref = {})
        /\ \A e \in HashElems : hash_find(impl, e) = TheEqual(e)
        /\ Iterate(impl, hash_first(impl)) = hash_apply(impl)
        /\ Len(hash_apply(impl)) = Cardinality(ref) /\ Range(hash_apply(impl)) = ref

\* After any calls, and through a write to and a read from its file, a bitmap
\* holds the bits it stands for whatever its unused bits hold, and its counts,
\* tests and scans answer for them.
BitmapAgrees ==
    unit = "bitmap" =>
        /\ got = want
        /\ \A i \in Bits : bitmap_test(impl.b, i) = (i \in ref.b)
        /\ \A i \in 0..BitCnt : \A n \in 0..(BitCnt - i), v \in BOOLEAN :
              LET there == {j \in Upto(i, n) : (j \in ref.b) = v}
              IN  /\ bitmap_count(impl.b, i, n, v) = Cardinality(there)
                  /\ bitmap_all(impl.b, i, n) = (Upto(i, n) \subseteq ref.b)
                  /\ bitmap_none(impl.b, i, n) = (Upto(i, n) \cap ref.b = {})
                  /\ bitmap_any(impl.b, i, n) = ~bitmap_none(impl.b, i, n)

\* string.c on every memory, every pair of addresses and every length: copies of
\* overlapping ranges, bounded copies, searches and the tokenizer.
StringsAgree ==
    unit = "string" => CopiesRight(impl) /\ SearchesRight(impl) /\ TokensRight(impl)

\* printf's conversions, snprintf's bound, the layout of hex_dump and the sizes of
\* print_human_readable_size.
PrintfAgrees ==
    /\ unit = "printf" => ConversionRight(impl) /\ SnprintfRight(Written(impl))
    /\ unit = "dump" => DumpRight(ref, [i \in 1..impl |-> i]) /\ ReadableRight(2^impl + ref, 3)

\* The division routines, the heap sort with its binary search, atoi over the
\* whole range of an int, and the generator's table.
NumbersAgree ==
    /\ unit = "division" => DivisionRight(impl)
    /\ unit = "sort" => SortRight(impl)
    /\ unit = "atoi" => AtoiRight(impl, Decimal(impl))
    /\ unit = "random" => TableRight(impl)

\* The kernel's data structures, together: every call returned what the abstract
\* sequence, set and bits say, and every query answers for them (lib/kernel).
StructuresAgree == ListsAgree /\ HashAgrees /\ BitmapAgrees

\* An open file, whatever is read, written, sought and denied, and wherever malloc
\* fails: the sectors hold the bytes written, every call moves the bytes it
\* reports, the ASSERTs on the count of denials hold, and neither the neighbours'
\* sectors nor the rest of the last sector change (filesys/file.c, inode.c).
BytesAgree ==
    unit = "file" =>
        LET length == Len(ref.bytes)
            Byte(i) == impl.disk[1 + (i \div SectorSize)][(i % SectorSize) + 1]
        IN  /\ got = want /\ ~ impl.inode.panic
            /\ file_length(impl) = length /\ file_tell(impl) = ref.pos
            /\ \A i \in 0..(bytes_to_sectors(length) * SectorSize - 1) :
                  Byte(i) = IF i < length THEN ref.bytes[i + 1] ELSE 0
            /\ \A s \in Other(length) : impl.disk[s] = NewFile(length).disk[s]

\* Contents on their way between files, archives and memory arrive intact: the
\* bytes of an open file, ustar headers and archives (lib/ustar.c,
\* filesys/fsutil.c), and the segments of an executable (load, load_segment).
FilesAgree ==
    /\ BytesAgree
    /\ unit = "header" => HeaderRight(impl)
    /\ unit = "archive" => ArchiveRight(impl)
    /\ unit = "segment" => \A c, d \in 0..(AddressSize - 1), n \in {0, 5, 8} :
          SegmentRight([offset |-> impl.offset, vaddr |-> impl.vaddr, filesz |-> c, memsz |-> d],
                       FileOf(n))

\* Text, together: the string routines (lib/string.c) and printf (lib/stdio.c), the
\* words of a command line on a process's stack (push_argument), and what the
\* display shows after any output (devices/vga.c).
TextAgrees ==
    /\ StringsAgree /\ PrintfAgrees
    /\ unit = "args" => ArgumentsRight(impl)
    /\ unit = "vga" => ScreenRight(impl, ref)
=============================================================================
