------------------------------- MODULE Loader -------------------------------
(***************************************************************************)
(* What load() of userprog/process.c computes: the pages of a segment of    *)
(* the executable and their contents once lazy_load_segment has filled      *)
(* them, and the arguments that push_argument lays out on the stack.        *)
(* Addresses are AddressSize wide and wrap around.                          *)
(***************************************************************************)
EXTENDS LibString, SequencesExt

PGSIZE == 4             \* 4096 in the code
PHYS_BASE == 12         \* 0xc0000000 in the code
AddressSize == 16       \* 2^32 in the code
Word == 4
StackTop == 64          \* PHYS_BASE, where the stack begins, for push_argument
StackSize == 36         \* bytes of the one page load() maps for the stack, 4096 in the code
ArgvSize == 4           \* elements of push_argument's array argv, 50 in the code

PGMASK(a) == a % PGSIZE
RoundDownPage(a) == a - PGMASK(a)
RoundUpPage(a) == RoundDownPage((a + PGSIZE - 1) % AddressSize)
is_user_vaddr(a) == a < PHYS_BASE

\* p is a program header [offset, vaddr, filesz, memsz], len the file's length.
validate_segment(p, len) ==
    LET end == (p.vaddr + p.memsz) % AddressSize
    IN  /\ PGMASK(p.offset) = PGMASK(p.vaddr)
        /\ p.offset <= len
        /\ p.memsz >= p.filesz
        /\ p.memsz # 0
        /\ is_user_vaddr(p.vaddr) /\ is_user_vaddr(end)
        /\ end >= p.vaddr
        /\ p.vaddr >= PGSIZE

\* The arguments load() gives to load_segment.
SegmentOf(p) ==
    LET page_offset == PGMASK(p.vaddr)
        all == RoundUpPage((page_offset + p.memsz) % AddressSize)
        read == IF p.filesz > 0 THEN (page_offset + p.filesz) % AddressSize ELSE 0
    IN  [ofs |-> RoundDownPage(p.offset), upage |-> RoundDownPage(p.vaddr),
         read_bytes |-> read, zero_bytes |-> (all - read) % AddressSize]

SegmentAsserts(g) ==
    /\ PGMASK((g.read_bytes + g.zero_bytes) % AddressSize) = 0
    /\ PGMASK(g.upage) = 0
    /\ PGMASK(g.ofs) = 0

\* The pages that load_segment registers.
RECURSIVE load_segment(_)
load_segment(g) ==
    LET page_read_bytes == Min({g.read_bytes, PGSIZE})
        page_zero_bytes == PGSIZE - page_read_bytes
    IN  IF g.read_bytes = 0 /\ g.zero_bytes = 0 THEN {}
        ELSE {[upage |-> g.upage, ofs |-> g.ofs, read_bytes |-> page_read_bytes,
               zero_bytes |-> page_zero_bytes]}
             \cup load_segment([ofs |-> g.ofs + page_read_bytes,
                                upage |-> (g.upage + PGSIZE) % AddressSize,
                                read_bytes |-> g.read_bytes - page_read_bytes,
                                zero_bytes |-> (g.zero_bytes - page_zero_bytes) % AddressSize])

\* The bytes of a page, <<>> when the file ends too early.
lazy_load_segment(page, file) ==
    LET there == SubSeq(file, page.ofs + 1, Min({page.ofs + page.read_bytes, Len(file)}))
    IN  IF Len(there) # page.read_bytes THEN <<>>
        ELSE there \o [i \in 1..page.zero_bytes |-> 0]
-----------------------------------------------------------------------------
\* A stack: esp, the bytes from address 0 up to StackTop, argv so far, and how it went:
\* "fault" once a byte below the stack's page was written (what page_fault makes of it
\* is in Vm), "undefined" once argv was written beyond its end, which nothing checks.
\* A word is its value in the lowest byte and Mark above.
Mark == -1
EmptyStack == [esp |-> StackTop, byte |-> [a \in 0..(StackTop - 1) |-> Mark], argv |-> <<>>,
               outcome |-> "done"]

\* The first thing that went wrong, with the stack down to esp and n elements in argv.
Outcome(st, esp, n) ==
    IF st.outcome # "done" THEN st.outcome
    ELSE IF esp < StackTop - StackSize THEN "fault"
    ELSE IF n > ArgvSize THEN "undefined" ELSE "done"

PushString(st, m, token) ==
    LET n == strlen(m, token) + 1
        esp == st.esp - n
    IN  [esp |-> esp, argv |-> Append(st.argv, esp),
         outcome |-> Outcome(st, esp, Len(st.argv) + 1),
         byte |-> [a \in DOMAIN st.byte |-> IF a \in esp..(esp + n - 1) THEN m[token + (a - esp)]
                                            ELSE st.byte[a]]]
PushWord(st, v) ==
    LET esp == st.esp - Word
    IN  [st EXCEPT !.esp = esp, !.outcome = Outcome(st, esp, 0),
                   !.byte = [a \in DOMAIN @ |-> IF a = esp THEN v
                                                ELSE IF a \in esp..(esp + Word - 1) THEN Mark
                                                ELSE @[a]]]

\* The command line is at address 1 of memory m, the string " " at address d.
push_argument(m, d) ==
    LET t == Tokens(m, 1, d)
        strings == FoldLeft(LAMBDA st, token : PushString(st, t.m, token), EmptyStack, t.tokens)
        aligned == [strings EXCEPT !.esp = @ - (@ % Word),
                                   !.outcome = Outcome(strings, StackTop, Len(t.tokens) + 1)]
        pointers == FoldLeft(PushWord, PushWord(aligned, 0), Reverse(strings.argv))
    IN  PushWord(PushWord(PushWord(pointers, pointers.esp), Len(strings.argv)), 0)
-----------------------------------------------------------------------------
(* What they promise. *)

\* An accepted segment is one whose memory lies between page 0 and PHYS_BASE
\* without wrapping; load_segment's ASSERTs hold for it, its pages are exactly
\* those it touches, and each holds the file's bytes at their addresses and zeros
\* after them, or fails to load because the file is too short.
SegmentRight(p, file) ==
    LET pages == load_segment(SegmentOf(p))
        Byte(g, a) == lazy_load_segment(g, file)[a - g.upage + 1]
    IN  /\ validate_segment(p, Len(file)) =
              /\ p.offset % PGSIZE = p.vaddr % PGSIZE
              /\ p.offset \in 0..Len(file)
              /\ 0 < p.memsz /\ p.filesz \in 0..p.memsz
              /\ p.vaddr >= PGSIZE /\ p.vaddr + p.memsz < PHYS_BASE
        /\ validate_segment(p, Len(file)) =>
            /\ SegmentAsserts(SegmentOf(p))
            /\ {g.upage : g \in pages} =
                   {RoundDownPage(a) : a \in p.vaddr..(p.vaddr + p.memsz - 1)}
            /\ Cardinality(pages) = Cardinality({g.upage : g \in pages})
            /\ \A g \in pages :
                LET mine == {a \in p.vaddr..(p.vaddr + p.memsz - 1) : RoundDownPage(a) = g.upage}
                    read == {a \in mine : a < p.vaddr + p.filesz}
                IN  IF lazy_load_segment(g, file) = <<>>
                    THEN \E a \in read : p.offset + (a - p.vaddr) >= Len(file)
                    ELSE \A a \in mine : Byte(g, a) = IF a \in read
                                                      THEN file[p.offset + (a - p.vaddr) + 1]
                                                      ELSE 0

Delimiter == 2

Starts(line) ==
    {i \in DOMAIN line : line[i] # Delimiter /\ (i = 1 \/ line[i - 1] = Delimiter)}

\* The bytes the arguments take: the words, aligned, their addresses and a null one,
\* argv, argc and the return address.
StackNeeded(line) ==
    LET argc == Cardinality(Starts(line))
        chars == Cardinality({i \in DOMAIN line : line[i] # Delimiter})
    IN  Word * ((chars + argc + Word - 1) \div Word + argc + 4)

\* The words of the command line are the arguments on the stack.
ArgumentsOn(st, line) ==
    LET starts == SetToSortSeq(Starts(line), <)
        At(k) == st.byte[st.esp + k * Word]
        argc == Len(starts)
        argv == At(2)
        Arg(i) == st.byte[argv + (i - 1) * Word]
    IN  /\ st.esp % Word = 0
        /\ At(0) = 0 /\ At(1) = argc /\ argv = st.esp + 3 * Word
        /\ Arg(argc + 1) = 0
        /\ \A i \in 1..argc :
            /\ Arg(i) >= argv + (argc + 1) * Word
            /\ \A k \in 0..(Len(line) - starts[i] + 1) :
                 (\A j \in starts[i]..(starts[i] + k - 1) : line[j] # Delimiter) =>
                    st.byte[Arg(i) + k] =
                        IF starts[i] + k <= Len(line) /\ line[starts[i] + k] # Delimiter
                        THEN line[starts[i] + k] ELSE Nul

\* A command line is pushed in full when argv has room for its words and a null pointer
\* and the page for all of it, and only then.  Then main finds its arguments: the words
\* in order, null terminated, argv[argc] null, everything aligned and nothing
\* overwritten.
ArgumentsRight(line) ==
    LET st == push_argument(line \o <<Nul, Delimiter, Nul>>, Len(line) + 2)
    IN  /\ (st.outcome = "done") =
              (Cardinality(Starts(line)) < ArgvSize /\ StackNeeded(line) <= StackSize)
        /\ st.outcome = "done" => ArgumentsOn(st, line)
=============================================================================
