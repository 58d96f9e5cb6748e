---------------------------------- MODULE Vm ----------------------------------
(***************************************************************************)
(* Virtual memory: the frame table and its clock (vm/frame.c), the         *)
(* supplemental page tables (vm/page.c), the part of vm/swap.c that can    *)
(* run, page directories (userprog/pagedir.c), page_fault                  *)
(* (userprog/exception.c), the pinning of buffers by read and write        *)
(* (userprog/syscall.c) and the address-space part of load and exit        *)
(* (userprog/process.c).                                                   *)
(*                                                                         *)
(* Every section under frame_lock is one action: nothing in it sleeps, as  *)
(* evict_frame gives the lock up around its I/O.  What happens between two *)
(* sections interleaves freely.  `halted' stands for every way the kernel  *)
(* stops: a failed ASSERT, or a stray pointer followed under frame_lock,   *)
(* whose fault handler exits the process and then asserts that the lock is *)
(* not held.  A struct frame is named by its address: malloc may give the  *)
(* address of a freed one again, and a process that still holds the old    *)
(* pointer then works on the new entry.                                    *)
(***************************************************************************)
EXTENDS Integers, Sequences, FiniteSets, SequencesExt

CONSTANTS
    Proc,      \* processes; each is loaded once
    Code,      \* pages of the executable's segments
    Top,       \* the stack page that load() makes
    Below,     \* stack pages that a fault may add
    Buffer,    \* the pages of a read's or write's buffer, in order
    Kva,       \* frames of the user pool, by number
    Addr,      \* addresses of struct frames (bound: how many there are)
    Slot,      \* swap slots
    NULL

Stack == {Top} \cup Below
Va == Code \cup Stack

ASSUME VmAssumption ==
    /\ Code \cap Stack = {} /\ Buffer \in Seq(Va) /\ Buffer # <<>>
    /\ IsFiniteSet(Kva) /\ Kva \subseteq Nat /\ IsFiniteSet(Addr)
    /\ NULL \notin Proc \cup Va \cup Kva \cup Addr

VARIABLES
    pc,            \* where each process is
    call,          \* its claim in progress: [va, ret, fr, kva, page]
    index,         \* the buffer page its system call is at
    spt,           \* spt[p][va]: the suppPage, or NULL
    pte,           \* pte[p][va]: the frame mapped there, and the accessed bit
    frame,         \* frame[a]: the struct frame at address a, or NULL when freed
    frame_table, clock_hand,
    used,          \* the frames palloc has handed out
    content,       \* what each frame holds: the page written last, or Zero
    written,       \* the stack pages that their process has written
    file_lock,
    mistaken,      \* an eviction has removed another entry than the one it chose
    halted

vars == <<pc, call, index, spt, pte, frame, frame_table, clock_hand, used, content,
          written, file_lock, mistaken, halted>>
tables == <<frame, frame_table, clock_hand>>
memory == <<used, content, written>>
user == <<index, file_lock>>
status == <<mistaken, halted>>

NoCall == [va |-> NULL, ret |-> "none", fr |-> NULL, kva |-> NULL, page |-> NULL]
NotPresent == [kva |-> NULL, a |-> FALSE]
end == NULL        \* clock_hand at the list's tail
Zero == <<"zero">>
Garbage == <<"0xcc">>

Init ==
    /\ pc = [p \in Proc |-> "new"]
    /\ call = [p \in Proc |-> NoCall] /\ index = [p \in Proc |-> 0]
    /\ spt = [p \in Proc |-> [v \in Va |-> NULL]]
    /\ pte = [p \in Proc |-> [v \in Va |-> NotPresent]]
    /\ frame = [a \in Addr |-> NULL] /\ frame_table = <<>> /\ clock_hand = end
    /\ used = {} /\ content = [k \in Kva |-> Zero] /\ written = {}
    /\ file_lock = NULL /\ mistaken = FALSE /\ halted = FALSE

At(p, l) == ~ halted /\ pc[p] = l
Goto(p, l) == pc' = [pc EXCEPT ![p] = l]

Halt(p) ==
    /\ halted' = TRUE
    /\ UNCHANGED <<pc, call, index, spt, pte, tables, memory, file_lock, mistaken>>

(***************************************************************************)
(* The supplemental page table.                                            *)
(***************************************************************************)

\* A suppPage of vm_alloc_page keeps whatever its memory held as initializer: null
\* in memory never used, 0xcccccccc in memory freed before.
vm_alloc_page(i) == [type |-> "stack", frame |-> NULL, pinned |-> FALSE, init |-> i]
Leftover == {"none", "wild"}

vm_alloc_page_with_initializer ==
    [type |-> "file", frame |-> NULL, pinned |-> FALSE, init |-> "lazy"]

spt_find_page(p, v) == spt[p][v]

\* The suppPage a struct frame points to is freed memory once its process has
\* destroyed its table.
Dangling(f) == f.page = NULL \/ spt[f.page[1]][f.page[2]] = NULL

(***************************************************************************)
(* The page directory: hardware sets the accessed bit of a mapped page.    *)
(***************************************************************************)

pagedir_get_page(p, v) == pte[p][v].kva
pagedir_set_page(k) == [kva |-> k, a |-> FALSE]
pagedir_clear_page(e) == NotPresent
pagedir_is_accessed(t, p, v) == t[p][v].a
pagedir_set_accessed(t, p, v, b) == [t EXCEPT ![p][v].a = b]

(***************************************************************************)
(* The frame table.                                                        *)
(***************************************************************************)

\* The entry that a search for kva stops at, 0 when there is none.
Find(kva) == SelectInSeq(frame_table, LAMBDA a : frame[a].kva = kva)

list_next(a) ==
    LET i == SelectInSeq(frame_table, LAMBDA b : b = a)
    IN  IF i = Len(frame_table) THEN end ELSE frame_table[i + 1]

\* The clock: at most n more entries from `hand' on, with the page tables t.  The
\* victim is "stray" when a freed entry or page would be followed.
RECURSIVE Scan(_, _, _)
Scan(n, hand, t) ==
    LET a == IF hand = end THEN Head(frame_table) ELSE hand
        f == frame[a]
    IN  IF n = 0 THEN [victim |-> NULL, hand |-> hand, pte |-> t]
        ELSE IF ~ Contains(frame_table, a)
        THEN [victim |-> "stray", hand |-> hand, pte |-> t]
        ELSE IF f.pinned THEN Scan(n - 1, list_next(a), t)
        ELSE IF Dangling(f) THEN [victim |-> "stray", hand |-> hand, pte |-> t]
        ELSE IF pagedir_is_accessed(t, f.page[1], f.page[2])
        THEN Scan(n - 1, list_next(a),
                  pagedir_set_accessed(t, f.page[1], f.page[2], FALSE))
        ELSE [victim |-> a, hand |-> list_next(a), pte |-> t]

select_victim ==
    IF frame_table = <<>> THEN [victim |-> NULL, hand |-> clock_hand, pte |-> pte]
    ELSE Scan(2 * Len(frame_table), clock_hand, pte)

\* vm_frame_pin and vm_frame_unpin: the first entry with that kva.
SetPinned(kva, b) ==
    IF Find(kva) = 0 THEN frame
    ELSE [frame EXCEPT ![frame_table[Find(kva)]].pinned = b]
vm_frame_pin(kva) == SetPinned(kva, TRUE)
vm_frame_unpin(kva) == SetPinned(kva, FALSE)

\* vm_frame_allocate's end: a new entry for kva, its page still null.
AddFrame(p, kva, fs, ft) ==
    \E a \in {b \in Addr : fs[b] = NULL} :
        /\ frame' = [fs EXCEPT ![a] = [kva |-> kva, page |-> NULL, owner |-> p,
                                       pinned |-> FALSE]]
        /\ frame_table' = Append(ft, a)
        /\ call' = [call EXCEPT ![p].fr = a, ![p].kva = kva]

(***************************************************************************)
(* vm_do_claim_page: a frame, its link to the page, the pin, the contents, *)
(* the mapping, the end of the pin; every failure undoes the pin and frees *)
(* the frame.  ret says who called: a fault, the growth of the stack, a    *)
(* fault inside a system call, preload_and_pin_pages, or load(), which     *)
(* holds file_lock meanwhile.                                              *)
(***************************************************************************)

Page(p) == spt[p][call[p].va]

\* What a claim leaves behind: who made it, and the frame it was for.
Caller(p) == [NoCall EXCEPT !.ret = call[p].ret, !.kva = call[p].kva]

Claim(p, v, r) ==
    /\ Goto(p, "alloc")
    /\ call' = [call EXCEPT ![p] = [NoCall EXCEPT !.va = v, !.ret = r]]

ClaimDone(p) ==
    /\ Goto(p, CASE call[p].ret \in {"fault", "grow"} -> "user"
                 [] call[p].ret = "preload" -> "pinpage"
                 [] call[p].ret = "io" -> "io"
                 [] call[p].ret = "load" -> "push")
    /\ call' = [call EXCEPT ![p] = IF @.ret = "load" THEN Caller(p) ELSE NoCall]

\* A failed claim ends the process, but for two callers: the growth of the stack
\* tries once more as a fault, and preload_and_pin_pages does not look.  load()
\* releases file_lock; the fault handler does not.
ClaimFails(p) ==
    /\ CASE call[p].ret = "grow" -> Claim(p, call[p].va, "fault")
         [] call[p].ret = "preload" -> ClaimDone(p)
         [] OTHER -> Goto(p, "destroy") /\ call' = [call EXCEPT ![p] = NoCall]
    /\ file_lock' = IF call[p].ret = "load" THEN NULL ELSE file_lock

\* vm_frame_allocate asks palloc first.
AllocFresh(p) ==
    /\ At(p, "alloc")
    /\ used # Kva
    /\ LET k == Min(Kva \ used)
       IN  /\ used' = used \cup {k} /\ content' = [content EXCEPT ![k] = Zero]
           /\ AddFrame(p, k, frame, frame_table)
    /\ Goto(p, "link")
    /\ UNCHANGED <<spt, pte, clock_hand, written, user, status>>

\* malloc has no room for the struct frame: the frame goes back to palloc.
AllocNoMemory(p) ==
    /\ At(p, "alloc") /\ used # Kva
    /\ \A a \in Addr : frame[a] # NULL
    /\ ClaimFails(p)
    /\ UNCHANGED <<index, spt, pte, tables, memory, status>>

\* No frame is free: the clock picks a victim, whose mapping evict_frame clears
\* before it releases frame_lock.  The victim, its frame and its page are read here,
\* once.
AllocEvict(p) ==
    LET s == select_victim
    IN  /\ At(p, "alloc") /\ used = Kva
        /\ IF s.victim = "stray" THEN Halt(p)
           ELSE /\ clock_hand' = s.hand
                /\ IF s.victim = NULL
                   THEN ClaimFails(p) /\ pte' = s.pte
                   ELSE LET f == frame[s.victim]
                        IN  /\ pte' = [s.pte EXCEPT ![f.page[1]][f.page[2]] =
                                            pagedir_clear_page(@)]
                            /\ call' = [call EXCEPT ![p].fr = s.victim,
                                                    ![p].kva = f.kva,
                                                    ![p].page = f.page]
                            /\ Goto(p, "evict")
                            /\ UNCHANGED file_lock
                /\ UNCHANGED <<index, spt, frame, frame_table, memory, status>>

\* vm_swap_init sets every bit of swap_available, and swap_out looks for a clear one.
swap_available == [s \in Slot |-> TRUE]
swap_out == \E s \in Slot : ~ swap_available[s]

\* evict_frame without the lock, and again with it: a file page is dropped, any
\* other goes to swap or stays.  The page that loses its frame is the one found
\* before; what is removed and freed is whatever entry the victim's address holds
\* now, as another process may have evicted it meanwhile.
EvictDone(p) ==
    LET a == call[p].fr
        v == call[p].page
        ok == v[2] \in Code \/ swap_out
    IN  /\ At(p, "evict")
        /\ IF spt[v[1]][v[2]] = NULL \/ (ok /\ ~ Contains(frame_table, a)) THEN Halt(p)
           ELSE /\ IF ok
                   THEN /\ spt' = [spt EXCEPT ![v[1]][v[2]].frame = NULL]
                        /\ AddFrame(p, call[p].kva, [frame EXCEPT ![a] = NULL],
                                    Remove(frame_table, a))
                        /\ mistaken' = (mistaken \/ frame[a].page # v
                                                 \/ frame[a].kva # call[p].kva)
                        /\ Goto(p, "link")
                        /\ UNCHANGED file_lock
                   ELSE ClaimFails(p) /\ UNCHANGED <<spt, frame, frame_table, mistaken>>
                /\ UNCHANGED <<index, pte, clock_hand, memory, halted>>

\* Page and frame point to each other, outside frame_lock; kva is what the struct
\* frame says now.  One that another process has freed meanwhile is a stray pointer.
Link(p) ==
    LET a == call[p].fr
    IN  /\ At(p, "link")
        /\ IF frame[a] = NULL THEN Halt(p)
           ELSE /\ spt' = [spt EXCEPT ![p][call[p].va].frame = a]
                /\ frame' = [frame EXCEPT ![a].page = <<p, call[p].va>>, ![a].owner = p]
                /\ call' = [call EXCEPT ![p].kva = frame[a].kva]
                /\ Goto(p, "pin")
                /\ UNCHANGED <<pte, frame_table, clock_hand, memory, user, status>>

Pin(p) ==
    /\ At(p, "pin")
    /\ frame' = vm_frame_pin(call[p].kva)
    /\ spt' = [spt EXCEPT ![p][call[p].va].pinned = TRUE]
    /\ Goto(p, "content")
    /\ UNCHANGED <<call, pte, frame_table, clock_hand, memory, user, status>>

\* The contents.  lazy_load_segment reads the executable into page->frame->kva and
\* fails when that is gone or the file is too short; a stack page is taken for
\* zeroed.  A wild initializer, and a file page claimed a second time, whose file is
\* null, fault in the kernel: the process exits.
Content(p) ==
    LET g == Page(p)
    IN  /\ At(p, "content")
        /\ CASE g.init = "lazy" ->
                \/ /\ g.frame # NULL /\ frame[g.frame] # NULL
                   /\ content' = [content EXCEPT ![frame[g.frame].kva] = <<p, call[p].va>>]
                   /\ spt' = [spt EXCEPT ![p][call[p].va].init = "none"]
                   /\ Goto(p, "map") /\ UNCHANGED call
                \/ /\ Goto(p, "undo") /\ UNCHANGED <<call, content, spt>>
             [] g.init = "none" /\ g.type = "stack" ->
                Goto(p, "map") /\ UNCHANGED <<call, content, spt>>
             [] OTHER ->
                /\ Goto(p, "destroy") /\ call' = [call EXCEPT ![p] = Caller(p)]
                /\ UNCHANGED <<content, spt>>
        /\ UNCHANGED <<pte, tables, used, written, user, status>>

\* pagedir_set_page asserts that nothing is mapped there; it may lack memory for a
\* page table.
Map(p) ==
    /\ At(p, "map")
    /\ IF pagedir_get_page(p, call[p].va) # NULL THEN Halt(p)
       ELSE /\ \/ /\ pte' = [pte EXCEPT ![p][call[p].va] = pagedir_set_page(call[p].kva)]
                  /\ Goto(p, "unpin")
               \/ Goto(p, "undo") /\ UNCHANGED pte
            /\ UNCHANGED <<call, spt, tables, memory, user, status>>

\* Mutant: the page is unmarked, its frame is not.
Unpin_page(p) ==
    /\ At(p, "unpin")
    /\ spt' = [spt EXCEPT ![p][call[p].va].pinned = FALSE]
    /\ ClaimDone(p)
    /\ UNCHANGED <<pte, tables, memory, user, status>>

Unpin(p) ==
    /\ At(p, "unpin")
    /\ frame' = vm_frame_unpin(call[p].kva)
    /\ spt' = [spt EXCEPT ![p][call[p].va].pinned = FALSE]
    /\ ClaimDone(p)
    /\ UNCHANGED <<pte, frame_table, clock_hand, memory, user, status>>

\* The clean-up of a failed claim, in its two sections under frame_lock.
Undo(p) ==
    /\ At(p, "undo")
    /\ frame' = vm_frame_unpin(call[p].kva)
    /\ spt' = [spt EXCEPT ![p][call[p].va].pinned = FALSE]
    /\ Goto(p, "free")
    /\ UNCHANGED <<call, pte, frame_table, clock_hand, memory, user, status>>

\* vm_frame_free takes the first entry with that kva out of the table; the search
\* finds none when an eviction has taken it.
FreeUnlink(p) ==
    LET i == Find(call[p].kva)
    IN  /\ At(p, "free")
        /\ frame_table' = IF i = 0 THEN frame_table ELSE RemoveAt(frame_table, i)
        /\ call' = [call EXCEPT ![p].fr = IF i = 0 THEN NULL ELSE frame_table[i]]
        /\ Goto(p, "release")
        /\ UNCHANGED <<spt, pte, frame, clock_hand, memory, user, status>>

\* Mutant: the entry goes, the frame is not given back.
FreeRelease_keep(p) ==
    /\ At(p, "release")
    /\ frame' = IF call[p].fr = NULL THEN frame ELSE [frame EXCEPT ![call[p].fr] = NULL]
    /\ spt' = [spt EXCEPT ![p][call[p].va].frame = NULL]
    /\ ClaimFails(p)
    /\ UNCHANGED <<index, pte, frame_table, clock_hand, memory, status>>

\* Without the lock the frame goes back to palloc, which asserts it to be in use, and
\* the struct to malloc.
FreeRelease(p) ==
    LET a == call[p].fr
    IN  /\ At(p, "release")
        /\ IF a # NULL /\ call[p].kva \notin used THEN Halt(p)
           ELSE /\ IF a = NULL THEN UNCHANGED <<frame, used>>
                   ELSE /\ frame' = [frame EXCEPT ![a] = NULL]
                        /\ used' = used \ {call[p].kva}
                /\ spt' = [spt EXCEPT ![p][call[p].va].frame = NULL]
                /\ ClaimFails(p)
                /\ UNCHANGED <<index, pte, frame_table, clock_hand, content, written, status>>

(***************************************************************************)
(* What user code and the fault handler do.                                *)
(***************************************************************************)

\* load() takes file_lock; load_segment enters the segments' pages, setup_stack makes
\* and claims the first stack page.
load(p) ==
    /\ At(p, "new")
    /\ file_lock = NULL /\ file_lock' = p
    /\ \E i \in Leftover :
        spt' = [spt EXCEPT ![p] = [v \in Va |->
                    IF v \in Code THEN vm_alloc_page_with_initializer
                    ELSE IF v = Top THEN vm_alloc_page(i) ELSE NULL]]
    /\ Claim(p, Top, "load")
    /\ UNCHANGED <<index, pte, tables, memory, status>>

\* push_argument writes the stack, and load() ends.  When an eviction has cleared the
\* mapping the kernel faults: there is a page already, and the process exits.
push_argument(p) ==
    /\ At(p, "push")
    /\ IF pagedir_get_page(p, Top) # NULL
       THEN /\ pte' = [pte EXCEPT ![p][Top].a = TRUE]
            /\ content' = [content EXCEPT ![pte[p][Top].kva] = <<p, Top>>]
            /\ written' = written \cup {<<p, Top>>}
            /\ file_lock' = NULL /\ call' = [call EXCEPT ![p] = NoCall]
            /\ Goto(p, "user")
       ELSE Goto(p, "destroy") /\ UNCHANGED <<call, pte, content, written, file_lock>>
    /\ UNCHANGED <<index, spt, tables, used, status>>

\* User code uses a mapped page; it writes its stack.
Touch(p) ==
    /\ At(p, "user")
    /\ \E v \in Va :
        /\ pagedir_get_page(p, v) # NULL
        /\ pte' = [pte EXCEPT ![p][v].a = TRUE]
        /\ IF v \in Stack
           THEN /\ content' = [content EXCEPT ![pte[p][v].kva] = <<p, v>>]
                /\ written' = written \cup {<<p, v>>}
           ELSE UNCHANGED <<content, written>>
    /\ UNCHANGED <<pc, call, spt, tables, used, user, status>>

\* page_fault in user mode: an access to the stack adds a page where there is none;
\* any page of the table is then claimed.
page_fault(p) ==
    /\ At(p, "user")
    /\ \E v \in Va :
        /\ pagedir_get_page(p, v) = NULL
        /\ IF spt_find_page(p, v) = NULL
           THEN /\ \E i \in Leftover : spt' = [spt EXCEPT ![p][v] = vm_alloc_page(i)]
                /\ Claim(p, v, "grow")
           ELSE Claim(p, v, "fault") /\ UNCHANGED spt
    /\ UNCHANGED <<pte, tables, memory, user, status>>

\* exit, or a fault outside the address space.
sys_exit(p) ==
    /\ At(p, "user") /\ Goto(p, "destroy")
    /\ UNCHANGED <<call, spt, pte, tables, memory, user, status>>

\* read and write: check_ptr wants the buffer's first and last page mapped.
SysCall(p) ==
    /\ At(p, "user")
    /\ IF \A i \in {1, Len(Buffer)} : pagedir_get_page(p, Buffer[i]) # NULL
       THEN Goto(p, "preload") /\ index' = [index EXCEPT ![p] = 1]
       ELSE Goto(p, "destroy") /\ UNCHANGED index
    /\ UNCHANGED <<call, spt, pte, tables, memory, file_lock, status>>

\* Mutant: mapped pages are loaded too.
Preload_mapped(p) ==
    /\ At(p, "preload")
    /\ IF spt_find_page(p, Buffer[index[p]]) # NULL
       THEN Claim(p, Buffer[index[p]], "preload")
       ELSE Goto(p, "pinpage") /\ UNCHANGED call
    /\ UNCHANGED <<spt, pte, tables, memory, user, status>>

\* preload_and_pin_pages: a page that is not mapped is loaded, then pinned.
Preload(p) ==
    LET v == Buffer[index[p]]
    IN  /\ At(p, "preload")
        /\ IF pagedir_get_page(p, v) = NULL /\ spt_find_page(p, v) # NULL
           THEN Claim(p, v, "preload")
           ELSE Goto(p, "pinpage") /\ UNCHANGED call
        /\ UNCHANGED <<spt, pte, tables, memory, user, status>>

\* The frame behind a page, for vm_pin_page and vm_unpin_page.
KvaOf(g) == IF g.frame = NULL \/ frame[g.frame] = NULL THEN NULL ELSE frame[g.frame].kva

\* vm_pin_page; its own attempt to claim a page without frame fails, as the page is
\* pinned by then.
vm_pin_page(p) ==
    LET v == Buffer[index[p]]
        last == index[p] = Len(Buffer)
    IN  /\ At(p, "pinpage")
        /\ IF spt_find_page(p, v) = NULL THEN UNCHANGED <<spt, frame>>
           ELSE /\ spt' = [spt EXCEPT ![p][v].pinned = TRUE]
                /\ frame' = vm_frame_pin(KvaOf(spt[p][v]))
        /\ Goto(p, IF last THEN "file" ELSE "preload")
        /\ index' = [index EXCEPT ![p] = IF last THEN 1 ELSE @ + 1]
        /\ UNCHANGED <<call, pte, frame_table, clock_hand, memory, file_lock, status>>

\* Mutant: a descriptor that is refused has taken the lock.
FileLock_early(p) ==
    /\ At(p, "file")
    /\ \/ Goto(p, "io") /\ UNCHANGED file_lock
       \/ file_lock = NULL /\ file_lock' = p /\ Goto(p, "io")
       \/ file_lock = NULL /\ file_lock' = p /\ Goto(p, "unpinpage")
    /\ UNCHANGED <<call, index, spt, pte, tables, memory, status>>

\* The console needs no lock, an open file takes file_lock, any other descriptor is
\* refused.
FileLock(p) ==
    /\ At(p, "file")
    /\ \/ Goto(p, "io") /\ UNCHANGED file_lock
       \/ file_lock = NULL /\ file_lock' = p /\ Goto(p, "io")
       \/ Goto(p, "unpinpage") /\ UNCHANGED file_lock
    /\ UNCHANGED <<call, index, spt, pte, tables, memory, status>>

\* The kernel copies to or from one page of the buffer.  On a page that is not
\* mapped it faults itself: the stack may grow, anything else exits the process.
Io(p) ==
    LET v == Buffer[index[p]]
        last == index[p] = Len(Buffer)
    IN  /\ At(p, "io")
        /\ IF pagedir_get_page(p, v) # NULL
           THEN /\ pte' = [pte EXCEPT ![p][v].a = TRUE]
                /\ Goto(p, IF last THEN "unpinpage" ELSE "io")
                /\ index' = [index EXCEPT ![p] = IF last THEN 1 ELSE @ + 1]
                /\ file_lock' = IF last /\ file_lock = p THEN NULL ELSE file_lock
                /\ UNCHANGED <<call, spt>>
           ELSE /\ IF v \in Stack /\ spt_find_page(p, v) = NULL
                   THEN /\ \E i \in Leftover :
                            spt' = [spt EXCEPT ![p][v] = vm_alloc_page(i)]
                        /\ Claim(p, v, "io")
                   ELSE Goto(p, "destroy") /\ UNCHANGED <<call, spt>>
                /\ UNCHANGED <<pte, index, file_lock>>
        /\ UNCHANGED <<tables, memory, status>>

vm_unpin_page(p) ==
    LET v == Buffer[index[p]]
        last == index[p] = Len(Buffer)
    IN  /\ At(p, "unpinpage")
        /\ IF spt_find_page(p, v) = NULL THEN UNCHANGED <<spt, frame>>
           ELSE /\ spt' = [spt EXCEPT ![p][v].pinned = FALSE]
                /\ frame' = vm_frame_unpin(KvaOf(spt[p][v]))
        /\ Goto(p, IF last THEN "user" ELSE "unpinpage")
        /\ index' = [index EXCEPT ![p] = IF last THEN 0 ELSE @ + 1]
        /\ UNCHANGED <<call, pte, frame_table, clock_hand, memory, file_lock, status>>

(***************************************************************************)
(* process_exit.                                                           *)
(***************************************************************************)

\* page_destroy passes vm_frame_free the struct frame, not its kva: no entry matches,
\* and none is removed.
supplemental_page_table_destroy(p) ==
    /\ At(p, "destroy")
    /\ spt' = [spt EXCEPT ![p] = [v \in Va |-> NULL]]
    /\ Goto(p, "pagedir")
    /\ UNCHANGED <<call, pte, tables, memory, user, status>>

\* pagedir_destroy frees the frames still mapped, which palloc asserts to be in use;
\* thread_exit then closes the files under file_lock, and lock_acquire asserts that
\* the process does not hold it.  A process that dies in load() has no file yet.
pagedir_destroy(p) ==
    LET mapped == {v \in Va : pagedir_get_page(p, v) # NULL}
        freed == {pagedir_get_page(p, v) : v \in mapped}
    IN  /\ At(p, "pagedir")
        /\ IF ~ (freed \subseteq used) \/ Cardinality(freed) # Cardinality(mapped)
              \/ (file_lock = p /\ call[p].ret # "load")
           THEN Halt(p)
           ELSE /\ used' = used \ freed
                /\ content' = [k \in Kva |-> IF k \in freed THEN Garbage ELSE content[k]]
                /\ pte' = [pte EXCEPT ![p] = [v \in Va |-> NotPresent]]
                /\ Goto(p, "dead")
                /\ UNCHANGED <<call, spt, tables, written, user, status>>

Step(p) ==
    \/ load(p) \/ Touch(p) \/ page_fault(p) \/ sys_exit(p) \/ SysCall(p)
    \/ AllocFresh(p) \/ AllocNoMemory(p) \/ AllocEvict(p) \/ EvictDone(p)
    \/ Link(p) \/ Pin(p) \/ Content(p) \/ Map(p) \/ Unpin(p) \/ Undo(p) \/ FreeUnlink(p)
    \/ FreeRelease(p) \/ push_argument(p)
    \/ Preload(p) \/ vm_pin_page(p) \/ FileLock(p) \/ Io(p) \/ vm_unpin_page(p)
    \/ supplemental_page_table_destroy(p) \/ pagedir_destroy(p)

Next == \E p \in Proc : Step(p)

Spec == Init /\ [][Next]_vars

\* Every frame that palloc has handed out is in the frame table, or on its way back
\* from vm_frame_free: no path of vm_frame_allocate or of a failed claim forgets one,
\* and neither does an eviction that races with the owner's next claim.  The one way
\* to lose a frame is an eviction that comes back to its victim's address when another
\* process has freed that entry and malloc has used it again.
FramesAccounted ==
    ~ mistaken => \A k \in used :
        \/ \E i \in 1 .. Len(frame_table) : frame[frame_table[i]].kva = k
        \/ \E p \in Proc : pc[p] = "release" /\ call[p].kva = k

\* The ASSERT of pagedir_set_page: a page that is about to be mapped is not mapped,
\* whatever faults, preloading and evictions came between.  It is not pinned either
\* until its own claim pins it: the early return of vm_do_claim_page is left to
\* vm_pin_page.
ClaimUnmapped ==
    \A p \in Proc :
        /\ pc[p] \in {"alloc", "evict", "link", "pin", "content", "map"} =>
            pagedir_get_page(p, call[p].va) = NULL
        /\ pc[p] \in {"alloc", "evict", "link", "pin"} => ~ Page(p).pinned

\* A process that may keep entry f pinned: one inside a claim of that frame, one whose
\* system call has pinned a page there, or the owner, when it died before the unpin.
Pins(q, f) ==
    \/ pc[q] \in {"content", "map", "unpin", "undo"} /\ call[q].kva = f.kva
    \/ /\ pc[q] \in {"destroy", "pagedir", "dead"}
       /\ q = f.owner \/ call[q].kva = f.kva
    \/ \E v \in Va : spt[q][v] # NULL /\ spt[q][v].pinned /\ KvaOf(spt[q][v]) = f.kva

\* A pin ends with the claim or the system call that took it.  In user mode no page of
\* the process is marked pinned, and an entry of the frame table that the clock would
\* skip as pinned has a process inside a claim or a system call on that frame, or one
\* that died there; an eviction of the wrong entry aside.
PinsEnd ==
    /\ \A p \in Proc, v \in Va : pc[p] = "user" /\ spt[p][v] # NULL => ~ spt[p][v].pinned
    /\ \A i \in 1 .. Len(frame_table) :
        LET f == frame[frame_table[i]]
        IN  ~ mistaken /\ f.pinned => \E q \in Proc : Pins(q, f)

\* file_lock is given back before the process returns to user mode or waits for another
\* page, on every way out of load(), read and write but one: a fault of the kernel
\* itself on the new stack, in setup_stack or push_argument, ends the process with it.
FileLockReturned ==
    \A p \in Proc : file_lock = p =>
        /\ pc[p] \notin {"new", "user", "preload", "pinpage", "file", "unpinpage"}
        /\ pc[p] = "dead" => call[p].ret = "load"

\* A mapped page shows its own contents: its part of the executable, or the stack as
\* the process left it, zeroes before it wrote any.
MemoryIntact ==
    \A p \in Proc, v \in Va : pc[p] = "user" /\ pte[p][v].kva # NULL =>
        content[pte[p][v].kva] =
            IF v \in Code \/ <<p, v>> \in written THEN <<p, v>> ELSE Zero
===============================================================================
