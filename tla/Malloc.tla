-------------------------------- MODULE Malloc --------------------------------
(***************************************************************************)
(* The kernel's memory: the page allocator (threads/palloc.c), with the    *)
(* bitmap of one pool, and malloc, realloc and free on top of it           *)
(* (threads/malloc.c).                                                     *)
(*                                                                         *)
(* A block is <<page, i>>: the i-th of its arena, or the page itself for a *)
(* big block, i = 0.  Bits of the bitmap are set and cleared one at a time *)
(* (each is one instruction), and tested one at a time; pages are freed    *)
(* without the pool's lock.                                                *)
(***************************************************************************)
EXTENDS Lists, FiniteSets

CONSTANTS
    Threads,
    Pages,         \* pages of the pool
    Desc,          \* descriptors, one per block size
    PerArena,      \* blocks_per_arena
    BigPages,      \* pages of a big block
    MaxHeld,       \* bound: blocks a thread has
    None

ASSUME MallocAssumption ==
    /\ Pages \in Nat /\ PerArena \in Nat \ {0} /\ BigPages \in Nat \ {0}
    /\ None \notin Threads \cup Desc

Page == 0 .. Pages - 1
Blocks == Page \X (0 .. PerArena)

VARIABLES
    used_map,      \* the pages whose bit is set
    pool_lock,
    arena,         \* arena[page]: [desc, free_cnt] where one starts
    free_list, desc_lock,
    pc, call,      \* per thread: where it is, and its arguments
    held,          \* the blocks each thread has
    content,       \* who wrote a block last
    panic

vars == <<used_map, pool_lock, arena, free_list, desc_lock, pc, call, held, content, panic>>
lists == <<arena, free_list>>

NoCall == [op |-> "none", desc |-> None, page |-> 0, count |-> 0, done |-> 0,
           block |-> <<>>, old |-> <<>>]
NoArena == [desc |-> None, free_cnt |-> 0]
Big == None            \* the desc of a big block's arena

At(t, l) == ~ panic /\ pc[t] = l
Goto(t, l) == pc' = [pc EXCEPT ![t] = l]

Init ==
    /\ used_map = {} /\ pool_lock = None
    /\ arena = [p \in Page |-> NoArena]
    /\ free_list = [d \in Desc |-> <<>>] /\ desc_lock = [d \in Desc |-> None]
    /\ pc = [t \in Threads |-> "idle"] /\ call = [t \in Threads |-> NoCall]
    /\ held = [t \in Threads |-> {}] /\ content = [b \in Blocks |-> None]
    /\ panic = FALSE

arena_to_block(p, i) == <<p, i>>
block_to_arena(b) == b[1]
BlocksOf(p) == {arena_to_block(p, i) : i \in 1 .. PerArena}
Run(p, n) == p .. p + n - 1

(***************************************************************************)
(* palloc_get_multiple: under the pool's lock the bitmap is scanned for    *)
(* `count' clear bits, which are then set.                                 *)
(***************************************************************************)

\* Mutant: the lock is not taken.
PoolLock_without(t) ==
    /\ At(t, "pool") /\ Goto(t, "scan")
    /\ UNCHANGED <<used_map, pool_lock, lists, desc_lock, call, held, content, panic>>

PoolLock(t) ==
    /\ At(t, "pool") /\ pool_lock = None
    /\ pool_lock' = t /\ Goto(t, "scan")
    /\ UNCHANGED <<used_map, lists, desc_lock, call, held, content, panic>>

\* bitmap_scan, for one page: `done' bits from `page' on have been found clear.
PoolScan(t) ==
    LET c == call[t]
    IN  /\ At(t, "scan")
        /\ \/ /\ c.page + c.count > Pages
              /\ pool_lock' = None /\ Goto(t, "nomem") /\ UNCHANGED call
           \/ /\ c.page + c.count <= Pages /\ c.done = c.count
              /\ Goto(t, "mark") /\ call' = [call EXCEPT ![t].done = 0]
              /\ UNCHANGED pool_lock
           \/ /\ c.page + c.count <= Pages /\ c.done < c.count
              /\ call' = [call EXCEPT ![t] = IF c.page + c.done \in used_map
                                             THEN [c EXCEPT !.page = @ + 1, !.done = 0]
                                             ELSE [c EXCEPT !.done = @ + 1]]
              /\ UNCHANGED <<pc, pool_lock>>
        /\ UNCHANGED <<used_map, lists, desc_lock, held, content, panic>>

\* bitmap_mark, for one page.
PoolMark(t) ==
    LET c == call[t]
        last == c.done + 1 = c.count
    IN  /\ At(t, "mark")
        /\ used_map' = used_map \cup {c.page + c.done}
        /\ pool_lock' = IF last THEN None ELSE pool_lock
        /\ Goto(t, IF last THEN "got" ELSE "mark")
        /\ call' = [call EXCEPT ![t].done = @ + 1]
        /\ UNCHANGED <<lists, desc_lock, held, content, panic>>

(***************************************************************************)
(* malloc and realloc.                                                     *)
(***************************************************************************)

\* The call returns block b, which its thread writes; realloc copies the old block
\* and goes on to free it.
Return(t, b) ==
    LET c == call[t]
    IN  /\ held' = [held EXCEPT ![t] = @ \cup {b}]
        /\ content' = [content EXCEPT ![b] = IF c.op = "realloc" THEN content[c.old] ELSE t]
        /\ IF c.op = "realloc"
           THEN Goto(t, "free") /\ call' = [call EXCEPT ![t] = [NoCall EXCEPT !.block = c.old]]
           ELSE Goto(t, "idle") /\ call' = [call EXCEPT ![t] = NoCall]

\* The smallest descriptor that fits, or whole pages.
Enter(t, op, old, d) ==
    /\ call' = [call EXCEPT ![t] = [NoCall EXCEPT !.op = op, !.old = old, !.desc = d,
                                                  !.count = IF d = Big THEN BigPages ELSE 1]]
    /\ Goto(t, IF d = Big THEN "pool" ELSE "lock")
    /\ UNCHANGED <<used_map, pool_lock, lists, desc_lock, held, content, panic>>

malloc(t) ==
    /\ At(t, "idle") /\ Cardinality(held[t]) < MaxHeld
    /\ \E d \in Desc \cup {Big} : Enter(t, "malloc", <<>>, d)

realloc(t) ==
    /\ At(t, "idle") /\ Cardinality(held[t]) < MaxHeld
    /\ \E b \in held[t], d \in Desc \cup {Big} : Enter(t, "realloc", b, d)

MallocLock(t) ==
    LET d == call[t].desc
    IN  /\ At(t, "lock") /\ desc_lock[d] = None
        /\ desc_lock' = [desc_lock EXCEPT ![d] = t]
        /\ Goto(t, IF free_list[d] = <<>> THEN "pool" ELSE "pop")
        /\ UNCHANGED <<used_map, pool_lock, lists, call, held, content, panic>>

\* Mutant: the lock stays taken.
MallocFails_locked(t) ==
    /\ At(t, "nomem")
    /\ Goto(t, "idle") /\ call' = [call EXCEPT ![t] = NoCall]
    /\ UNCHANGED <<used_map, pool_lock, lists, desc_lock, held, content, panic>>

\* No page: the descriptor's lock is released; the old block stays as it was.
MallocFails(t) ==
    /\ At(t, "nomem")
    /\ desc_lock' = [d \in Desc |-> IF d = call[t].desc THEN None ELSE desc_lock[d]]
    /\ Goto(t, "idle") /\ call' = [call EXCEPT ![t] = NoCall]
    /\ UNCHANGED <<used_map, pool_lock, lists, held, content, panic>>

\* The new pages become a big block, or an arena whose blocks are free.
NewArena(t) ==
    LET c == call[t]
    IN  /\ At(t, "got")
        /\ IF c.desc = Big
           THEN /\ arena' = [arena EXCEPT ![c.page] = [desc |-> Big, free_cnt |-> c.count]]
                /\ Return(t, arena_to_block(c.page, 0))
                /\ UNCHANGED free_list
           ELSE /\ arena' = [arena EXCEPT ![c.page] = [desc |-> c.desc, free_cnt |-> PerArena]]
                /\ free_list' = [free_list EXCEPT ![c.desc] =
                        @ \o [i \in 1 .. PerArena |-> arena_to_block(c.page, i)]]
                /\ Goto(t, "pop") /\ UNCHANGED <<call, held, content>>
        /\ UNCHANGED <<used_map, pool_lock, desc_lock, panic>>

\* Mutant: the block stays on the free list.
MallocPop_keep(t) ==
    LET d == call[t].desc
        b == Head(free_list[d])
    IN  /\ At(t, "pop")
        /\ arena' = [arena EXCEPT ![block_to_arena(b)].free_cnt = @ - 1]
        /\ desc_lock' = [desc_lock EXCEPT ![d] = None]
        /\ Return(t, b)
        /\ UNCHANGED <<used_map, pool_lock, free_list, panic>>

MallocPop(t) ==
    LET d == call[t].desc
        b == Head(free_list[d])
    IN  /\ At(t, "pop")
        /\ free_list' = [free_list EXCEPT ![d] = list_remove(@, b)]
        /\ arena' = [arena EXCEPT ![block_to_arena(b)].free_cnt = @ - 1]
        /\ desc_lock' = [desc_lock EXCEPT ![d] = None]
        /\ Return(t, b)
        /\ UNCHANGED <<used_map, pool_lock, panic>>

(***************************************************************************)
(* free and palloc_free_multiple.                                          *)
(***************************************************************************)

FreeCall(t) ==
    /\ At(t, "idle")
    /\ \E b \in held[t] : call' = [call EXCEPT ![t] = [NoCall EXCEPT !.block = b]]
    /\ Goto(t, "free")
    /\ UNCHANGED <<used_map, pool_lock, lists, desc_lock, held, content, panic>>

\* The arena's descriptor is read without a lock; a small block is overwritten.
free(t) ==
    LET b == call[t].block
        a == arena[block_to_arena(b)]
    IN  /\ At(t, "free")
        /\ held' = [held EXCEPT ![t] = @ \ {b}]
        /\ content' = [content EXCEPT ![b] = None]
        /\ call' = [call EXCEPT ![t].desc = a.desc, ![t].page = block_to_arena(b),
                                ![t].count = IF b[2] = 0 THEN a.free_cnt ELSE 1]
        /\ Goto(t, IF b[2] = 0 THEN "wipe" ELSE "flock")
        /\ UNCHANGED <<used_map, pool_lock, lists, desc_lock, panic>>

\* The block goes to the front of the free list.
FreeLock(t) ==
    LET c == call[t]
    IN  /\ At(t, "flock") /\ desc_lock[c.desc] = None
        /\ free_list' = [free_list EXCEPT ![c.desc] = <<c.block>> \o @]
        /\ arena' = [arena EXCEPT ![c.page].free_cnt = @ + 1]
        /\ IF arena[c.page].free_cnt + 1 >= PerArena
           THEN /\ desc_lock' = [desc_lock EXCEPT ![c.desc] = t]
                /\ Goto(t, "unlink") /\ UNCHANGED call
           ELSE /\ Goto(t, "idle") /\ call' = [call EXCEPT ![t] = NoCall]
                /\ UNCHANGED desc_lock
        /\ UNCHANGED <<used_map, pool_lock, held, content, panic>>

\* All blocks of the arena are free: one after the other leaves the list.
FreeUnlink(t) ==
    LET c == call[t]
        last == c.done + 1 = PerArena
    IN  /\ At(t, "unlink")
        /\ free_list' = [free_list EXCEPT ![c.desc] =
                list_remove(@, arena_to_block(c.page, c.done + 1))]
        /\ Goto(t, IF last THEN "wipe" ELSE "unlink")
        /\ call' = [call EXCEPT ![t].done = IF last THEN 0 ELSE @ + 1]
        /\ UNCHANGED <<used_map, pool_lock, arena, desc_lock, held, content, panic>>

\* Mutant: one page too many.
PoolWipe_more(t) ==
    LET c == call[t]
        pages == Run(c.page, c.count + 1) \cap Page
    IN  /\ At(t, "wipe")
        /\ content' = [b \in Blocks |-> IF b[1] \in pages THEN None ELSE content[b]]
        /\ arena' = [arena EXCEPT ![c.page] = NoArena]
        /\ Goto(t, "clear")
        /\ UNCHANGED <<used_map, call, pool_lock, free_list, desc_lock, held, panic>>

\* palloc_free_multiple fills the pages with 0xcc, asserts that they are in use ...
PoolWipe(t) ==
    LET c == call[t]
        pages == Run(c.page, c.count)
    IN  /\ At(t, "wipe")
        /\ content' = [b \in Blocks |-> IF b[1] \in pages THEN None ELSE content[b]]
        /\ arena' = [arena EXCEPT ![c.page] = NoArena]
        /\ panic' = ~ (pages \subseteq used_map)
        /\ Goto(t, "clear")
        /\ UNCHANGED <<used_map, call, pool_lock, free_list, desc_lock, held>>

\* ... and clears their bits, without the pool's lock.
PoolClear(t) ==
    LET c == call[t]
        last == c.done + 1 = c.count
    IN  /\ At(t, "clear")
        /\ used_map' = used_map \ {c.page + c.done}
        /\ IF last
           THEN /\ Goto(t, "idle") /\ call' = [call EXCEPT ![t] = NoCall]
                /\ desc_lock' = [d \in Desc |-> IF d = c.desc THEN None ELSE desc_lock[d]]
           ELSE /\ call' = [call EXCEPT ![t].done = @ + 1]
                /\ UNCHANGED <<pc, desc_lock>>
        /\ UNCHANGED <<pool_lock, lists, held, content, panic>>

Step(t) ==
    \/ PoolLock(t) \/ PoolScan(t) \/ PoolMark(t) \/ MallocLock(t) \/ MallocFails(t)
    \/ NewArena(t) \/ MallocPop(t) \/ free(t) \/ FreeLock(t) \/ FreeUnlink(t) \/ PoolWipe(t)
    \/ PoolClear(t)

Next == \E t \in Threads : malloc(t) \/ realloc(t) \/ FreeCall(t) \/ Step(t)

\* A thread inside the allocator keeps running.  A thread that waits for a lock may
\* find it taken again whenever it is woken, so taking it is not strongly fair.
Fairness == \A t \in Threads : WF_vars(Step(t))
Spec == Init /\ [][Next]_vars /\ Fairness

(***************************************************************************)
(* Properties.                                                             *)
(***************************************************************************)

\* The pages a block occupies.
Extent(b) == IF b[2] = 0 THEN Run(b[1], arena[b[1]].free_cnt) ELSE {b[1]}

\* Blocks that threads have never overlap, and lie in pages that are in use, although
\* pages are given back without the pool's lock.
BlocksDisjoint ==
    \A t, u \in Threads : \A b \in held[t], c \in held[u] :
        /\ Extent(b) \subseteq used_map
        /\ <<t, b>> # <<u, c>> =>
            /\ b # c
            /\ (b[2] = 0 \/ c[2] = 0) => Extent(b) \cap Extent(c) = {}

\* Nothing is lost: once no thread is inside the allocator, a descriptor's free list
\* holds each block of its arenas that no thread has, once, free_cnt counts them, no
\* arena is entirely free, and the pages in use are those of arenas and big blocks.
FreeListsExact ==
    (\A t \in Threads : pc[t] = "idle") =>
        /\ \A d \in Desc :
            LET mine == {p \in Page : arena[p].desc = d}
            IN  /\ Elems(free_list[d]) = (UNION {BlocksOf(p) : p \in mine})
                                         \ UNION {held[t] : t \in Threads}
                /\ Distinct(free_list[d])
                /\ \A p \in mine :
                    /\ arena[p].free_cnt = Cardinality(BlocksOf(p) \cap Elems(free_list[d]))
                    /\ arena[p].free_cnt < PerArena
        /\ used_map = {p \in Page : arena[p].desc \in Desc}
                      \cup UNION {Extent(b) : b \in {c \in UNION {held[t] : t \in Threads} :
                                                        c[2] = 0}}

\* A block keeps what its thread wrote until the thread frees it, through realloc and
\* whatever other threads free: memory is overwritten before it is given back.
ContentsKept == ~ panic /\ \A t \in Threads : \A b \in held[t] : content[b] = t

\* As long as threads are inside the allocator, calls return: no lock is left taken
\* and no two threads wait for each other, although a descriptor's lock is held while
\* the pool's is taken and while pages are given back.  Once no new calls are made,
\* every call returns.
CallsReturn ==
    \/ <>[](\A t \in Threads : pc[t] = "idle")
    \/ []<><<\E t \in Threads : pc[t] # "idle" /\ pc'[t] = "idle">>_vars
===============================================================================
