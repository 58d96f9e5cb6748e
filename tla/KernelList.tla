----------------------------- MODULE KernelList -----------------------------
(***************************************************************************)
(* lib/kernel/list.c, pointer by pointer: the doubly linked list with a     *)
(* head and a tail sentinel.  A memory m is [next, prev, panic], the two    *)
(* pointers of every node and whether an ASSERT has failed; a removed       *)
(* element keeps its old pointers, as in C.  Each operator returns the      *)
(* memory after the call, or the value of a query.                          *)
(***************************************************************************)
EXTENDS Integers, Sequences

CONSTANT Elems      \* the elements, positive integers

Null == 0
ListNames == {"a", "b"}

\* &list->head and &list->tail.
list_head(l) == IF l = "a" THEN -1 ELSE -3
list_end(l) == list_head(l) - 1
Node == Elems \cup {list_head(l) : l \in ListNames} \cup {list_end(l) : l \in ListNames}

\* The value LESS compares: two elements share each key.
Key(e) == (e + 1) \div 2
less(d, e) == Key(d) < Key(e)

is_head(m, e) == m.prev[e] = Null /\ m.next[e] # Null
is_interior(m, e) == m.prev[e] # Null /\ m.next[e] # Null
is_tail(m, e) == m.prev[e] # Null /\ m.next[e] = Null

list_begin(m, l) == m.next[list_head(l)]
list_next(m, e) == m.next[e]
list_prev(m, e) == m.prev[e]
list_empty(m, l) == list_begin(m, l) = list_end(l)
list_front(m, l) == m.next[list_head(l)]
list_back(m, l) == m.prev[list_end(l)]

Panic(m) == [m EXCEPT !.panic = TRUE]

\* Every list initialized, every element not yet in one.
list_init ==
    [next |-> [n \in Node |-> IF \E l \in ListNames : n = list_head(l)
                              THEN n - 1 ELSE Null],
     prev |-> [n \in Node |-> IF \E l \in ListNames : n = list_end(l)
                              THEN n + 1 ELSE Null],
     panic |-> FALSE]

list_insert(m, before, elem) ==
    IF ~(is_interior(m, before) \/ is_tail(m, before)) THEN Panic(m)
    ELSE [m EXCEPT !.prev = [@ EXCEPT ![elem] = m.prev[before], ![before] = elem],
                   !.next = [@ EXCEPT ![elem] = before, ![m.prev[before]] = elem]]

list_splice(m, before, first, lst) ==
    LET last == m.prev[lst]
        cut == [m EXCEPT !.next[m.prev[first]] = m.next[last],
                         !.prev[m.next[last]] = m.prev[first]]
        was == cut.prev[before]
    IN  IF ~(is_interior(m, before) \/ is_tail(m, before)) THEN Panic(m)
        ELSE IF first = lst THEN m
        ELSE IF ~is_interior(m, first) \/ ~is_interior(m, last) THEN Panic(m)
        ELSE [cut EXCEPT
                !.prev = [@ EXCEPT ![first] = was, ![before] = last],
                !.next = [@ EXCEPT ![last] = before, ![was] = first]]

list_push_front(m, l, elem) == list_insert(m, list_begin(m, l), elem)
list_push_back(m, l, elem) == list_insert(m, list_end(l), elem)

list_remove(m, elem) ==
    IF ~is_interior(m, elem) THEN Panic(m)
    ELSE [m EXCEPT !.next[m.prev[elem]] = m.next[elem],
                   !.prev[m.next[elem]] = m.prev[elem]]

list_pop_front(m, l) == list_remove(m, list_front(m, l))
list_pop_back(m, l) == list_remove(m, list_back(m, l))

\* The elements from e up to END, in the order a loop over list_next meets them.
RECURSIVE Walk(_, _, _)
Walk(m, e, end) == IF e = end THEN <<>> ELSE <<e>> \o Walk(m, list_next(m, e), end)

\* The same, backwards from e up to END.
RECURSIVE WalkBack(_, _, _)
WalkBack(m, e, end) == IF e = end THEN <<>> ELSE <<e>> \o WalkBack(m, list_prev(m, e), end)

list_size(m, l) == Len(Walk(m, list_begin(m, l), list_end(l)))

\* swap (&e->prev, &e->next) for each element, then the sentinels' two swaps.
RECURSIVE SwapLinks(_, _, _)
SwapLinks(m, e, end) ==
    IF e = end THEN m
    ELSE SwapLinks([m EXCEPT !.next[e] = m.prev[e], !.prev[e] = m.next[e]],
                   m.next[e], end)

list_reverse(m, l) ==
    LET turned == SwapLinks(m, list_begin(m, l), list_end(l))
        f == turned.prev[list_end(l)]
        b == turned.next[list_head(l)]
    IN  IF list_empty(m, l) THEN m
        ELSE [turned EXCEPT
                !.next = [@ EXCEPT ![list_head(l)] = f, ![b] = turned.prev[f]],
                !.prev = [@ EXCEPT ![list_end(l)] = b, ![f] = turned.next[b]]]

RECURSIVE is_sorted(_, _, _)
is_sorted(m, a, b) ==
    \/ a = b
    \/ list_next(m, a) = b
    \/ ~less(list_next(m, a), a) /\ is_sorted(m, list_next(m, a), b)

RECURSIVE find_end_of_run(_, _, _)
find_end_of_run(m, a, b) ==
    LET n == list_next(m, a)
    IN  IF n # b /\ ~less(n, list_prev(m, n)) THEN find_end_of_run(m, n, b) ELSE n

RECURSIVE Merge(_, _, _, _)
Merge(m, a0, a1b0, b1) ==
    IF a0 = a1b0 \/ a1b0 = b1 THEN m
    ELSE IF ~less(a1b0, a0) THEN Merge(m, list_next(m, a0), a1b0, b1)
    ELSE LET n == list_next(m, a1b0)
         IN  Merge(list_splice(m, a0, list_prev(m, n), n), a0, n, b1)

inplace_merge(m, a0, a1b0, b1) ==
    IF is_sorted(m, a0, a1b0) /\ is_sorted(m, a1b0, b1)
    THEN Merge(m, a0, a1b0, b1) ELSE Panic(m)

\* One pass of the for loop: the memory, and output_run_cnt.
RECURSIVE SortPass(_, _, _, _)
SortPass(m, l, a0, runs) ==
    LET end == list_end(l)
        a1b0 == find_end_of_run(m, a0, end)
        b1 == find_end_of_run(m, a1b0, end)
    IN  IF a0 = end THEN [m |-> m, runs |-> runs]
        ELSE IF a1b0 = end THEN [m |-> m, runs |-> runs + 1]
        ELSE SortPass(inplace_merge(m, a0, a1b0, b1), l, b1, runs + 1)

RECURSIVE list_sort(_, _)
list_sort(m, l) ==
    LET pass == SortPass(m, l, list_begin(m, l), 0)
    IN  IF pass.runs > 1 THEN list_sort(pass.m, l)
        ELSE IF is_sorted(pass.m, list_begin(pass.m, l), list_end(l)) THEN pass.m
        ELSE Panic(pass.m)

\* The element the loop stops at: the first that ELEM is less than, or the tail.
RECURSIVE OrderedPlace(_, _, _, _)
OrderedPlace(m, l, elem, e) ==
    IF e = list_end(l) \/ less(elem, e) THEN e
    ELSE OrderedPlace(m, l, elem, list_next(m, e))

list_insert_ordered(m, l, elem) ==
    list_insert(m, OrderedPlace(m, l, elem, list_begin(m, l)), elem)

RECURSIVE UniqueFrom(_, _, _, _)
UniqueFrom(m, l, dups, elem) ==
    LET n == list_next(m, elem)
    IN  IF n = list_end(l) THEN m
        ELSE IF ~less(elem, n) /\ ~less(n, elem)
        THEN LET out == list_remove(m, n)
             IN  UniqueFrom(IF dups \in ListNames THEN list_push_back(out, dups, n) ELSE out,
                            l, dups, elem)
        ELSE UniqueFrom(m, l, dups, n)

list_unique(m, l, dups) ==
    IF list_empty(m, l) THEN m ELSE UniqueFrom(m, l, dups, list_begin(m, l))

\* The loops of list_max and list_min over the elements that follow the first.
RECURSIVE MaxFrom(_, _, _, _)
MaxFrom(m, l, max, e) ==
    IF e = list_end(l) THEN max
    ELSE MaxFrom(m, l, IF less(max, e) THEN e ELSE max, list_next(m, e))

RECURSIVE MinFrom(_, _, _, _)
MinFrom(m, l, min, e) ==
    IF e = list_end(l) THEN min
    ELSE MinFrom(m, l, IF less(e, min) THEN e ELSE min, list_next(m, e))

list_max(m, l) ==
    IF list_empty(m, l) THEN list_end(l)
    ELSE MaxFrom(m, l, list_begin(m, l), list_next(m, list_begin(m, l)))

list_min(m, l) ==
    IF list_empty(m, l) THEN list_end(l)
    ELSE MinFrom(m, l, list_begin(m, l), list_next(m, list_begin(m, l)))
=============================================================================
