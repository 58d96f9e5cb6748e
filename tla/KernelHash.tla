----------------------------- MODULE KernelHash -----------------------------
(***************************************************************************)
(* lib/kernel/hash.c: the chained hash table.  A table h is                 *)
(* [buckets, elem_cnt]: the buckets, numbered from 1, are sequences of      *)
(* elements (KernelList checks the lists they stand for); bucket_cnt is     *)
(* their number.  Elements are integers; equal ones share a HashKey.        *)
(***************************************************************************)
EXTENDS Integers, Sequences, SequencesExt, Bitwise

CONSTANTS
    HashElems,          \* the elements
    MinBuckets,         \* 4 in the code
    BestElems           \* BEST_ELEMS_PER_BUCKET

HashNull == 0

\* Elements 5 apart are equal; the hash value is the key itself.
HashKey(e) == e % 5
HashEqual(d, e) == HashKey(d) = HashKey(e)

bucket_cnt(h) == Len(h.buckets)
Empty(n) == [i \in 1..n |-> <<>>]

hash_init == [buckets |-> Empty(MinBuckets), elem_cnt |-> 0]
hash_clear(h) == [buckets |-> Empty(bucket_cnt(h)), elem_cnt |-> 0]

find_bucket(h, e) == (HashKey(e) & (bucket_cnt(h) - 1)) + 1

find_elem(h, b, e) ==
    LET i == SelectInSeq(h.buckets[b], LAMBDA x : HashEqual(x, e))
    IN  IF i = 0 THEN HashNull ELSE h.buckets[b][i]

insert_elem(h, b, e) ==
    [h EXCEPT !.elem_cnt = @ + 1, !.buckets[b] = <<e>> \o @]

remove_elem(h, e) ==
    [buckets |-> [b \in DOMAIN h.buckets |-> SelectSeq(h.buckets[b], LAMBDA x : x # e)],
     elem_cnt |-> h.elem_cnt - 1]

turn_off_least_1bit(x) == x & (x - 1)
is_power_of_2(x) == x # 0 /\ turn_off_least_1bit(x) = 0

RECURSIVE RoundDown(_)
RoundDown(n) == IF is_power_of_2(n) THEN n ELSE RoundDown(turn_off_least_1bit(n))

\* The number of buckets rehash wants.
NewCount(h) ==
    LET n == h.elem_cnt \div BestElems
    IN  RoundDown(IF n < MinBuckets THEN MinBuckets ELSE n)

\* Move each old element, bucket by bucket, to the front of its new bucket.
RECURSIVE MoveAll(_, _)
MoveAll(h, s) ==
    IF s = <<>> THEN h
    ELSE MoveAll([h EXCEPT !.buckets[find_bucket(h, Head(s))] = <<Head(s)>> \o @], Tail(s))

\* A mutant: the elements are moved before the new count is installed.
rehash_stale(h) ==
    IF NewCount(h) <= bucket_cnt(h) THEN {h}
    ELSE {h, [h EXCEPT !.buckets = @ \o Empty(NewCount(h) - bucket_cnt(h))]}

\* The tables rehash may leave: malloc for the new buckets may fail.
rehash(h) ==
    IF NewCount(h) = bucket_cnt(h) THEN {h}
    ELSE {h, MoveAll([h EXCEPT !.buckets = Empty(NewCount(h))], FlattenSeq(h.buckets))}

\* Each of these is the set of results [h, old] a call may have.
hash_insert(h, new) ==
    LET b == find_bucket(h, new)
        old == find_elem(h, b, new)
    IN  {[h |-> r, old |-> old] :
            r \in rehash(IF old = HashNull THEN insert_elem(h, b, new) ELSE h)}

hash_replace(h, new) ==
    LET b == find_bucket(h, new)
        old == find_elem(h, b, new)
        without == IF old # HashNull THEN remove_elem(h, old) ELSE h
    IN  {[h |-> r, old |-> old] : r \in rehash(insert_elem(without, b, new))}

hash_delete(h, e) ==
    LET found == find_elem(h, find_bucket(h, e), e)
    IN  IF found = HashNull THEN {[h |-> h, old |-> found]}
        ELSE {[h |-> r, old |-> found] : r \in rehash(remove_elem(h, found))}

hash_find(h, e) == find_elem(h, find_bucket(h, e), e)
hash_size(h) == h.elem_cnt
hash_empty(h) == h.elem_cnt = 0

\* hash_apply calls the action on each element of each bucket in turn.
hash_apply(h) == FlattenSeq(h.buckets)

\* An iterator is <<bucket, position>>; position 0 is the bucket's head.
hash_first(h) == <<1, 0>>

RECURSIVE SkipEnds(_, _, _)
SkipEnds(h, b, i) ==
    IF i # Len(h.buckets[b]) + 1 THEN <<b, i>>
    ELSE IF b + 1 > bucket_cnt(h) THEN <<b + 1, 0>>
    ELSE SkipEnds(h, b + 1, 1)

hash_next(h, it) == SkipEnds(h, it[1], it[2] + 1)
hash_cur(h, it) == IF it[1] > bucket_cnt(h) THEN HashNull ELSE h.buckets[it[1]][it[2]]

\* What the iteration idiom meets: while (hash_next (&i)) ... hash_cur (&i).
RECURSIVE Iterate(_, _)
Iterate(h, it) ==
    LET n == hash_next(h, it)
    IN  IF hash_cur(h, n) = HashNull THEN <<>> ELSE <<hash_cur(h, n)>> \o Iterate(h, n)
=============================================================================
