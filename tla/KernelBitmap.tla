---------------------------- MODULE KernelBitmap ----------------------------
(***************************************************************************)
(* lib/kernel/bitmap.c: an array of BitCnt bits kept in words of ELEM_BITS  *)
(* bits.  A bitmap is the function from word numbers to the set of bits     *)
(* that are 1 in the word; the bits of the last word past BitCnt exist in   *)
(* memory and hold whatever malloc left there.                              *)
(***************************************************************************)
EXTENDS Integers, FiniteSets, FiniteSetsExt

CONSTANTS
    BitCnt,             \* b->bit_cnt
    ELEM_BITS           \* bits in an elem_type, 32 in the code

BITMAP_ERROR == -1

elem_idx(i) == i \div ELEM_BITS
bit_mask(i) == {i % ELEM_BITS}
elem_cnt == (BitCnt + ELEM_BITS - 1) \div ELEM_BITS
last_mask ==
    LET last_bits == BitCnt % ELEM_BITS
    IN  IF last_bits # 0 THEN 0..(last_bits - 1) ELSE 0..(ELEM_BITS - 1)

bitmap_mark(b, i) == [b EXCEPT ![elem_idx(i)] = @ \cup bit_mask(i)]
bitmap_reset(b, i) == [b EXCEPT ![elem_idx(i)] = @ \ bit_mask(i)]
bitmap_flip(b, i) == [b EXCEPT ![elem_idx(i)] = SymDiff(@, bit_mask(i))]
bitmap_set(b, i, v) == IF v THEN bitmap_mark(b, i) ELSE bitmap_reset(b, i)
bitmap_test(b, i) == b[elem_idx(i)] \cap bit_mask(i) # {}

RECURSIVE bitmap_set_multiple(_, _, _, _)
bitmap_set_multiple(b, start, cnt, v) ==
    IF cnt = 0 THEN b
    ELSE bitmap_set_multiple(bitmap_set(b, start, v), start + 1, cnt - 1, v)

bitmap_set_all(b, v) == bitmap_set_multiple(b, 0, BitCnt, v)

\* bitmap_create and bitmap_create_in_buf on memory that holds the words JUNK.
bitmap_create(junk) == bitmap_set_all(junk, FALSE)

bitmap_count(b, start, cnt, v) ==
    Cardinality({i \in start..(start + cnt - 1) : bitmap_test(b, i) = v})
bitmap_contains(b, start, cnt, v) ==
    \E i \in start..(start + cnt - 1) : bitmap_test(b, i) = v
bitmap_any(b, start, cnt) == bitmap_contains(b, start, cnt, TRUE)
bitmap_none(b, start, cnt) == ~bitmap_contains(b, start, cnt, TRUE)
bitmap_all(b, start, cnt) == ~bitmap_contains(b, start, cnt, FALSE)

\* The loop over I from START to LAST = bit_cnt - CNT.
bitmap_scan(b, start, cnt, v) ==
    LET hits == {i \in start..(BitCnt - cnt) : ~bitmap_contains(b, i, cnt, ~v)}
    IN  IF cnt <= BitCnt /\ hits # {} THEN Min(hits) ELSE BITMAP_ERROR

bitmap_scan_and_flip(b, start, cnt, v) ==
    LET idx == bitmap_scan(b, start, cnt, v)
    IN  [b |-> IF idx # BITMAP_ERROR THEN bitmap_set_multiple(b, idx, cnt, ~v) ELSE b,
         idx |-> idx]

\* The file holds the words; the bits past the end are masked off on reading.
bitmap_write(b) == b
bitmap_read(file) == [file EXCEPT ![elem_cnt - 1] = @ \cap last_mask]
=============================================================================
