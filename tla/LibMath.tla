------------------------------ MODULE LibMath -------------------------------
(***************************************************************************)
(* lib/arithmetic.c, lib/stdlib.c and lib/random.c.  The 64-bit division    *)
(* routines work on words of 2 * HalfBits bits (32 in the code), the RC4    *)
(* generator on a table of TableSize bytes (256 in the code).               *)
(***************************************************************************)
EXTENDS Integers, Sequences, SequencesExt, Functions

CONSTANTS
    HalfBits,           \* bits of a half word, a power of 2
    TableSize           \* entries of the generator's table s

B == 2^HalfBits
Top == (B * B) \div 2
Trap == -1

\* The DIVL instruction traps on a quotient that does not fit in a half word.
divl(n, d) == IF n \div d >= B THEN Trap ELSE n \div d

\* The steps of 16, 8, 4, 2 and 1 bits.
RECURSIVE Nlz(_, _)
Nlz(x, step) ==
    IF step = 0 THEN 0
    ELSE IF x < 2^(HalfBits - step) THEN step + Nlz(x * 2^step, step \div 2)
    ELSE Nlz(x, step \div 2)
nlz(x) == Nlz(x, HalfBits \div 2)

\* A mutant: the estimate is not corrected.
udiv64_estimate(n, d) ==
    IF d \div B = 0
    THEN LET q == divl(B * ((n \div B) % d) + (n % B), d)
         IN  IF q = Trap THEN Trap ELSE q + B * ((n \div B) \div d)
    ELSE IF n < d THEN 0
    ELSE LET s == nlz(d \div B)
         IN  divl(n \div 2, (d * 2^s) \div B) \div 2^(HalfBits - 1 - s)

udiv64(n, d) ==
    IF d \div B = 0
    THEN LET q == divl(B * ((n \div B) % d) + (n % B), d)
         IN  IF q = Trap THEN Trap ELSE q + B * ((n \div B) \div d)
    ELSE IF n < d THEN 0
    ELSE LET s == nlz(d \div B)
             t == divl(n \div 2, (d * 2^s) \div B)
             q == t \div 2^(HalfBits - 1 - s)
         IN  IF t = Trap THEN Trap
             ELSE IF (n - (q - 1) * d) % (B * B) < d THEN q - 1 ELSE q

\* The remainder is returned in half a word.
umod64(n, d) == (n - d * udiv64(n, d)) % B

Abs(n) == IF n < 0 THEN -n ELSE n
ToSigned(n, size) == IF n % size >= size \div 2 THEN (n % size) - size ELSE n % size

sdiv64(n, d) ==
    LET q == udiv64(Abs(n), Abs(d))
    IN  ToSigned(IF (n < 0) = (d < 0) THEN q ELSE -q, B * B)

smod64(n, d) == ToSigned(n - d * sdiv64(n, d), B)
-----------------------------------------------------------------------------
\* An int of IntBits bits.
IntBits == 5
Int32(n) == ToSigned(n, 2^IntBits)

\* The digits accumulate as a negative number, whose range is the larger.
RECURSIVE AtoiDigits(_, _, _)
AtoiDigits(s, i, value) ==
    IF i <= Len(s) /\ s[i] \in 0..9 THEN AtoiDigits(s, i + 1, Int32(value * 10 - s[i])) ELSE value

RECURSIVE SkipSpace(_, _)
SkipSpace(s, i) == IF i <= Len(s) /\ s[i] = -1 THEN SkipSpace(s, i + 1) ELSE i

\* -1 is white space, -2 is `+' and -3 is `-'.
atoi(s) ==
    LET i == SkipSpace(s, 1)
        sign == i <= Len(s) /\ s[i] \in {-2, -3}
        v == AtoiDigits(s, IF sign THEN i + 1 ELSE i, 0)
    IN  IF sign /\ s[i] = -3 THEN v ELSE Int32(-v)

do_swap(a, i, j) == [a EXCEPT ![i] = a[j], ![j] = a[i]]

RECURSIVE heapify(_, _, _)
heapify(a, i, cnt) ==
    LET left == 2 * i
        right == 2 * i + 1
        m1 == IF left <= cnt /\ a[left] > a[i] THEN left ELSE i
        max == IF right <= cnt /\ a[right] > a[m1] THEN right ELSE m1
    IN  IF max = i THEN a ELSE heapify(do_swap(a, i, max), max, cnt)

RECURSIVE BuildHeap(_, _)
BuildHeap(a, i) == IF i = 0 THEN a ELSE BuildHeap(heapify(a, i, Len(a)), i - 1)

RECURSIVE SortHeap(_, _)
SortHeap(a, i) ==
    IF i <= 1 THEN a ELSE SortHeap(heapify(do_swap(a, 1, i), 1, i - 1), i - 1)

sort(a) == SortHeap(BuildHeap(a, Len(a) \div 2), Len(a))

\* The index of a match in the sorted array between FIRST and LAST, or 0.
RECURSIVE Search(_, _, _, _)
Search(a, key, first, last) ==
    LET middle == first + (last - first) \div 2
    IN  IF first >= last THEN 0
        ELSE IF key < a[middle] THEN Search(a, key, first, middle)
        ELSE IF key > a[middle] THEN Search(a, key, middle + 1, last)
        ELSE middle

binary_search(key, a) == Search(a, key, 1, Len(a) + 1)
-----------------------------------------------------------------------------
\* The generator's state [s, i, j], s numbered from 0.
swap_byte(s, i, j) == [s EXCEPT ![i] = s[j], ![j] = s[i]]

RECURSIVE Mix(_, _, _, _)
Mix(s, seed, i, j) ==
    IF i = TableSize THEN s
    ELSE LET k == (j + s[i] + seed[(i % Len(seed)) + 1]) % TableSize
         IN  Mix(swap_byte(s, i, k), seed, i + 1, k)

random_init(seed) ==
    [s |-> Mix([i \in 0..(TableSize - 1) |-> i], seed, 0, 0), i |-> 0, j |-> 0]

\* One byte of random_bytes: [g, byte].
random_byte(g) ==
    LET i == (g.i + 1) % TableSize
        j == (g.j + g.s[i]) % TableSize
        s == swap_byte(g.s, i, j)
    IN  [g |-> [s |-> s, i |-> i, j |-> j], byte |-> s[(s[i] + s[j]) % TableSize]]
-----------------------------------------------------------------------------
(* What is promised. *)

Trunc(n, d) == IF (n < 0) = (d < 0) THEN Abs(n) \div Abs(d) ELSE -(Abs(n) \div Abs(d))

\* Dividing N by any D never traps and gives the exact quotient, rounded toward
\* zero for signed operands.  umod64 and smod64 are declared with the type of a half
\* word: they return the remainder where it fits, as it always does for divisors of
\* half a word, and not the remainder their comments promise where it does not.
DivisionRight(n) ==
    /\ \A d \in 1..(B * B - 1) :
          /\ udiv64(n, d) = n \div d
          /\ (umod64(n, d) = n % d) = (n % d < B)
    /\ LET sn == ToSigned(n, B * B)
       IN  \A d \in (-Top..(Top - 1)) \ {0} :
              ~(sn = -Top /\ d = -1) =>
                  /\ sdiv64(sn, d) = Trunc(sn, d)
                  /\ LET rem == sn - d * Trunc(sn, d)
                     IN  (smod64(sn, d) = rem) = (rem \in -(B \div 2)..(B \div 2 - 1))

\* The heap sort leaves a sorted permutation, in which the binary search finds
\* a key exactly when the array holds it.
SortRight(a) ==
    LET r == sort(a)
        Times(s, x) == Len(SelectSeq(s, LAMBDA y : y = x))
    IN  /\ \A x \in Range(a) : Times(r, x) = Times(a, x)
        /\ Len(r) = Len(a)
        /\ \A i \in 1..(Len(r) - 1) : r[i] <= r[i + 1]
        /\ \A key \in 0..4 :
              LET p == binary_search(key, r)
              IN  IF key \in Range(r) THEN p \in DOMAIN r /\ r[p] = key ELSE p = 0

\* Reading a decimal number back gives it, whatever its sign.
AtoiRight(n, text) == atoi(text) = n

\* The table stays a permutation of the byte values, so every value can be drawn.
TableRight(g) == Range(g.s) = 0..(TableSize - 1)
=============================================================================
