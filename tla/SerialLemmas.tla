---------------------------- MODULE SerialLemmas ----------------------------
(***************************************************************************)
(* The rings of intq.c, of any size: what a ring holds, and what putting,  *)
(* taking and dropping a byte do to it.                                    *)
(***************************************************************************)
EXTENDS Serial, TLAPS

\* The distance of ring position j from the tail of queue q.
Offset(q, j) == IF j >= q.tail THEN j - q.tail ELSE j - q.tail + INTQ_BUFSIZE

Queues == [buf : [0 .. INTQ_BUFSIZE - 1 -> Nat], head : 0 .. INTQ_BUFSIZE - 1,
           tail : 0 .. INTQ_BUFSIZE - 1, not_full : {writer, NULL},
           not_empty : Readers \cup {NULL}]

\* The ring q holds the bytes lo+1 up to hi, oldest at the tail.
Ring(q, lo, hi) ==
    /\ q \in Queues /\ lo \in Nat /\ hi \in Nat
    /\ lo <= hi /\ hi - lo < INTQ_BUFSIZE
    /\ q.head = q.tail + (hi - lo) \/ q.head = q.tail + (hi - lo) - INTQ_BUFSIZE
    /\ \A j \in 0 .. INTQ_BUFSIZE - 1 :
          Offset(q, j) < hi - lo => q.buf[j] = lo + 1 + Offset(q, j)

\* Remainders of the sums the ring computes.
LEMMA Remainder ==
    ASSUME NEW a \in Int, -INTQ_BUFSIZE <= a, a < 2 * INTQ_BUFSIZE
    PROVE  a % INTQ_BUFSIZE = IF a < 0 THEN a + INTQ_BUFSIZE
                              ELSE IF a < INTQ_BUFSIZE THEN a ELSE a - INTQ_BUFSIZE
  BY SerialAssumption

\* next() of intq.c: the position after the last is the first.
LEMMA NextPosition ==
    ASSUME NEW pos \in 0 .. INTQ_BUFSIZE - 1
    PROVE  /\ next(pos) \in 0 .. INTQ_BUFSIZE - 1
           /\ next(pos) = IF pos = INTQ_BUFSIZE - 1 THEN 0 ELSE pos + 1
  BY SerialAssumption, Remainder DEF next

\* The fields of a queue, one by one.
LEMMA QueueFields ==
    ASSUME NEW q \in Queues
    PROVE  /\ q.buf \in [0 .. INTQ_BUFSIZE - 1 -> Nat]
           /\ q.head \in 0 .. INTQ_BUFSIZE - 1 /\ q.tail \in 0 .. INTQ_BUFSIZE - 1
           /\ q.not_full \in {writer, NULL} /\ q.not_empty \in Readers \cup {NULL}
  BY DEF Queues

\* What intq_putc changes: the byte at the head, and the head.
LEMMA PutFields ==
    ASSUME NEW q \in Queues, NEW b \in Nat
    PROVE  /\ Put(q, b) \in Queues
           /\ Put(q, b).buf = [q.buf EXCEPT ![q.head] = b]
           /\ Put(q, b).head = next(q.head)
           /\ Put(q, b).tail = q.tail
           /\ Put(q, b).not_full = q.not_full
           /\ Put(q, b).not_empty = NULL
<1>1. next(q.head) \in 0 .. INTQ_BUFSIZE - 1
  BY QueueFields, NextPosition
<1> QED BY <1>1 DEF Queues, Put

\* What intq_getc changes: the tail alone.
LEMMA TakenFields ==
    ASSUME NEW q \in Queues
    PROVE  /\ Taken(q) \in Queues
           /\ Taken(q).buf = q.buf
           /\ Taken(q).head = q.head
           /\ Taken(q).tail = next(q.tail)
           /\ Taken(q).not_full = NULL
           /\ Taken(q).not_empty = q.not_empty
<1>1. next(q.tail) \in 0 .. INTQ_BUFSIZE - 1
  BY QueueFields, NextPosition
<1> QED BY <1>1 DEF Queues, Taken

\* What serial_flush changes: all is sent, and the waiting writer is told.
LEMMA FlushFields ==
    ASSUME NEW q \in Queues
    PROVE  LET p == [q EXCEPT !.tail = q.head, !.not_full = NULL]
           IN  /\ p \in Queues /\ p.buf = q.buf /\ p.head = q.head /\ p.tail = q.head
               /\ p.not_full = NULL /\ p.not_empty = q.not_empty
  BY DEF Queues

\* A thread is recorded as the waiter; nothing else of the queue changes.
LEMMA WaiterFields ==
    ASSUME NEW q \in Queues
    PROVE  /\ LET p == [q EXCEPT !.not_full = writer]
              IN  /\ p \in Queues /\ p.buf = q.buf /\ p.head = q.head /\ p.tail = q.tail
                  /\ p.not_full = writer /\ p.not_empty = q.not_empty
           /\ \A r \in Readers : LET p == [q EXCEPT !.not_empty = r]
              IN  /\ p \in Queues /\ p.buf = q.buf /\ p.head = q.head /\ p.tail = q.tail
                  /\ p.not_full = q.not_full /\ p.not_empty = r
  BY DEF Queues

\* What the tests of intq_empty and intq_full see.
LEMMA RingSize ==
    ASSUME NEW q, NEW lo, NEW hi, Ring(q, lo, hi)
    PROVE  /\ intq_empty(q) <=> hi = lo
           /\ intq_full(q) <=> hi - lo = INTQ_BUFSIZE - 1
<1>1. q \in Queues
  BY DEF Ring
<1>2. /\ q.head \in 0 .. INTQ_BUFSIZE - 1 /\ q.tail \in 0 .. INTQ_BUFSIZE - 1
      /\ next(q.head) = IF q.head = INTQ_BUFSIZE - 1 THEN 0 ELSE q.head + 1
  BY <1>1, QueueFields, NextPosition
<1>3. /\ lo \in Nat /\ hi \in Nat /\ lo <= hi /\ hi - lo < INTQ_BUFSIZE
      /\ q.head = q.tail + (hi - lo) \/ q.head = q.tail + (hi - lo) - INTQ_BUFSIZE
  BY DEF Ring
<1> QED BY <1>2, <1>3, SerialAssumption DEF intq_empty, intq_full

\* What Ring says of the numbers alone.
LEMMA RingNumbers ==
    ASSUME NEW q, NEW lo, NEW hi, Ring(q, lo, hi)
    PROVE  /\ q \in Queues /\ lo \in Nat /\ hi \in Nat /\ lo <= hi /\ hi - lo < INTQ_BUFSIZE
           /\ q.head \in 0 .. INTQ_BUFSIZE - 1 /\ q.tail \in 0 .. INTQ_BUFSIZE - 1
           /\ q.head = q.tail + (hi - lo) \/ q.head = q.tail + (hi - lo) - INTQ_BUFSIZE
<1>1. q \in Queues
  BY DEF Ring
<1> QED BY <1>1, QueueFields DEF Ring

\* intq_putc where there is room.
LEMMA RingPut ==
    ASSUME NEW q, NEW lo, NEW hi, Ring(q, lo, hi), ~ intq_full(q)
    PROVE  Ring(Put(q, hi + 1), lo, hi + 1)
<1> DEFINE p == Put(q, hi + 1)
<1> USE SerialAssumption
<1>1. /\ q \in Queues /\ lo \in Nat /\ hi \in Nat /\ lo <= hi /\ hi - lo < INTQ_BUFSIZE
      /\ q.head \in 0 .. INTQ_BUFSIZE - 1 /\ q.tail \in 0 .. INTQ_BUFSIZE - 1
      /\ q.head = q.tail + (hi - lo) \/ q.head = q.tail + (hi - lo) - INTQ_BUFSIZE
  BY RingNumbers
<1>2. next(q.head) = IF q.head = INTQ_BUFSIZE - 1 THEN 0 ELSE q.head + 1
  BY <1>1, NextPosition
<1>3. hi - lo # INTQ_BUFSIZE - 1
  BY RingSize
<1>4. /\ p.buf = [q.buf EXCEPT ![q.head] = hi + 1] /\ p.head = next(q.head)
      /\ p.tail = q.tail /\ p \in Queues
  BY <1>1, PutFields
<1> HIDE DEF p
<1>5. p.head = p.tail + (hi + 1 - lo) \/ p.head = p.tail + (hi + 1 - lo) - INTQ_BUFSIZE
  BY <1>1, <1>2, <1>3, <1>4
<1>6. ASSUME NEW j \in 0 .. INTQ_BUFSIZE - 1, Offset(p, j) < hi + 1 - lo
      PROVE  p.buf[j] = lo + 1 + Offset(p, j)
  <2>1. Offset(p, j) = Offset(q, j)
    BY <1>4 DEF Offset
  <2>2. q.buf \in [0 .. INTQ_BUFSIZE - 1 -> Nat]
    BY <1>1, QueueFields
  <2>3. CASE j = q.head
    <3>1. Offset(q, j) = hi - lo
      BY <1>1, <1>3, <2>3 DEF Offset
    <3> QED BY <1>1, <1>4, <2>1, <2>2, <2>3, <3>1
  <2>4. CASE j # q.head
    <3>1. Offset(q, j) < hi - lo
      BY <1>1, <1>3, <1>6, <2>1, <2>4 DEF Offset
    <3>2. q.buf[j] = lo + 1 + Offset(q, j)
      BY <3>1 DEF Ring
    <3> QED BY <1>1, <1>4, <2>1, <2>2, <2>4, <3>2
  <2> QED BY <2>3, <2>4
<1>7. Ring(p, lo, hi + 1)
  BY <1>1, <1>3, <1>4, <1>5, <1>6 DEF Ring
<1> QED BY <1>7 DEF p

\* intq_getc where there is a byte: it returns the oldest.
LEMMA RingTake ==
    ASSUME NEW q, NEW lo, NEW hi, Ring(q, lo, hi), ~ intq_empty(q)
    PROVE  Ring(Taken(q), lo + 1, hi) /\ Oldest(q) = lo + 1
<1> DEFINE p == Taken(q)
<1> USE SerialAssumption
<1>1. /\ q \in Queues /\ lo \in Nat /\ hi \in Nat /\ lo <= hi /\ hi - lo < INTQ_BUFSIZE
      /\ q.head \in 0 .. INTQ_BUFSIZE - 1 /\ q.tail \in 0 .. INTQ_BUFSIZE - 1
      /\ q.head = q.tail + (hi - lo) \/ q.head = q.tail + (hi - lo) - INTQ_BUFSIZE
  BY RingNumbers
<1>2. next(q.tail) = IF q.tail = INTQ_BUFSIZE - 1 THEN 0 ELSE q.tail + 1
  BY <1>1, NextPosition
<1>3. hi # lo
  BY RingSize
<1>4. p.buf = q.buf /\ p.head = q.head /\ p.tail = next(q.tail) /\ p \in Queues
  BY <1>1, TakenFields
<1>5. Oldest(q) = lo + 1
  <2>1. Offset(q, q.tail) = 0 /\ Offset(q, q.tail) < hi - lo
    BY <1>1, <1>3 DEF Offset
  <2>2. q.buf[q.tail] = lo + 1 + Offset(q, q.tail)
    BY <1>1, <2>1 DEF Ring
  <2> QED BY <1>1, <2>1, <2>2 DEF Oldest
<1> HIDE DEF p
<1>6. \/ p.head = p.tail + (hi - (lo + 1))
      \/ p.head = p.tail + (hi - (lo + 1)) - INTQ_BUFSIZE
  BY <1>1, <1>2, <1>3, <1>4
<1>7. ASSUME NEW j \in 0 .. INTQ_BUFSIZE - 1, Offset(p, j) < hi - (lo + 1)
      PROVE  p.buf[j] = lo + 1 + 1 + Offset(p, j)
  <2>1. Offset(q, j) = Offset(p, j) + 1 /\ Offset(p, j) \in Int
    BY <1>1, <1>2, <1>4, <1>7 DEF Offset
  <2>2. q.buf[j] = lo + 1 + Offset(q, j)
    BY <1>1, <1>7, <2>1 DEF Ring
  <2> QED BY <1>1, <1>4, <2>1, <2>2
<1>8. Ring(p, lo + 1, hi)
  BY <1>1, <1>3, <1>4, <1>6, <1>7 DEF Ring
<1> QED BY <1>5, <1>8 DEF p

\* serial_flush empties the ring; the last byte it sends is the newest.
LEMMA RingFlush ==
    ASSUME NEW q, NEW lo, NEW hi, Ring(q, lo, hi), ~ intq_empty(q)
    PROVE  /\ Ring([q EXCEPT !.tail = q.head, !.not_full = NULL], hi, hi)
           /\ q.buf[(q.head - 1) % INTQ_BUFSIZE] = hi
<1> DEFINE p == [q EXCEPT !.tail = q.head, !.not_full = NULL]
           j == (q.head - 1) % INTQ_BUFSIZE
<1> USE SerialAssumption
<1>1. /\ q \in Queues /\ lo \in Nat /\ hi \in Nat /\ lo <= hi /\ hi - lo < INTQ_BUFSIZE
      /\ q.head \in 0 .. INTQ_BUFSIZE - 1 /\ q.tail \in 0 .. INTQ_BUFSIZE - 1
      /\ q.head = q.tail + (hi - lo) \/ q.head = q.tail + (hi - lo) - INTQ_BUFSIZE
  BY RingNumbers
<1>2. j = IF q.head = 0 THEN INTQ_BUFSIZE - 1 ELSE q.head - 1
  BY <1>1, Remainder
<1>3. hi # lo
  BY RingSize
<1>4. p \in Queues /\ p.tail = q.head /\ p.head = q.head
  BY <1>1, FlushFields
<1> HIDE DEF p, j
<1>5. j \in 0 .. INTQ_BUFSIZE - 1 /\ Offset(q, j) = hi - lo - 1
  BY <1>1, <1>2, <1>3 DEF Offset
<1>6. q.buf[j] = lo + 1 + Offset(q, j)
  BY <1>1, <1>5 DEF Ring
<1>7. q.buf[j] = hi
  BY <1>1, <1>5, <1>6
<1>8. Ring(p, hi, hi)
  <2>1. \A k \in 0 .. INTQ_BUFSIZE - 1 : ~ Offset(p, k) < hi - hi
    BY <1>1, <1>4 DEF Offset
  <2> QED BY <1>1, <1>4, <2>1 DEF Ring
<1> QED BY <1>7, <1>8 DEF p, j

\* A ring with the bytes lo+1 up to hi contains just these, in order.
LEMMA RingContents ==
    ASSUME NEW q, NEW lo, NEW hi, Ring(q, lo, hi)
    PROVE  Contents(q) = [i \in 1 .. hi - lo |-> lo + i]
<1> USE SerialAssumption
<1>1. /\ q \in Queues /\ lo \in Nat /\ hi \in Nat /\ lo <= hi /\ hi - lo < INTQ_BUFSIZE
      /\ q.head \in 0 .. INTQ_BUFSIZE - 1 /\ q.tail \in 0 .. INTQ_BUFSIZE - 1
      /\ q.head = q.tail + (hi - lo) \/ q.head = q.tail + (hi - lo) - INTQ_BUFSIZE
  BY RingNumbers
<1>2. (q.head - q.tail + INTQ_BUFSIZE) % INTQ_BUFSIZE = hi - lo
  <2> DEFINE a == q.head - q.tail + INTQ_BUFSIZE
  <2>1. /\ a \in Int /\ -INTQ_BUFSIZE <= a /\ a < 2 * INTQ_BUFSIZE
        /\ a = hi - lo \/ a = hi - lo + INTQ_BUFSIZE
    BY <1>1
  <2> HIDE DEF a
  <2>2. a % INTQ_BUFSIZE = IF a < 0 THEN a + INTQ_BUFSIZE
                           ELSE IF a < INTQ_BUFSIZE THEN a ELSE a - INTQ_BUFSIZE
    BY <2>1, Remainder
  <2>3. a % INTQ_BUFSIZE = hi - lo
    BY <1>1, <2>1, <2>2
  <2> QED BY <2>3 DEF a
<1>3. ASSUME NEW i \in 1 .. hi - lo
      PROVE  q.buf[(q.tail + i - 1) % INTQ_BUFSIZE] = lo + i
  <2> DEFINE j == (q.tail + i - 1) % INTQ_BUFSIZE
  <2>1. j = IF q.tail + i - 1 < INTQ_BUFSIZE THEN q.tail + i - 1
            ELSE q.tail + i - 1 - INTQ_BUFSIZE
    <3> DEFINE a == q.tail + i - 1
    <3>1. a \in Int /\ 0 <= a /\ -INTQ_BUFSIZE <= a /\ a < 2 * INTQ_BUFSIZE
      BY <1>1
    <3> HIDE DEF a
    <3>2. a % INTQ_BUFSIZE = IF a < INTQ_BUFSIZE THEN a ELSE a - INTQ_BUFSIZE
      BY <3>1, Remainder
    <3> QED BY <1>1, <3>1, <3>2 DEF a
  <2> HIDE DEF j
  <2>2. j \in 0 .. INTQ_BUFSIZE - 1 /\ Offset(q, j) = i - 1
    BY <1>1, <2>1 DEF Offset
  <2>3. q.buf[j] = lo + 1 + Offset(q, j)
    BY <1>1, <2>2 DEF Ring
  <2> QED BY <1>1, <2>2, <2>3 DEF j
<1> QED BY <1>2, <1>3 DEF Contents

=============================================================================
