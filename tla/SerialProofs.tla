---------------------------- MODULE SerialProofs ----------------------------
(***************************************************************************)
(* For queues of any size and any number of readers: the rings lose and    *)
(* reorder no byte, and no sleeping thread is forgotten.                   *)
(***************************************************************************)
EXTENDS SerialLemmas

(* The inductive invariant. *)

States == {"run", "blocked", "woken", "lock"}

\* WaitersExact, thread by thread.
Waits ==
    /\ state[writer] = "blocked" <=> txq.not_full = writer
    /\ \A r \in Readers : state[r] = "blocked" <=> buffer.not_empty = r
    /\ buffer.not_empty # NULL => intq_empty(buffer)
    /\ txq.not_full # NULL => intq_full(txq)
    /\ ~panic => \A r \in Readers : state[r] \in {"blocked", "woken"} <=> lock = r

SerialInv ==
    /\ mode \in {"POLL", "QUEUE"}
    /\ state \in [Threads -> States]
    /\ lock \in Readers \cup {NULL}
    /\ panic \in BOOLEAN
    /\ Ring(txq, sent, written)
    /\ Ring(buffer, got, received)
    /\ mode = "POLL" => intq_empty(txq)
    /\ Waits

\* The fields of the queues that the waiters depend on.
LEMMA InvFields ==
    ASSUME SerialInv
    PROVE  /\ txq \in Queues /\ buffer \in Queues
           /\ txq.not_full \in {writer, NULL} /\ buffer.not_empty \in Readers \cup {NULL}
           /\ written \in Nat /\ sent \in Nat /\ received \in Nat /\ got \in Nat
           /\ written + 1 \in Nat /\ received + 1 \in Nat
<1>1. /\ txq \in Queues /\ buffer \in Queues
      /\ written \in Nat /\ sent \in Nat /\ received \in Nat /\ got \in Nat
  BY RingNumbers DEF SerialInv
<1> QED BY <1>1, QueueFields

\* Empty queues, and nobody inside them.
LEMMA SerialInit == Init => SerialInv
<1> SUFFICES ASSUME Init PROVE SerialInv
  OBVIOUS
<1> USE SerialAssumption
<1>1. /\ EmptyQueue \in Queues /\ EmptyQueue.head = 0 /\ EmptyQueue.tail = 0
      /\ EmptyQueue.not_full = NULL /\ EmptyQueue.not_empty = NULL
  BY DEF EmptyQueue, Queues
<1>2. Ring(EmptyQueue, 0, 0)
  <2>1. \A k \in 0 .. INTQ_BUFSIZE - 1 : ~ Offset(EmptyQueue, k) < 0 - 0
    BY <1>1 DEF Offset
  <2> QED BY <1>1, <2>1 DEF Ring
<1>3. intq_empty(EmptyQueue)
  BY <1>1 DEF intq_empty
<1>4. Waits
  BY <1>1 DEF Init, Waits, Threads, writer, NULL
<1> QED BY <1>2, <1>3, <1>4 DEF Init, SerialInv, States

\* Waking the recorded waiter of the output queue, or of the input buffer.
LEMMA WakeWriter ==
    ASSUME NEW st \in [Threads -> States], NEW w \in {writer, NULL}
    PROVE  /\ Wake(st, w) \in [Threads -> States]
           /\ \A r \in Readers : Wake(st, w)[r] = st[r]
           /\ Wake(st, w)[writer] = IF w = writer THEN "woken" ELSE st[writer]
  BY SerialAssumption DEF Wake, Threads, States, writer, NULL

\* signal for the thread in not_empty, as WakeWriter for the one in not_full.
LEMMA WakeReader ==
    ASSUME NEW st \in [Threads -> States], NEW w \in Readers \cup {NULL}
    PROVE  /\ Wake(st, w) \in [Threads -> States]
           /\ Wake(st, w)[writer] = st[writer]
           /\ \A r \in Readers : Wake(st, w)[r] = IF r = w THEN "woken" ELSE st[r]
  BY SerialAssumption DEF Wake, Threads, States

\* Output: the queue loses its oldest bytes to the UART and gains new ones.
LEMMA OutputStep ==
    ASSUME SerialInv,
           serial_init_queue \/ PutcPoll \/ serial_putc \/ PutcOff \/ serial_flush
    PROVE  SerialInv'
<1> USE SerialAssumption
<1>1. /\ txq \in Queues /\ buffer \in Queues
      /\ txq.not_full \in {writer, NULL} /\ buffer.not_empty \in Readers \cup {NULL}
      /\ written \in Nat /\ sent \in Nat /\ received \in Nat /\ got \in Nat
      /\ written + 1 \in Nat /\ received + 1 \in Nat
  BY InvFields
<1>2. writer # NULL /\ writer \in Threads /\ Readers \subseteq Threads
  BY DEF writer, NULL, Threads
<1>3. CASE serial_init_queue
  BY <1>3 DEF serial_init_queue, SerialInv, Waits, intq_empty, intq_full
<1>4. CASE PutcPoll
  <2>1. written = sent
    BY <1>4, RingSize DEF PutcPoll, SerialInv
  <2>2. Ring(txq, written + 1, written + 1)
    <3>1. \A k \in 0 .. INTQ_BUFSIZE - 1 : ~ Offset(txq, k) < (written + 1) - (written + 1)
      BY <1>1, QueueFields DEF Offset
    <3>2. txq.head = txq.tail + ((written + 1) - (written + 1))
      BY <1>1, <1>4, QueueFields DEF PutcPoll, SerialInv, intq_empty
    <3> QED BY <1>1, <3>1, <3>2 DEF Ring
  <2> QED BY <1>4, <2>2 DEF PutcPoll, SerialInv, Waits, intq_empty, intq_full
<1>5. CASE serial_putc
  <2>1. CASE intq_full(txq) /\ txq' = [txq EXCEPT !.not_full = writer]
               /\ state' = [state EXCEPT ![writer] = "blocked"] /\ UNCHANGED <<ier, written>>
    <3>1. /\ txq' \in Queues /\ txq'.buf = txq.buf /\ txq'.head = txq.head
          /\ txq'.tail = txq.tail /\ txq'.not_full = writer
      BY <1>1, <2>1, WaiterFields
    <3>2. Ring(txq, sent, written)'
      BY <1>5, <2>1, <3>1 DEF serial_putc, SerialInv, Ring, Offset
    <3>3. Waits'
      BY <1>2, <1>5, <2>1, <3>1
      DEF serial_putc, SerialInv, Waits, intq_empty, intq_full
    <3> QED BY <1>2, <1>5, <2>1, <3>2, <3>3
            DEF serial_putc, SerialInv, States, intq_empty, intq_full
  <2>2. CASE /\ ~intq_full(txq) /\ written' = written + 1
             /\ txq' = Put(txq, written + 1)
             /\ state' = [state EXCEPT ![writer] = "run"]
    <3>1. txq'.not_full = txq.not_full /\ Ring(txq, sent, written)'
      BY <1>1, <1>5, <2>2, PutFields, RingPut DEF serial_putc, SerialInv
    <3>2. Waits'
      BY <1>1, <1>2, <1>5, <2>2, <3>1
      DEF serial_putc, SerialInv, Waits, intq_empty, intq_full
    <3> QED BY <1>2, <1>5, <2>2, <3>1, <3>2
            DEF serial_putc, SerialInv, States, intq_empty, intq_full
  <2> QED BY <1>5, <2>1, <2>2 DEF serial_putc, Enqueue
<1>6. CASE PutcOff
  <2>1. CASE ~intq_full(txq) /\ txq' = Put(txq, written + 1) /\ UNCHANGED <<state, sent>>
    <3>1. txq'.not_full = txq.not_full /\ Ring(txq, sent, written)'
      BY <1>1, <1>6, <2>1, PutFields, RingPut DEF PutcOff, SerialInv
    <3>2. Waits'
      BY <1>1, <1>2, <1>6, <2>1, <3>1
      DEF PutcOff, SerialInv, Waits, intq_empty, intq_full
    <3> QED BY <1>2, <1>6, <2>1, <3>1, <3>2 DEF PutcOff, SerialInv, intq_empty, intq_full
  <2>2. CASE /\ intq_full(txq) /\ txq' = Put(Taken(txq), written + 1)
             /\ sent' = Oldest(txq) /\ state' = Wake(state, txq.not_full)
    <3>1. ~intq_empty(txq) /\ written - sent = INTQ_BUFSIZE - 1
      BY <1>1, <2>2, RingSize DEF SerialInv
    <3>2. Ring(Taken(txq), sent + 1, written) /\ Oldest(txq) = sent + 1
      BY <3>1, RingTake DEF SerialInv
    <3>3. ~intq_full(Taken(txq))
      BY <1>1, <3>1, <3>2, RingSize
    <3>4. Ring(txq, sent, written)'
      BY <1>1, <1>6, <2>2, <3>2, <3>3, RingPut DEF PutcOff
    <3>5. Taken(txq) \in Queues /\ Taken(txq).not_full = NULL
      BY <1>1, TakenFields
    <3>6. txq'.not_full = NULL
      BY <1>1, <2>2, <3>5, PutFields
    <3>7. /\ state' \in [Threads -> States]
          /\ \A r \in Readers : state'[r] = state[r]
          /\ state'[writer] = IF txq.not_full = writer THEN "woken" ELSE state[writer]
      BY <1>1, <2>2, WakeWriter DEF SerialInv
    <3>8. Waits'
      BY <1>1, <1>2, <1>6, <3>6, <3>7
      DEF PutcOff, SerialInv, Waits, intq_empty, intq_full
    <3> QED BY <1>6, <3>4, <3>7, <3>8 DEF PutcOff, SerialInv, intq_empty, intq_full
  <2> QED BY <1>6, <2>1, <2>2 DEF PutcOff, Enqueue
<1>7. CASE serial_flush
  <2>1. Ring(txq', written, written) /\ sent' = written
    BY <1>7, RingFlush DEF serial_flush, SerialInv
  <2>2. txq' \in Queues /\ txq'.not_full = NULL
    BY <1>1, <1>7, FlushFields DEF serial_flush
  <2>3. intq_empty(txq')
    BY <2>1, RingSize
  <2>4. /\ state' \in [Threads -> States]
        /\ \A r \in Readers : state'[r] = state[r]
        /\ state'[writer] = IF txq.not_full = writer THEN "woken" ELSE state[writer]
    BY <1>1, <1>7, WakeWriter DEF serial_flush, SerialInv
  <2>5. Waits'
    BY <1>1, <1>2, <1>7, <2>2, <2>4
    DEF serial_flush, SerialInv, Waits, intq_empty, intq_full
  <2> QED BY <1>7, <2>1, <2>3, <2>4, <2>5 DEF serial_flush, SerialInv, intq_empty, intq_full
<1> QED BY <1>3, <1>4, <1>5, <1>6, <1>7

\* input_getc, with the lock of the buffer as the thread finds it: free, another's,
\* or just released by the thread itself.
LEMMA GetcStep ==
    ASSUME SerialInv, ~panic, NEW r \in Readers, NEW held \in Readers \cup {NULL},
           \/ state[r] = "run" /\ held = lock
           \/ state[r] = "woken" /\ held = NULL,
           Getc(r, held), UNCHANGED <<mode, txq, written, sent, received, panic>>
    PROVE  SerialInv'
<1> USE SerialAssumption
<1>1. /\ txq \in Queues /\ buffer \in Queues
      /\ txq.not_full \in {writer, NULL} /\ buffer.not_empty \in Readers \cup {NULL}
      /\ written \in Nat /\ sent \in Nat /\ received \in Nat /\ got \in Nat
  BY InvFields
<1>2. writer # NULL /\ writer \in Threads /\ Readers \subseteq Threads
  BY DEF writer, NULL, Threads
<1>3. CASE /\ ~intq_empty(buffer) /\ got' = Oldest(buffer) /\ buffer' = Taken(buffer)
           /\ lock' = held /\ state' = [state EXCEPT ![r] = "run"]
  <2>1. Ring(buffer, got, received)'
    BY <1>3, RingTake DEF SerialInv
  <2>2. buffer'.not_empty = buffer.not_empty
    BY <1>1, <1>3, TakenFields
  <2>3. buffer.not_empty = NULL
    BY <1>3 DEF SerialInv, Waits
  <2>4. Waits'
    BY <1>1, <1>2, <1>3, <2>2, <2>3 DEF SerialInv, Waits, intq_empty, intq_full
  <2> QED BY <1>2, <1>3, <2>1, <2>4 DEF SerialInv, States, intq_empty
<1>4. CASE /\ intq_empty(buffer) /\ held = NULL /\ lock' = r
           /\ buffer' = [buffer EXCEPT !.not_empty = r]
           /\ state' = [state EXCEPT ![r] = "blocked"] /\ got' = got
  <2>1. /\ buffer' \in Queues /\ buffer'.buf = buffer.buf /\ buffer'.head = buffer.head
        /\ buffer'.tail = buffer.tail /\ buffer'.not_empty = r
    BY <1>1, <1>4, WaiterFields
  <2>2. Ring(buffer, got, received)'
    BY <1>4, <2>1 DEF SerialInv, Ring, Offset
  <2>3. \A s \in Readers : s # r => state[s] \notin {"blocked", "woken"}
    BY <1>4 DEF SerialInv, Waits
  <2>4. Waits'
    BY <1>1, <1>2, <1>4, <2>1, <2>3 DEF SerialInv, Waits, intq_empty, intq_full
  <2> QED BY <1>2, <1>4, <2>2, <2>4 DEF SerialInv, States, intq_empty
<1>5. CASE /\ intq_empty(buffer) /\ held # NULL /\ lock' = held
           /\ state' = [state EXCEPT ![r] = "lock"] /\ UNCHANGED <<buffer, got>>
  <2>1. Waits'
    BY <1>1, <1>2, <1>5 DEF SerialInv, Waits, intq_empty, intq_full
  <2> QED BY <1>2, <1>5, <2>1 DEF SerialInv, States, intq_empty
<1> QED BY <1>3, <1>4, <1>5 DEF Getc

\* wait() asserts that the queue is empty: when it is not, the kernel stops there.
LEMMA LockedStep ==
    ASSUME SerialInv, NEW r \in Readers, GetcLocked(r)
    PROVE  SerialInv'
<1> USE SerialAssumption
<1>1. /\ txq \in Queues /\ buffer \in Queues
      /\ txq.not_full \in {writer, NULL} /\ buffer.not_empty \in Readers \cup {NULL}
      /\ written \in Nat /\ sent \in Nat /\ received \in Nat /\ got \in Nat
  BY InvFields
<1>2. writer # NULL /\ writer \in Threads /\ Readers \subseteq Threads
  BY DEF writer, NULL, Threads
<1>3. CASE intq_empty(buffer)
  <2>1. /\ buffer' = [buffer EXCEPT !.not_empty = r]
        /\ state' = [state EXCEPT ![r] = "blocked"] /\ panic' = panic
    BY <1>3 DEF GetcLocked
  <2>2. /\ buffer' \in Queues /\ buffer'.buf = buffer.buf /\ buffer'.head = buffer.head
        /\ buffer'.tail = buffer.tail /\ buffer'.not_empty = r
    BY <1>1, <2>1, WaiterFields
  <2>3. Ring(buffer, got, received)'
    BY <2>2 DEF GetcLocked, SerialInv, Ring, Offset
  <2>4. \A s \in Readers : state[s] \notin {"blocked", "woken"}
    BY DEF GetcLocked, SerialInv, Waits
  <2>5. Waits'
    BY <1>1, <1>2, <1>3, <2>1, <2>2, <2>4
    DEF GetcLocked, SerialInv, Waits, intq_empty, intq_full
  <2> QED BY <1>2, <2>1, <2>3, <2>5 DEF GetcLocked, SerialInv, States, intq_empty
<1>4. CASE ~intq_empty(buffer)
  BY <1>4 DEF GetcLocked, SerialInv, Waits, intq_empty, intq_full
<1> QED BY <1>3, <1>4

\* A byte comes into the buffer, and its waiter is woken.
LEMMA InputByte ==
    ASSUME SerialInv, ~intq_full(buffer)
    PROVE  /\ Ring(Put(buffer, received + 1), got, received + 1)
           /\ Put(buffer, received + 1).not_empty = NULL
           /\ Wake(state, buffer.not_empty) \in [Threads -> States]
           /\ Wake(state, buffer.not_empty)[writer] = state[writer]
           /\ \A r \in Readers : Wake(state, buffer.not_empty)[r]
                                   = IF r = buffer.not_empty THEN "woken" ELSE state[r]
<1>1. /\ buffer \in Queues /\ buffer.not_empty \in Readers \cup {NULL}
      /\ received + 1 \in Nat
  BY InvFields
<1>2. Ring(Put(buffer, received + 1), got, received + 1)
  BY RingPut DEF SerialInv
<1>3. Put(buffer, received + 1).not_empty = NULL
  BY <1>1, PutFields
<1> QED BY <1>1, <1>2, <1>3, WakeReader DEF SerialInv

\* A key: the interrupt handler's byte goes into the input buffer, or is dropped.
LEMMA KeyStep ==
    ASSUME SerialInv, keyboard_interrupt
    PROVE  SerialInv'
<1> USE SerialAssumption
<1>1. buffer.not_empty \in Readers \cup {NULL}
  BY InvFields
<1>2. /\ Ring(buffer, got, received)' /\ buffer'.not_empty = NULL
      /\ state' \in [Threads -> States] /\ state'[writer] = state[writer]
      /\ \A r \in Readers :
            state'[r] = IF r = buffer.not_empty THEN "woken" ELSE state[r]
  BY InputByte DEF keyboard_interrupt
<1>3. Waits'
  BY <1>1, <1>2 DEF keyboard_interrupt, SerialInv, Waits, intq_empty, intq_full
<1> QED BY <1>2, <1>3 DEF keyboard_interrupt, SerialInv, intq_empty

\* serial_interrupt: the receiving half and then the sending half.
LEMMA InterruptStep ==
    ASSUME SerialInv, serial_interrupt
    PROVE  SerialInv'
<1> USE SerialAssumption
<1> DEFINE in == dr /\ ~intq_full(buffer)
           out == thre /\ ~intq_empty(txq)
           woken == IF in THEN Wake(state, buffer.not_empty) ELSE state
<1>1. /\ txq \in Queues /\ buffer \in Queues
      /\ txq.not_full \in {writer, NULL} /\ buffer.not_empty \in Readers \cup {NULL}
      /\ written \in Nat /\ sent \in Nat /\ received \in Nat /\ got \in Nat
  BY InvFields
<1>2. writer # NULL
  BY DEF writer, NULL
<1>3. /\ received' = IF in THEN received + 1 ELSE received
      /\ buffer' = IF in THEN Put(buffer, received + 1) ELSE buffer
      /\ sent' = IF out THEN Oldest(txq) ELSE sent
      /\ txq' = IF out THEN Taken(txq) ELSE txq
      /\ state' = IF out THEN Wake(woken, txq.not_full) ELSE woken
      /\ UNCHANGED <<mode, lock, written, got, panic>> /\ mode = "QUEUE"
  BY DEF serial_interrupt
<1>4. /\ Ring(buffer', got, received') /\ woken \in [Threads -> States]
      /\ woken[writer] = state[writer]
      /\ in => /\ buffer'.not_empty = NULL
               /\ \A r \in Readers :
                    woken[r] = IF r = buffer.not_empty THEN "woken" ELSE state[r]
      /\ ~in => buffer' = buffer /\ woken = state
  <2>1. CASE in
    BY <1>3, <2>1, InputByte
  <2>2. CASE ~in
    BY <1>3, <2>2 DEF SerialInv
  <2> QED BY <2>1, <2>2
<1> HIDE DEF in, woken
<1>5. /\ Ring(txq', sent', written) /\ state' \in [Threads -> States]
      /\ \A r \in Readers : state'[r] = woken[r]
      /\ out => /\ txq'.not_full = NULL
                /\ state'[writer] = IF txq.not_full = writer THEN "woken" ELSE state[writer]
      /\ ~out => txq' = txq /\ state'[writer] = state[writer]
  <2>1. CASE out
    <3>1. Ring(txq', sent', written) /\ txq'.not_full = NULL
      BY <1>1, <1>3, <2>1, RingTake, TakenFields DEF SerialInv
    <3> QED BY <1>1, <1>3, <1>4, <2>1, <3>1, WakeWriter
  <2>2. CASE ~out
    BY <1>3, <1>4, <2>2 DEF SerialInv
  <2> QED BY <2>1, <2>2
<1>6. Waits'
  <2>1. Waits
    BY DEF SerialInv
  <2>2. state'[writer] = "blocked" <=> txq'.not_full = writer
    BY <1>1, <1>2, <1>5, <2>1 DEF Waits
  <2>3. /\ \A r \in Readers : state'[r] = "blocked" <=> buffer'.not_empty = r
        /\ buffer'.not_empty # NULL => intq_empty(buffer')
    BY <1>1, <1>4, <1>5, <2>1 DEF Waits
  <2>4. txq'.not_full # NULL => intq_full(txq')
    BY <1>5, <2>1 DEF Waits
  <2>5. ~panic' => \A r \in Readers : state'[r] \in {"blocked", "woken"} <=> lock' = r
    BY <1>1, <1>3, <1>4, <1>5, <2>1 DEF Waits
  <2> QED BY <2>2, <2>3, <2>4, <2>5 DEF Waits, intq_empty, intq_full
<1> QED BY <1>3, <1>4, <1>5, <1>6 DEF SerialInv, intq_empty

\* Every step preserves the invariant.
LEMMA SerialStep == SerialInv /\ [Next]_vars => SerialInv'
<1> SUFFICES ASSUME SerialInv, [Next]_vars PROVE SerialInv'
  OBVIOUS
<1>1. ASSUME NEW r \in Readers, input_getc(r) \/ GetcWoken(r)
      PROVE  SerialInv'
  BY <1>1, GetcStep DEF input_getc, GetcWoken, SerialInv
<1>2. CASE UartSent \/ UartReceives \/ UNCHANGED vars
  BY <1>2 DEF UartSent, UartReceives, vars, SerialInv, Waits, intq_empty, intq_full
<1> QED BY <1>1, <1>2, OutputStep, LockedStep, KeyStep, InterruptStep DEF Next

\* The rings, the waiters and the locks agree in every reachable state of the console.
THEOREM SerialInvariant == Spec => []SerialInv
  BY SerialInit, SerialStep, PTL DEF Spec

\* The two queues of the console never lose, repeat or reorder a byte, for every size
\* of intq's ring, every number of readers and every number of bytes: the output queue
\* holds what serial_putc took and the UART has not had, the input buffer what was
\* received and input_getc has not returned.
THEOREM ConsoleBytesInOrder == Spec => []BytesInOrder
<1>1. SerialInv => BytesInOrder
  BY RingContents DEF SerialInv, BytesInOrder
<1> QED BY <1>1, SerialInvariant, PTL

\* The sleeping threads are exactly the waiters that intq_getc and intq_putc recorded,
\* each for a reason that still holds, and buffer.lock is its waiter's until that runs.
THEOREM ConsoleWaiters == Spec => []WaitersExact
<1>1. SerialInv => WaitersExact
  <2> SUFFICES ASSUME SerialInv PROVE WaitersExact
    OBVIOUS
  <2>1. txq.not_full \in {writer, NULL} /\ buffer.not_empty \in Readers \cup {NULL}
    BY InvFields
  <2>2. writer # NULL /\ lock \in Readers \cup {NULL} /\ Waits
    BY DEF writer, NULL, SerialInv
  <2>3. {t \in Threads : state[t] = "blocked"} = {buffer.not_empty, txq.not_full} \ {NULL}
    BY <2>1, <2>2, SerialAssumption DEF Waits, Threads
  <2>4. ~panic => {r \in Readers : state[r] \in {"blocked", "woken"}} = {lock} \ {NULL}
    BY <2>2, SerialAssumption DEF Waits
  <2> QED BY <2>2, <2>3, <2>4 DEF WaitersExact, Waits
<1> QED BY <1>1, SerialInvariant, PTL

====
