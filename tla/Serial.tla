------------------------------- MODULE Serial -------------------------------
(***************************************************************************)
(* Console input and output: the interrupt queues of devices/intq.c as     *)
(* used by the serial port (devices/serial.c), the input buffer            *)
(* (devices/input.c) and the keyboard (devices/kbd.c).                     *)
(*                                                                         *)
(* Everything here runs with interrupts off, in a thread or in a handler,  *)
(* so a step lasts until the thread blocks or turns interrupts on again.   *)
(* Output comes from the thread that holds the console lock and from code  *)
(* that must not sleep.  Bytes are numbered in the order they are written  *)
(* or received.                                                            *)
(***************************************************************************)
EXTENDS Integers, Sequences, FiniteSets

CONSTANTS
    Readers,         \* threads that call input_getc
    INTQ_BUFSIZE,    \* size of an interrupt queue
    MaxOut, MaxIn    \* bounds: bytes written, bytes received

\* The thread that holds the console lock, and nobody.
writer == "writer"
NULL == "none"

ASSUME SerialAssumption ==
    /\ INTQ_BUFSIZE \in Nat /\ INTQ_BUFSIZE > 1 /\ MaxOut \in Nat /\ MaxIn \in Nat
    /\ writer \notin Readers /\ NULL \notin Readers

VARIABLES
    mode,         \* of the serial port: "POLL" or "QUEUE"
    txq, buffer,  \* interrupt queues: output, input
    lock,         \* who holds buffer.lock (readers are the only waiters)
    state,        \* state[t]: what each thread is doing
    ier,          \* interrupts enabled in the UART: transmit, receive
    thre, dr,     \* the UART can take a byte; has received one
    written,      \* bytes passed to serial_putc
    sent,         \* the bytes the UART got, last one
    received,     \* bytes that went into the input buffer
    got,          \* bytes that input_getc returned
    panic         \* an ASSERT failed

vars == <<mode, txq, buffer, lock, state, ier, thre, dr, written, sent, received, got, panic>>

Threads == Readers \cup {writer}

-----------------------------------------------------------------------------
(* Interrupt queues. *)

EmptyQueue == [buf |-> [i \in 0 .. INTQ_BUFSIZE - 1 |-> 0], head |-> 0, tail |-> 0,
               not_full |-> NULL, not_empty |-> NULL]

next(pos) == (pos + 1) % INTQ_BUFSIZE

intq_empty(q) == q.head = q.tail
intq_full(q) == next(q.head) = q.tail

\* Mutant of Put: the waiter stays recorded.
Put_recorded(q, b) == [q EXCEPT !.buf[q.head] = b, !.head = next(@)]

\* intq_putc and intq_getc once there is room, or a byte: the queue afterwards,
\* with the thread waiting for the change no longer recorded.
Put(q, b) == [q EXCEPT !.buf[q.head] = b, !.head = next(@), !.not_empty = NULL]
Taken(q) == [q EXCEPT !.tail = next(@), !.not_full = NULL]
Oldest(q) == q.buf[q.tail]

\* Mutant of Wake: the waiter sleeps on.
Wake_none(st, waiter) == st

\* signal: the state of the threads once the waiter of a queue is unblocked.
Wake(st, waiter) == IF waiter = NULL THEN st ELSE [st EXCEPT ![waiter] = "woken"]

\* Mutant of Ier: transmission is asked for only when the queue is full.
Ier_full(tx, in) == [xmit |-> intq_full(tx), recv |-> ~intq_full(in)]

\* write_ier, for the given queues.
Ier(tx, in) == [xmit |-> ~intq_empty(tx), recv |-> ~intq_full(in)]

\* serial_notify: the register follows the queues once the port is in QUEUE mode.
serial_notify == ier' = IF mode = "QUEUE" THEN Ier(txq, buffer') ELSE ier

-----------------------------------------------------------------------------
(* Output. *)

serial_init_queue ==
    /\ ~panic /\ mode = "POLL"
    /\ mode' = "QUEUE"
    /\ ier' = Ier(txq, buffer)
    /\ UNCHANGED <<txq, buffer, lock, state, thre, dr, written, sent, received, got, panic>>

\* serial_putc before serial_init_queue: putc_poll waits until the UART is free, with
\* interrupts off, and sends.
PutcPoll ==
    /\ ~panic /\ mode = "POLL" /\ written < MaxOut
    /\ written' = written + 1
    /\ sent' = written + 1
    /\ thre' = FALSE
    /\ UNCHANGED <<mode, txq, buffer, lock, state, ier, dr, received, got, panic>>

\* The end of serial_putc: the byte is queued.
Enqueue(q, b) ==
    /\ txq' = Put(q, b)
    /\ ier' = Ier(txq', buffer)

\* serial_putc by the console's thread, with interrupts on: it goes to sleep when
\* the queue is full, and looks again when it is woken.  No other thread can be
\* waiting for txq.lock then, so that lock is not represented.
serial_putc ==
    /\ ~panic /\ mode = "QUEUE"
    /\ \/ state[writer] = "run" /\ written < MaxOut
       \/ state[writer] = "woken"
    /\ \/ /\ intq_full(txq)
          /\ txq' = [txq EXCEPT !.not_full = writer]
          /\ state' = [state EXCEPT ![writer] = "blocked"]
          /\ UNCHANGED <<ier, written>>
       \/ /\ ~intq_full(txq)
          /\ written' = written + 1
          /\ Enqueue(txq, written')
          /\ state' = [state EXCEPT ![writer] = "run"]
    /\ UNCHANGED <<mode, buffer, lock, thre, dr, sent, received, got, panic>>

\* Mutant of PutcOff: with the queue full, the new byte is the one sent.
PutcOff_ahead ==
    /\ ~panic /\ mode = "QUEUE" /\ written < MaxOut
    /\ written' = written + 1
    /\ \/ /\ ~intq_full(txq)
          /\ Enqueue(txq, written')
          /\ UNCHANGED <<state, sent, thre>>
       \/ /\ intq_full(txq)
          /\ sent' = written'
          /\ thre' = FALSE
          /\ UNCHANGED <<txq, ier, state>>
    /\ UNCHANGED <<mode, buffer, lock, dr, received, got, panic>>

\* serial_putc called with interrupts off already: with the queue full, the oldest
\* byte is sent by polling to make room.
PutcOff ==
    /\ ~panic /\ mode = "QUEUE" /\ written < MaxOut
    /\ written' = written + 1
    /\ \/ /\ ~intq_full(txq)
          /\ Enqueue(txq, written')
          /\ UNCHANGED <<state, sent, thre>>
       \/ /\ intq_full(txq)
          /\ sent' = Oldest(txq)
          /\ thre' = FALSE
          /\ Enqueue(Taken(txq), written')
          /\ state' = Wake(state, txq.not_full)
    /\ UNCHANGED <<mode, buffer, lock, dr, received, got, panic>>

\* serial_flush: the whole queue is sent by polling.  The interrupt enable register
\* is not touched.
serial_flush ==
    /\ ~panic /\ ~intq_empty(txq)
    /\ sent' = txq.buf[(txq.head - 1) % INTQ_BUFSIZE]
    /\ thre' = FALSE
    /\ txq' = [txq EXCEPT !.tail = txq.head, !.not_full = NULL]
    /\ state' = Wake(state, txq.not_full)
    /\ UNCHANGED <<mode, buffer, lock, ier, dr, written, received, got, panic>>

-----------------------------------------------------------------------------
(* Input. *)

\* input_getc from the test of its loop on, for a thread that does not hold
\* buffer.lock: take a byte, or go to sleep as the waiter, or wait for the lock.
Getc(r, held) ==
    \/ /\ ~intq_empty(buffer)
       /\ got' = Oldest(buffer)
       /\ buffer' = Taken(buffer)
       /\ serial_notify
       /\ lock' = held
       /\ state' = [state EXCEPT ![r] = "run"]
    \/ /\ intq_empty(buffer) /\ held = NULL
       /\ lock' = r
       /\ buffer' = [buffer EXCEPT !.not_empty = r]
       /\ state' = [state EXCEPT ![r] = "blocked"]
       /\ UNCHANGED <<got, ier>>
    \/ /\ intq_empty(buffer) /\ held # NULL
       /\ lock' = held
       /\ state' = [state EXCEPT ![r] = "lock"]
       /\ UNCHANGED <<buffer, got, ier>>

input_getc(r) ==
    /\ ~panic /\ state[r] = "run" /\ Getc(r, lock)
    /\ UNCHANGED <<mode, txq, thre, dr, written, sent, received, panic>>

\* The waiter is woken: it releases the lock and looks at the queue again.
GetcWoken(r) ==
    /\ ~panic /\ state[r] = "woken" /\ Getc(r, NULL)
    /\ UNCHANGED <<mode, txq, thre, dr, written, sent, received, panic>>

\* A thread gets the lock and becomes the waiter.  It does not look at the queue
\* again before wait(), which asserts that the queue is empty.
GetcLocked(r) ==
    /\ ~panic /\ state[r] = "lock" /\ lock = NULL
    /\ lock' = r
    /\ \/ /\ intq_empty(buffer)
          /\ buffer' = [buffer EXCEPT !.not_empty = r]
          /\ state' = [state EXCEPT ![r] = "blocked"]
          /\ UNCHANGED panic
       \/ /\ ~intq_empty(buffer)
          /\ panic' = TRUE
          /\ UNCHANGED <<buffer, state>>
    /\ UNCHANGED <<mode, txq, ier, thre, dr, written, sent, received, got>>

\* keyboard_interrupt, whatever character the key and the shift keys give (other
\* keys change nothing here): input_putc when there is
\* room; otherwise the key is dropped.
keyboard_interrupt ==
    /\ ~panic /\ received < MaxIn /\ ~intq_full(buffer)
    /\ received' = received + 1
    /\ buffer' = Put(buffer, received')
    /\ state' = Wake(state, buffer.not_empty)
    /\ serial_notify
    /\ UNCHANGED <<mode, txq, lock, thre, dr, written, sent, got, panic>>

-----------------------------------------------------------------------------
(* The serial port. *)

\* The UART is done with a byte; a byte arrives.
UartSent == ~thre /\ thre' = TRUE /\ UNCHANGED <<mode, txq, buffer, lock, state, ier, dr,
                                               written, sent, received, got, panic>>

UartReceives == ~dr /\ received < MaxIn /\ dr' = TRUE
                /\ UNCHANGED <<mode, txq, buffer, lock, state, ier, thre, written, sent,
                               received, got, panic>>

\* serial_interrupt: receive, transmit, and set the register anew.
serial_interrupt ==
    /\ ~panic /\ mode = "QUEUE"
    /\ (ier.recv /\ dr) \/ (ier.xmit /\ thre)
    /\ LET in == dr /\ ~intq_full(buffer)
           out == thre /\ ~intq_empty(txq)
           woken == IF in THEN Wake(state, buffer.not_empty) ELSE state
       IN  /\ dr' = (dr /\ ~in)
           /\ received' = IF in THEN received + 1 ELSE received
           /\ buffer' = IF in THEN Put(buffer, received') ELSE buffer
           /\ thre' = (thre /\ ~out)
           /\ sent' = IF out THEN Oldest(txq) ELSE sent
           /\ txq' = IF out THEN Taken(txq) ELSE txq
           /\ state' = IF out THEN Wake(woken, txq.not_full) ELSE woken
           /\ ier' = Ier(txq', buffer')
    /\ UNCHANGED <<mode, lock, written, got, panic>>

-----------------------------------------------------------------------------
Init ==
    /\ mode = "POLL"
    /\ txq = EmptyQueue /\ buffer = EmptyQueue
    /\ lock = NULL
    /\ state = [t \in Threads |-> "run"]
    /\ ier = [xmit |-> FALSE, recv |-> FALSE]
    /\ thre = TRUE /\ dr = FALSE
    /\ written = 0 /\ sent = 0 /\ received = 0 /\ got = 0
    /\ panic = FALSE

Next ==
    \/ serial_init_queue \/ PutcPoll \/ serial_putc \/ PutcOff \/ serial_flush
    \/ \E r \in Readers : input_getc(r) \/ GetcWoken(r) \/ GetcLocked(r)
    \/ keyboard_interrupt \/ serial_interrupt
    \/ UartSent \/ UartReceives

Spec == Init /\ [][Next]_vars

\* The scheduler runs woken threads, the UART finishes what it sends and its
\* interrupts are delivered, and the kernel gets to serial_init_queue.
Fairness ==
    /\ WF_vars(serial_init_queue) /\ WF_vars(serial_interrupt) /\ WF_vars(UartSent)
    /\ WF_vars(state[writer] = "woken" /\ serial_putc)
    /\ \A r \in Readers : WF_vars(GetcWoken(r)) /\ WF_vars(GetcLocked(r))

FairSpec == Spec /\ Fairness

-----------------------------------------------------------------------------
\* What a queue holds, oldest first.
Contents(q) ==
    LET size == (q.head - q.tail + INTQ_BUFSIZE) % INTQ_BUFSIZE
    IN  [i \in 1 .. size |-> q.buf[(q.tail + i - 1) % INTQ_BUFSIZE]]

\* The output queue holds exactly the bytes serial_putc took and the UART has not
\* had, and the input buffer exactly those received and not yet returned, in order:
\* none is lost, repeated, overwritten or overtaken, whichever mixture of sleeping,
\* polling and interrupts moves them and wherever the rings wrap.
BytesInOrder ==
    /\ Contents(txq) = [i \in 1 .. written - sent |-> sent + i]
    /\ Contents(buffer) = [i \in 1 .. received - got |-> got + i]

\* No wake-up is lost: the sleeping threads are exactly the recorded waiters, a
\* reader sleeps only on an empty buffer and the writer only on a full queue, and
\* the lock of the buffer belongs to its waiter until that has run again.
WaitersExact ==
    /\ {t \in Threads : state[t] = "blocked"}
         = {buffer.not_empty, txq.not_full} \ {NULL}
    /\ buffer.not_empty # NULL => intq_empty(buffer)
    /\ txq.not_full # NULL => intq_full(txq)
    /\ ~panic => {r \in Readers : state[r] \in {"blocked", "woken"}} = {lock} \ {NULL}

\* Every byte written to the console reaches the UART, also one whose writer has
\* to sleep first because the queue is full.
OutputDrains ==
    /\ \A n \in 1 .. MaxOut : written >= n ~> (sent >= n \/ panic)
    /\ state[writer] = "blocked" ~> (state[writer] = "run" \/ panic)

\* While a reader is in input_getc, a byte that is there or has reached the UART is
\* taken: by that reader, or by another one that came first.
ReaderServed ==
    \A n \in 0 .. MaxIn :
        (/\ got = n /\ (dr \/ received > n)
         /\ \E r \in Readers : state[r] \in {"blocked", "woken"})
          ~> (got > n \/ panic)

=============================================================================
