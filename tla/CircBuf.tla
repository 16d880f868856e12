------------------------------ MODULE CircBuf ------------------------------
(***************************************************************************)
(* struct dsm_sample_circ_buf and its macros: the circular buffer without  *)
(* locks through which the NIDAS drivers pass samples from an interrupt    *)
(* handler to a bottom half and from there to the user's read.  The        *)
(* producer writes into the element at the head and then moves the head,   *)
(* the consumer reads the element at the tail and then moves the tail; the *)
(* barriers in the macros keep that order, so that a step that moves an    *)
(* index is atomic and later than the accesses before it.                  *)
(*                                                                         *)
(* A size is a power of two (alloc_dsm_circ_buf() refuses any other), for  *)
(* which the kernel's x & (size - 1) is x % size.                          *)
(***************************************************************************)
EXTENDS Integers, Sequences

CIRC_CNT(head, tail, size) == (head - tail) % size

CIRC_SPACE(head, tail, size) == CIRC_CNT(tail, head + 1, size)

\* GET_HEAD and GET_TAIL return an element when there is one.
HasHead(c) == CIRC_SPACE(c.head, c.tail, c.size) > 0
HasTail(c) == CIRC_CNT(c.head, c.tail, c.size) > 0

\* The producer writes into the element that GET_HEAD returned.
WriteHead(c, x) == [c EXCEPT !.buf = [@ EXCEPT ![c.head] = x]]

AtTail(c) == c.buf[c.tail]

\* Mutant: the head wraps one element late.
IncrementHeadLate(c) == [c EXCEPT !.head = (c.head + 1) % (c.size + 1)]

INCREMENT_HEAD(c) == [c EXCEPT !.head = (c.head + 1) % c.size]

INCREMENT_TAIL(c) == [c EXCEPT !.tail = (c.tail + 1) % c.size]

\* alloc_dsm_circ_buf(): the memory of the samples is not initialized.
alloc_dsm_circ_buf(size, x) ==
    [buf |-> [i \in 0..(size - 1) |-> x], head |-> 0, tail |-> 0, size |-> size]

\* The samples in the buffer, in the order in which they will be read.
Contents(c) ==
    [k \in 1..CIRC_CNT(c.head, c.tail, c.size) |->
        c.buf[(c.tail + k - 1) % c.size]]
=============================================================================
