------------------------------- MODULE CircBuf --------------------------------
(***************************************************************************)
(* The circular buffer of one clip, src/fsw/include/synch/circular.h: two  *)
(* indices that only ever grow, whose difference modulo twice the size is  *)
(* what can be read.  Nothing but an assertion guards them: with indices   *)
(* that memory damage has moved apart, every operation but the reset       *)
(* aborts the clip that calls it (Sound is false).  What is read and       *)
(* written is as far from 2^32 as ten readings a second are from a wrap in *)
(* thirteen years, and the indices do not wrap here.                       *)
(***************************************************************************)
EXTENDS Integers, Sequences

CONSTANT ElementCount    \* circ_buf_t.element_count

CircBufAssumption == ElementCount \in Nat \ {0}

(* A buffer that holds nothing; what its elements were is left in place.   *)
circ_buf_reset(c) == [c EXCEPT !.next_read = 0, !.next_write = 0]

Empty(x) == [next_read |-> 0, next_write |-> 0, element |-> [i \in 0..ElementCount - 1 |-> x]]

circ_buf_read_avail(c) == (c.next_write - c.next_read + 2 * ElementCount) % (2 * ElementCount)
Sound(c) == circ_buf_read_avail(c) <= ElementCount

circ_buf_write_avail(c) == ElementCount - circ_buf_read_avail(c)

(* What can be read, the oldest element first.                             *)
Contents(c) ==
    [i \in 1..circ_buf_read_avail(c) |-> c.element[(c.next_read + i - 1) % ElementCount]]

Bug_read_done(c, count) == [c EXCEPT !.next_read = c.next_write]
circ_buf_read_done(c, count) == [c EXCEPT !.next_read = @ + count]

(* circ_buf_write_peek, filled with x, and circ_buf_write_done.            *)
Written(c, x) ==
    [c EXCEPT !.element[c.next_write % ElementCount] = x, !.next_write = c.next_write + 1]
=============================================================================
