-------------------------------- MODULE Ring --------------------------------
(***************************************************************************)
(* The ring buffers of the keyboard and of the terminals: an array with a  *)
(* head, where the next byte goes, a tail, where the oldest one is, and a  *)
(* count (kb_in of kernel/keyboard.c; inbuf, inbuf_head, inbuf_tail and    *)
(* inbuf_count of kernel/tty.c).                                           *)
(*                                                                         *)
(* The modules Keyboard and Terminal use sequences in their place.  The    *)
(* theorems in ConsoleProofs say that they may: for every length of the    *)
(* array, storing a byte appends it to the contents unless the array is    *)
(* full, and taking one removes the oldest.                                *)
(***************************************************************************)
EXTENDS Integers, Sequences

\* A pointer into the array after p++ and the test for the end.
Advance(i, size) == IF i + 1 = size THEN 0 ELSE i + 1

\* Where the n-th cell from the beginning is, if the array is gone round once.
Cell(n, size) == IF n < size THEN n ELSE n - size

\* The buffers that can be reached: head is count cells after tail.
Buffers(size, Byte) ==
  {r \in [buf : [0 .. size - 1 -> Byte], head : 0 .. size - 1, tail : 0 .. size - 1,
          count : 0 .. size] :
     r.head = Cell(r.tail + r.count, size)}

\* What the buffer holds, oldest first.
Contents(r, size) == [i \in 1 .. r.count |-> r.buf[Cell(r.tail + i - 1, size)]]

\* init_keyboard, init_tty.
Initial(buf) == [buf |-> buf, head |-> 0, tail |-> 0, count |-> 0]

\* keyboard_handler, put_key: a full buffer drops the byte.
Put(r, byte, size) ==
  IF r.count < size
  THEN [buf   |-> [r.buf EXCEPT ![r.head] = byte],
        head  |-> Advance(r.head, size),
        tail  |-> r.tail,
        count |-> r.count + 1]
  ELSE r

\* get_byte_from_kbuf, tty_dev_write: the byte, and the buffer without it.
Oldest(r) == r.buf[r.tail]
Take(r, size) ==
  [buf |-> r.buf, head |-> r.head, tail |-> Advance(r.tail, size), count |-> r.count - 1]
=============================================================================
