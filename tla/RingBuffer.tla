----------------------------- MODULE RingBuffer -----------------------------
(***************************************************************************)
(* The overwriting buffer of rt-trace/src/utils/ring_buffer.rs as a value: *)
(*   inner   the Vec, in the order of its indices                          *)
(*   head    the index, from 0, that is overwritten next                   *)
(* and what it promises: a queue that keeps the newest elements.           *)
(***************************************************************************)
EXTENDS Naturals, Sequences

NewBuffer == [inner |-> <<>>, head |-> 0]

\* Mutant: the oldest element is never overwritten twice in a row.
PushOverwriteMutant(buf, item, capacity) ==
  IF Len(buf.inner) < capacity
  THEN [buf EXCEPT !.inner = Append(@, item)]
  ELSE [buf EXCEPT !.inner[buf.head + 1] = item]

\* push_overwrite: a full buffer loses the element at head.
PushOverwrite(buf, item, capacity) ==
  IF Len(buf.inner) < capacity
  THEN [buf EXCEPT !.inner = Append(@, item)]
  ELSE [buf EXCEPT !.inner[buf.head + 1] = item,
                   !.head = (buf.head + 1) % capacity]

\* What push_overwrite loses.
Overwritten(buf, capacity) ==
  IF Len(buf.inner) < capacity THEN <<>> ELSE <<buf.inner[buf.head + 1]>>

\* drain: from head to the end, then from the start to head.
Drained(buf) ==
  SubSeq(buf.inner, buf.head + 1, Len(buf.inner)) \o SubSeq(buf.inner, 1, buf.head)

-----------------------------------------------------------------------------
\* The last n elements of a sequence, or all of them.
Newest(seq, n) ==
  IF Len(seq) <= n THEN seq ELSE SubSeq(seq, Len(seq) - n + 1, Len(seq))

\* How inner and head hang together.
WellFormed(buf, capacity) ==
  /\ Len(buf.inner) <= capacity
  /\ buf.head \in 0 .. capacity - 1
  /\ Len(buf.inner) < capacity => buf.head = 0
=============================================================================
