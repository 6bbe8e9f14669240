------------------------------ MODULE Perfetto ------------------------------
(***************************************************************************)
(* The Perfetto backend of rt-trace (rt-trace/src/backend/perfetto.rs):    *)
(* what PerfettoReporter::consume writes for a batch of spans, and what it *)
(* leaves in the packet vectors that it takes from a pool and uses up to a *)
(* length of its own.                                                      *)
(*                                                                         *)
(* A packet is [data, time]: what it describes and its timestamp.  data is *)
(* [kind, of]: a "process" or "thread" descriptor of a thread id, or the   *)
(* "begin" or "end" of a span.  Other fields hold the same in every packet *)
(* that sets them.                                                         *)
(***************************************************************************)
EXTENDS ObjectPool, FiniteSets

CONSTANT BatchSize   \* DEFAULT_BATCH_SIZE

ASSUME BatchSizeAssumption == BatchSize \in Nat \ {0}

BufSize == BatchSize * 4

Data(kind, of) == [kind |-> kind, of |-> of]

Packet == [data |-> Data("none", 0), time |-> Data("none", 0)]

\* init: a vector of default packets.
NewVector == [i \in 1 .. BufSize |-> Packet]

Swap(v, i, j) == [v EXCEPT ![i] = v[j], ![j] = v[i]]

\* A descriptor is put behind the packets there are and swapped to the front.
\* Its packet keeps the timestamp of an earlier use.
PutDescriptor(trace, descriptor) ==
  LET n == trace.num + 1
  IN  [packets |-> Swap([trace.packets EXCEPT ![n].data = descriptor], 1, n), num |-> n]

\* A span is a begin and an end event.
PutSpan(trace, span) ==
  LET n == trace.num + 1
      event(kind) == [data |-> Data(kind, span), time |-> Data(kind, span)]
  IN  [packets |-> [trace.packets EXCEPT ![n] = event("begin"), ![n + 1] = event("end")],
       num |-> n + 1]

\* Mutant: the vector goes back to the pool at the length that was written.
RestoredMutant(trace) == SubSeq(trace.packets, 1, trace.num)

\* Trace::write sets the length to what is written, and then back.
Restored(trace) == trace.packets

\* consume by thread t: Trace::new pulls a vector, write pulls another one to
\* hold its place, and both are recycled.
Consume(pool, t, descriptors, spans) ==
  LET new    == Pull(pool, t, 2, NewVector)
      blank  == [packets |-> new.object, num |-> 0]
      trace  == FoldLeft(PutSpan, FoldLeft(PutDescriptor, blank, descriptors), spans)
      next   == Pull(new.pool, t, 2, NewVector)
  IN  [written |-> SubSeq(trace.packets, 1, trace.num),
       pool    |-> Recycle(Recycle(next.pool, next.object), Restored(trace))]
=============================================================================
