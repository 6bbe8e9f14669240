------------------------------ MODULE RtTrace ------------------------------
(***************************************************************************)
(* rt-trace: threads record spans in sharded queues (lib.rs, span.rs,      *)
(* span_queue.rs), full queues and flush() send them in batches over the   *)
(* channel of the thread that does it (utils/spsc.rs, with best-effort     *)
(* sends only), a background thread collects the batches in a buffer that  *)
(* overwrites (consumer.rs), and flush() hands the buffer to the Perfetto  *)
(* backend.  `initialize` has been called.                                 *)
(*                                                                         *)
(* A shard's lock is held over a send; GLOBAL_SPAN_CONSUMER over a         *)
(* collection and over the writing of a flush.  Each access to a channel   *)
(* and each batch written is a step.  RuntimeStart spans, for which the    *)
(* backend is unimplemented, are left out.                                 *)
(***************************************************************************)
EXTENDS SpscChannel, Perfetto, RingBuffer, TLC

CONSTANTS
  Thread,      \* the threads of the program
  NoThread,    \* no thread
  Loop,        \* the consumer thread
  ThreadId,    \* the numbers thread_id::get returns
  Shards,      \* SHARD_NUM
  MaxSpan,     \* bound: spans ever created
  MaxFlush     \* bound: calls of flush

ASSUME RtAssumption ==
  /\ Shards \in Nat \ {0} /\ ThreadId \subseteq Nat
  /\ MaxSpan \in Nat /\ MaxFlush \in Nat
  /\ NoThread \notin Thread /\ Loop \notin Thread \cup {NoThread}
  \* No more descriptors ever than fit in a vector beside a full batch.
  /\ IsFiniteSet(Thread) /\ Cardinality(Thread) + 1 <= 2 * BatchSize

VARIABLES
  enabled,      \* ENABLED
  tid,          \* the id of each thread
  thread,       \* what each thread does, see ThreadState
  live,         \* the spans each thread holds
  owner,        \* the thread that created a span
  queue,        \* SPAN_QUEUE_STORE: the spans of each shard
  holder,       \* who holds a shard's lock over a send
  dropping,     \* the span a thread is about to push, 0: none
  sending,      \* the batch a thread is about to send: none or one
  shardAt,      \* the shard a flush has come to
  chan,         \* each thread's command channel
  rxs,          \* SPSC_RXS: the threads whose receiver is registered
  consumer,     \* who holds GLOBAL_SPAN_CONSUMER
  at,           \* the position in rxs of the receiver drained, 0: none
  buffer,       \* command_buf
  writing,      \* the batches drained by a flush and not yet written
  descriptors,  \* DESCRIPTORS: has each been flushed
  initialized,  \* THREAD_INITIALIZED
  flushedOnce,  \* FLUSHED_ONCE
  pool,         \* TRACE_PACKETS_POOL and the pullers
  output,       \* the packets written
  seen          \* history, see Init

vars == <<enabled, tid, thread, live, owner, queue, holder, dropping, sending, shardAt,
          chan, rxs, consumer, at, buffer, writing, descriptors, initialized, flushedOnce,
          pool, output, seen>>

spanVars  == <<live, owner, initialized>>
queueVars == <<queue, holder, dropping, sending, shardAt, chan>>
bufVars   == <<consumer, at, buffer>>
writeVars == <<writing, flushedOnce, pool, output>>

\* "new": not started; "push": about to lock its shard with a dropped span;
\* "send": sending a full batch; "flush": in the first part of flush();
\* "wait": flush() needs GLOBAL_SPAN_CONSUMER; "write": flush() is writing.
ThreadState == {"new", "idle", "push", "send", "flush", "wait", "write", "gone"}

Span == 1 .. MaxSpan

BufferCapacity == Shards * 2

ShardOf(t) == tid[t] % Shards

Alive(t) == thread[t] \notin {"new", "gone"}

Init ==
  /\ enabled = FALSE
  /\ tid \in [Thread -> ThreadId]
  /\ thread = [t \in Thread |-> "new"]
  /\ live = [t \in Thread |-> {}]
  /\ owner = <<>>
  /\ queue = [s \in 0 .. Shards - 1 |-> <<>>]
  /\ holder = [s \in 0 .. Shards - 1 |-> NoThread]
  /\ dropping = [t \in Thread |-> 0]
  /\ sending = [t \in Thread |-> <<>>]
  /\ shardAt = [t \in Thread |-> 0]
  /\ chan = [t \in Thread |-> NewChannel]
  /\ rxs = <<>>
  /\ consumer = NoThread
  /\ at = 0
  /\ buffer = NewBuffer
  /\ writing = <<>>
  /\ descriptors = [d \in {} |-> FALSE]
  /\ initialized = [t \in Thread |-> FALSE]
  /\ flushedOnce = FALSE
  /\ pool = NewPool(Thread)
  /\ output = <<>>
  \* recorded: spans pushed to a queue.  lost: those in batches refused by a
  \* full channel or overwritten in the buffer.  arrived: the batches given to
  \* the buffer since it was drained.  stopped: the program called stop and not
  \* start after it.  asked: recorded when each flush in
  \* progress was called; due: the same for those that have returned.
  \* flushes: how many were called.
  /\ seen = [recorded |-> {}, lost |-> {}, arrived |-> <<>>, stopped |-> TRUE,
             asked |-> [t \in Thread |-> {}], due |-> {}, flushes |-> 0]

-----------------------------------------------------------------------------
(* Threads and spans. *)

\* A thread starts; the system gives it an id that no running thread has.
Spawn(t) ==
  /\ thread[t] = "new"
  /\ \A u \in Thread : Alive(u) => tid[u] # tid[t]
  /\ thread' = [thread EXCEPT ![t] = "idle"]
  /\ UNCHANGED <<enabled, tid, spanVars, queueVars, rxs, bufVars, writeVars, descriptors, seen>>

\* Its thread-locals are dropped.  What its channel holds stays there.
Exit(t) ==
  /\ thread[t] = "idle" /\ live[t] = {}
  /\ thread' = [thread EXCEPT ![t] = "gone"]
  /\ chan' = [chan EXCEPT ![t] = Abandon(@)]
  /\ pool' = DropPuller(pool, t)
  /\ UNCHANGED <<enabled, tid, spanVars, queue, holder, dropping, sending, shardAt, rxs,
                 bufVars, writing, flushedOnce, output, descriptors, seen>>

Start(t) ==
  /\ thread[t] = "idle" /\ seen.stopped
  /\ enabled' = TRUE
  /\ seen' = [seen EXCEPT !.stopped = FALSE]
  /\ UNCHANGED <<tid, thread, spanVars, queueVars, rxs, bufVars, writeVars, descriptors>>

Stop(t) ==
  /\ thread[t] = "idle" /\ ~seen.stopped
  /\ enabled' = FALSE
  /\ seen' = [seen EXCEPT !.stopped = TRUE]
  /\ UNCHANGED <<tid, thread, spanVars, queueVars, rxs, bufVars, writeVars, descriptors>>

\* An unnamed thread, or any with the name of another, is told apart by its id.
ThreadDescriptor(t) == Data("thread", tid[t])

\* add_descriptor, of one that is not there.
AddDescriptor(d) ==
  [e \in DOMAIN descriptors \cup {d} |-> IF e = d THEN FALSE ELSE descriptors[e]]

NextSpan == Len(owner) + 1

\* span(): the first span of a thread enters its descriptor.
NewSpan(t) ==
  /\ thread[t] = "idle" /\ enabled
  /\ NextSpan <= MaxSpan
  /\ initialized[t] \/ ThreadDescriptor(t) \notin DOMAIN descriptors
  /\ descriptors' = IF initialized[t] THEN descriptors
                    ELSE AddDescriptor(ThreadDescriptor(t))
  /\ initialized' = [initialized EXCEPT ![t] = TRUE]
  /\ live' = [live EXCEPT ![t] = @ \cup {NextSpan}]
  /\ owner' = Append(owner, t)
  /\ UNCHANGED <<enabled, tid, thread, queueVars, rxs, bufVars, writeVars, seen>>

\* add_descriptor panics: an earlier thread had this id.
NewSpanPanics(t) ==
  /\ thread[t] = "idle" /\ enabled
  /\ ~initialized[t] /\ ThreadDescriptor(t) \in DOMAIN descriptors
  /\ thread' = [thread EXCEPT ![t] = "gone"]
  /\ chan' = [chan EXCEPT ![t] = Abandon(@)]
  /\ pool' = DropPuller(pool, t)
  /\ UNCHANGED <<enabled, tid, spanVars, queue, holder, dropping, sending, shardAt, rxs,
                 bufVars, writing, flushedOnce, output, descriptors, seen>>

\* Drop for Span, up to the lock of the shard: nothing is recorded while
\* tracing is off.
DropSpan(t, s) ==
  /\ thread[t] = "idle" /\ s \in live[t]
  /\ live' = [live EXCEPT ![t] = @ \ {s}]
  /\ thread' = [thread EXCEPT ![t] = IF enabled THEN "push" ELSE "idle"]
  /\ dropping' = [dropping EXCEPT ![t] = IF enabled THEN s ELSE 0]
  /\ UNCHANGED <<enabled, tid, owner, initialized, queue, holder, sending, shardAt, chan,
                 rxs, bufVars, writeVars, descriptors, seen>>

Locked(s) == holder[s] # NoThread

\* Mutant: the queue is not emptied.
TakeBatchMutant(t, s, spans) ==
  /\ sending' = [sending EXCEPT ![t] = <<spans>>]
  /\ queue' = [queue EXCEPT ![s] = spans]
  /\ holder' = [holder EXCEPT ![s] = t]

\* SpanQueue::flush, up to the send: the lock is held over it.
TakeBatch(t, s, spans) ==
  /\ sending' = [sending EXCEPT ![t] = <<spans>>]
  /\ queue' = [queue EXCEPT ![s] = <<>>]
  /\ holder' = [holder EXCEPT ![s] = t]

\* SpanQueue::push.
PushSpan(t) ==
  LET s == ShardOf(t)
      spans == Append(queue[s], dropping[t])
  IN  /\ thread[t] = "push" /\ ~Locked(s)
      /\ dropping' = [dropping EXCEPT ![t] = 0]
      /\ seen' = [seen EXCEPT !.recorded = @ \cup {dropping[t]}]
      /\ \/ /\ Len(spans) < BatchSize
            /\ queue' = [queue EXCEPT ![s] = spans]
            /\ thread' = [thread EXCEPT ![t] = "idle"]
            /\ UNCHANGED <<sending, holder>>
         \/ /\ Len(spans) >= BatchSize
            /\ TakeBatch(t, s, spans)
            /\ thread' = [thread EXCEPT ![t] = "send"]
      /\ UNCHANGED <<enabled, tid, spanVars, shardAt, chan, rxs, bufVars, writeVars, descriptors>>

-----------------------------------------------------------------------------
(* Sending a batch, for a full queue or for flush(). *)

RxsLocked == at # 0

\* The first use of the thread-local COMMAND_SENDER.
RegisterReceiver(t) ==
  /\ sending[t] # <<>> /\ t \notin ToSet(rxs) /\ ~RxsLocked
  /\ rxs' = Append(rxs, t)
  /\ UNCHANGED <<enabled, tid, thread, spanVars, queueVars, bufVars, writeVars, descriptors, seen>>

\* Mutant: the lock is kept.
SentMutant(t) ==
  /\ sending' = [sending EXCEPT ![t] = <<>>]
  /\ holder' = holder
  /\ thread' = [thread EXCEPT ![t] = IF @ = "send" THEN "idle" ELSE @]
  /\ shardAt' = [shardAt EXCEPT ![t] = IF thread[t] = "flush" THEN @ + 1 ELSE @]

\* Back from SpanQueue::flush: the shard's lock is released.
Sent(t) ==
  /\ sending' = [sending EXCEPT ![t] = <<>>]
  /\ holder' = [s \in DOMAIN holder |-> IF holder[s] = t THEN NoThread ELSE holder[s]]
  /\ thread' = [thread EXCEPT ![t] = IF @ = "send" THEN "idle" ELSE @]
  /\ shardAt' = [shardAt EXCEPT ![t] = IF thread[t] = "flush" THEN @ + 1 ELSE @]

CanSend(t) == sending[t] # <<>> /\ t \in ToSet(rxs)

SendBatch(t) ==
  /\ CanSend(t) /\ HasRoom(chan[t])
  /\ chan' = [chan EXCEPT ![t] = Push(@, sending[t][1])]
  /\ Sent(t)
  /\ UNCHANGED <<enabled, tid, spanVars, queue, dropping, rxs, bufVars, writeVars, descriptors, seen>>

\* send returns ChannelFull, and send_command ignores it.  Nothing is ever
\* parked, since only best-effort sends are made.
LoseBatch(t) ==
  /\ CanSend(t) /\ ~HasRoom(chan[t])
  /\ seen' = [seen EXCEPT !.lost = @ \cup ToSet(sending[t][1])]
  /\ Sent(t)
  /\ UNCHANGED <<enabled, tid, spanVars, queue, dropping, chan, rxs, bufVars, writeVars, descriptors>>

Send(t) == RegisterReceiver(t) \/ SendBatch(t) \/ LoseBatch(t)

-----------------------------------------------------------------------------
(* flush(). *)

SpansOf(batches) == UNION {ToSet(batches[i]) : i \in DOMAIN batches}

Flush(t) ==
  /\ thread[t] = "idle" /\ seen.flushes < MaxFlush
  /\ thread' = [thread EXCEPT ![t] = "flush"]
  /\ enabled' = FALSE
  /\ shardAt' = [shardAt EXCEPT ![t] = 0]
  /\ seen' = [seen EXCEPT !.flushes = @ + 1, !.asked[t] = seen.recorded]
  /\ UNCHANGED <<tid, spanVars, queue, holder, dropping, sending, chan, rxs, bufVars,
                 writeVars, descriptors>>

\* Mutant: it passes a shard that is locked.
FlushShardMutant(t) ==
  /\ thread[t] = "flush" /\ sending[t] = <<>>
  /\ shardAt[t] < Shards
  /\ TakeBatch(t, shardAt[t], queue[shardAt[t]])
  /\ UNCHANGED <<enabled, tid, thread, spanVars, dropping, shardAt, chan, rxs, bufVars,
                 writeVars, descriptors, seen>>

FlushShard(t) ==
  /\ thread[t] = "flush" /\ sending[t] = <<>>
  /\ shardAt[t] < Shards /\ ~Locked(shardAt[t])
  /\ TakeBatch(t, shardAt[t], queue[shardAt[t]])
  /\ UNCHANGED <<enabled, tid, thread, spanVars, dropping, shardAt, chan, rxs, bufVars,
                 writeVars, descriptors, seen>>

\* Mutant: tracing stays off.
FlushStartMutant(t) ==
  /\ thread[t] = "flush" /\ shardAt[t] = Shards
  /\ thread' = [thread EXCEPT ![t] = "wait"]
  /\ UNCHANGED <<enabled, tid, spanVars, queueVars, rxs, bufVars, writeVars, descriptors, seen>>

\* Tracing is on again, also when the program had stopped it.
FlushStart(t) ==
  /\ thread[t] = "flush" /\ shardAt[t] = Shards
  /\ thread' = [thread EXCEPT ![t] = "wait"]
  /\ enabled' = TRUE
  /\ UNCHANGED <<tid, spanVars, queueVars, rxs, bufVars, writeVars, descriptors, seen>>

-----------------------------------------------------------------------------
(* The consumer. *)

\* GLOBAL_SPAN_CONSUMER and SPSC_RXS are locked.
Begin(who) ==
  /\ consumer = NoThread
  /\ consumer' = who
  /\ at' = 1
  /\ UNCHANGED <<enabled, tid, thread, spanVars, queueVars, rxs, buffer, writeVars, descriptors, seen>>

LoopBegin     == Begin(Loop)
FlushBegin(t) == thread[t] = "wait" /\ Begin(t)

Current == rxs[at]

AtReceiver == at \in DOMAIN rxs

\* try_recv returns a command: it is pushed to the buffer.
RecvCommand ==
  /\ AtReceiver /\ chan[Current].ring # <<>>
  /\ LET batch == Head(chan[Current].ring)
     IN  /\ buffer' = PushOverwrite(buffer, batch, BufferCapacity)
         /\ seen' = [seen EXCEPT !.arrived = Append(@, batch),
                                 !.lost = @ \cup SpansOf(Overwritten(buffer, BufferCapacity))]
  /\ chan' = [chan EXCEPT ![Current] = Pop(@)]
  /\ UNCHANGED <<enabled, tid, thread, spanVars, queue, holder, dropping, sending, shardAt,
                 rxs, consumer, at, writeVars, descriptors>>

\* Ok(None) and Err(ChannelClosed): on to the next receiver; all are kept.
RecvNone ==
  /\ AtReceiver /\ chan[Current].ring = <<>>
  /\ at' = at + 1
  /\ UNCHANGED <<enabled, tid, thread, spanVars, queueVars, rxs, consumer, buffer, writeVars,
                 descriptors, seen>>

\* The background thread releases both locks.
LoopDone ==
  /\ at = Len(rxs) + 1 /\ consumer = Loop
  /\ at' = 0
  /\ consumer' = NoThread
  /\ UNCHANGED <<enabled, tid, thread, spanVars, queueVars, rxs, buffer, writeVars, descriptors, seen>>

ProcessDescriptor(t) == Data("process", tid[t])

\* Mutant: the buffer is not emptied.
WriteBeginMutant ==
  /\ at = Len(rxs) + 1 /\ consumer # Loop
  /\ at' = 0
  /\ thread' = [thread EXCEPT ![consumer] = "write"]
  /\ descriptors' = IF flushedOnce THEN descriptors
                    ELSE AddDescriptor(ProcessDescriptor(consumer))
  /\ flushedOnce' = TRUE
  /\ writing' = Drained(buffer)
  /\ UNCHANGED <<enabled, tid, spanVars, queueVars, rxs, consumer, buffer, pool, output, seen>>

\* A flush releases SPSC_RXS only, and drains the buffer.
WriteBegin ==
  /\ at = Len(rxs) + 1 /\ consumer # Loop
  /\ at' = 0
  /\ thread' = [thread EXCEPT ![consumer] = "write"]
  /\ descriptors' = IF flushedOnce THEN descriptors
                    ELSE AddDescriptor(ProcessDescriptor(consumer))
  /\ flushedOnce' = TRUE
  /\ writing' = Drained(buffer)
  /\ buffer' = NewBuffer
  /\ seen' = [seen EXCEPT !.arrived = <<>>]
  /\ UNCHANGED <<enabled, tid, spanVars, queueVars, rxs, consumer, pool, output>>

Writing == consumer \in Thread /\ at = 0

\* Mutant: the descriptors of threads are passed over.
UnflushedMutant == {d \in DOMAIN descriptors : ~descriptors[d] /\ d.kind = "process"}

\* drain_descriptors, in the order of a hash map.
Unflushed == {d \in DOMAIN descriptors : ~descriptors[d]}

ConsumeBatch ==
  /\ Writing /\ writing # <<>>
  /\ \E order \in SetToSeqs(Unflushed) :
       LET result == Consume(pool, consumer, order, Head(writing))
       IN  /\ output' = output \o result.written
           /\ pool' = result.pool
  /\ descriptors' = [d \in DOMAIN descriptors |-> TRUE]
  /\ writing' = Tail(writing)
  /\ UNCHANGED <<enabled, tid, thread, spanVars, queueVars, rxs, bufVars, flushedOnce, seen>>

\* flush() returns.
WriteDone ==
  /\ Writing /\ writing = <<>>
  /\ consumer' = NoThread
  /\ thread' = [thread EXCEPT ![consumer] = "idle"]
  /\ seen' = [seen EXCEPT !.due = @ \cup seen.asked[consumer], !.asked[consumer] = {}]
  /\ UNCHANGED <<enabled, tid, spanVars, queueVars, rxs, at, buffer, writeVars, descriptors>>

Collect ==
  \/ LoopBegin \/ RecvCommand \/ RecvNone \/ LoopDone
  \/ WriteBegin \/ ConsumeBatch \/ WriteDone

\* A step of thread t inside a call.
CallStep(t) ==
  PushSpan(t) \/ Send(t) \/ FlushShard(t) \/ FlushStart(t) \/ FlushBegin(t)

Next ==
  \/ \E t \in Thread :
        \/ Spawn(t) \/ Exit(t) \/ Start(t) \/ Stop(t)
        \/ NewSpan(t) \/ NewSpanPanics(t) \/ Flush(t) \/ CallStep(t)
  \/ \E t \in Thread : \E s \in Span : DropSpan(t, s)
  \/ Collect

Spec == Init /\ [][Next]_vars

-----------------------------------------------------------------------------
TypeOK ==
  /\ thread \in [Thread -> ThreadState]
  /\ Len(owner) <= MaxSpan
  /\ \A t \in Thread : sending[t] # <<>> <=> \E s \in DOMAIN holder : holder[s] = t
  /\ \A s \in DOMAIN queue : Len(queue[s]) < BatchSize
  /\ \A t \in Thread : Len(chan[t].ring) <= Capacity /\ chan[t].pending = <<>>
  /\ consumer \in Thread \cup {NoThread, Loop}
  /\ at \in 0 .. Len(rxs) + 1 /\ IsInjective(rxs)
  /\ WellFormed(buffer, BufferCapacity)

\* The buffer holds the newest batches in the order they arrived, wherever
\* its head is: what it overwrites is always the oldest.
KeepsNewest == Drained(buffer) = Newest(seen.arrived, BufferCapacity)

Datas == {output[i].data : i \in DOMAIN output}

WrittenSpans == {d.of : d \in {x \in Datas : x.kind = "end"}}

\* When flush() returns, every span recorded before the call is written, by
\* this flush or by another, unless its batch was refused by a full channel or
\* overwritten: also one in the SpanQueue of a shard, one that another flush had
\* taken from there, one on the channel of a thread that has ended, and one just
\* drained by the loop. This is what the code of flush does (lib.rs:127-139).
\* Its doc promises less and is wrong about the queues: "this function does not
\* flush spans held in `SpanQueue`" (lib.rs:122).
FlushComplete == seen.due \subseteq WrittenSpans \cup seen.lost

\* Nothing is written twice, over all flushes: no span, no descriptor, and no
\* packet that an earlier use left in a pooled vector.
WrittenOnce == \A i, j \in DOMAIN output : output[i].data = output[j].data => i = j

\* The two events of a span stand together and carry the span's own times.
EventsPaired ==
  \A i \in DOMAIN output :
     /\ output[i].data.kind \in {"begin", "end"} => output[i].time = output[i].data
     /\ output[i].data.kind = "begin" =>
           /\ i + 1 \in DOMAIN output
           /\ output[i + 1].data = Data("end", output[i].data.of)

\* The writer gets every span whole and no packet that a pooled vector or an
\* earlier flush left behind.
WrittenWhole == WrittenOnce /\ EventsPaired

\* The descriptor of a thread is written before its spans, whichever flush
\* writes them.
DescribedFirst ==
  \A i \in DOMAIN output :
     output[i].data.kind = "begin" =>
        \E j \in 1 .. i - 1 : output[j].data = ThreadDescriptor(owner[output[i].data.of])

\* The pool neither grows nor shrinks, and its vectors are whole: after any
\* number of flushes from any threads it holds the same two.
PoolStable ==
  /\ \A t \in Thread : pool.puller[t] = <<>>
  /\ Len(pool.objects) \in {0, 2}
  /\ \A i \in DOMAIN pool.objects : Len(pool.objects[i]) = BufSize

\* However flushes overlap, tracing is off only inside one or because the
\* program stopped it.
TracingComesBack ==
  (\A t \in Thread : thread[t] # "flush") => enabled \/ seen.stopped

\* No two calls wait for each other's locks: while a thread is inside a call
\* and nobody holds GLOBAL_SPAN_CONSUMER, some call can go on.
NeverStuck ==
  \/ consumer # NoThread
  \/ \A t \in Thread : thread[t] \in {"new", "idle", "gone"}
  \/ \E t \in Thread : ENABLED CallStep(t)
=============================================================================
