# Verification of fastrace

TLA+ models of fastrace's run-time core, the TLC configurations that check
them, and TLAPS proofs. `PROJECT.json` lists the runs, the mutants that show
that each property can fail, the source lines of every definition, the
findings, the hazards and the theorems.

## The system

The repository is a workspace of two tracing libraries and their satellites.

| part | state | operations | interacts with |
|---|---|---|---|
| command channel (`fastrace/src/util/spsc.rs`) | ring of 10240 commands, `pending_messages` | `send` (best effort), `force_send`, drop, `try_recv` | span API sends, collector receives |
| span API (`fastrace/src/span.rs`, `event.rs`) | `Span` objects with their collect tokens | `root`, `enter_with_parent(s)`, `enter_with_local_parent`, `add_event`, `add_properties`, `push_child_spans`, `set_local_parent`, `cancel`, drop | commands over the channel of the calling thread; the local span stack |
| local span stack (`fastrace/src/local/`) | per thread: span lines, each a queue of raw spans and a next parent | entering and leaving spans, events, properties, opening and closing scopes | guards held by the program; submits or hands over a scope's spans |
| global collector (`collector/global_collector.rs`, `command.rs`) | receivers, active collectors, danglings | registration of channels, the background loop, `flush`, `set_reporter` | drains every channel, calls the reporter |
| configuration (`collector/mod.rs`) | `cancelable`, `report_interval` | setters | policy of the collector |
| future, stream and sink adapters (`future.rs`, `fastrace-futures`) | the span of a task | `poll`, `poll_next`, `poll_close`, ... | local parent and span around each poll |
| identifiers (`collector/id.rs`) | prefix and suffix per thread | `next_id`, W3C traceparent | everything |
| reporters (console, test, Jaeger, Datadog, OpenTelemetry) | sockets, clients | `report` | called by the collector |
| macro (`fastrace-macro`, `macros.rs`) | none at run time | code generation | span API |
| rt-trace recording (`rt-trace/src/{lib,span,span_queue}.rs`) | `ENABLED`, sharded span queues, descriptors | `span`, drop, `start`, `stop`, `flush` | its consumer |
| rt-trace consumer (`consumer.rs`, `ring_buffer.rs`) | command buffer that overwrites | consumer thread, `flush` | backend |
| rt-trace Perfetto backend (`backend/perfetto.rs`, `object_pool.rs`) | pooled packet vectors | `consume` | writer |

What is hard, and what makes each part correct:

- **Channel.** Commands of three kinds must not be lost (commit, cancel) while
  others may (start, submit); the ring fills up, messages are parked, the
  sending thread ends while the receiver polls. Correct: nothing duplicated,
  nothing accepted lost before the thread ends, best-effort messages never
  ahead of earlier ones.
- **Collector.** Commands of one trace arrive over several channels, in
  batches cut anywhere. Correct: cancelled traces stay silent, cancelable
  traces wait for their commit, every owed span is reported, once per item of
  its token, with its events; `flush` returns, and only when all is reported.
- **Local stack.** Guards are values that a program can drop in any order.
  Correct: in scope order the parents are the innermost spans and no debug
  assertion of the stack fires; in any order no span reaches a foreign trace, span or parent.
- **Adapters.** A span moves with its task from thread to thread; the last poll
  ends it while its guard is still open. Correct: the local spans of every poll
  are reported.
- **Identifiers, Jaeger.** Counters wrap around, ids cross processes in text and
  reach the agent as signed numbers; packets have a limit. Correct: the agent can
  put the tree together, and no span that fits in a packet is passed over.
- **rt-trace.** Tracing is switched off and on while threads drop spans; locks
  are held over sends; a buffer overwrites; unsafe code reuses packet vectors.
  Correct: what was recorded before a flush is written when it returns unless it
  was refused or overwritten, once, after the descriptor of its thread.

## Modules

| module | models | checked by |
|---|---|---|
| `SpscChannel` | a channel as a value: one operator per access to ring or parking lot | through `Spsc`, `Collector`, `RtTrace` |
| `Spsc` | one sender, one receiver, each access a step | `MCSpsc` |
| `LossyChannel` | what a channel promises, abstractly | refined by `Spsc` |
| `SpscProofs` | the inductive invariant of `Spsc`; `Spsc` implements `LossyChannel` | TLAPS |
| `Postprocess` | from submitted span sets to records, danglings included | through `Collector` |
| `Collector` | span API, all channels, background loop, `flush`, batch processing | `MCCollector` |
| `CollectorProofs` | the safety of the pipeline for any number of threads, traces and spans | TLAPS |
| `DeliveryProofs` | once per item of its token, with its events and properties: how a span is reported | TLAPS |
| `Adapters` | spans bound to futures, streams and sinks, over `Collector` | `MCAdapters` |
| `AdapterProofs` | no local span of a poll is missing, for any number of tasks and threads | TLAPS |
| `LocalSpanStack` | span lines and guards of one thread | `MCLocalSpanStack` |
| `LocalSpanStackProofs` | its properties for every capacity and every order of the guards | TLAPS |
| `Identifiers` | `next_id`, contexts, W3C traceparent | through `Jaeger` |
| `Jaeger` | a trace across processes, and the packets of its reporter | `MCJaeger` |
| `JaegerProofs` | the batching loop for every number and size of spans, the ids for every `Half` | TLAPS |
| `RingBuffer` | the buffer of rt-trace that overwrites, as a value | through `RtTrace` |
| `ObjectPool`, `Perfetto` | pooled packet vectors and what `consume` writes | through `RtTrace` |
| `RtTrace` | recording, shards, channels, consumer, flush of rt-trace | `MCRtTrace` |
| `RtTraceProofs` | the buffer, for every capacity; flush, pool, descriptors and output of rt-trace for any number of threads | TLAPS |
| `DataInduction` | induction over numbers and folds in a form the provers can use, sequences, division, injections | TLAPS |

`Collector` and `RtTrace` use the operators of `SpscChannel` for each thread's
channel, so all three agree on what a send is (rt-trace has a
smaller copy of `spsc.rs`). Operators named `...Mutant...` are deliberately wrong versions of the
definition that follows them; no specification uses them.

### State and actions against the code

*SpscChannel, Spsc.* `ch.ring` is the rtrb ring, `ch.pending` is
`Sender::pending_messages`, `ch.open` turns FALSE when the `Producer` is
dropped. `send` and `force_send` start with the same loop (`RetryPending`,
`RetryDone`, and the two ways out of it when the ring is full) and then push
(`PushValue`, `SendFull`, `ForcePark`). `Drop for Sender` is `DropDrain` per
message and `DropDone`. `try_recv` is `RecvPop`, or `RecvEmpty` followed by
the test for abandonment (`RecvOpen`, `RecvClosed`). rtrb itself is external: a
push or a pop is atomic. `accepted`, `refused` and `received` are history.

*Collector.* A call of the span API is one step that changes the span objects
and computes the commands (`todo`); each command is then sent in steps of its
own. A call borrows its span, so `DropSpan` waits for it, and a new root is
not usable before its `StartCollect` was dealt with. `handle_commands` is
`Begin` (locks taken), `RecvCommand`, `RecvEmpty`, `RecvNone`, `RecvClosed`
per channel, `RecvDone` (receivers unlocked), `ProcessBatch` (everything
else, under the collector's lock, invisible to the threads). `flush()` makes
its caller wait while a thread of its own runs `handle_commands`. Collect
ids stand for trace ids, an event and a property are both an attachment,
times and names are left out. `seen` is history for the properties.
`CommittedRecords` orders records by collect id where the code follows hash
order; the properties only see the bag of records.

*Adapters.* `bound` is the set of spans held by an `InSpan`. A poll is one call:
`PollYield` submits the local spans of the guard, `PollFinish` the commands of the
span's end and then those of the guard, in the order in which the code drops them,
`DropTask` drops an adapter that has not finished. The poll itself is atomic:
what the thread does inside it comes before it as calls of its own. A poll has no
local span or one, since a set of them travels as a single command.

*LocalSpanStack.* `lines` is `span_lines`; a line's `queue`, `next` and `token`
are `span_queue`, `next_parent_id` and `collect_token`, `is_sampled` is computed
from the token. `guards` are the `LocalSpan`, `LocalParentGuard` and
`LocalCollector` values alive. A panic (the `expect` of `enter_with_stack`, a
failed debug assertion) ends the behaviour. What a scope hands over is added to
`submitted`; in the code it becomes a `SubmitSpans` command or a `LocalSpans`
value for `push_child_spans`, which `Collector` models as `PushChildSpans`.

*Identifiers, Jaeger.* An id is a number to the base `Half`, which stands for
2^32: a span id has two digits, a trace id four, a header is the sequence of its
fields. `gen` is `LOCAL_ID_GENERATOR` of a process with one thread. `records`,
`perBatch` and `sent` are `spans`, `spans_per_batch` and `sent_spans` of
`try_report`; one action per branch of its loop (`Skip`, `Shrink`, `SendPacket`,
`SendFails`, `Return`). The thrift encoding is `Bytes`, any function from spans to a
length. `packets` and `agent` are history: what was sent of this report, and the
Jaeger spans that left.

*RtTrace.* `enabled`, `queue`, `rxs`, `buffer`, `descriptors`, `initialized`,
`flushedOnce` are the statics and thread-locals of the same names; `holder` is who
holds a shard's lock over a send, `consumer` who holds `GLOBAL_SPAN_CONSUMER`, and
`at` a position in the receivers while `SPSC_RXS` is locked. Drop of a span is
`DropSpan` (the test of `ENABLED`) and `PushSpan` (the shard is locked); the send
of a full batch is `RegisterReceiver`, `SendBatch` or `LoseBatch`, under that lock.
`flush` is `Flush` (tracing off), `FlushShard` and a send per shard, `FlushStart`
(tracing on), `FlushBegin`, the steps of the consumer, `WriteBegin`, a
`ConsumeBatch` per batch and `WriteDone`. `RingBuffer.inner` and `head` are those of
the code. A packet is what it describes and its timestamp. `output` is what the
writer has received; `owner` and `seen` are history.

## Runs

Passing runs check safety with deadlock checking off, because the modelled
program may stop: a thread may make no more calls, a channel may be closed.

| run | bounds | shows |
|---|---|---|
| `spsc` | ring of 2; 2 best-effort and 3 forced messages | no duplicate, no loss, best-effort is a barrier; `Spsc` implements `LossyChannel`; the ring is drained before `ChannelClosed` |
| `cancel` | 2 threads, 2 traces, 3 spans, channels that do not fill up, `cancelable`, flush | cancel and commit honoured, flush and root end complete |
| `parents` | 1 thread, 4 raw spans (local span sets and events among them), two parents, unsampled root, not cancelable | once per token item, danglings carried over, unsampled left out |
| `overflow` | ring of 1, threads end, 2 traces, `cancelable` | held until commit, no collector left behind |
| `adapters` | 2 threads that poll, hand over and flush, 2 raw spans, not cancelable, nothing overflows, fair | local spans of every poll reported; flush complete and it returns; every owed span eventually reported |
| `local` | stack of 2, queue of 2, 3 scopes, 3 raw spans, sampled-in-part and unsampled tokens, both builds, scope order and any order | in scope order no debug assertion of the stack fires, tokens name the innermost span, submitted spans have ended; in any order never misattributed, parents precede, properties on their span |
| `rt` | 2 threads with two of three ids, which may be reused, so that they share a shard or not; 2 shards, batches of 2, channels of 2, buffer of 4, 2 spans, 2 flushes | flush complete, spans in a `SpanQueue` included; written once, in pairs, described first; buffer keeps the newest; pool whole; tracing comes back; no circle of locks |
| `jaeger` | 2 processes, `Half` = 2, 5 spans of size 1 or 4 in packets below 5, headers from elsewhere, fair | what fits is sent once and in order; ids unique until they wrap; the tree connects; `report` returns |

Why the bounds are enough: the interesting orders need two messages parked and one
in the ring (ring of 1 or 2, three forced messages), two channels, two batches and a
command on either side of each cut, a trace next to another one, a scope inside a
scope and a third that follows. In `rt` the ids 0 and 2 share a shard, 0 and 1 do
not (`MCInit` leaves out the id 2 without the id 0, which it would only rename); two
flushes of two shards send four batches and a full queue a fifth, so that a buffer
of four overwrites and a channel of two refuses; vectors come back from the pool to
another thread. In `jaeger` a counter of two values wraps twice, three small spans
share a packet that a large one never fits. Larger values repeat these shapes. The
capacities that do not matter to a run are set so that nothing fills up (8 where at
most 8 commands are sent by one thread). Limits such as `MaxRaw`, `MaxRoot`,
`MaxOpen`, `MaxId`, `MaxSpan` and `MaxFlush` bound counters the program never
resets; `Cancel` is called once per trace and no span is given twice to
`enter_with_parents`.

### Runs that refute

Each of these shows the program doing other than what its documentation or its
own assertion says.

| run | what happens |
|---|---|
| `reordered` | the ring is full: the cancel is parked, `force_send` of the commit retries it in vain (`spsc.rs:51`), the collector pops, the commit goes in by its own push (`spsc.rs:54`), and the batch ends before the cancel is retried: a cancelled trace is reported |
| `exit` | a thread ends between the failed pop and the test for abandonment: its last commands are discarded |
| `last_poll` | the last poll of a task whose span is a root commits the trace, a batch ends, and the local spans of that poll are discarded (`cancelable`) |
| `local_noop` | entering a local span without a local parent panics |

A fifth disagreement needs no run of its own. rt-trace's `flush` says "Note that
this function does not flush spans held in `SpanQueue`. You must drop the
`SpanQueue` for each thread and collect the spans into the consumer thread *before*
calling this function." (`lib.rs:122-124`). The code first flushes the queue of every
shard (`lib.rs:127-133`) and then collects and writes. `FlushComplete` states what the
code does, for every span recorded before the call, whatever queue it is in: it holds
in `rt` and is proved, and it refutes the doc.

The shortest way for a commit to overtake a cancel is the one of `reordered`. There is
another: `pending_messages` is a stack (`spsc.rs:36`, `spsc.rs:47`), so a commit that
is parked after the cancel is retried before it, and is reported when the batch ends in
between. That takes one span more (`MaxRaw = 3`: a later submission makes the retry); in
a model where `force_send` parks its message after a failed retry, which rules out the
way of `reordered`, TLC finds it.

Therefore `cancel` assumes that spans stay on their thread and that channels do
not fill up, `adapters` that nothing is parked and no thread ends; within these
limits the promises hold. The same limits are needed elsewhere, as the model
shows when they are lifted:

- `Migrate = TRUE` breaks `RootReportsChildren` (with `cancelable`, a child dropped
  on another thread before the root may be drained a batch after the commit, and is
  discarded), `CancelHonoured` (root cancelled on one thread and
  dropped on another: the commit may be drained a batch earlier) and `NoOrphan`
  (the commit is processed before the start, and the collector entered then
  stays for ever).
- `Capacity = 2` breaks `OwedIsReported`: the commit of a thread's last trace
  stays parked for ever when the thread makes no further call.
- In a debug build, dropping the `LocalParentGuard` returned for a full stack
  fails the guard's own assertion (`span.rs:616`): `panicked = "token"`.
  `AssertionsHold` is about the assertions of stack, lines and queues, not this one.

### What else was seen

No property states these; the models behave as the code does.

- Events of a span with two parents in one trace are all mounted, twice each, on
  the first of its two records. Attachments submitted after their span's trace was
  committed are dropped (`global_collector.rs:376`); `AttachmentsKept` excludes them.
- `report_before_root_finish(b)` sets `cancelable` to `b`
  (`collector/mod.rs:120`): the opposite of its name.
- A poll without local spans submits an empty set, for which the collector finds
  nothing to do.
- `SpanId::next_id` says "Create a non-zero `SpanId`" (`collector/id.rs:83`); a
  generator with prefix 0 gives 0 when its suffix wraps around, and a child of that
  span reads as a span without parent.
- rt-trace's `flush` sends one batch per shard, empty ones too, and in a buffer of
  two batches per shard the empty ones overwrite the oldest full ones, although it
  says "Flush all spans currently held by the consumer thread." (`lib.rs:119`).
  `FlushComplete` excepts what was overwritten or refused.
- rt-trace's `stop` says "This function flushes spans that the consumer thread has"
  (`lib.rs:78`); it only clears `ENABLED`. The comment on `Drop for SpanQueueStore`
  speaks of the end of a thread (`span_queue.rs:118`), but the store is a static and
  is never dropped: an ending thread leaves its spans in their shard.
- `flush` turns tracing on, also for a program that had called `stop`; spans
  dropped while any thread is in the first part of a flush are not recorded.
- The thread descriptors entered before the first flush and the process descriptor
  are swapped to the front in hash order, so the process descriptor need not be
  first. Descriptors are written once: a program that flushes to several writers
  gives them to the first only. A descriptor packet keeps the timestamp that an
  earlier use left in its vector.
- `Trace::write` says "num_packets is less than DEFAULT_BATCH_SIZE * 2"
  (`perfetto.rs:202`); a full batch is exactly that many packets, and descriptors
  come on top. The vectors hold twice as many, which suffices as long as no more
  than 2 * `BatchSize` descriptors are new at once (`RtAssumption`).
- A thread that gets the number of an earlier unnamed one panics at its first span
  (`NewSpanPanics`).

### Fairness

`Spsc`: a call runs to its end and the collector polls for ever, so weak
fairness of the sender's steps after `Call` and of the receiver. Nothing makes a
thread call again or end. `Collector`, as `adapters` uses it: weak fairness of
the collector (the loop of the background thread), strong
fairness of a thread that waits for `SPSC_RXS` or `GLOBAL_COLLECTOR`, because
parking_lot's mutexes are eventually fair and the background thread sleeps between
turns; weak fairness of the end of a thread once it has begun. No fairness for
calls. `Jaeger`: weak fairness of the loop of `try_report`, which runs in one thread
and sends without blocking for ever. `RtTrace`: none; that its locks form no circle
is the invariant `NeverStuck`.

## Proofs

Eight modules hold theorems and lemmas, each for every value of the constants that
their assumptions allow. Of the 40 properties that the passing runs check, these
have a theorem:

| module | theorems | hypotheses beyond the specification |
|---|---|---|
| `SpscProofs` | `TypeOK`, `NoDuplicate`, `NothingLostWhileOpen`, `SendIsBarrier`, `KeepsPromise` | none |
| `CollectorProofs` | `TypeOK`, `UnsampledStaysOut`, `HeldUntilCommit` | none |
| | `NoOrphan`, `RootReportsChildren` | `~Migrate` |
| | `CancelHonoured` | `~Migrate`, `[]NothingParked` |
| | `FlushReports` | `MayExit = {}` and, when `Cancelable`, those of `CancelHonoured` |
| `DeliveryProofs` | `ReportedOnce` | none |
| | `AttachmentsKept` | `~Migrate`, `[]AllCollected`: `Cancelable`, or no start is refused and no trace cancelled |
| `AdapterProofs` | `NothingMissing` | `~Cancelable`, `MayExit = {}`, `[]Room` |
| `LocalSpanStackProofs` | `TypeOK`, `NeverMisattributed`, `ParentsPrecede`, `PropertiesOnTheirSpan`, `AssertionsHold`, `TokenNamesInnermost`, `ScopesWhole` | none (the last three are about programs that drop guards in scope order, as the properties say) |
| `JaegerProofs` | `TypeOK`, `SentUnlessTooLarge`, `PacketsInOrder`, `IdsUnique`, `TreeConnects` | none |
| `RtTraceProofs` | `KeepsNewest`, `TypeOK`, `TracingComesBack`, `PoolStable`, `FlushComplete`, `WrittenWhole`, `DescribedFirst` | none |

`SpscProofs` proves `Spec => []I` for the four safety properties of `Spsc`:
`TypeCorrect`, `NeverDuplicated`, `NeverLostWhileOpen`, `BestEffortIsBarrier`, for
every capacity and every finite or infinite set of messages. The assumptions are
those of `SpscChannel` and `Spsc`: the capacity is a natural number, forced messages
are messages, `NoMsg` is none. The properties are not inductive one by one. The
invariant `IInv` adds `CallInv`: the message of the call in progress is new
(otherwise a push could duplicate it), what is on its way was accepted, `send`
reaches its own push only with nothing parked (this is what makes it a barrier), a
receiver that was told of the end implies that the sender is gone, and a sender that
is gone has nothing parked. The lemmas first settle what appending, popping and
taking the last element do to ranges, injectivity and order, then one lemma per kind
of step proves that `IInv` is preserved, and `StepInv` gathers the disjuncts of
`Next`.

`SpscProofs` also proves `Spec => KeepsPromise`, the refinement of `LossyChannel`
that `spsc` checks: `IInv` holds in every state, and under it each action maps to
accepting, refusing, delivering or discarding one message, to the end or the close of
the channel, or to a stutter. `IInv` is needed for the new message of a push and for
the receiver that closes only after its sender is gone.

`JaegerProofs` proves `SentUnlessTooLarge` and `PacketsInOrder` for every number of
processes and spans, every packet size and any function `Bytes`. The invariant adds
that while the loop has records to send `perBatch` is not 0, which is why a batch that
is skipped is a single span, and that `packets` is empty between reports.

For the ids it first settles the arithmetic, for every even `Half`: the recursive
function in `Value` exists and adds up digit by digit (`ValueSums`), a field that parses
is small enough for its type, leading zeros or not (`ValueFits`), a context comes back
from its header as it was (`ContextReadsBack`), and the agent reads from the signed
words what the collector wrote (`ConvertReads`). The invariant `IdsInv` then says where a
generator stands: its counter is the last digit of each id it made plus the spans its
process has made since, modulo `Half` (`Counted`). Two ids of one generator are equal
only if that number is at least `Half` (`FullCircle`), and ids of two generators differ in
their prefix. `Connected` and `Arrives` say that each span has the trace of the first, the
id of its parent, and that what is on its way to the agent is what a reporter was given.
That generators have different prefixes is the assumption the code makes of its random
numbers.

`RtTraceProofs` proves `KeepsNewest`: whatever threads and flushes do, the drained
buffer is the newest `2 * Shards` batches that arrived, in order. The invariant adds
the shape of the buffer (`WellFormed`: the head moves only when it is full); the
central lemma compares the drained buffer before and after a push, element by
element, across the wrap-around of the head.

The rest of `RtTraceProofs` goes in layers. `FlowInv` has the types, who holds the lock of a shard
and the consumer, and that tracing is off only while somebody is between the two ends of
a flush. `SourceInv` has the pool and the descriptors: the two vectors of the pool are
distinct values of a known shape, a descriptor that is marked as flushed is in the
output. `PlaceInv` says where a recorded span is: in exactly one shard, channel, buffer
slot, drained batch or packet pair, or lost for a reason the history names. `AskedInv`
follows what a flush waits for from there through its phases (shards emptied, channels
drained, batches written). `OutputInv` adds that written packets stand in pairs, once,
behind the descriptor of their thread. A layer uses those before it and is proved
separately: spans move on every step, so a single invariant would need one proof per
action and conjunct.

`LocalSpanStackProofs` has two invariants. `AnyOrderInv` assumes nothing about the
program: epochs grow from line to line, ids and parents within a queue come from its own
scope, a guard refers to spans of its own epoch or to none. It is what makes a handle
that outlives its line harmless. `NestInv`, for guards dropped in scope order, says that
the guards mirror the lines: the open span guards of a scope are the unfinished spans
of its queue, in their order, and `next` is the last of them.

`CollectorProofs` starts from the values: what post-processing, a batch and the bag
of records hold, as sets of pairs of trace and span (`BatchEffect`). `StepKinds`
then reduces the 23 actions to seven effects on commands (made, pushed, parked,
lost, unparked, received, processed), on which every later invariant is proved.
`AcceptedInv` gives `HeldUntilCommit`. The start of a trace must reach the collector
before its commit: each trace has one root (`RootInv`) and one thread (`HomeInv`),
so one channel carries it, where the start leads (`FirstInv`); this gives
`NoOrphan`. A span that is accepted before the commit stays ahead of it in the
channel, then in the batch or with its collector (`KeptInv`), and nothing follows a
commit (`OnceInv`); this gives `RootReportsChildren`. `CancelInv` says that a
cancelled trace has no collector or a cancellation that is ahead of any commit.
`FlushInv` splits what a flush waits for into reported, drained, and in a channel
that the scan has not passed. The hypotheses are those of the runs, and the refuting
runs and the paragraphs above show that each is needed: with `Migrate` a commit can
overtake the start or the spans of its trace on another channel; a parked command is
overtaken by those parked after it or pushed after a failed retry, and waits for the
next call of its thread, which no flush makes; the last commands of a thread that
ends may be discarded. `NothingParked` holds for ever in any program whose threads
never send more between two drains than a channel holds. The module assumes of the
names "none" and "loop" of the model that no thread has them.

`DeliveryProofs` proves `ReportedOnce` without counting. The places of a span, for one
trace and one parent, are where a record of it can come from: a span in the set of a
submission on its way, once per item of the command's token, the same in what the
collector drained and holds, and the records reported, taken one by one. They form one
disjoint union over threads, channels, batch, collectors and reports (`Everywhere`). A
set is no larger than another if there is an injection (`\preceq`), and injections
compose and pass through unions, filters and concatenations, which induction over
sequences would not do here: every step of `StepKinds` maps the places after it into
those before it, and post-processing a batch maps its records into the collections they
come from (`BatchSpots`). Only a call makes new places, for a span that has none: the
span it drops was alive, the local span it collects has a new id (`Told`). It makes no
more than the token has items, and the token of a span that has ended stays as it is.
So `SpotsInv`, that the places inject into the items, is inductive, and nothing needs to
be assumed of the channels or of the threads.

`DeliveryProofs` also proves `AttachmentsKept`. A span ends before it is submitted, once
and behind its events and properties or with them, on the channel of its trace
(`PairInv`: what a call has still to submit was not on its way before). `MountInv` says
of each such attachment where it can be as long as its span can be reported: with the
collector of its trace, among the raw spans or in the dangling list of the span
(`Waits`); in the batch, or in a channel not behind its span (`Coming`); on the record
already (`Mounted`); or its span was dropped on the way (`Missed`), or its trace is over
and cancelable (`Shut`). `BatchMounts` shows that a batch keeps to this, from what
`postprocess_span_collection` does with a dangling list (`PostprocessKeeps`): the first
record of a span takes all of it, a list without its span stays. A batch that commits a
trace discards its list, so the span must not be still to come: it is not behind the
commit in its channel (`InTime`). The hypotheses are needed, as TLC shows on instances
like those of the runs: on another channel the span can overtake its attachment or come
after the commit; and when traces are not cancelable, the spans of a trace without
collector are reported with a dangling list that lasts one batch, so an attachment that
was drained earlier is lost.

`AdapterProofs`: a poll is one more call of the span API, so the invariants of
`CollectorProofs` hold in `AdapterSpec` too. `PolledInv` adds that a local span of a
poll is owed or in the commands that its thread is about to send. `Room`, that no
thread finds its channel full, holds in the `adapters` run, whose channels never fill;
without it a submission may be lost, as its best effort allows.

`DataInduction`: the library's induction theorems take an operator as a parameter, which
the provers at hand cannot instantiate. They can instantiate a set: a set that contains 0
and with each number the next one contains all (`NatSetInduction`, from the
well-foundedness of <), and a fold is pinned down by the function of its prefixes
(`FlattenPrefixes`, `FlattenRange`). For the same reason `Postprocess` and `Collector`
filter sequences with `Select`, a fold, in place of `SelectSeq`.

Only model-checked:

- liveness and fairness: `OwedIsReported`, `FlushReturns`, `ReportReturns`,
  `DrainedBeforeClosed`; and `NeverStuck`, which speaks of ENABLED.

## Not modelled

- Generated Perfetto code: 26571 of the 35366 lines of implementation. It is data
  types and their encoding, without state; nothing of it can be covered by a
  model, so the map covers a small share of the whole and a larger one of
  fastrace's and rt-trace's own run time.
- The macro (compile time), the console, test, Datadog and OpenTelemetry reporters
  (conversion and one call of a client each), `tree.rs` (a test helper), examples and
  benchmarks.
- `set_reporter` after spans exist, and a program without reporter (spans are
  then no-ops).
- The order in which a panic drops guards.
- rt-trace: `RuntimeStart` spans, on which the backend panics; a writer that fails,
  whose error `consume` unwraps (`perfetto.rs:209-210`), so that `flush` panics with
  the batches it has drained; `initialize` more than once; a span dropped on another
  thread than its own; more than `2 * BatchSize` descriptors in one batch.
- Jaeger: the collector in front of the reporter, which `Collector` models; packets
  lost on the way.
- Timestamps, names, formatting, serialization, network I/O.
- `wasm`, where `flush` runs on the caller and there is no background thread.
