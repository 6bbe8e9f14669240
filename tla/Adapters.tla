------------------------------ MODULE Adapters ------------------------------
(***************************************************************************)
(* Spans bound to futures, streams and sinks: InSpan of                    *)
(* fastrace/src/future.rs and fastrace-futures/src/lib.rs, on top of the   *)
(* collection pipeline.                                                    *)
(*                                                                         *)
(* A task is an adapter with the span it was given; executors poll it on   *)
(* any thread that may use the span, one at a time.  A poll makes the span *)
(* the local parent, and what a thread does inside the inner poll (its     *)
(* calls, the polls of inner adapters) comes before it here.  The local    *)
(* spans of a poll, those of EnterOnPoll among them, are one or none.      *)
(***************************************************************************)
EXTENDS Collector

VARIABLES
  bound,    \* the spans held by an adapter
  polled    \* history: the local spans that ended in polls, each with a trace

adapterVars == <<vars, bound, polled>>

AdapterInit == Init /\ bound = {} /\ polled = {}

\* FutureExt::in_span, StreamExt::in_span, SinkExt::in_span take the span.
InSpan(t, s) ==
  /\ Idle(t) /\ MayUse(t, s)
  /\ s \notin bound /\ \A u \in Thread : borrow[u] # s
  /\ bound' = bound \cup {s}
  /\ UNCHANGED <<vars, polled>>

\* The adapter is behind a &mut, no other thread polls it.
MayPoll(t, s) ==
  /\ Idle(t) /\ MayUse(t, s) /\ s \in bound
  /\ \A u \in Thread : borrow[u] # s

LocalSpans(n) == [i \in 1 .. n |-> Raw(nextRaw, NoParent, "Span")]

\* Drop for LocalParentGuard: an empty set is submitted too.
DropGuard(s, n) == SubmitSpans(LocalSpans(n), IssueCollectToken(s))

Polled(s, n) ==
  {<<item.collect, nextRaw>> : item \in {x \in ToSet(spans[s].token) : n = 1 /\ IsSampled(x)}}

\* A poll after which the span lives on: Pending, an item of a stream, and
\* any call on a sink but the last poll_close.  One without local spans
\* changes nothing that is reported, and is left out.
PollYield(t, s) ==
  /\ MayPoll(t, s)
  /\ nextRaw <= MaxRaw
  /\ nextRaw' = nextRaw + 1
  /\ Issue(t, s, DropGuard(s, 1))
  /\ polled' = polled \cup Polled(s, 1)
  /\ UNCHANGED <<bound, spans, nextRoot, thread, past, chan, rxs, collVars, seen>>

\* Mutant: the local spans are forgotten with the span.
LastPollMutant(s, n) == SpanDropped(s)

\* span.take() comes before the guard goes out of scope.
LastPoll(s, n) == SpanDropped(s) \o DropGuard(s, n)

\* A future is ready, a stream ends, a sink is closed.
PollFinish(t, s, n) ==
  /\ MayPoll(t, s)
  /\ nextRaw + n <= MaxRaw + 1
  /\ nextRaw' = nextRaw + n
  /\ spans' = [spans EXCEPT ![s].live = FALSE]
  /\ bound' = bound \ {s}
  /\ Issue(t, NoSpan, LastPoll(s, n))
  /\ polled' = polled \cup Polled(s, n)
  /\ UNCHANGED <<nextRoot, thread, past, chan, rxs, collVars, seen>>

\* An adapter is dropped before it has finished.
DropTask(t, s) ==
  /\ s \in bound
  /\ bound' = bound \ {s}
  /\ DropSpan(t, s)
  /\ UNCHANGED polled

\* Calls on spans that no adapter holds.  A child of one that is held is
\* made inside a poll, by Span::enter_with_local_parent.
FreeCall(t) ==
  /\ \/ Root(t) \/ UnsampledRoot(t)
     \/ \E s \in SpanId :
          s \notin bound /\ (Attach(t, s) \/ PushChildSpans(t, s) \/ Cancel(t, s) \/ DropSpan(t, s))
     \/ \E n \in 1 .. MaxParents : \E parents \in [1 .. n -> SpanId] : Child(t, parents)
  /\ UNCHANGED <<bound, polled>>

TaskCall(t) ==
  \E s \in SpanId :
     \/ InSpan(t, s) \/ PollYield(t, s) \/ DropTask(t, s)
     \/ \E n \in 0 .. 1 : PollFinish(t, s, n)

\* The steps of Collector that are not calls.
Rest ==
  /\ \/ \E t \in Thread : Send(t) \/ Flush(t) \/ ExitThread(t) \/ ExitDrain(t) \/ ExitDone(t)
     \/ Collect
  /\ UNCHANGED <<bound, polled>>

AdapterNext == (\E t \in Thread : FreeCall(t) \/ TaskCall(t)) \/ Rest

AdapterSpec == AdapterInit /\ [][AdapterNext]_adapterVars

FairAdapterSpec == AdapterSpec /\ Fairness

-----------------------------------------------------------------------------
\* Nothing is on its way to the collector.
Quiet ==
  /\ runner = "none"
  /\ \A t \in Thread : todo[t] = <<>> /\ chan[t].ring = <<>> /\ chan[t].pending = <<>>

\* The local spans of a poll ended before the span of its task did: when the
\* trace is finished and nothing is on its way, they are reported, also those
\* of the last poll, whose guard submits them after the root was committed,
\* and those whose polls other threads made.
PolledReported == Quiet => \A p \in polled : p[1] \in seen.done => p \in Got

\* Nothing that is due is missing: neither when flush returns, whichever
\* threads spans went through, nor after the last poll of a task.
NothingMissing == FlushReports /\ PolledReported
=============================================================================
