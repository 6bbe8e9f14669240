----------------------------- MODULE Collector -----------------------------
(***************************************************************************)
(* fastrace's collection pipeline: the Span API (fastrace/src/span.rs)     *)
(* turned into commands, one command channel per thread                    *)
(* (fastrace/src/util/spsc.rs), and the global collector                   *)
(* (fastrace/src/collector/global_collector.rs), run by its background     *)
(* thread and by flush().                                                  *)
(*                                                                         *)
(* Each access of a thread to its channel is a step, each try_recv of the  *)
(* collector is one or two steps, and the collector processes a batch in   *)
(* one step, holding the GLOBAL_COLLECTOR lock and touching nothing that   *)
(* the threads read.  The reporter was set before the first span.          *)
(***************************************************************************)
EXTENDS SpscChannel, Postprocess, FiniteSets, Bags

CONSTANTS
  Thread,        \* the threads that create and drop spans
  Cancelable,    \* Config::cancelable
  Migrate,       \* spans may be used by threads that did not create them
  MayExit,       \* the threads that may end
  MaxRaw,        \* bound: raw spans ever created (spans and attachments)
  MaxRoot,       \* bound: sampled roots ever created
  MaxParents,    \* bound: parents given to enter_with_parents
  Ops            \* the calls the threads make, a subset of AllOps

AllOps == {"root", "unsampled", "child", "attach", "push", "cancel", "flush"}

ASSUME CollectorAssumption ==
  /\ Cancelable \in BOOLEAN /\ Migrate \in BOOLEAN
  /\ MayExit \subseteq Thread /\ {"none", "loop"} \cap Thread = {}
  /\ MaxRaw \in Nat /\ MaxRoot \in Nat /\ MaxParents \in Nat
  /\ Ops \subseteq AllOps

NotSampled == 0             \* NOT_SAMPLED_COLLECT_ID
CollectId  == 1 .. MaxRoot
SpanId     == 1 .. MaxRaw
NoSpan     == 0

VARIABLES
  spans,      \* Span objects by id: [live, home, token, collect]
  nextRaw,    \* SpanId::next_id
  nextRoot,   \* NEXT_COLLECT_ID
  thread,     \* what each thread does, see ThreadState
  todo,       \* the commands left of each thread's call in progress
  borrow,     \* the span the call in progress borrows
  past,       \* force_send is past its retry loop
  chan,       \* each thread's command channel
  rxs,        \* SPSC_RXS: the threads whose receiver is registered, in order
  runner,     \* who holds GLOBAL_COLLECTOR and runs handle_commands
  at,         \* the position in rxs of the receiver drained, 0: none
  empty,      \* the pop of the current try_recv failed
  batch,      \* the commands drained so far
  active,     \* active_collectors
  reported,   \* the bag of records the reporter received
  seen        \* history, see Record

vars == <<spans, nextRaw, nextRoot, thread, todo, borrow, past, chan, rxs,
          runner, at, empty, batch, active, reported, seen>>

appVars  == <<spans, nextRaw, nextRoot, borrow>>
collVars == <<runner, at, empty, batch, active, reported>>

ThreadState == {"run", "flush", "exit", "gone"}

-----------------------------------------------------------------------------
(* Commands and tokens. *)

Item(collect, parent) == [collect |-> collect, parent |-> parent]

StartCollect(c)  == [cmd |-> "start",  collect |-> c]
DropCollect(c)   == [cmd |-> "drop",   collect |-> c]
CommitCollect(c) == [cmd |-> "commit", collect |-> c]

\* Mutant: is_sampled is not looked at.
IsSampledMutant(item) == TRUE

IsSampled(item) == item.collect # NotSampled

\* submit_spans: unsampled items are removed, nothing is sent for none.
SubmitSpans(set, token) ==
  LET sampled == Select(token, IsSampled)
  IN  IF sampled = <<>> THEN <<>>
      ELSE <<[cmd |-> "submit", set |-> set, token |-> sampled]>>

\* Mutant: StartCollect is forced too.
ForcedMutant(cmd) == cmd.cmd # "submit"

Forced(cmd) == cmd.cmd \in {"drop", "commit"}

\* issue_collect_token: the token of a child of span s.
IssueCollectToken(s) ==
  [i \in DOMAIN spans[s].token |-> Item(spans[s].token[i].collect, s)]

\* One collection per token item, see handle_commands.
Copies(cmd) ==
  [i \in DOMAIN cmd.token |-> [set    |-> cmd.set,
                               trace  |-> cmd.token[i].collect,
                               parent |-> cmd.token[i].parent]]

-----------------------------------------------------------------------------
(* History, written by the steps and read only by the properties:          *)
(*   sent       the amended raw spans whose command a channel accepted     *)
(*   started, cancelled, committed   collect ids whose command was accepted *)
(*   done       collect ids whose commit was processed                     *)
(*   owed       pairs <<trace, span>> the reporter must eventually get     *)
(*   mount      attachments that must be on the record of their span       *)
(*   asked      what was owed when a thread called flush                   *)
(*   due        what was owed when a flush that has returned was called    *)

Pair(a) == <<a.trace, a.id>>

\* A span is owed once it is submitted or, when traces are cancelable, once
\* its trace is committed after it.  Its attachments, accepted before it,
\* belong on its record if its trace was not committed yet.
Record(cmd) ==
  CASE cmd.cmd = "start" ->
         [seen EXCEPT !.started = @ \cup {cmd.collect}]
    [] cmd.cmd = "drop" ->
         [seen EXCEPT !.cancelled = @ \cup {cmd.collect}]
    [] cmd.cmd = "commit" ->
         [seen EXCEPT
            !.committed = @ \cup {cmd.collect},
            !.owed = IF Cancelable /\ cmd.collect \in seen.started \ seen.cancelled
                     THEN @ \cup {Pair(a) : a \in {x \in seen.sent :
                                            IsSpan(x) /\ x.trace = cmd.collect}}
                     ELSE @]
    [] cmd.cmd = "submit" ->
         LET new  == ToSet(AmendAll(Copies(cmd)))
             open == {a \in new : IsSpan(a) /\ a.trace \notin seen.committed}
         IN  [seen EXCEPT
                !.sent = @ \cup new,
                !.owed = IF Cancelable THEN @ ELSE @ \cup {Pair(a) : a \in {x \in new : IsSpan(x)}},
                !.mount = @ \cup {a \in seen.sent \cup new :
                                    /\ IsAttachment(a)
                                    /\ <<a.trace, a.parent>> \in {Pair(x) : x \in open}}]

-----------------------------------------------------------------------------
Init ==
  /\ spans = [s \in {} |-> <<>>]
  /\ nextRaw = 1
  /\ nextRoot = 1
  /\ thread = [t \in Thread |-> "run"]
  /\ todo = [t \in Thread |-> <<>>]
  /\ borrow = [t \in Thread |-> NoSpan]
  /\ past = [t \in Thread |-> FALSE]
  /\ chan = [t \in Thread |-> NewChannel]
  /\ rxs = <<>>
  /\ runner = "none"
  /\ at = 0
  /\ empty = FALSE
  /\ batch = <<>>
  /\ active = [c \in {} |-> <<>>]
  /\ reported = EmptyBag
  /\ seen = [sent |-> {}, started |-> {}, cancelled |-> {}, committed |-> {},
             done |-> {}, owed |-> {}, mount |-> {}, asked |-> [t \in Thread |-> {}], due |-> {}]

-----------------------------------------------------------------------------
(* Calls of the Span API.  A call computes its commands and sends them in   *)
(* the steps that follow; the thread makes no other call in between.        *)

Idle(t) == thread[t] = "run" /\ todo[t] = <<>>

\* Span::root sends StartCollect before it returns the span.
BeingCreated(s) ==
  \E t \in Thread : todo[t] # <<>> /\ todo[t][1] = StartCollect(spans[s].collect)

Live(s) == s \in DOMAIN spans /\ spans[s].live /\ ~BeingCreated(s)

\* Thread t may use span s: it owns it or holds a shared reference.
MayUse(t, s) == Live(s) /\ (Migrate \/ spans[s].home = t)

NewSpan(t, token, collect) ==
  spans' = [s \in DOMAIN spans \cup {nextRaw} |->
              IF s = nextRaw
              THEN [live |-> TRUE, home |-> t, token |-> token, collect |-> collect]
              ELSE spans[s]]

Issue(t, s, cmds) ==
  /\ todo' = [todo EXCEPT ![t] = cmds]
  /\ borrow' = [borrow EXCEPT ![t] = IF cmds = <<>> THEN NoSpan ELSE s]

\* Span::root with a sampled parent context.
Root(t) ==
  /\ Idle(t) /\ "root" \in Ops
  /\ nextRaw <= MaxRaw /\ nextRoot <= MaxRoot
  /\ NewSpan(t, <<Item(nextRoot, NoParent)>>, nextRoot)
  /\ nextRaw' = nextRaw + 1
  /\ nextRoot' = nextRoot + 1
  /\ Issue(t, NoSpan, <<StartCollect(nextRoot)>>)
  /\ UNCHANGED <<thread, past, chan, rxs, collVars, seen>>

\* Span::root with a parent context that is not sampled: nothing is started.
UnsampledRoot(t) ==
  /\ Idle(t) /\ "unsampled" \in Ops
  /\ nextRaw <= MaxRaw
  /\ NewSpan(t, <<Item(NotSampled, NoParent)>>, NotSampled)
  /\ nextRaw' = nextRaw + 1
  /\ UNCHANGED <<nextRoot, thread, todo, borrow, past, chan, rxs, collVars, seen>>

\* Span::enter_with_parent and Span::enter_with_parents.  collect is -1, not
\* an id: only a root commits or cancels a trace.
Child(t, parents) ==
  /\ Idle(t) /\ "child" \in Ops
  /\ nextRaw <= MaxRaw
  /\ \A i \in DOMAIN parents : MayUse(t, parents[i])
  /\ IsInjective(parents)   \* bound: no span is given twice
  /\ NewSpan(t, FlattenSeq([i \in DOMAIN parents |-> IssueCollectToken(parents[i])]), -1)
  /\ nextRaw' = nextRaw + 1
  /\ UNCHANGED <<nextRoot, thread, todo, borrow, past, chan, rxs, collVars, seen>>

\* Span::add_event and Span::add_properties: a pseudo child, submitted now.
Attach(t, s) ==
  /\ Idle(t) /\ "attach" \in Ops
  /\ nextRaw <= MaxRaw /\ MayUse(t, s)
  /\ nextRaw' = nextRaw + 1
  /\ Issue(t, s, SubmitSpans(<<Raw(nextRaw, NoParent, "Attachment")>>, IssueCollectToken(s)))
  /\ UNCHANGED <<spans, nextRoot, thread, past, chan, rxs, collVars, seen>>

\* Span::push_child_spans, and LocalParentGuard::drop while its span is alive:
\* here a local span and an event in it, collected by the thread.
PushChildSpans(t, s) ==
  /\ Idle(t) /\ "push" \in Ops
  /\ nextRaw + 1 <= MaxRaw /\ MayUse(t, s)
  /\ nextRaw' = nextRaw + 2
  /\ Issue(t, s, SubmitSpans(<<Raw(nextRaw, NoParent, "Span"),
                               Raw(nextRaw + 1, nextRaw, "Attachment")>>,
                             IssueCollectToken(s)))
  /\ UNCHANGED <<spans, nextRoot, thread, past, chan, rxs, collVars, seen>>

\* Span::cancel on a root; on any other span it does nothing.
Cancel(t, s) ==
  /\ Idle(t) /\ "cancel" \in Ops
  /\ MayUse(t, s) /\ spans[s].collect # -1
  /\ spans[s].collect \notin seen.cancelled   \* bound: one cancel per trace
  /\ Issue(t, s, <<DropCollect(spans[s].collect)>>)
  /\ UNCHANGED <<spans, nextRaw, nextRoot, thread, past, chan, rxs, collVars, seen>>

\* Drop for Span: submit it, then commit if it is a root.
SpanDropped(s) ==
  SubmitSpans(<<Raw(s, NoParent, "Span")>>, spans[s].token)
    \o (IF spans[s].collect = -1 THEN <<>> ELSE <<CommitCollect(spans[s].collect)>>)

\* No other thread still borrows it.
DropSpan(t, s) ==
  /\ Idle(t) /\ MayUse(t, s)
  /\ \A u \in Thread : borrow[u] # s
  /\ spans' = [spans EXCEPT ![s].live = FALSE]
  /\ Issue(t, NoSpan, SpanDropped(s))
  /\ UNCHANGED <<nextRaw, nextRoot, thread, past, chan, rxs, collVars, seen>>

Call(t) ==
  \/ Root(t) \/ UnsampledRoot(t)
  \/ \E s \in SpanId : Attach(t, s) \/ PushChildSpans(t, s) \/ Cancel(t, s) \/ DropSpan(t, s)
  \/ \E n \in 1 .. MaxParents : \E parents \in [1 .. n -> SpanId] : Child(t, parents)

-----------------------------------------------------------------------------
(* Sending the next command of a call, see Spsc. *)

Cmd(t) == todo[t][1]

Sending(t) == thread[t] = "run" /\ todo[t] # <<>>

Draining == at # 0   \* SPSC_RXS is locked

\* The first use of the thread-local COMMAND_SENDER.
RegisterReceiver(t) ==
  /\ Sending(t)
  /\ t \notin ToSet(rxs) /\ ~Draining
  /\ rxs' = Append(rxs, t)
  /\ UNCHANGED <<appVars, thread, todo, past, chan, collVars, seen>>

Ready(t) == Sending(t) /\ (t \in ToSet(rxs))

RetryPending(t) ==
  /\ Ready(t) /\ ~past[t]
  /\ chan[t].pending # <<>> /\ HasRoom(chan[t])
  /\ chan' = [chan EXCEPT ![t] = PushPending(@)]
  /\ UNCHANGED <<appVars, thread, todo, past, rxs, collVars, seen>>

\* force_send leaves the retry loop with messages still pending.
ForceRetryFull(t) ==
  /\ Ready(t) /\ ~past[t] /\ Forced(Cmd(t))
  /\ chan[t].pending # <<>> /\ ~HasRoom(chan[t])
  /\ past' = [past EXCEPT ![t] = TRUE]
  /\ UNCHANGED <<appVars, thread, todo, chan, rxs, collVars, seen>>

\* The call's command is dealt with.
Finish(t) ==
  /\ todo' = [todo EXCEPT ![t] = Tail(@)]
  /\ past' = [past EXCEPT ![t] = FALSE]
  /\ borrow' = [borrow EXCEPT ![t] = IF Len(todo[t]) = 1 THEN NoSpan ELSE @]

AtPush(t) == Ready(t) /\ (past[t] \/ chan[t].pending = <<>>)

PushCommand(t) ==
  /\ AtPush(t) /\ HasRoom(chan[t])
  /\ chan' = [chan EXCEPT ![t] = Push(@, Cmd(t))]
  /\ seen' = Record(Cmd(t))
  /\ Finish(t)
  /\ UNCHANGED <<spans, nextRaw, nextRoot, thread, rxs, collVars>>

ParkCommand(t) ==
  /\ AtPush(t) /\ ~HasRoom(chan[t]) /\ Forced(Cmd(t))
  /\ chan' = [chan EXCEPT ![t] = Park(@, Cmd(t))]
  /\ seen' = Record(Cmd(t))
  /\ Finish(t)
  /\ UNCHANGED <<spans, nextRaw, nextRoot, thread, rxs, collVars>>

\* send returns ChannelFull, and send_command ignores it.
LoseCommand(t) ==
  /\ Ready(t) /\ ~HasRoom(chan[t]) /\ ~Forced(Cmd(t))
  /\ Finish(t)
  /\ UNCHANGED <<spans, nextRaw, nextRoot, thread, chan, rxs, collVars, seen>>

Send(t) ==
  \/ RegisterReceiver(t) \/ RetryPending(t) \/ ForceRetryFull(t)
  \/ PushCommand(t) \/ ParkCommand(t) \/ LoseCommand(t)

-----------------------------------------------------------------------------
(* A thread ends: its Sender is dropped with the other thread-locals. *)

ExitThread(t) ==
  /\ Idle(t) /\ t \in MayExit
  /\ Migrate \/ \A s \in SpanId : ~MayUse(t, s)
  /\ thread' = [thread EXCEPT ![t] = "exit"]
  /\ UNCHANGED <<appVars, todo, past, chan, rxs, collVars, seen>>

ExitDrain(t) ==
  /\ thread[t] = "exit" /\ chan[t].pending # <<>>
  /\ chan' = [chan EXCEPT ![t] = DrainPending(@)]
  /\ UNCHANGED <<appVars, thread, todo, past, rxs, collVars, seen>>

ExitDone(t) ==
  /\ thread[t] = "exit" /\ chan[t].pending = <<>>
  /\ chan' = [chan EXCEPT ![t] = Abandon(@)]
  /\ thread' = [thread EXCEPT ![t] = "gone"]
  /\ UNCHANGED <<appVars, todo, past, rxs, collVars, seen>>

-----------------------------------------------------------------------------
(* The collector. *)

\* flush() spawns a thread that waits for GLOBAL_COLLECTOR, and joins it.
Flush(t) ==
  /\ Idle(t) /\ "flush" \in Ops
  /\ thread' = [thread EXCEPT ![t] = "flush"]
  /\ seen' = [seen EXCEPT !.asked[t] = seen.owed]
  /\ UNCHANGED <<appVars, todo, past, chan, rxs, collVars>>

\* handle_commands starts: the lock is free, the receivers are locked too.
Begin(who) ==
  /\ runner = "none"
  /\ runner' = who
  /\ at' = 1
  /\ UNCHANGED <<appVars, thread, todo, past, chan, rxs, empty, batch, active, reported, seen>>

LoopBegin     == Begin("loop")
FlushBegin(t) == thread[t] = "flush" /\ Begin(t)

Current == rxs[at]

AtReceiver == at \in DOMAIN rxs

\* try_recv returns a command.
RecvCommand ==
  /\ AtReceiver /\ ~empty
  /\ chan[Current].ring # <<>>
  /\ batch' = Append(batch, Head(chan[Current].ring))
  /\ chan' = [chan EXCEPT ![Current] = Pop(@)]
  /\ UNCHANGED <<appVars, thread, todo, past, rxs, runner, at, empty, active, reported, seen>>

RecvEmpty ==
  /\ AtReceiver /\ ~empty
  /\ chan[Current].ring = <<>>
  /\ empty' = TRUE
  /\ UNCHANGED <<appVars, thread, todo, past, chan, rxs, runner, at, batch, active, reported, seen>>

\* Mutants: the last answer is not forgotten; the same receiver again.
RecvNoneMutantReset ==
  /\ AtReceiver /\ empty /\ chan[Current].open
  /\ at' = at + 1
  /\ UNCHANGED <<appVars, thread, todo, past, chan, rxs, runner, empty, batch, active, reported, seen>>
RecvNoneMutantAgain ==
  /\ AtReceiver /\ empty /\ chan[Current].open
  /\ empty' = FALSE
  /\ UNCHANGED <<appVars, thread, todo, past, chan, rxs, runner, at, batch, active, reported, seen>>

\* Ok(None): the receiver is kept.
RecvNone ==
  /\ AtReceiver /\ empty /\ chan[Current].open
  /\ empty' = FALSE
  /\ at' = at + 1
  /\ UNCHANGED <<appVars, thread, todo, past, chan, rxs, runner, batch, active, reported, seen>>

\* Err(ChannelClosed): retain_mut drops the receiver and what it holds.
RecvClosed ==
  /\ AtReceiver /\ empty /\ ~chan[Current].open
  /\ empty' = FALSE
  /\ rxs' = RemoveAt(rxs, at)
  /\ UNCHANGED <<appVars, thread, todo, past, chan, runner, at, batch, active, reported, seen>>

\* Mutant: the last receiver is left out.
RecvDoneMutant ==
  /\ at # 0 /\ at >= Len(rxs) /\ ~empty
  /\ at' = 0
  /\ UNCHANGED <<appVars, thread, todo, past, chan, rxs, runner, empty, batch, active, reported, seen>>

\* Unlocks SPSC_RXS.
RecvDone ==
  /\ at = Len(rxs) + 1
  /\ at' = 0
  /\ UNCHANGED <<appVars, thread, todo, past, chan, rxs, runner, empty, batch, active, reported, seen>>

Ids(kind) == {m.collect : m \in {x \in ToSet(batch) : x.cmd = kind}}

NewCollector == [colls |-> <<>>, danglings |-> NoDanglings]

\* In the order of submission.
Submitted ==
  FlattenSeq([i \in DOMAIN batch |-> IF batch[i].cmd = "submit" THEN Copies(batch[i]) ELSE <<>>])

\* Mutant: cancellations are ignored.
StartedMutant ==
  [c \in DOMAIN active \cup Ids("start") |->
     IF c \in Ids("start") THEN NewCollector ELSE active[c]]

\* Starts first, then cancellations, whatever the order they were drained in.
Started ==
  [c \in (DOMAIN active \cup Ids("start")) \ Ids("drop") |->
     IF c \in Ids("start") THEN NewCollector ELSE active[c]]

\* Mutant: submissions before starts.
FilledMutant ==
  [c \in DOMAIN Started |->
     IF c \in Ids("start") THEN Started[c]
     ELSE [Started[c] EXCEPT !.colls = @ \o Select(Submitted, LAMBDA s : s.trace = c)]]

\* Then the submitted spans that find their collector.
Filled ==
  [c \in DOMAIN Started |->
     [Started[c] EXCEPT !.colls = @ \o Select(Submitted, LAMBDA s : s.trace = c)]]

\* Mutants: never any; also when traces are cancelable.
StaleMutantNone == <<>>
StaleMutantAlways == Select(Submitted, LAMBDA s : s.trace \notin DOMAIN Started)

Stale ==
  IF Cancelable THEN <<>>
  ELSE Select(Submitted, LAMBDA s : s.trace \notin DOMAIN Started)

\* postprocess_span_collection of every collector, given the filled ones.
Outcomes(filled) ==
  [c \in DOMAIN filled |->
     PostprocessSpanCollection(filled[c].colls, filled[c].danglings)]

\* Mutant: every collector reports, as if traces were not cancelable.
CommittedRecordsMutant(outcomes) ==
  FlattenSeq([c \in CollectId |-> IF c \in DOMAIN outcomes THEN outcomes[c].records ELSE <<>>])

\* committed_records: of the committed traces and, unless traces are
\* cancelable, of all the others, then of the stale collections, each by
\* itself with nothing dangling.  Nothing depends on the order.
CommittedRecords(outcomes) ==
  LET reporting == IF Cancelable THEN DOMAIN outcomes \cap Ids("commit")
                                 ELSE DOMAIN outcomes
  IN  FlattenSeq([c \in CollectId |->
                    IF c \in reporting THEN outcomes[c].records ELSE <<>>])
        \o FlattenSeq([i \in DOMAIN Stale |->
              PostprocessSpanCollection(<<Stale[i]>>, NoDanglings).records])

\* Mutants: what was reported is kept; what dangles is not.
StillActiveMutantColls(filled, outcomes) ==
  [c \in DOMAIN filled \ Ids("commit") |->
     [colls |-> filled[c].colls, danglings |-> outcomes[c].danglings]]
StillActiveMutantDanglings(filled, outcomes) ==
  [c \in DOMAIN filled \ Ids("commit") |->
     IF Cancelable THEN filled[c] ELSE NewCollector]

\* The collectors left: those of traces without a commit.
StillActive(filled, outcomes) ==
  [c \in DOMAIN filled \ Ids("commit") |->
     IF Cancelable THEN filled[c]
     ELSE [colls |-> <<>>, danglings |-> outcomes[c].danglings]]

BagOf(seq) == [x \in ToSet(seq) |-> Cardinality({i \in DOMAIN seq : seq[i] = x})]

\* The rest of handle_commands, and the release of GLOBAL_COLLECTOR.
ProcessBatch ==
  /\ runner # "none" /\ ~Draining
  /\ \E filled \in {Filled} : \E outcomes \in {Outcomes(filled)} :
        /\ active' = StillActive(filled, outcomes)
        /\ reported' = reported (+) BagOf(CommittedRecords(outcomes))
  /\ batch' = <<>>
  /\ runner' = "none"
  /\ thread' = [t \in Thread |-> IF t = runner THEN "run" ELSE thread[t]]
  /\ seen' = [seen EXCEPT !.done = @ \cup Ids("commit"),
                          !.due = @ \cup (IF runner = "loop" THEN {} ELSE seen.asked[runner]),
                          !.asked = [t \in Thread |-> IF t = runner THEN {} ELSE @[t]]]
  /\ UNCHANGED <<appVars, todo, past, chan, rxs, at, empty>>

Collect ==
  \/ LoopBegin \/ RecvCommand \/ RecvEmpty \/ RecvNone \/ RecvClosed \/ RecvDone
  \/ ProcessBatch \/ \E t \in Thread : FlushBegin(t)

-----------------------------------------------------------------------------
Next ==
  \/ \E t \in Thread : Call(t) \/ Send(t) \/ Flush(t)
                         \/ ExitThread(t) \/ ExitDrain(t) \/ ExitDone(t)
  \/ Collect

Spec == Init /\ [][Next]_vars

\* The operating system runs every thread, handle_commands is called again
\* and again, and parking_lot's mutexes are eventually fair to a thread that
\* waits for SPSC_RXS or GLOBAL_COLLECTOR.  Nothing obliges a thread to make
\* another call.
Fairness ==
  /\ WF_vars(Collect)
  /\ \A t \in Thread  : SF_vars(Send(t) \/ FlushBegin(t))
  /\ \A t \in MayExit : WF_vars(ExitDrain(t) \/ ExitDone(t))

-----------------------------------------------------------------------------
TypeOK ==
  /\ DOMAIN spans \subseteq SpanId
  /\ nextRaw \in 1 .. MaxRaw + 1 /\ nextRoot \in 1 .. MaxRoot + 1
  /\ thread \in [Thread -> ThreadState]
  /\ \A t \in Thread : thread[t] # "run" => todo[t] = <<>>
  /\ borrow \in [Thread -> SpanId \cup {NoSpan}]
  /\ \A t \in Thread : Len(chan[t].ring) <= Capacity
  /\ \A t \in Thread : chan[t].open <=> thread[t] # "gone"
  /\ \A t \in Thread : chan[t].ring # <<>> /\ chan[t].open => t \in ToSet(rxs)
  /\ IsInjective(rxs)
  /\ runner \in {"none", "loop"} \cup Thread
  /\ at \in 0 .. Len(rxs) + 1
  /\ runner = "none" => at = 0 /\ batch = <<>>
  /\ empty => AtReceiver
  /\ DOMAIN active \subseteq CollectId
  /\ IsABag(reported)

Got == {<<r.trace, r.span>> : r \in DOMAIN reported}

\* Dismissed traces stay dismissed: when traces are cancelable, no span of a
\* trace whose root was cancelled before it ended is reported.
CancelHonoured ==
  Cancelable => \A r \in DOMAIN reported : r.trace \notin seen.cancelled

\* A cancelable trace is held back until its root has ended.
HeldUntilCommit ==
  Cancelable => \A r \in DOMAIN reported : r.trace \in seen.committed

\* How often the collect token of a span, or the token a local span set was
\* submitted with, names a trace and a parent.
TokenItems(r) ==
  LET token == IF r.span \in DOMAIN spans THEN spans[r.span].token
                                          ELSE IssueCollectToken(r.parent)
  IN  Cardinality({i \in DOMAIN token : token[i] = Item(r.trace, r.parent)})

SameSpan(r, q) == <<r.trace, r.span, r.parent>> = <<q.trace, q.span, q.parent>>

\* A span is reported at most once per item of its token: batches, stale
\* spans and collectors that live through several batches repeat nothing.
\* (A child of a span with two parents in one trace has two equal items.)
ReportedOnce ==
  \A r \in DOMAIN reported :
     LET same == {q \in DOMAIN reported : SameSpan(r, q)}
     IN  Cardinality(UNION {{q} \X (1 .. reported[q]) : q \in same}) <= TokenItems(r)

\* Spans of unsampled traces stay out, also when a parent is sampled.
UnsampledStaysOut == \A r \in DOMAIN reported : r.trace # NotSampled

\* flush() returns only after everything owed when it was called has been
\* reported, also what other threads submitted and what a batch in progress
\* has already drained.
FlushReports == seen.due \subseteq Got

\* When the commit of a cancelable trace has been processed, every span that
\* was submitted before the root ended has been reported.
RootReportsChildren ==
  Cancelable => \A p \in seen.owed : p[1] \in seen.done => p \in Got

\* No collector outlives the processing of its commit: the start of a trace
\* never reaches the collector after its commit.
NoOrphan == DOMAIN active \cap seen.done = {}

\* Events and properties added to a span are on its record, even when span
\* and attachment were drained in different batches. Its trace needs a collector
\* for that, and its span to stay on one thread.
AttachmentsKept ==
  \A a \in seen.mount :
     <<a.trace, a.parent>> \in Got =>
        \E r \in DOMAIN reported :
           /\ r.trace = a.trace /\ r.span = a.parent
           /\ a.id \in ToSet(r.events)

\* Every span owed is eventually reported.
OwedIsReported ==
  \A p \in CollectId \X SpanId : p \in seen.owed ~> p \in Got

\* flush() returns.
FlushReturns == \A t \in Thread : thread[t] = "flush" ~> thread[t] = "run"
=============================================================================
