--------------------------- MODULE LocalSpanStack ---------------------------
(***************************************************************************)
(* The thread-local LOCAL_SPAN_STACK and the guards a thread holds on it:  *)
(* LocalSpan, LocalParentGuard and LocalCollector                          *)
(* (fastrace/src/local/{local_span_stack,local_span_line,span_queue,       *)
(* local_span,local_collector}.rs and the guard of fastrace/src/span.rs).  *)
(* The stack belongs to one thread, so a single thread is modelled; what   *)
(* makes it hard is the order in which the guards are dropped.             *)
(*                                                                         *)
(* Times are left out except that a span has ended.  A panic ends the      *)
(* behaviour: the unwinding of the guards is not modelled.                 *)
(***************************************************************************)
EXTENDS Postprocess, FiniteSets, FiniteSetsExt

CONSTANTS
  StackCapacity,     \* DEFAULT_SPAN_STACK_SIZE
  QueueCapacity,     \* DEFAULT_SPAN_QUEUE_SIZE
  Tokens,            \* the collect tokens spans issue to set_local_parent
  NoToken,           \* None
  Orders,            \* the disciplines looked at, a subset of BOOLEAN, see scoped
  MaxOpen,           \* bound: scopes ever opened
  MaxId              \* bound: raw spans ever made

ASSUME LocalAssumption ==
  /\ StackCapacity \in Nat /\ QueueCapacity \in Nat
  /\ Tokens \subseteq Seq([collect : Nat, parent : Nat]) /\ NoToken \notin Tokens
  /\ Orders \subseteq BOOLEAN
  /\ MaxOpen \in Nat /\ MaxId \in Nat

VARIABLES
  scoped,      \* guards are dropped in the reverse order of creation, and a
               \* LocalSpan is only used in its own scope
  debug,       \* the build: debug_assert! is compiled in
  lines,       \* span_lines
  nextEpoch,   \* next_span_line_epoch; its wrap-around is out of reach
  nextId,      \* SpanId::next_id
  guards,      \* the guards alive, in the order they were made
  submitted,   \* span sets handed over, each with the epoch of its guard
  panicked,    \* "no", or the panic that was raised
  made         \* history: by epoch, [token, ids, asked]: the token of the
               \* scope, what was recorded in it, where properties were asked for

vars == <<scoped, debug, lines, nextEpoch, nextId, guards, submitted, panicked, made>>

NoEpoch == MaxOpen   \* the guard of a scope that could not be registered

-----------------------------------------------------------------------------
(* Span lines. *)

Sampled(token) ==
  IF token = NoToken THEN TRUE ELSE \E i \in DOMAIN token : token[i].collect # 0

SpanLine(epoch, token) ==
  [epoch |-> epoch, token |-> token, queue |-> <<>>, next |-> NoParent]

Entry(id, parent, kind) ==
  [id |-> id, parent |-> parent, kind |-> kind, ended |-> FALSE, tagged |-> FALSE]

HasLine == lines # <<>>

CurrentLine == lines[Len(lines)]

Replace(line) == lines' = [lines EXCEPT ![Len(lines)] = line]

\* start_span: the new span is the parent of what follows.
StartSpan(line, id) ==
  [line EXCEPT !.queue = Append(@, Entry(id, line.next, "Span")), !.next = id]

\* Mutant: what follows gets no parent.
FinishSpanMutantNext(line, index) ==
  [line EXCEPT !.queue[index].ended = TRUE, !.next = NoParent]

\* finish_span: its parent is the parent of what follows.
FinishSpan(line, index) ==
  [line EXCEPT !.queue[index].ended = TRUE, !.next = line.queue[index].parent]

\* Mutant: what follows becomes a child of the event.
AddAttachmentMutant(line, id) ==
  [line EXCEPT !.queue = Append(@, Entry(id, line.next, "Attachment")), !.next = id]

\* add_event and add_properties.
AddAttachment(line, id) ==
  [line EXCEPT !.queue = Append(@, Entry(id, line.next, "Attachment"))]

\* Mutant: the newest entry, not the one of the handle.
TagMutant(line, index) == [line EXCEPT !.queue[Len(line.queue)].tagged = TRUE]

\* with_properties.
Tag(line, index) == [line EXCEPT !.queue[index].tagged = TRUE]

\* Mutant: off by one.
RecordingMutant ==
  /\ HasLine
  /\ Sampled(CurrentLine.token)
  /\ Len(CurrentLine.queue) <= QueueCapacity

\* A span line takes what it is given if its token is sampled and it has room.
Recording ==
  /\ HasLine
  /\ Sampled(CurrentLine.token)
  /\ Len(CurrentLine.queue) < QueueCapacity

\* Mutant: local spans are skipped.
CurrentCollectTokenMutant == IF HasLine THEN CurrentLine.token ELSE NoToken

\* current_collect_token: for Span::enter_with_local_parent.
CurrentCollectToken ==
  IF ~HasLine \/ CurrentLine.token = NoToken THEN NoToken
  ELSE [i \in DOMAIN CurrentLine.token |->
          [CurrentLine.token[i] EXCEPT
             !.parent = IF CurrentLine.next = NoParent THEN @ ELSE CurrentLine.next]]

\* Mutants: the epoch is not compared; only spans are collected.
CollectLineMutantEpoch(line, epoch) ==
  {[epoch |-> epoch, token |-> line.token, spans |-> line.queue]}
CollectLineMutantSpans(line, epoch) ==
  IF line.epoch = epoch
  THEN {[epoch |-> epoch, token |-> line.token, spans |-> SelectSeq(line.queue, IsSpan)]}
  ELSE {}

\* SpanLine::collect: only the line the handle was made for is handed over.
CollectLine(line, epoch) ==
  IF line.epoch = epoch
  THEN {[epoch |-> epoch, token |-> line.token, spans |-> line.queue]}
  ELSE {}

-----------------------------------------------------------------------------
Init ==
  /\ scoped \in Orders
  /\ debug \in BOOLEAN
  /\ lines = <<>>
  /\ nextEpoch = 0
  /\ nextId = 1
  /\ guards = <<>>
  /\ submitted = {}
  /\ panicked = "no"
  /\ made = [e \in {} |-> <<>>]

Running == panicked = "no"

Panic(what) ==
  /\ panicked' = what
  /\ UNCHANGED <<scoped, debug, lines, nextEpoch, nextId, guards, submitted, made>>

Recorded(epoch, id) == made' = [made EXCEPT ![epoch].ids = @ \cup {id}]

\* LocalCollector::new, for a LocalParentGuard or a LocalCollector.
OpenScope(kind, token) ==
  /\ Running /\ nextEpoch < MaxOpen
  /\ Len(lines) < StackCapacity
  /\ lines' = Append(lines, SpanLine(nextEpoch, token))
  /\ guards' = Append(guards, [kind |-> kind, epoch |-> nextEpoch])
  /\ nextEpoch' = nextEpoch + 1
  /\ made' = [e \in 0 .. nextEpoch |->
                IF e = nextEpoch THEN [token |-> token, ids |-> {}, asked |-> {}] ELSE made[e]]
  /\ UNCHANGED <<scoped, debug, nextId, submitted, panicked>>

\* register_span_line fails: the guard holds nothing.
OpenInert(kind) ==
  /\ Running /\ Len(guards) < MaxOpen
  /\ Len(lines) >= StackCapacity
  /\ guards' = Append(guards, [kind |-> kind, epoch |-> NoEpoch])
  /\ UNCHANGED <<scoped, debug, lines, nextEpoch, nextId, submitted, panicked, made>>

\* LocalSpan::enter_with_local_parent.
EnterLocalSpan ==
  /\ Running /\ nextId <= MaxId
  /\ Recording
  /\ Replace(StartSpan(CurrentLine, nextId))
  /\ guards' = Append(guards, [kind  |-> "span", epoch |-> CurrentLine.epoch,
                               index |-> Len(CurrentLine.queue) + 1,
                               id    |-> nextId])   \* id is history
  /\ nextId' = nextId + 1
  /\ Recorded(CurrentLine.epoch, nextId)
  /\ UNCHANGED <<scoped, debug, nextEpoch, submitted, panicked>>

\* enter_span returned None: expect panics.
EnterExhausted ==
  /\ Running /\ ~Recording
  /\ Panic("exhausted")

\* LocalSpan::add_event and add_properties; without a recording line, nothing.
Attach ==
  /\ Running /\ nextId <= MaxId
  /\ Recording
  /\ Replace(AddAttachment(CurrentLine, nextId))
  /\ nextId' = nextId + 1
  /\ Recorded(CurrentLine.epoch, nextId)
  /\ UNCHANGED <<scoped, debug, nextEpoch, guards, submitted, panicked>>

\* LocalSpan::with_properties on the span of guard i.
WithProperties(i) ==
  /\ Running /\ guards[i].kind = "span"
  /\ scoped => \A j \in i + 1 .. Len(guards) : guards[j].kind = "span"
  /\ LET matches == HasLine /\ CurrentLine.epoch = guards[i].epoch
     IN  \/ /\ matches
            /\ Replace(Tag(CurrentLine, guards[i].index))
            /\ made' = [made EXCEPT ![guards[i].epoch].asked = @ \cup {guards[i].id}]
            /\ UNCHANGED <<scoped, debug, nextEpoch, nextId, guards, submitted, panicked>>
         \/ /\ ~matches /\ debug
            /\ Panic("assertion")

\* The guards that may be dropped now.
MayDrop(i) == scoped => i = Len(guards)

Forget(i) == guards' = RemoveAt(guards, i)

\* Drop for LocalSpan.
DropLocalSpan(i) ==
  /\ Running /\ guards[i].kind = "span" /\ MayDrop(i)
  /\ UNCHANGED <<scoped, debug, nextEpoch, nextId, submitted, made>>
  /\ LET matches == HasLine /\ CurrentLine.epoch = guards[i].epoch
         current == /\ guards[i].index \in DOMAIN CurrentLine.queue
                    /\ CurrentLine.next = CurrentLine.queue[guards[i].index].id
     IN  \/ /\ matches /\ (debug => current)
            /\ Replace(FinishSpan(CurrentLine, guards[i].index))
            /\ Forget(i)
            /\ UNCHANGED panicked
         \/ /\ ~matches /\ (debug => ~HasLine)
            /\ Forget(i)
            /\ UNCHANGED <<lines, panicked>>
         \/ /\ debug /\ HasLine
            /\ ~(matches /\ current)
            /\ panicked' = "assertion"
            /\ UNCHANGED <<lines, guards>>

\* Drop for LocalParentGuard, LocalCollector::collect and Drop for
\* LocalCollector: unregister_and_collect pops the current line whatever it
\* is.  Only the last one discards what it collected.
CloseScope(i, discard) ==
  /\ Running /\ guards[i].kind # "span" /\ guards[i].epoch # NoEpoch /\ MayDrop(i)
  /\ discard => guards[i].kind = "collector"
  /\ LET matches == HasLine /\ CurrentLine.epoch = guards[i].epoch
     IN  \/ /\ debug => matches
            /\ lines' = IF HasLine THEN Front(lines) ELSE lines
            /\ submitted' = submitted \cup
                 (IF discard \/ ~HasLine THEN {} ELSE CollectLine(CurrentLine, guards[i].epoch))
            /\ Forget(i)
            /\ UNCHANGED <<scoped, debug, nextEpoch, nextId, panicked, made>>
         \/ /\ debug /\ ~matches
            /\ Panic("assertion")

\* The same for a guard that holds nothing: a LocalParentGuard asserts that
\* there is a token.
CloseInert(i) ==
  /\ Running /\ guards[i].kind # "span" /\ guards[i].epoch = NoEpoch /\ MayDrop(i)
  /\ \/ /\ ~debug \/ guards[i].kind = "collector"
        /\ Forget(i)
        /\ UNCHANGED <<scoped, debug, lines, nextEpoch, nextId, submitted, panicked, made>>
     \/ /\ debug /\ guards[i].kind = "parent"
        /\ Panic("token")

Next ==
  \/ \E token \in Tokens : OpenScope("parent", token)
  \/ OpenScope("collector", NoToken)
  \/ \E kind \in {"parent", "collector"} : OpenInert(kind)
  \/ EnterLocalSpan \/ EnterExhausted \/ Attach
  \/ \E i \in DOMAIN guards : WithProperties(i)
  \/ \E i \in DOMAIN guards : DropLocalSpan(i)
  \/ \E i \in DOMAIN guards : \E discard \in BOOLEAN : CloseScope(i, discard)
  \/ \E i \in DOMAIN guards : CloseInert(i)

Spec == Init /\ [][Next]_vars

-----------------------------------------------------------------------------
TypeOK ==
  /\ Len(lines) <= StackCapacity
  /\ nextEpoch \in 0 .. MaxOpen /\ nextId \in 1 .. MaxId + 1
  /\ DOMAIN made = 0 .. nextEpoch - 1
  /\ \A n \in DOMAIN lines :
        /\ lines[n].epoch \in DOMAIN made
        /\ lines[n].token = made[lines[n].epoch].token
        /\ Len(lines[n].queue) <= QueueCapacity
        /\ \A m \in 1 .. n - 1 : lines[m].epoch < lines[n].epoch
  /\ panicked \in {"no", "exhausted", "assertion", "token"}

\* No debug assertion of the stack fires while guards are dropped in scope
\* order, whatever was nested in what. (The assertion of a LocalParentGuard that
\* its scope gave it a token, span.rs:616, is not one of them: it fails for a
\* guard of a full stack, panicked = "token".)
AssertionsHold == scoped => panicked # "assertion"

Ids(queue) == {queue[k].id : k \in DOMAIN queue}

\* With guards dropped in scope order, the token that a new Span gets from the
\* stack names the innermost local span alive in the innermost scope alive,
\* and the scope's own span when there is none.
Innermost ==
  LET scopes == {i \in DOMAIN guards : guards[i].kind # "span" /\ guards[i].epoch # NoEpoch}
  IN  IF scopes = {} THEN NoToken
      ELSE LET s == Max(scopes)
               token == made[guards[s].epoch].token
               local == {i \in DOMAIN guards : i > s /\ guards[i].kind = "span"}
           IN  IF token = NoToken \/ local = {} THEN token
               ELSE [k \in DOMAIN token |-> [token[k] EXCEPT !.parent = guards[Max(local)].id]]

TokenNamesInnermost == scoped /\ Running => CurrentCollectToken = Innermost

\* With guards dropped in scope order, every span handed over has ended.
SpansEnded ==
  scoped => \A s \in submitted : \A k \in DOMAIN s.spans : s.spans[k].kind = "Span" => s.spans[k].ended

\* In a debug build no scope is lost in silence: in whatever order guards were
\* dropped, as long as nothing panicked a LocalParentGuard that is gone has
\* submitted everything recorded in its scope, with its token.
ScopeSubmitted ==
  debug =>
    \A e \in DOMAIN made :
      \/ made[e].token = NoToken
      \/ \E i \in DOMAIN guards : guards[i].kind # "span" /\ guards[i].epoch = e
      \/ \E s \in submitted :
            s.epoch = e /\ s.token = made[e].token /\ Ids(s.spans) = made[e].ids

\* Each scope is handed over, whole and, in scope order, with all its spans
\* ended.
ScopesWhole == ScopeSubmitted /\ SpansEnded

\* In whatever order guards are dropped, a guard hands over nothing that was
\* recorded in another scope: a span never joins a trace it was not made in.
NeverMisattributed ==
  \A s \in submitted : s.token = made[s.epoch].token /\ Ids(s.spans) \subseteq made[s.epoch].ids

\* In whatever order guards are dropped, the parent of a raw span is a span
\* recorded before it in the same queue: no cycle, no unknown parent, never
\* an event.
ParentPrecedes(queue) ==
  \A k \in DOMAIN queue :
     queue[k].parent = NoParent \/
     \E j \in 1 .. k - 1 : queue[j].id = queue[k].parent /\ queue[j].kind = "Span"

ParentsPrecede ==
  /\ \A n \in DOMAIN lines : ParentPrecedes(lines[n].queue)
  /\ \A s \in submitted : ParentPrecedes(s.spans)

\* In whatever order guards are dropped, properties given to a local span
\* reach that span or none.
PropertiesOnTheirSpan ==
  \A n \in DOMAIN lines : \A k \in DOMAIN lines[n].queue :
     lines[n].queue[k].tagged => lines[n].queue[k].id \in made[lines[n].epoch].asked

\* LocalSpan::enter_with_local_parent: "If no local span is active, this
\* function is no-op."
EnterIsNoop == panicked = "exhausted" => HasLine
=============================================================================
