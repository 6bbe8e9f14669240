------------------------------- MODULE Jaeger -------------------------------
(***************************************************************************)
(* A trace that goes from process to process, and the Jaeger reporter      *)
(* (fastrace-jaeger/src/lib.rs) that sends its spans to the agent, as many *)
(* in a UDP packet as fit.                                                 *)
(*                                                                         *)
(* The collector is left out: a process gives new spans to its reporter at *)
(* any time.  A packet handed to the socket may still be lost on its way;  *)
(* nothing here depends on that.                                           *)
(***************************************************************************)
EXTENDS Identifiers, FiniteSets, SequencesExt

CONSTANTS
  Process,     \* the processes, each with one thread
  Prefix,      \* the random prefix of each process's generator
  Traces,      \* the random trace ids
  Foreign,     \* headers that come from elsewhere
  Sizes,       \* sizes of a span's name, properties and events
  Bytes(_),    \* the length of the packet for a sequence of spans
  MaxPacket,   \* MAX_UDP_PACKAGE_SIZE
  MaxSpan      \* bound: spans ever made

ASSUME JaegerAssumption ==
  /\ Prefix \in [Process -> 0 .. Half - 1]
  \* Random: different threads have drawn different ones.
  /\ \A p, q \in Process : Prefix[p] = Prefix[q] => p = q
  /\ Traces \subseteq TraceIds
  /\ Foreign \subseteq Seq(Seq(Nat))
  /\ MaxPacket \in Nat /\ MaxSpan \in Nat

VARIABLES
  gen,        \* LOCAL_ID_GENERATOR of each process
  spans,      \* the spans made
  reported,   \* the positions in spans that were given to a reporter
  records,    \* the argument of report, <<>>: it is not running
  perBatch,   \* spans_per_batch
  sent,       \* sent_spans
  packets,    \* what was sent of records: [first, last], positions in it
  agent       \* the Jaeger spans sent, over all calls of report

loopVars == <<records, perBatch, sent, packets>>
vars     == <<gen, spans, reported, loopVars, agent>>

Init ==
  /\ gen = [p \in Process |-> [prefix |-> Prefix[p], suffix |-> 0]]
  /\ spans = <<>>
  /\ reported = {}
  /\ records = <<>> /\ perBatch = 0 /\ sent = 0 /\ packets = <<>>
  /\ agent = <<>>

Idle == records = <<>>

-----------------------------------------------------------------------------
(* Spans. *)

\* made is history: the position of the span it was made a child of, or 0.
NewSpan(p, trace, parent, sampled, made, size) ==
  /\ Idle /\ Len(spans) < MaxSpan
  /\ gen' = [gen EXCEPT ![p] = NextGen(@)]
  /\ spans' = Append(spans, [trace |-> trace, id |-> Id(NextGen(gen[p])), parent |-> parent,
                             sampled |-> sampled, made |-> made, process |-> p, size |-> size])
  /\ UNCHANGED <<reported, loopVars, agent>>

\* Span::root with SpanContext::random().
Root(p, size) ==
  /\ spans = <<>>
  /\ \E trace \in Traces : \E sampled \in BOOLEAN :
       NewSpan(p, trace, DefaultId, sampled, 0, size)

\* A child in the process of the last span.
Child(size) ==
  /\ spans # <<>>
  /\ LET s == Last(spans)
     IN  NewSpan(s.process, s.trace, s.id, s.sampled, Len(spans), size)

\* SpanContext::from_span, sent to process p in a header.
Remote(p, size) ==
  /\ spans # <<>> /\ p # Last(spans).process
  /\ LET s == Last(spans)
         header == Encode(Context(s.trace, s.id, s.sampled))
     IN  /\ Decodes(header)
         /\ LET context == Decode(header)
            IN  NewSpan(p, context.trace, context.span, context.sampled, Len(spans), size)

\* The first header comes from another system.
FromForeign(p, size) ==
  /\ spans = <<>>
  /\ \E header \in Foreign :
        /\ Decodes(header)
        /\ LET context == Decode(header)
           IN  NewSpan(p, context.trace, context.span, context.sampled, 0, size)

-----------------------------------------------------------------------------
(* The reporter. *)

\* as i64, of a number of any width.
Signed(x) ==
  LET low == x % Word IN IF low >= Word \div 2 THEN low - Word ELSE low

\* Mutant: the high half is not shifted.
ConvertMutant(s) ==
  [high |-> Signed(s.trace), low |-> Signed(s.trace),
   span |-> Signed(s.id), parent |-> Signed(s.parent)]

\* convert.
Convert(s) ==
  [high |-> Signed(s.trace \div Word), low |-> Signed(s.trace),
   span |-> Signed(s.id), parent |-> Signed(s.parent)]

\* serialize: the length of the packet for the records from first to last.
Fits(first, last) == Bytes(SubSeq(records, first, last)) < MaxPacket

\* The sampled spans of a process that its reporter has not been given.
New(p) ==
  {i \in 1 .. MaxSpan : /\ i \in DOMAIN spans \ reported
                        /\ spans[i].process = p /\ spans[i].sampled}

\* report is called with them in some order; it returns at once if there are
\* none.
Report(p) ==
  /\ Idle /\ New(p) # {}
  /\ LET order == SetToSeq(New(p))
     IN  records' = [i \in 1 .. Cardinality(New(p)) |-> spans[order[i]]]
  /\ perBatch' = Cardinality(New(p))
  /\ reported' = reported \cup New(p)
  /\ sent' = 0 /\ packets' = <<>>
  /\ UNCHANGED <<gen, spans, agent>>

Sending == sent < Len(records)

BatchSize == IF perBatch <= Len(records) - sent THEN perBatch ELSE Len(records) - sent

BatchFits == Fits(sent + 1, sent + BatchSize)

\* Mutant: a batch of two is skipped.
SkipMutant ==
  /\ Sending /\ ~BatchFits /\ BatchSize <= 2
  /\ sent' = sent + 1
  /\ UNCHANGED <<gen, spans, reported, records, perBatch, packets, agent>>

\* Mutant: the loop goes on with the same span.
SkipMutantStays ==
  /\ Sending /\ ~BatchFits /\ BatchSize <= 1
  /\ sent' = sent
  /\ UNCHANGED <<gen, spans, reported, records, perBatch, packets, agent>>

\* A span that does not fit alone.
Skip ==
  /\ Sending /\ ~BatchFits /\ BatchSize <= 1
  /\ sent' = sent + 1
  /\ UNCHANGED <<gen, spans, reported, records, perBatch, packets, agent>>

\* Mutant: a batch of one is halved too.
ShrinkMutant ==
  /\ Sending /\ ~BatchFits
  /\ perBatch' = perBatch \div 2
  /\ UNCHANGED <<gen, spans, reported, records, sent, packets, agent>>

\* spans_per_batch is halved, for the rest of the records.
Shrink ==
  /\ Sending /\ ~BatchFits /\ BatchSize > 1
  /\ perBatch' = perBatch \div 2
  /\ UNCHANGED <<gen, spans, reported, records, sent, packets, agent>>

\* Mutant: it moves on by one span.
SendPacketMutant ==
  /\ Sending /\ BatchFits
  /\ packets' = Append(packets, [first |-> sent + 1, last |-> sent + BatchSize])
  /\ agent' = agent \o [i \in 1 .. BatchSize |-> Convert(records[sent + i])]
  /\ sent' = sent + 1
  /\ UNCHANGED <<gen, spans, reported, records, perBatch>>

SendPacket ==
  /\ Sending /\ BatchFits
  /\ packets' = Append(packets, [first |-> sent + 1, last |-> sent + BatchSize])
  /\ agent' = agent \o [i \in 1 .. BatchSize |-> Convert(records[sent + i])]
  /\ sent' = sent + BatchSize
  /\ UNCHANGED <<gen, spans, reported, records, perBatch>>

Reset == records' = <<>> /\ perBatch' = 0 /\ sent' = 0 /\ packets' = <<>>

\* send_to fails: the rest of the records is given up.
SendFails ==
  /\ Sending /\ BatchFits
  /\ Reset
  /\ UNCHANGED <<gen, spans, reported, agent>>

Return ==
  /\ ~Idle /\ ~Sending
  /\ Reset
  /\ UNCHANGED <<gen, spans, reported, agent>>

Loop == Skip \/ Shrink \/ SendPacket \/ SendFails \/ Return

Next ==
  \/ \E p \in Process : \E size \in Sizes : Root(p, size) \/ Remote(p, size) \/ FromForeign(p, size)
  \/ \E size \in Sizes : Child(size)
  \/ \E p \in Process : Report(p)
  \/ Loop

Spec == Init /\ [][Next]_vars

\* try_report is a loop of one thread; UdpSocket::send_to does not block for
\* ever.
FairSpec == Spec /\ WF_vars(Loop)

-----------------------------------------------------------------------------
TypeOK ==
  /\ \A i \in DOMAIN spans :
        spans[i].trace \in TraceIds /\ spans[i].id \in SpanIds /\ spans[i].parent \in SpanIds
  /\ sent \in 0 .. Len(records)
  /\ perBatch \in 0 .. Len(records)
  /\ Sending => perBatch > 0

InPacket(i) == \E k \in DOMAIN packets : i \in packets[k].first .. packets[k].last

\* However batches are cut, the reporter passes over no span that fits in a
\* packet of its own: what it has dealt with is sent, unless too large.
SentUnlessTooLarge == \A i \in 1 .. sent : InPacket(i) \/ ~Fits(i, i)

\* Packets follow each other: no span is sent twice, none out of order, and
\* none is larger than a packet may be.
PacketsInOrder ==
  \A k \in DOMAIN packets :
     /\ packets[k].first <= packets[k].last /\ packets[k].last <= sent
     /\ Fits(packets[k].first, packets[k].last)
     /\ \A j \in 1 .. k - 1 : packets[j].last < packets[k].first

\* How the agent reads the ids of a Jaeger span.
Unsigned(x) == IF x < 0 THEN x + Word ELSE x

AgentTrace(a) == Unsigned(a.high) * Word + Unsigned(a.low)

\* The agent reads the ids of span s, made under the span parent.
Reads(a, s, parent) ==
  /\ AgentTrace(a) = spans[1].trace
  /\ Unsigned(a.span) = s.id /\ Unsigned(a.parent) = parent

\* The agent can put the tree together: whichever process made a span, it
\* arrives with the trace id of the first span and with the id of the span it
\* was made under as its parent.
TreeConnects ==
  \A k \in DOMAIN agent : \E i \in reported :
     /\ spans[i].sampled = spans[1].sampled
     /\ Reads(agent[k], spans[i],
              IF spans[i].made = 0 THEN spans[i].parent ELSE spans[spans[i].made].id)

\* The spans made by the process of span j after span i and up to j.
MadeBetween(i, j) == {k \in i + 1 .. j : spans[k].process = spans[j].process}

\* Two spans have one id only if their generator went all the way round.
IdsUnique ==
  \A j \in DOMAIN spans : \A i \in 1 .. j - 1 :
     spans[i].id = spans[j].id =>
        spans[i].process = spans[j].process /\ Cardinality(MadeBetween(i, j)) >= Half

\* report returns, however large the spans are.
ReportReturns == ~Idle ~> Idle
=============================================================================
