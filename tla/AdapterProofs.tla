--------------------------- MODULE AdapterProofs ---------------------------
(***************************************************************************)
(* Spans bound to adapters: what a poll ended is not missing, for any      *)
(* number of threads, tasks and spans.  A poll is for the pipeline one     *)
(* more call of the Span API, so the invariants of CollectorProofs hold,   *)
(* and on them rests PolledInv: the local spans of a poll are owed, or in  *)
(* the commands that their thread is about to send.                        *)
(***************************************************************************)
EXTENDS Adapters, CollectorProofs

\* No thread finds its channel full.
Room == \A t \in Thread : Sending(t) => HasRoom(chan[t])

PolledInv ==
  \A p \in polled : p \in seen.owed \/ \E t \in Thread : \E m \in ToSet(todo[t]) : p \in NewPairs(m)

AdapterInv == TypeInv /\ SeenOK /\ FlushInv

-----------------------------------------------------------------------------
(* What a poll sends. *)

LEMMA LocalSpansType ==
  ASSUME TypeInv, NEW n \in 0 .. 1, nextRaw + n <= MaxRaw + 1
  PROVE  /\ LocalSpans(n) \in Seq(RawSpan)
         /\ n = 1 => Raw(nextRaw, NoParent, "Span") \in ToSet(LocalSpans(n)) \cap RawSpan
PROOF
<1>1. nextRaw \in 1 .. MaxRaw + 1 /\ MaxRaw \in Nat
  BY CollectorAssumption DEF TypeInv, SpansOK
<1>2. n = 1 => Raw(nextRaw, NoParent, "Span") \in RawSpan
  BY <1>1 DEF Raw, RawSpan, SpanId, Parent, Kind
<1>3. LocalSpans(n) = [i \in 1 .. n |-> Raw(nextRaw, NoParent, "Span")]
  BY DEF LocalSpans
<1>4. \A i \in 1 .. n : Raw(nextRaw, NoParent, "Span") \in RawSpan
  BY <1>2
<1> HIDE DEF LocalSpans
<1>5. LocalSpans(n) \in Seq(RawSpan)
  BY <1>3, <1>4
<1>6. n = 1 => Raw(nextRaw, NoParent, "Span") \in ToSet(LocalSpans(n))
  BY <1>3 DEF ToSet
<1> QED
  BY <1>2, <1>5, <1>6

\* The guard of a poll submits its local spans for every trace of the task.
LEMMA GuardSends ==
  ASSUME TypeInv, NEW s \in DOMAIN spans, NEW n \in 0 .. 1, nextRaw + n <= MaxRaw + 1
  PROVE  /\ DropGuard(s, n) \in Seq(Command)
         /\ \A p \in Polled(s, n) : \E m \in ToSet(DropGuard(s, n)) : p \in NewPairs(m)
PROOF
<1> DEFINE set == LocalSpans(n)
           token == IssueCollectToken(s)
<1>1. set \in Seq(RawSpan) /\ (n = 1 => Raw(nextRaw, NoParent, "Span") \in ToSet(set) \cap RawSpan)
  BY LocalSpansType
<1>2. token \in Seq(TokenItem) /\ spans[s].token \in Seq(TokenItem)
  BY IssueTokenType DEF TypeInv
<1>3. DropGuard(s, n) = SubmitSpans(set, token)
  BY DEF DropGuard
<1> HIDE DEF set, token
<1>4. DropGuard(s, n) \in Seq(Command)
  BY <1>1, <1>2, <1>3, SubmitSpansType
<1>5. ASSUME NEW p \in Polled(s, n)
      PROVE  \E m \in ToSet(DropGuard(s, n)) : p \in NewPairs(m)
  <2>1. PICK item \in ToSet(spans[s].token) : n = 1 /\ IsSampled(item) /\ p = <<item.collect, nextRaw>>
    BY <1>5 DEF Polled
  <2>2. PICK i \in DOMAIN spans[s].token : item = spans[s].token[i]
    BY <2>1 DEF ToSet
  <2>3. /\ DOMAIN token = DOMAIN spans[s].token /\ token[i] = Item(item.collect, s)
    BY <2>2 DEF token, IssueCollectToken
  <2> DEFINE y == Item(item.collect, s)
  <2>4. y \in ToSet(token) /\ y.collect = item.collect /\ IsSampled(y)
    BY <2>1, <2>2, <2>3 DEF ToSet, Item, IsSampled
  <2> HIDE DEF y
  <2>5. y \in ToSet(Select(token, IsSampled))
    BY <1>2, <2>4, SelectSampled
  <2>6. Select(token, IsSampled) # <<>>
    BY <2>5 DEF ToSet
  <2>7. SubmitSpans(set, token) = <<[cmd |-> "submit", set |-> set, token |-> Select(token, IsSampled)]>>
    BY <2>6 DEF SubmitSpans
  <2> DEFINE m == [cmd |-> "submit", set |-> set, token |-> Select(token, IsSampled)]
  <2>8. m \in ToSet(DropGuard(s, n))
    BY <1>3, <2>7 DEF ToSet
  <2>9. m.cmd = "submit" /\ m.set = set /\ m \in Command
    BY <1>1, <1>2, SelectSampled DEF Command
  <2>10. m.token = Select(token, IsSampled)
    OBVIOUS
  <2> HIDE DEF m
  <2>11. [set |-> m.set, trace |-> y.collect, parent |-> y.parent] \in ToSet(Copies(m))
    BY <2>5, <2>9, <2>10, CopiesType
  <2>12. p \in PairsOf(ToSet(Copies(m)))
    <3> DEFINE coll == [set |-> m.set, trace |-> y.collect, parent |-> y.parent]
    <3>1. coll.set = m.set /\ coll.trace = item.collect
      BY <2>4
    <3>2. Raw(nextRaw, NoParent, "Span") \in RawSpan /\ Raw(nextRaw, NoParent, "Span") \in ToSet(coll.set)
      BY <1>1, <2>1, <2>9, <3>1
    <3>3. Raw(nextRaw, NoParent, "Span").kind = "Span" /\ Raw(nextRaw, NoParent, "Span").id = nextRaw
      BY DEF Raw
    <3>4. coll \in ToSet(Copies(m))
      BY <2>11
    <3> HIDE DEF coll
    <3> QED
      BY <2>1, <3>1, <3>2, <3>3, <3>4, PairsOfMember
  <2> QED
    BY <2>8, <2>9, <2>12 DEF NewPairs
<1> QED
  BY <1>4, <1>5

-----------------------------------------------------------------------------
(* The steps of the adapters keep the invariants of the pipeline. *)

Polls(t, s, n) ==
  /\ Idle(t) /\ s \in DOMAIN spans /\ nextRaw + n <= MaxRaw + 1
  /\ nextRaw' = nextRaw + n
  /\ UNCHANGED <<nextRoot, thread, past, chan, rxs, collVars, seen>>
  /\ borrow' \in [Thread -> SpanId \cup {NoSpan}]
  /\ \A u \in Thread \ {t} : todo'[u] = todo[u]
  /\ todo' \in [Thread -> Seq(Command)]
  /\ \A m \in ToSet(DropGuard(s, n)) : m \in ToSet(todo'[t])
  /\ spans' = spans \/ spans' = [spans EXCEPT ![s].live = FALSE]
  /\ polled' = polled \cup Polled(s, n)

LEMMA YieldPolls ==
  ASSUME TypeInv, NEW t \in Thread, NEW s \in SpanId, PollYield(t, s)
  PROVE  Polls(t, s, 1)
PROOF
<1>1. Idle(t) /\ s \in DOMAIN spans /\ nextRaw \in Nat /\ MaxRaw \in Nat
  BY CollectorAssumption DEF PollYield, MayPoll, MayUse, Live, TypeInv, SpansOK
<1>2. nextRaw + 1 <= MaxRaw + 1
  BY <1>1 DEF PollYield
<1>3. DropGuard(s, 1) \in Seq(Command)
  BY <1>1, <1>2, GuardSends
<1>4. Issue(t, s, DropGuard(s, 1)) /\ UNCHANGED <<nextRoot, thread, past, chan, rxs, collVars, seen, spans>>
  BY DEF PollYield
<1>5. /\ borrow' \in [Thread -> SpanId \cup {NoSpan}] /\ todo' \in [Thread -> Seq(Command)]
      /\ todo' = [todo EXCEPT ![t] = DropGuard(s, 1)]
  BY <1>3, <1>4, IssueType DEF TypeInv
<1>6. todo \in [Thread -> Seq(Command)]
  BY DEF TypeInv, ThreadsOK
<1>7. todo'[t] = DropGuard(s, 1) /\ \A u \in Thread \ {t} : todo'[u] = todo[u]
  BY <1>5, <1>6
<1>8. nextRaw' = nextRaw + 1 /\ polled' = polled \cup Polled(s, 1)
  BY DEF PollYield
<1> QED
  BY <1>1, <1>2, <1>4, <1>5, <1>7, <1>8 DEF Polls

LEMMA FinishPolls ==
  ASSUME TypeInv, NEW t \in Thread, NEW s \in SpanId, NEW n \in 0 .. 1, PollFinish(t, s, n)
  PROVE  Polls(t, s, n)
PROOF
<1>1. Idle(t) /\ s \in DOMAIN spans /\ nextRaw + n <= MaxRaw + 1
  BY DEF PollFinish, MayPoll, MayUse, Live
<1>2. DropGuard(s, n) \in Seq(Command) /\ SpanDropped(s) \in Seq(Command)
  BY <1>1, GuardSends, SpanDroppedType DEF TypeInv
<1>3. /\ LastPoll(s, n) \in Seq(Command)
      /\ \A m \in ToSet(DropGuard(s, n)) : m \in ToSet(LastPoll(s, n))
  BY <1>2, ConcatRange DEF LastPoll
<1>4. Issue(t, NoSpan, LastPoll(s, n)) /\ UNCHANGED <<nextRoot, thread, past, chan, rxs, collVars, seen>>
  BY DEF PollFinish
<1>5. /\ borrow' \in [Thread -> SpanId \cup {NoSpan}] /\ todo' \in [Thread -> Seq(Command)]
      /\ todo' = [todo EXCEPT ![t] = LastPoll(s, n)]
  BY <1>3, <1>4, IssueType DEF TypeInv
<1>6. todo \in [Thread -> Seq(Command)]
  BY DEF TypeInv, ThreadsOK
<1>7. todo'[t] = LastPoll(s, n) /\ \A u \in Thread \ {t} : todo'[u] = todo[u]
  BY <1>5, <1>6
<1>8. nextRaw' = nextRaw + n /\ polled' = polled \cup Polled(s, n) /\ spans' = [spans EXCEPT ![s].live = FALSE]
  BY DEF PollFinish
<1> QED
  BY <1>1, <1>3, <1>4, <1>5, <1>7, <1>8 DEF Polls

\* A poll is one more call: it touches no channel, no collector, no record.
LEMMA PollsInv ==
  ASSUME AdapterInv, PolledInv, NEW t \in Thread, NEW s \in SpanId, NEW n \in 0 .. 1, Polls(t, s, n)
  PROVE  AdapterInv' /\ PolledInv'
PROOF
<1>1. SpansOK'
  <2>1. /\ nextRaw \in 1 .. MaxRaw + 1 /\ MaxRaw \in Nat /\ nextRoot \in 1 .. MaxRoot + 1
        /\ DOMAIN spans \subseteq 1 .. nextRaw - 1 /\ \A r \in DOMAIN spans : spans[r] \in SpanObject
    BY CollectorAssumption DEF AdapterInv, TypeInv, SpansOK
  <2>2. nextRaw' \in 1 .. MaxRaw + 1 /\ nextRaw <= nextRaw' /\ nextRaw' \in Nat
    BY <2>1 DEF Polls
  <2>3. DOMAIN spans' = DOMAIN spans
    BY DEF Polls
  <2>4. \A r \in DOMAIN spans' : spans'[r] \in SpanObject
    BY <2>1, ZenonT(30) DEF Polls, SpanObject
  <2>5. DOMAIN spans' \subseteq 1 .. nextRaw' - 1
    BY <2>1, <2>2, <2>3
  <2> QED
    BY <2>1, <2>2, <2>4, <2>5 DEF Polls, SpansOK
<1>2. /\ thread[t] = "run" /\ todo[t] = <<>>
      /\ UNCHANGED <<nextRoot, thread, past, chan, rxs, runner, at, empty, batch, active, reported, seen>>
  BY DEF Polls, Idle, collVars
<1>3. ThreadsOK'
  <2>1. /\ thread \in [Thread -> ThreadState] /\ past \in [Thread -> BOOLEAN]
        /\ \A u \in Thread : thread[u] # "run" => todo[u] = <<>>
    BY DEF AdapterInv, TypeInv, ThreadsOK
  <2>2. \A u \in Thread : thread'[u] # "run" => todo'[u] = <<>>
    BY <1>2, <2>1 DEF Polls
  <2>3. todo' \in [Thread -> Seq(Command)]
    BY DEF Polls
  <2> QED
    BY <1>2, <2>1, <2>2, <2>3 DEF ThreadsOK
<1>4. ChannelsOK' /\ ReceiversOK' /\ CollectorsOK'
  BY <1>2 DEF AdapterInv, TypeInv, ChannelsOK, ReceiversOK, CollectorsOK, AtReceiver
<1>5. SeenOK'
  BY <1>2 DEF AdapterInv, SeenOK
<1>6. FlushInv'
  BY <1>2 DEF AdapterInv, FlushInv, Landed, InBatch, InRing, Carries, NewPairs, ToCome, Ring, Got
<1>7. PolledInv'
  <2> SUFFICES ASSUME NEW p \in polled'
               PROVE  p \in seen'.owed \/ \E u \in Thread : \E m \in ToSet(todo'[u]) : p \in NewPairs(m)
    BY DEF PolledInv, NewPairs
  <2>1. CASE p \in polled
    <3>1. CASE p \in seen.owed
      BY <1>2, <3>1
    <3>2. CASE \E u \in Thread : \E m \in ToSet(todo[u]) : p \in NewPairs(m)
      <4>1. PICK u \in Thread : \E m \in ToSet(todo[u]) : p \in NewPairs(m)
        BY <3>2
      <4>2. u # t
        BY <1>2, <4>1 DEF ToSet
      <4> QED
        BY <4>1, <4>2 DEF Polls
    <3> QED
      BY <2>1, <3>1, <3>2 DEF PolledInv
  <2>2. CASE p \in Polled(s, n)
    <3>1. s \in DOMAIN spans /\ nextRaw + n <= MaxRaw + 1 /\ TypeInv
      BY DEF Polls, AdapterInv
    <3>2. PICK m \in ToSet(DropGuard(s, n)) : p \in NewPairs(m)
      BY <2>2, <3>1, GuardSends
    <3> QED
      BY <3>2 DEF Polls
  <2> QED
    BY <2>1, <2>2 DEF Polls
<1> QED
  BY <1>1, <1>3, <1>4, <1>5, <1>6, <1>7 DEF AdapterInv, TypeInv

\* A step of the pipeline: what is sent with room becomes owed.
LEMMA PipelineInv ==
  ASSUME ~Cancelable, MayExit = {}, Room, AdapterInv, PolledInv, Next, polled' = polled
  PROVE  AdapterInv' /\ PolledInv'
PROOF
<1>1. TypeInv /\ SeenOK /\ FlushInv /\ [Next]_vars
  BY DEF AdapterInv
<1>2. AdapterInv'
  BY <1>1, NextType, NextSeen, NextFlush DEF AdapterInv
<1>3. SUFFICES ASSUME NEW p \in polled
               PROVE  p \in seen'.owed \/ \E u \in Thread : \E m \in ToSet(todo'[u]) : p \in NewPairs(m)
  BY <1>2 DEF PolledInv, NewPairs
<1>4. p \in seen.owed \/ \E u \in Thread : \E m \in ToSet(todo[u]) : p \in NewPairs(m)
  BY <1>3 DEF PolledInv
<1>5. CASE \E t \in Thread : Send(t)
  <2>1. PICK t \in Thread : Send(t)
    BY <1>5
  <2>2. CASE RegisterReceiver(t) \/ RetryPending(t) \/ ForceRetryFull(t)
    BY <1>4, <2>2 DEF RegisterReceiver, RetryPending, ForceRetryFull
  <2>3. ~LoseCommand(t)
    BY DEF Room, LoseCommand, Ready
  <2>4. CASE PushCommand(t) \/ ParkCommand(t)
    <3>1. Sending(t) /\ Finish(t) /\ seen' = Record(Cmd(t))
      BY <2>4 DEF PushCommand, ParkCommand, AtPush, Ready
    <3>2. /\ todo'[t] = Tail(todo[t]) /\ \A u \in Thread \ {t} : todo'[u] = todo[u]
          /\ Cmd(t) \in Command /\ todo[t] = <<Cmd(t)>> \o Tail(todo[t])
      BY <1>1, <3>1, FinishType
    <3>3. seen'.owed = seen.owed \cup OwedFor(Cmd(t))
      BY <1>1, <3>1, <3>2, RecordEffect
    <3>4. todo[t] \in Seq(Command)
      BY <1>1 DEF TypeInv, ThreadsOK
    <3>5. ToSet(todo[t]) = {Cmd(t)} \cup ToSet(Tail(todo[t]))
      <4>1. todo[t] # <<>>
        BY <3>1 DEF Sending
      <4> QED
        BY <3>4, <4>1, HeadTailRange DEF Cmd
    <3>6. NewPairs(Cmd(t)) \subseteq OwedFor(Cmd(t))
      <4>1. CASE Cmd(t).cmd = "submit"
        BY <3>2, <4>1, SubmitSends DEF NewPairs, OwedFor, SentBy
      <4>2. CASE Cmd(t).cmd # "submit"
        BY <4>2 DEF NewPairs
      <4> QED
        BY <4>1, <4>2
    <3>7. CASE p \in seen.owed
      BY <3>3, <3>7
    <3>8. CASE \E u \in Thread : \E m \in ToSet(todo[u]) : p \in NewPairs(m)
      <4>1. PICK u \in Thread : \E m \in ToSet(todo[u]) : p \in NewPairs(m)
        BY <3>8
      <4>2. PICK m \in ToSet(todo[u]) : p \in NewPairs(m)
        BY <4>1
      <4>3. CASE u = t /\ m = Cmd(t)
        BY <3>3, <3>6, <4>2, <4>3
      <4>4. CASE u = t /\ m # Cmd(t)
        BY <3>2, <3>5, <4>2, <4>4
      <4>5. CASE u # t
        BY <3>2, <4>2, <4>5
      <4> QED
        BY <4>3, <4>4, <4>5
    <3> QED
      BY <1>4, <3>7, <3>8
  <2> QED
    BY <2>1, <2>2, <2>3, <2>4 DEF Send
<1>6. CASE \E t \in Thread : Call(t)
  <2>1. PICK t \in Thread : Call(t)
    BY <1>6
  <2>2. Idle(t) /\ seen' = seen /\ \A u \in Thread \ {t} : todo'[u] = todo[u]
    BY <1>1, <2>1, CallType
  <2>3. \A u \in Thread : \A m \in ToSet(todo[u]) : u # t
    BY <2>2 DEF Idle, ToSet
  <2> QED
    BY <1>4, <2>2, <2>3
<1>7. CASE \E t \in Thread : Flush(t) \/ ExitThread(t) \/ ExitDrain(t) \/ ExitDone(t)
  BY <1>1, <1>4, <1>7 DEF Flush, ExitThread, ExitDrain, ExitDone, SeenOK
<1>8. CASE Collect
  <2>1. todo' = todo /\ seen'.owed = seen.owed
    BY <1>1, <1>8 DEF Collect, LoopBegin, FlushBegin, Begin, RecvCommand, RecvEmpty, RecvNone, RecvClosed,
                      RecvDone, ProcessBatch, SeenOK
  <2> QED
    BY <1>4, <2>1
<1> QED
  BY <1>5, <1>6, <1>7, <1>8 DEF Next

-----------------------------------------------------------------------------
(* The invariants of the specification with adapters. *)

LEMMA AdapterInvHolds == ~Cancelable /\ MayExit = {} /\ AdapterSpec /\ []Room => [](AdapterInv /\ PolledInv)
PROOF
<1>1. AdapterInit => AdapterInv /\ PolledInv
  BY InitType, InitSeen, InitFlush DEF AdapterInit, AdapterInv, PolledInv
<1>2. ASSUME ~Cancelable, MayExit = {}, Room, AdapterInv, PolledInv, [AdapterNext]_adapterVars
      PROVE  AdapterInv' /\ PolledInv'
  <2>1. CASE UNCHANGED adapterVars
    <3>1. [Next]_vars /\ polled' = polled /\ seen' = seen /\ todo' = todo
      BY <2>1 DEF adapterVars, vars
    <3>2. AdapterInv'
      BY <1>2, <3>1, NextType, NextSeen, NextFlush DEF AdapterInv
    <3> QED
      BY <1>2, <3>1, <3>2 DEF PolledInv, NewPairs
  <2>2. CASE Rest
    <3>1. Next /\ polled' = polled
      BY <2>2 DEF Rest, Next
    <3> QED
      BY <1>2, <3>1, PipelineInv
  <2>3. ASSUME NEW t \in Thread, FreeCall(t)
        PROVE  AdapterInv' /\ PolledInv'
    <3>1. Next /\ polled' = polled
      BY <2>3 DEF FreeCall, Next, Call
    <3> QED
      BY <1>2, <3>1, PipelineInv
  <2>4. ASSUME NEW t \in Thread, NEW s \in SpanId, InSpan(t, s)
        PROVE  AdapterInv' /\ PolledInv'
    <3>1. [Next]_vars /\ polled' = polled /\ seen' = seen /\ todo' = todo
      BY <2>4 DEF InSpan, vars
    <3>2. AdapterInv'
      BY <1>2, <3>1, NextType, NextSeen, NextFlush DEF AdapterInv
    <3> QED
      BY <1>2, <3>1, <3>2 DEF PolledInv, NewPairs
  <2>5. ASSUME NEW t \in Thread, NEW s \in SpanId, DropTask(t, s)
        PROVE  AdapterInv' /\ PolledInv'
    <3>1. Next /\ polled' = polled
      BY <2>5 DEF DropTask, Next, Call
    <3> QED
      BY <1>2, <3>1, PipelineInv
  <2>6. ASSUME NEW t \in Thread, NEW s \in SpanId, PollYield(t, s)
        PROVE  AdapterInv' /\ PolledInv'
    <3>1. Polls(t, s, 1)
      BY <1>2, <2>6, YieldPolls DEF AdapterInv
    <3> QED
      BY <1>2, <3>1, PollsInv
  <2>7. ASSUME NEW t \in Thread, NEW s \in SpanId, NEW n \in 0 .. 1, PollFinish(t, s, n)
        PROVE  AdapterInv' /\ PolledInv'
    <3>1. Polls(t, s, n)
      BY <1>2, <2>7, FinishPolls DEF AdapterInv
    <3> QED
      BY <1>2, <3>1, PollsInv
  <2> QED
    BY <1>2, <2>1, <2>2, <2>3, <2>4, <2>5, <2>6, <2>7 DEF AdapterNext, TaskCall
<1>3. CASE ~Cancelable /\ MayExit = {}
  <2>1. Room /\ AdapterInv /\ PolledInv /\ [AdapterNext]_adapterVars => AdapterInv' /\ PolledInv'
    BY <1>2, <1>3
  <2> QED
    BY <1>1, <2>1, PTL DEF AdapterSpec
<1>4. CASE ~(~Cancelable /\ MayExit = {})
  BY <1>4
<1> QED
  BY <1>3, <1>4

\* When traces are not cancelable and no thread ends, and as long as no thread
\* finds its channel full, nothing that is due is missing, for any number of
\* threads, tasks and spans: everything owed is reported when flush returns and,
\* once nothing is on its way, so are the local spans of every poll, those of the
\* last poll of a task and those of polls that other threads made among them.
THEOREM PollsReported == ~Cancelable /\ MayExit = {} /\ AdapterSpec /\ []Room => []NothingMissing
PROOF
<1>1. ASSUME ~Cancelable, AdapterInv, PolledInv
      PROVE  NothingMissing
  <2>1. FlushReports
    BY <1>1 DEF AdapterInv, FlushInv, FlushReports, Landed
  <2>2. ASSUME Quiet, NEW p \in polled
        PROVE  p \in Got
    <3>1. \A t \in Thread : ToSet(todo[t]) = {} /\ ToSet(Ring(t)) = {}
      BY <2>2 DEF Quiet, ToSet, Ring
    <3>2. p \in seen.owed
      BY <1>1, <2>2, <3>1 DEF PolledInv
    <3>3. ToSet(batch) = {}
      BY <1>1, <2>2 DEF AdapterInv, TypeInv, ReceiversOK, Quiet, ToSet
    <3>4. Landed(p)
      BY <1>1, <3>1, <3>2, <3>3 DEF AdapterInv, FlushInv, InBatch, InRing
    <3> QED
      BY <1>1, <3>4 DEF Landed
  <2> QED
    BY <2>1, <2>2 DEF NothingMissing, PolledReported
<1>2. CASE ~Cancelable /\ MayExit = {}
  <2>1. AdapterInv /\ PolledInv => NothingMissing
    BY <1>1, <1>2
  <2>2. AdapterSpec /\ []Room => [](AdapterInv /\ PolledInv)
    BY <1>2, AdapterInvHolds
  <2> QED
    BY <2>1, <2>2, PTL
<1>3. CASE ~(~Cancelable /\ MayExit = {})
  BY <1>3
<1> QED
  BY <1>2, <1>3
=============================================================================
