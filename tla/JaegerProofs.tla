---------------------------- MODULE JaegerProofs ----------------------------
(***************************************************************************)
(* The batching loop of the Jaeger reporter, proved for every number and   *)
(* size of spans and every packet size: nothing that fits in a packet of   *)
(* its own is passed over, and packets follow each other.  Both rest on    *)
(* what the loop does to its own variables; Bytes is arbitrary.            *)
(*                                                                         *)
(* Then the ids, for every Half: what Digits writes Value reads, what      *)
(* Value accepts fits, and the conversion to signed words loses nothing.   *)
(* Ids are unique until a generator has gone round, and the agent can      *)
(* connect the tree.                                                       *)
(***************************************************************************)
EXTENDS Jaeger, DataInduction

\* A packet is a range of the records dealt with.
Packet == [first : Nat, last : Nat]

LoopInv ==
  /\ Len(records) \in Nat
  /\ perBatch \in Nat /\ sent \in Nat /\ sent <= Len(records)
  /\ Sending => perBatch > 0
  /\ packets \in Seq(Packet)
  /\ Idle => Len(records) = 0 /\ sent = 0 /\ packets = <<>>

IInv == LoopInv /\ PacketsInOrder /\ SentUnlessTooLarge

\* The records that report is called with.
LEMMA ReportStarts ==
  ASSUME NEW p \in Process, Report(p)
  PROVE  /\ Len(records') \in Nat /\ perBatch' \in Nat /\ perBatch' > 0
         /\ records' # <<>>
PROOF
<1>1. IsFiniteSet(1 .. MaxSpan)
  BY FS_Interval, JaegerAssumption
<1>2. IsFiniteSet(New(p))
  <2>1. New(p) \subseteq 1 .. MaxSpan
    BY DEF New
  <2> QED
    BY <1>1, <2>1, FS_Subset
<1>3. Cardinality(New(p)) \in Nat /\ Cardinality(New(p)) # 0
  BY <1>2, FS_CardinalityType, FS_EmptySet DEF Report
<1>4. /\ perBatch' = Cardinality(New(p))
      /\ \E f : records' = [i \in 1 .. Cardinality(New(p)) |-> f[i]]
  <2> DEFINE order == SetToSeq(New(p))
             f == [i \in 1 .. Cardinality(New(p)) |-> spans[order[i]]]
  <2>1. records' = f /\ perBatch' = Cardinality(New(p))
    BY DEF Report
  <2>2. f = [i \in 1 .. Cardinality(New(p)) |-> f[i]]
    OBVIOUS
  <2> QED
    BY <2>1, <2>2
<1> QED
  BY <1>3, <1>4

\* Without a step of the loop nothing that the invariant is about changes.
LEMMA LoopUnchanged ==
  ASSUME IInv, UNCHANGED loopVars
  PROVE  IInv'
PROOF
  BY DEF IInv, LoopInv, PacketsInOrder, SentUnlessTooLarge, InPacket, Fits, Sending, Idle, loopVars

-----------------------------------------------------------------------------
(* What each step of the loop preserves. *)

LEMMA SkipKeeps ==
  ASSUME IInv, Skip
  PROVE  IInv'
PROOF
<1> USE DEF IInv, LoopInv, Sending, Idle
<1>1. /\ sent < Len(records) /\ sent' = sent + 1
      /\ records' = records /\ perBatch' = perBatch /\ packets' = packets
  BY DEF Skip
<1>2. BatchSize = 1 /\ ~Fits(sent + 1, sent + 1)
  <2>1. BatchSize \in Nat /\ BatchSize > 0 /\ BatchSize <= 1
    BY <1>1 DEF Skip, BatchSize
  <2> QED
    BY <2>1 DEF Skip, BatchFits
<1>3. LoopInv'
  BY <1>1
<1>4. PacketsInOrder'
  <2> SUFFICES ASSUME NEW k \in DOMAIN packets
               PROVE  /\ packets[k].first <= packets[k].last /\ packets[k].last <= sent + 1
                      /\ Fits(packets[k].first, packets[k].last)
                      /\ \A j \in 1 .. k - 1 : packets[j].last < packets[k].first
    BY <1>1 DEF PacketsInOrder, Fits
  <2>1. packets[k] \in Packet
    OBVIOUS
  <2>2. packets[k].last \in Nat /\ packets[k].last <= sent
    BY <2>1 DEF Packet, PacketsInOrder
  <2>3. packets[k].last <= sent + 1
    BY <2>2
  <2> QED
    BY <2>3 DEF PacketsInOrder
<1>5. SentUnlessTooLarge'
  <2> SUFFICES ASSUME NEW i \in 1 .. sent + 1
               PROVE  InPacket(i) \/ ~Fits(i, i)
    BY <1>1 DEF SentUnlessTooLarge, InPacket, Fits
  <2>1. CASE i = sent + 1
    BY <1>2, <2>1
  <2>2. CASE i # sent + 1
    <3>1. i \in 1 .. sent
      BY <2>2
    <3> QED
      BY <3>1 DEF SentUnlessTooLarge
  <2> QED
    BY <2>1, <2>2
<1> QED
  BY <1>3, <1>4, <1>5

\* Halving leaves at least one span to a batch.
LEMMA ShrinkKeeps ==
  ASSUME IInv, Shrink
  PROVE  IInv'
PROOF
<1> USE DEF IInv, LoopInv, Sending, Idle
<1>1. /\ records' = records /\ sent' = sent /\ packets' = packets
      /\ perBatch' = perBatch \div 2
  BY DEF Shrink
<1>2. perBatch > 1
  BY DEF Shrink, BatchSize
<1>3. perBatch' \in Nat /\ perBatch' > 0
  BY <1>1, <1>2
<1>4. LoopInv'
  BY <1>1, <1>3
<1>5. PacketsInOrder' /\ SentUnlessTooLarge'
  BY <1>1 DEF PacketsInOrder, SentUnlessTooLarge, InPacket, Fits
<1> QED
  BY <1>4, <1>5

LEMMA SendPacketKeeps ==
  ASSUME IInv, SendPacket
  PROVE  IInv'
PROOF
<1> USE DEF IInv, LoopInv, Sending, Idle
<1> DEFINE new == [first |-> sent + 1, last |-> sent + BatchSize]
<1>1. /\ sent < Len(records) /\ records' = records /\ perBatch' = perBatch
      /\ sent' = sent + BatchSize /\ packets' = Append(packets, new)
      /\ Fits(sent + 1, sent + BatchSize)
  BY DEF SendPacket, BatchFits
<1>2. BatchSize \in Nat /\ BatchSize > 0 /\ sent + BatchSize <= Len(records)
  BY <1>1 DEF BatchSize
<1>3. new \in Packet
  BY <1>2 DEF Packet
<1> HIDE DEF new
<1>4. packets' \in Seq(Packet) /\ Len(packets') = Len(packets) + 1
  BY <1>1, <1>3
<1>5. /\ packets'[Len(packets) + 1] = new
      /\ \A k \in 1 .. Len(packets) : packets'[k] = packets[k]
  BY <1>1
<1>6. new.first = sent + 1 /\ new.last = sent + BatchSize
  BY DEF new
<1>7. LoopInv'
  BY <1>1, <1>2, <1>4
<1>8. PacketsInOrder'
  <2> SUFFICES ASSUME NEW k \in 1 .. Len(packets) + 1
               PROVE  /\ packets'[k].first <= packets'[k].last /\ packets'[k].last <= sent'
                      /\ Fits(packets'[k].first, packets'[k].last)
                      /\ \A j \in 1 .. k - 1 : packets'[j].last < packets'[k].first
    BY <1>1, <1>4 DEF PacketsInOrder, Fits
  <2>1. \A j \in 1 .. Len(packets) :
           /\ packets[j] \in Packet
           /\ packets[j].first <= packets[j].last /\ packets[j].last <= sent
           /\ Fits(packets[j].first, packets[j].last)
           /\ \A l \in 1 .. j - 1 : packets[l].last < packets[j].first
    BY DEF PacketsInOrder
  <2>2. CASE k = Len(packets) + 1
    <3>1. \A j \in 1 .. k - 1 : packets'[j].last < sent + 1
      BY <1>5, <2>1, <2>2 DEF Packet
    <3> QED
      BY <1>1, <1>2, <1>5, <1>6, <2>2, <3>1
  <2>3. CASE k \in 1 .. Len(packets)
    <3>1. \A j \in 1 .. k - 1 : packets'[j] = packets[j]
      BY <1>5, <2>3
    <3> QED
      BY <1>1, <1>2, <1>5, <2>1, <2>3, <3>1 DEF Packet
  <2> QED
    BY <2>2, <2>3
<1>9. SentUnlessTooLarge'
  <2> SUFFICES ASSUME NEW i \in 1 .. sent + BatchSize
               PROVE  \/ \E k \in 1 .. Len(packets) + 1 :
                            i \in packets'[k].first .. packets'[k].last
                      \/ ~Fits(i, i)
    BY <1>1, <1>4 DEF SentUnlessTooLarge, InPacket, Fits
  <2>1. CASE i \in 1 .. sent
    <3>1. (\E k \in 1 .. Len(packets) : i \in packets[k].first .. packets[k].last) \/ ~Fits(i, i)
      BY <2>1 DEF SentUnlessTooLarge, InPacket
    <3> QED
      BY <1>5, <3>1
  <2>2. CASE i \notin 1 .. sent
    <3>1. i \in new.first .. new.last
      BY <1>2, <1>6, <2>2
    <3> QED
      BY <1>5, <3>1
  <2> QED
    BY <2>1, <2>2
<1> QED
  BY <1>7, <1>8, <1>9

\* The end of report, and its beginning.
LEMMA ResetKeeps ==
  ASSUME Reset
  PROVE  IInv'
PROOF
  BY DEF Reset, IInv, LoopInv, PacketsInOrder, SentUnlessTooLarge, Sending, Idle

LEMMA ReportKeeps ==
  ASSUME NEW p \in Process, Report(p)
  PROVE  IInv'
PROOF
<1>1. /\ Len(records') \in Nat /\ perBatch' \in Nat /\ perBatch' > 0
      /\ records' # <<>>
  BY ReportStarts
<1>2. sent' = 0 /\ packets' = <<>>
  BY DEF Report
<1> QED
  BY <1>1, <1>2 DEF IInv, LoopInv, PacketsInOrder, SentUnlessTooLarge, Sending, Idle

-----------------------------------------------------------------------------
\* The whole of it is inductive.
THEOREM BatchesInductive == Spec => []IInv
PROOF
<1>1. Init => IInv
  BY DEF Init, IInv, LoopInv, PacketsInOrder, SentUnlessTooLarge, Sending, Idle
<1>2. IInv /\ [Next]_vars => IInv'
  <2> SUFFICES ASSUME IInv, [Next]_vars
               PROVE  IInv'
    OBVIOUS
  <2>1. CASE \E p \in Process : \E size \in Sizes :
                Root(p, size) \/ Remote(p, size) \/ FromForeign(p, size)
    <3>1. UNCHANGED loopVars
      BY <2>1 DEF Root, Remote, FromForeign, NewSpan
    <3> QED
      BY <3>1, LoopUnchanged
  <2>2. CASE \E size \in Sizes : Child(size)
    <3>1. UNCHANGED loopVars
      BY <2>2 DEF Child, NewSpan
    <3> QED
      BY <3>1, LoopUnchanged
  <2>3. CASE \E p \in Process : Report(p)
    BY <2>3, ReportKeeps
  <2>4. CASE Skip
    BY <2>4, SkipKeeps
  <2>5. CASE Shrink
    BY <2>5, ShrinkKeeps
  <2>6. CASE SendPacket
    BY <2>6, SendPacketKeeps
  <2>7. CASE SendFails \/ Return
    <3>1. Reset
      BY <2>7 DEF SendFails, Return
    <3> QED
      BY <3>1, ResetKeeps
  <2>8. CASE UNCHANGED vars
    <3>1. UNCHANGED loopVars
      BY <2>8 DEF vars
    <3> QED
      BY <3>1, LoopUnchanged
  <2> QED
    BY <2>1, <2>2, <2>3, <2>4, <2>5, <2>6, <2>7, <2>8 DEF Next, Loop
<1> QED
  BY <1>1, <1>2, PTL DEF Spec

\* The reporter passes over no span that fits in a packet of its own, however
\* large the spans around it are (try_report).
THEOREM NothingSkipped == Spec => []SentUnlessTooLarge
PROOF
<1>1. IInv => SentUnlessTooLarge
  BY DEF IInv
<1> QED
  BY <1>1, BatchesInductive, PTL

\* The packets of a call of report follow each other, each within the limit:
\* no span is sent twice or out of order (try_report).
THEOREM PacketsFollow == Spec => []PacketsInOrder
PROOF
<1>1. IInv => PacketsInOrder
  BY DEF IInv
<1> QED
  BY <1>1, BatchesInductive, PTL

-----------------------------------------------------------------------------
(* Ids and the words they consist of. *)

LEMMA Words ==
  /\ Half \in Nat /\ Half > 0 /\ Word \in Nat /\ Word > 0 /\ Word * Word \in Nat
  /\ Word * Half \in Nat /\ Word * Half > 0 /\ Word * Word = (Word * Half) * Half
PROOF
<1>1. Half \in Nat /\ Half > 0
  BY HalfAssumption
<1>2. Word \in Nat /\ Word > 0 /\ Word = Half * Half
  BY <1>1 DEF Word
<1> HIDE DEF Word
<1>3. Word * Word \in Nat /\ Word * Half \in Nat /\ Word * Half > 0
  BY <1>1, <1>2
<1>4. Word * Word = (Word * Half) * Half
  BY <1>1, <1>2
<1> QED
  BY <1>1, <1>2, <1>3, <1>4

\* What the agent reads is what the collector sent.
LEMMA SignedUnsigned ==
  ASSUME NEW x \in Nat
  PROVE  Unsigned(Signed(x)) = x % Word
PROOF
<1>1. Word \in Nat /\ Word > 0 /\ x % Word \in 0 .. Word - 1
  BY Words, Divides
<1>2. Word \div 2 \in Nat
  BY <1>1
<1> QED
  BY <1>1, <1>2 DEF Unsigned, Signed

LEMMA ConvertReads ==
  ASSUME NEW s, s.trace \in TraceIds, s.id \in SpanIds, s.parent \in SpanIds
  PROVE  /\ AgentTrace(Convert(s)) = s.trace
         /\ Unsigned(Convert(s).span) = s.id /\ Unsigned(Convert(s).parent) = s.parent
PROOF
<1>1. /\ s.trace \in Nat /\ s.trace < Word * Word
      /\ s.id \in 0 .. Word - 1 /\ s.parent \in 0 .. Word - 1
  BY Words DEF TraceIds, SpanIds
<1>2. \A x \in 0 .. Word - 1 : x % Word = x
  BY Words, Remainder
<1>3. Unsigned(Convert(s).span) = s.id /\ Unsigned(Convert(s).parent) = s.parent
  BY <1>1, <1>2, SignedUnsigned DEF Convert
<1> DEFINE high == s.trace \div Word
           low == s.trace % Word
<1>4. high \in Nat /\ high < Word /\ low \in 0 .. Word - 1 /\ s.trace = high * Word + low
  BY <1>1, Words, Divides, DivSmall
<1>5. Unsigned(Convert(s).high) = high % Word /\ Unsigned(Convert(s).low) = low
  BY <1>1, <1>4, SignedUnsigned DEF Convert
<1>6. high % Word = high
  <2> HIDE DEF high
  <2>1. high \in 0 .. Word - 1
    BY <1>4, Words
  <2> QED
    BY <1>2, <2>1
<1> QED
  BY <1>3, <1>4, <1>5, <1>6 DEF AgentTrace

-----------------------------------------------------------------------------
(* Numbers read from and written to the fields of a header. *)

\* What Value adds up, digit by digit.
Sums(field, g) ==
  /\ g \in [0 .. Len(field) -> Nat]
  /\ g[0] = 0
  /\ \A i \in 1 .. Len(field) : g[i] = g[i - 1] * Half + field[i]

LEMMA SumsExist ==
  ASSUME NEW field \in Seq(Digit)
  PROVE  \E g : Sums(field, g)
PROOF
<1> DEFINE L == Len(field)
           Good(k) == \E g \in [0 .. k -> Nat] : /\ g[0] = 0
                                                /\ \A i \in 1 .. k : g[i] = g[i - 1] * Half + field[i]
           P == {k \in Nat : Good(k)}
<1>1. L \in Nat /\ \A i \in 1 .. L : field[i] \in Nat
  <2>1. \A i \in 1 .. L : field[i] \in Digit
    BY ElementOfSeq
  <2> QED
    BY <2>1, LenProperties, Words DEF Digit
<1>2. 0 \in P
  <2> DEFINE f == [i \in 0 .. 0 |-> 0]
  <2>1. f \in [0 .. 0 -> Nat] /\ f[0] = 0
    OBVIOUS
  <2>2. \A i \in 1 .. 0 : FALSE
    OBVIOUS
  <2> HIDE DEF f
  <2> QED
    BY <2>1, <2>2
<1>3. ASSUME NEW k \in 0 .. L - 1, k \in P
      PROVE  k + 1 \in P
  <2>1. PICK g \in [0 .. k -> Nat] : g[0] = 0 /\ \A i \in 1 .. k : g[i] = g[i - 1] * Half + field[i]
    BY <1>3
  <2> DEFINE m == k + 1
             next == g[k] * Half + field[m]
             f == [i \in 0 .. m |-> IF i = m THEN next ELSE g[i]]
  <2>2. /\ m \in Nat /\ m \in 1 .. L /\ m # 0 /\ m - 1 = k /\ m \in 0 .. m /\ k \in 0 .. k
        /\ \A i \in 0 .. m : i # m => i \in 0 .. k
        /\ \A i \in 1 .. m : i # m => i \in 1 .. k /\ i - 1 \in 0 .. m /\ i - 1 # m
        /\ k \in 0 .. m /\ k # m /\ 0 \in 0 .. m
    BY <1>1
  <2> HIDE DEF m
  <2>3. next \in Nat
    <3>1. \A a, b, d \in Nat : a * b + d \in Nat
      OBVIOUS
    <3>2. g[k] \in Nat /\ field[m] \in Nat /\ Half \in Nat
      BY <1>1, <2>2, Words
    <3> QED
      BY <3>1, <3>2
  <2> HIDE DEF next
  <2>4. f \in [0 .. m -> Nat]
    BY <2>2, <2>3
  <2>5. f[0] = 0
    BY <2>1, <2>2
  <2>6. ASSUME NEW i \in 1 .. m
        PROVE  f[i] = f[i - 1] * Half + field[i]
    <3>1. CASE i = m
      <4>1. f[i] = next /\ f[i - 1] = g[k]
        BY <2>2, <3>1
      <4> QED
        BY <3>1, <4>1 DEF next
    <3>2. CASE i # m
      <4>1. i \in 1 .. k /\ i \in 0 .. m /\ f[i] = g[i] /\ f[i - 1] = g[i - 1]
        BY <2>2, <3>2
      <4> QED
        BY <2>1, <4>1
    <3> QED
      BY <3>1, <3>2
  <2>7. Good(m)
    <3> HIDE DEF f
    <3> QED
      BY <2>4, <2>5, <2>6
  <2> QED
    BY <2>2, <2>7 DEF m
<1> HIDE DEF P
<1>4. \A k \in 0 .. L : k \in P
  BY <1>1, <1>2, <1>3, UpToInduction
<1>5. L \in P
  BY <1>1, <1>4
<1>6. PICK g \in [0 .. L -> Nat] : g[0] = 0 /\ \A i \in 1 .. L : g[i] = g[i - 1] * Half + field[i]
  BY <1>5 DEF P
<1> QED
  BY <1>6 DEF Sums

\* Value is their total.
LEMMA ValueSums ==
  ASSUME NEW field \in Seq(Digit), NEW n
  PROVE  \E g : Sums(field, g) /\ Value(field, n) = g[Len(field)]
PROOF
<1> DEFINE L == Len(field)
           Rule(f) == f = [i \in 0 .. L |-> IF i = 0 THEN 0 ELSE f[i - 1] * Half + field[i]]
           it == CHOOSE f : Rule(f)
<1>1. L \in Nat
  BY LenProperties
<1>2. PICK g : Sums(field, g)
  BY SumsExist
<1>3. Rule(g)
  <2>1. g = [i \in 0 .. L |-> g[i]]
    BY <1>2 DEF Sums
  <2>2. ASSUME NEW i \in 0 .. L
        PROVE  g[i] = IF i = 0 THEN 0 ELSE g[i - 1] * Half + field[i]
    BY <1>2 DEF Sums
  <2> QED
    BY <2>1, <2>2
<1>4. Rule(it)
  BY <1>3
<1>5. Value(field, n) = it[L]
  BY DEF Value
<1> HIDE DEF it
<1>6. \A i \in 0 .. L : it[i] = IF i = 0 THEN 0 ELSE it[i - 1] * Half + field[i]
  BY <1>4
<1> DEFINE P == {k \in Nat : it[k] = g[k]}
<1>7. 0 \in P
  BY <1>1, <1>2, <1>6 DEF Sums
<1>8. ASSUME NEW k \in 0 .. L - 1, k \in P
      PROVE  k + 1 \in P
  <2>1. PICK j \in 1 .. L : j = k + 1 /\ j - 1 = k /\ j \in Nat /\ j # 0 /\ j \in 0 .. L
    BY <1>1
  <2>2. it[j] = it[k] * Half + field[j] /\ g[j] = g[k] * Half + field[j]
    BY <1>2, <1>6, <2>1 DEF Sums
  <2>3. it[k] = g[k]
    BY <1>8
  <2> QED
    BY <2>1, <2>2, <2>3
<1> HIDE DEF P
<1>9. \A k \in 0 .. L : k \in P
  BY <1>1, <1>7, <1>8, UpToInduction
<1>10. it[L] = g[L]
  BY <1>1, <1>9 DEF P
<1> QED
  BY <1>2, <1>5, <1>10

\* One digit more.
LEMMA DigitMore ==
  ASSUME NEW b \in Nat, NEW a \in 0 .. b - 1, NEW d \in Digit
  PROVE  a * Half + d < b * Half
PROOF
<1>1. Half \in Nat /\ d < Half /\ d \in Nat
  BY Words DEF Digit
<1>2. a \in Nat /\ a + 1 <= b
  OBVIOUS
<1>3. (a + 1) * Half <= b * Half
  BY <1>1, <1>2
<1>4. (a + 1) * Half = a * Half + Half
  BY <1>1, <1>2
<1>5. a * Half \in Nat /\ b * Half \in Nat
  BY <1>1, <1>2
<1> QED
  BY <1>1, <1>3, <1>4, <1>5

\* A number of n digits is small enough for its type.
LEMMA ValueFits ==
  ASSUME NEW field \in Seq(Nat), NEW n \in {2, 4}, Parses(field, n)
  PROVE  Value(field, n) \in IF n = 2 THEN SpanIds ELSE TraceIds
PROOF
<1> DEFINE L == Len(field)
           Most == [k \in 0 .. 4 |-> IF k = 0 THEN 1 ELSE IF k = 1 THEN Half ELSE IF k = 2 THEN Word
                                     ELSE IF k = 3 THEN Word * Half ELSE Word * Word]
<1>1. L \in Nat /\ \A i \in 1 .. L : field[i] \in Digit /\ (i + n <= L => field[i] = 0)
  BY LenProperties DEF Parses
<1>2. field \in Seq(Digit)
  BY <1>1
<1>3. PICK g : Sums(field, g) /\ Value(field, n) = g[L]
  BY <1>2, ValueSums
<1>4. \A k \in 0 .. 3 : Most[k] \in Nat /\ Most[k + 1] = Most[k] * Half
  <2>1. \A k \in 0 .. 3 : k = 0 \/ k = 1 \/ k = 2 \/ k = 3
    OBVIOUS
  <2>2. Word = Half * Half /\ Half = 1 * Half
    BY Words DEF Word
  <2> QED
    BY <2>1, <2>2, Words
<1>5. \A k \in 0 .. 4 : Most[k] > 0
  BY Words
<1>6. Most[0] = 1 /\ Most[2] = Word /\ Most[4] = Word * Word
  OBVIOUS
<1> HIDE DEF Most
<1>7. \A i \in 1 .. L : g[i] = g[i - 1] * Half + field[i] /\ g[i - 1] \in Nat
  BY <1>1, <1>3, SMTT(30) DEF Sums
<1>8. g[0] = 0 /\ \A i \in 0 .. L : g[i] \in Nat
  BY <1>3 DEF Sums
<1> DEFINE P == {i \in Nat : i + n <= L => g[i] = 0}
<1>9. 0 \in P
  BY <1>8
<1>10. ASSUME NEW i \in 0 .. L - 1, i \in P
       PROVE  i + 1 \in P
  <2>1. PICK j \in 1 .. L : j = i + 1 /\ j - 1 = i /\ j \in Nat
    BY <1>1
  <2>2. CASE j + n <= L
    <3>1. g[i] = 0 /\ field[j] = 0
      BY <1>1, <1>10, <2>1, <2>2
    <3>2. g[j] = g[i] * Half + field[j]
      BY <1>7, <2>1
    <3>3. g[j] = 0
      BY <3>1, <3>2, Words
    <3> QED
      BY <2>1, <3>3
  <2> QED
    BY <2>1, <2>2
<1>11. \A i \in 0 .. L : i \in P
  <2> HIDE DEF P
  <2> QED
    BY <1>1, <1>9, <1>10, UpToInduction
<1> DEFINE at(k) == L - n + k
           Q == {k \in Nat : at(k) \in Nat => g[at(k)] < Most[k]}
<1>12. 0 \in Q
  <2> SUFFICES ASSUME at(0) \in Nat
               PROVE  g[at(0)] < Most[0]
    OBVIOUS
  <2>1. at(0) \in 0 .. L /\ at(0) + n <= L
    BY <1>1
  <2>2. g[at(0)] = 0
    BY <1>11, <2>1
  <2> QED
    BY <1>6, <2>2
<1>13. ASSUME NEW k \in 0 .. n - 1, k \in Q
       PROVE  k + 1 \in Q
  <2> SUFFICES ASSUME at(k + 1) \in Nat
               PROVE  g[at(k + 1)] < Most[k + 1]
    OBVIOUS
  <2>1. at(k + 1) \in 0 .. L /\ at(k + 1) - 1 = at(k) /\ k \in 0 .. 3 /\ k + 1 \in 0 .. 4
    BY <1>1
  <2>2. CASE at(k + 1) = 0
    BY <1>5, <1>8, <2>1, <2>2
  <2>3. CASE at(k + 1) # 0
    <3>1. at(k + 1) \in 1 .. L /\ at(k) \in Nat /\ at(k) \in 0 .. L
      BY <1>1, <2>1, <2>3
    <3>2. g[at(k)] < Most[k] /\ g[at(k)] \in Nat /\ Most[k] \in Nat
      BY <1>4, <1>8, <1>13, <2>1, <3>1
    <3>3. g[at(k + 1)] = g[at(k)] * Half + field[at(k + 1)] /\ field[at(k + 1)] \in Digit
      BY <1>1, <1>7, <2>1, <3>1
    <3>4. Most[k + 1] = Most[k] * Half
      BY <1>4, <2>1
    <3> HIDE DEF at
    <3>5. g[at(k)] \in 0 .. Most[k] - 1
      BY <3>2
    <3> QED
      BY <3>2, <3>3, <3>4, <3>5, DigitMore
  <2> QED
    BY <2>2, <2>3
<1>14. n \in Q
  <2> HIDE DEF Q
  <2>1. \A k \in 0 .. n : k \in Q
    BY <1>12, <1>13, UpToInduction
  <2> QED
    BY <2>1
<1>15. g[L] < Most[n] /\ g[L] \in Nat
  <2>1. at(n) = L
    BY <1>1
  <2> QED
    BY <1>1, <1>8, <1>14, <2>1
<1> QED
  BY <1>3, <1>6, <1>15, Words DEF SpanIds, TraceIds

\* What Digits writes, Value reads.
LEMMA SpanReadsBack ==
  ASSUME NEW x \in SpanIds
  PROVE  Value(Digits(x, 2), 2) = x
PROOF
<1> DEFINE q == x \div Half
           field == Digits(x, 2)
<1>1. x \in Nat /\ x < Half * Half /\ Half \in Nat /\ Half > 0
  BY Words DEF SpanIds, Word
<1>2. q \in Nat /\ q \in 0 .. Half - 1 /\ x = q * Half + (x % Half) /\ x % Half \in Digit
  BY <1>1, Divides, DivSmall DEF Digit
<1>3. x \div 1 = x /\ q % Half = q
  <2>1. x \div 1 = x
    BY <1>1
  <2> QED
    BY <1>1, <1>2, <2>1, Remainder
<1>4. field = [i \in 1 .. 2 |-> IF i = 1 THEN q ELSE x % Half]
  <2>1. ASSUME NEW i \in 1 .. 2
        PROVE  (x \div Place[2 - i + 1]) % Half = IF i = 1 THEN q ELSE x % Half
    <3>1. CASE i = 1
      <4>1. Place[2 - i + 1] = Half
        BY <3>1 DEF Place
      <4> QED
        BY <1>3, <3>1, <4>1
    <3>2. CASE i = 2
      <4>1. Place[2 - i + 1] = 1
        BY <3>2 DEF Place
      <4> QED
        BY <1>3, <3>2, <4>1
    <3> QED
      BY <3>1, <3>2
  <2> QED
    BY <2>1 DEF Digits
<1> HIDE DEF q, field
<1>5. field \in Seq(Digit) /\ Len(field) = 2 /\ field[1] = q /\ field[2] = x % Half
  <2>1. field \in [1 .. 2 -> Digit] /\ 2 \in Nat
    BY <1>2, <1>4 DEF Digit
  <2>2. field \in Seq(Digit) /\ Len(field) = 2
    BY <2>1, FunctionIsSeq
  <2> QED
    BY <1>4, <2>2
<1>6. PICK g : Sums(field, g) /\ Value(field, 2) = g[2]
  BY <1>5, ValueSums
<1>7. g[0] = 0 /\ g[1] = g[0] * Half + q /\ g[2] = g[1] * Half + (x % Half)
  <2>1. \A i \in 1 .. 2 : g[i] = g[i - 1] * Half + field[i]
    BY <1>5, <1>6 DEF Sums
  <2>2. g[1] = g[1 - 1] * Half + field[1] /\ g[2] = g[2 - 1] * Half + field[2]
    BY <2>1
  <2>3. 1 - 1 = 0 /\ 2 - 1 = 1
    OBVIOUS
  <2> QED
    BY <1>5, <1>6, <2>2, <2>3 DEF Sums
<1>8. g[1] = q
  BY <1>1, <1>2, <1>7
<1> QED
  BY <1>2, <1>6, <1>7, <1>8 DEF field

LEMMA TraceReadsBack ==
  ASSUME NEW x \in TraceIds
  PROVE  Value(Digits(x, 4), 4) = x
PROOF
<1> DEFINE q1 == x \div Half
           q2 == q1 \div Half
           q3 == q2 \div Half
           field == Digits(x, 4)
<1>1. x \in Nat /\ x < Half * (Word * Half) /\ Half \in Nat /\ Half > 0
  <2>1. x \in Nat /\ x < Word * Word
    BY Words DEF TraceIds
  <2>2. Word * Word = Half * (Word * Half)
    <3>1. Word \in Nat /\ Half \in Nat /\ Word = Half * Half
      BY Words DEF Word
    <3> HIDE DEF Word
    <3>2. Half * (Word * Half) = Word * (Half * Half)
      BY <3>1
    <3> QED
      BY <3>1, <3>2
  <2> QED
    BY <2>1, <2>2, Words
<1>2. q1 \in Nat /\ x = q1 * Half + (x % Half) /\ x % Half \in Digit
  BY <1>1, Divides DEF Digit
<1>3. q2 \in Nat /\ q1 = q2 * Half + (q1 % Half) /\ q1 % Half \in Digit
  <2> HIDE DEF q1
  <2> QED
    BY <1>1, <1>2, Divides DEF Digit
<1>4. q3 \in Nat /\ q2 = q3 * Half + (q2 % Half) /\ q2 % Half \in Digit
  <2> HIDE DEF q2
  <2> QED
    BY <1>1, <1>3, Divides DEF Digit
<1>5. x \div 1 = x /\ x \div Word = q2 /\ x \div (Word * Half) = q3
  <2>1. x \div 1 = x
    BY <1>1
  <2>2. x \div Word = q2
    BY <1>1, DivDiv DEF Word
  <2>3. (x \div Word) \div Half = x \div (Word * Half)
    BY <1>1, Words, DivDiv
  <2> QED
    BY <2>1, <2>2, <2>3
<1>6. q3 \in 0 .. Half - 1 /\ q3 % Half = q3
  <2>1. x \div (Word * Half) < Half
    BY <1>1, Words, DivSmall
  <2> HIDE DEF q3
  <2>2. q3 \in 0 .. Half - 1
    BY <1>1, <1>4, <1>5, <2>1
  <2> QED
    BY <1>1, <2>2, Remainder
<1>7. field = [i \in 1 .. 4 |-> IF i = 1 THEN q3 ELSE IF i = 2 THEN q2 % Half
                               ELSE IF i = 3 THEN q1 % Half ELSE x % Half]
  <2>1. Place[4] = Word * Half /\ Place[3] = Word /\ Place[2] = Half /\ Place[1] = 1
    BY DEF Place
  <2>2. ASSUME NEW i \in 1 .. 4
        PROVE  (x \div Place[4 - i + 1]) % Half
                 = IF i = 1 THEN q3 ELSE IF i = 2 THEN q2 % Half ELSE IF i = 3 THEN q1 % Half ELSE x % Half
    <3> HIDE DEF q1, q2, q3
    <3>1. CASE i = 1
      <4>1. 4 - i + 1 = 4
        BY <3>1
      <4> QED
        BY <1>5, <1>6, <2>1, <3>1, <4>1
    <3>2. CASE i = 2
      <4>1. 4 - i + 1 = 3
        BY <3>2
      <4> QED
        BY <1>5, <2>1, <3>2, <4>1
    <3>3. CASE i = 3
      <4>1. 4 - i + 1 = 2
        BY <3>3
      <4> QED
        BY <2>1, <3>3, <4>1 DEF q1
    <3>4. CASE i = 4
      <4>1. 4 - i + 1 = 1
        BY <3>4
      <4> QED
        BY <1>5, <2>1, <3>4, <4>1
    <3> QED
      BY <3>1, <3>2, <3>3, <3>4
  <2> QED
    BY <2>2 DEF Digits
<1> HIDE DEF q1, q2, q3, field
<1>8. /\ field \in Seq(Digit) /\ Len(field) = 4
      /\ field[1] = q3 /\ field[2] = q2 % Half /\ field[3] = q1 % Half /\ field[4] = x % Half
  <2>1. q3 \in Digit
    BY <1>6 DEF Digit
  <2>2. field \in [1 .. 4 -> Digit] /\ 4 \in Nat
    BY <1>2, <1>3, <1>4, <1>7, <2>1
  <2>3. field \in Seq(Digit) /\ Len(field) = 4
    BY <2>2, FunctionIsSeq
  <2> QED
    BY <1>7, <2>3
<1>9. PICK g : Sums(field, g) /\ Value(field, 4) = g[4]
  BY <1>8, ValueSums
<1>10. /\ g[0] = 0 /\ g[1] = g[0] * Half + q3 /\ g[2] = g[1] * Half + (q2 % Half)
       /\ g[3] = g[2] * Half + (q1 % Half) /\ g[4] = g[3] * Half + (x % Half)
  <2>1. \A i \in 1 .. 4 : g[i] = g[i - 1] * Half + field[i]
    BY <1>8, <1>9 DEF Sums
  <2>2. /\ g[1] = g[1 - 1] * Half + field[1] /\ g[2] = g[2 - 1] * Half + field[2]
        /\ g[3] = g[3 - 1] * Half + field[3] /\ g[4] = g[4 - 1] * Half + field[4]
    BY <2>1
  <2>3. 1 - 1 = 0 /\ 2 - 1 = 1 /\ 3 - 1 = 2 /\ 4 - 1 = 3
    OBVIOUS
  <2> QED
    BY <1>8, <1>9, <2>2, <2>3 DEF Sums
<1>11. g[1] = q3
  BY <1>1, <1>4, <1>10
<1>12. g[2] = q2
  BY <1>4, <1>10, <1>11
<1>13. g[3] = q1
  BY <1>3, <1>10, <1>12
<1> QED
  BY <1>2, <1>9, <1>10, <1>13 DEF field

LEMMA FlagReadsBack ==
  ASSUME NEW sampled \in BOOLEAN
  PROVE  (Value(<<0, IF sampled THEN 1 ELSE 0>>, 2) % 2 = 1) = sampled
PROOF
<1> SUFFICES ASSUME NEW bit, bit = (IF sampled THEN 1 ELSE 0), NEW field, field = <<0, bit>>
             PROVE  (Value(field, 2) % 2 = 1) = sampled
  OBVIOUS
<1>1. Half \in Nat /\ Half >= 2
  BY HalfAssumption
<1>2. bit \in {0, 1} /\ bit \in Digit /\ 0 \in Digit
  BY <1>1 DEF Digit
<1>3. field \in Seq(Digit) /\ Len(field) = 2 /\ field[1] = 0 /\ field[2] = bit
  BY <1>2
<1>4. PICK g : Sums(field, g) /\ Value(field, 2) = g[2]
  BY <1>3, ValueSums
<1>5. g[0] = 0 /\ g[1] = g[0] * Half + 0 /\ g[2] = g[1] * Half + bit
  <2>1. \A i \in 1 .. 2 : g[i] = g[i - 1] * Half + field[i]
    BY <1>3, <1>4 DEF Sums
  <2>2. g[1] = g[1 - 1] * Half + field[1] /\ g[2] = g[2 - 1] * Half + field[2]
    BY <2>1
  <2>3. 1 - 1 = 0 /\ 2 - 1 = 1
    OBVIOUS
  <2> QED
    BY <1>3, <1>4, <2>2, <2>3 DEF Sums
<1>6. g[1] = 0
  BY <1>1, <1>5
<1>7. Value(field, 2) = bit
  BY <1>1, <1>2, <1>4, <1>5, <1>6
<1>8. (bit % 2 = 1) <=> (bit = 1)
  BY <1>2
<1>9. CASE sampled
  <2>1. bit = 1
    BY <1>9
  <2> QED
    BY <1>7, <1>8, <1>9, <2>1
<1>10. CASE ~sampled
  <2>1. bit # 1
    BY <1>10
  <2> QED
    BY <1>7, <1>8, <1>10, <2>1
<1> QED
  BY <1>9, <1>10

\* A context survives its header.
LEMMA ContextReadsBack ==
  ASSUME NEW trace \in TraceIds, NEW span \in SpanIds, NEW sampled \in BOOLEAN
  PROVE  Decode(Encode(Context(trace, span, sampled))) = Context(trace, span, sampled)
PROOF
<1> DEFINE flags == <<0, IF sampled THEN 1 ELSE 0>>
<1>1. Encode(Context(trace, span, sampled)) = <<Version, Digits(trace, 4), Digits(span, 2), flags>>
  BY DEF Encode, Context
<1> DEFINE header == <<Version, Digits(trace, 4), Digits(span, 2), flags>>
<1>2. header[2] = Digits(trace, 4) /\ header[3] = Digits(span, 2) /\ header[4] = flags
  OBVIOUS
<1>3. /\ Value(header[2], 4) = trace /\ Value(header[3], 2) = span
  BY <1>2, SpanReadsBack, TraceReadsBack
<1>4. (Value(header[4], 2) % 2 = 1) = sampled
  BY <1>2, FlagReadsBack
<1> HIDE DEF header
<1>5. Decode(header) = Context(Value(header[2], 4), Value(header[3], 2), Value(header[4], 2) % 2 = 1)
  BY DEF Decode
<1> QED
  BY <1>1, <1>3, <1>4, <1>5, Zenon DEF header

-----------------------------------------------------------------------------
(* The spans and their ids. *)

Span == [trace : TraceIds, id : SpanIds, parent : SpanIds, sampled : BOOLEAN,
         made : Nat, process : Process, size : Sizes]

\* An id names the generator that it comes from.
IdsTyped ==
  /\ spans \in Seq(Span)
  /\ gen \in [Process -> [prefix : Digit, suffix : Digit]]
  /\ \A p \in Process : gen[p].prefix = Prefix[p]
  /\ \A i \in 1 .. Len(spans) : spans[i].id \div Half = Prefix[spans[i].process]

\* The spans that the process of span i has made since.
After(i) == {k \in i + 1 .. Len(spans) : spans[k].process = spans[i].process}

\* How far a generator has gone since it made the id of span i.
Counted ==
  \A i \in 1 .. Len(spans) :
     gen[spans[i].process].suffix = ((spans[i].id % Half) + Cardinality(After(i))) % Half

\* All spans are of the trace of the first one.
Connected ==
  \A i \in 1 .. Len(spans) :
     /\ spans[i].trace = spans[1].trace /\ spans[i].sampled = spans[1].sampled
     /\ spans[i].made \in 0 .. i - 1
     /\ spans[i].made # 0 => spans[i].parent = spans[spans[i].made].id

\* What the reporter works on and what it has sent are spans it was given.
Given == {spans[i] : i \in reported}

Arrives ==
  /\ reported \subseteq 1 .. Len(spans)
  /\ records \in Seq(Given)
  /\ perBatch \in Nat /\ perBatch <= Len(records)
  /\ agent \in Seq({Convert(s) : s \in Given})

IdsInv == IdsTyped /\ Counted /\ Connected /\ IdsUnique /\ Arrives

\* The first digit and the last of an id.
LEMMA IdDigits ==
  ASSUME NEW g \in [prefix : Digit, suffix : Digit]
  PROVE  Id(g) \in SpanIds /\ Id(g) \div Half = g.prefix /\ Id(g) % Half = g.suffix
PROOF
<1>1. /\ g.prefix \in 0 .. Half - 1 /\ g.suffix \in 0 .. Half - 1
      /\ Half \in Nat /\ Half > 0 /\ g.prefix \in Nat
  BY Words DEF Digit
<1>2. (g.prefix * Half + g.suffix) \div Half = g.prefix /\ (g.prefix * Half + g.suffix) % Half = g.suffix
  BY <1>1, DivMod
<1>3. g.prefix * Half + g.suffix < Half * Half
  BY <1>1, DigitMore DEF Digit
<1>4. g.prefix * Half + g.suffix \in Nat
  BY <1>1
<1> QED
  BY <1>2, <1>3, <1>4, Words DEF Id, SpanIds, Word

\* The generator of process p after one more span.
LEMMA NextTyped ==
  ASSUME NEW g \in [prefix : Digit, suffix : Digit]
  PROVE  /\ NextGen(g) \in [prefix : Digit, suffix : Digit]
         /\ NextGen(g).prefix = g.prefix /\ NextGen(g).suffix = (g.suffix + 1) % Half
PROOF
<1>1. g.suffix + 1 \in Nat
  BY Words DEF Digit
<1>2. (g.suffix + 1) % Half \in Digit
  BY <1>1, Words, Divides DEF Digit
<1> QED
  BY <1>2 DEF NextGen

LEMMA NewSpanKeeps ==
  ASSUME IdsInv, NEW p \in Process, NEW trace \in TraceIds, NEW parent \in SpanIds,
         NEW sampled \in BOOLEAN, NEW made \in 0 .. Len(spans), NEW size \in Sizes,
         NewSpan(p, trace, parent, sampled, made, size),
         spans # <<>> => trace = spans[1].trace /\ sampled = spans[1].sampled,
         made # 0 => parent = spans[made].id
  PROVE  IdsInv'
PROOF
<1> DEFINE n == Len(spans)
           next == NextGen(gen[p])
           span == [trace |-> trace, id |-> Id(next), parent |-> parent, sampled |-> sampled,
                    made |-> made, process |-> p, size |-> size]
<1>1. /\ gen' = [gen EXCEPT ![p] = next] /\ spans' = Append(spans, span)
      /\ reported' = reported /\ records' = records /\ perBatch' = perBatch /\ agent' = agent
  BY DEF NewSpan, loopVars
<1>2. gen[p] \in [prefix : Digit, suffix : Digit] /\ gen[p].prefix = Prefix[p]
  BY DEF IdsInv, IdsTyped
<1>3. /\ next \in [prefix : Digit, suffix : Digit]
      /\ next.prefix = Prefix[p] /\ next.suffix = (gen[p].suffix + 1) % Half
  BY <1>2, NextTyped
<1>4. Id(next) \in SpanIds /\ Id(next) \div Half = Prefix[p] /\ Id(next) % Half = (gen[p].suffix + 1) % Half
  BY <1>3, IdDigits
<1>5. /\ span \in Span /\ span.trace = trace /\ span.id = Id(next) /\ span.parent = parent
      /\ span.sampled = sampled /\ span.made = made /\ span.process = p
  BY <1>4 DEF Span
<1> HIDE DEF next, span
<1>6. n \in Nat /\ DOMAIN spans = 1 .. n /\ \A i \in 1 .. n : spans[i] \in Span
  BY ElementOfSeq, LenProperties DEF IdsInv, IdsTyped
<1>7. /\ spans' \in Seq(Span) /\ Len(spans') = n + 1
      /\ \A i \in 1 .. n : spans'[i] = spans[i]
      /\ spans'[n + 1] = span
  BY <1>1, <1>5, AppendProperties DEF IdsInv, IdsTyped
<1>8. \A i \in 1 .. n + 1 : i = n + 1 \/ i \in 1 .. n
  BY <1>6
<1>9. gen' \in [Process -> [prefix : Digit, suffix : Digit]] /\ \A q \in Process : gen'[q].prefix = Prefix[q]
  BY <1>1, <1>3 DEF IdsInv, IdsTyped
<1>10. IdsTyped'
  <2>1. \A i \in 1 .. n + 1 : spans'[i].id \div Half = Prefix[spans'[i].process]
    BY <1>4, <1>5, <1>7, <1>8 DEF IdsInv, IdsTyped
  <2> QED
    BY <1>7, <1>9, <2>1 DEF IdsTyped
<1>11. ASSUME NEW i \in 1 .. n
       PROVE  /\ spans[i].process \in Process /\ i \in Nat
              /\ IsFiniteSet(After(i)) /\ Cardinality(After(i)) \in Nat
              /\ spans[i].id \in Nat /\ spans[i].id % Half \in 0 .. Half - 1
              /\ spans[i].id % Half \in Nat /\ n + 1 \notin After(i)
              /\ spans[i].id = (spans[i].id \div Half) * Half + (spans[i].id % Half)
  <2>1. IsFiniteSet(i + 1 .. n) /\ After(i) \subseteq i + 1 .. n
    BY <1>6, FS_Interval DEF After
  <2>2. IsFiniteSet(After(i)) /\ Cardinality(After(i)) \in Nat
    BY <2>1, FS_Subset, FS_CardinalityType
  <2>3. spans[i].id \in Nat /\ spans[i].process \in Process
    BY <1>6, Words DEF Span, SpanIds
  <2>4. /\ spans[i].id % Half \in 0 .. Half - 1
        /\ spans[i].id = (spans[i].id \div Half) * Half + (spans[i].id % Half)
    BY <2>3, Words, Divides
  <2>5. n + 1 \notin i + 1 .. n
    BY <1>6
  <2> QED
    BY <2>1, <2>2, <2>3, <2>4, <2>5
<1>12. ASSUME NEW i \in 1 .. n, spans[i].process = p
       PROVE  /\ gen[p].suffix = ((spans[i].id % Half) + Cardinality(After(i))) % Half
              /\ (gen[p].suffix + 1) % Half = ((spans[i].id % Half) + (Cardinality(After(i)) + 1)) % Half
              /\ Cardinality(After(i) \cup {n + 1}) = Cardinality(After(i)) + 1
  <2>1. gen[p].suffix = ((spans[i].id % Half) + Cardinality(After(i))) % Half
    BY <1>12 DEF IdsInv, Counted
  <2>2. PICK x \in Nat : x = (spans[i].id % Half) + Cardinality(After(i))
    BY <1>11
  <2>3. ((x % Half) + 1) % Half = (x + 1) % Half
    BY Words, ModStep
  <2>4. x + 1 = (spans[i].id % Half) + (Cardinality(After(i)) + 1)
    BY <1>11, <2>2
  <2>5. Cardinality(After(i) \cup {n + 1}) = Cardinality(After(i)) + 1
    BY <1>11, FS_AddElement
  <2> QED
    BY <2>1, <2>2, <2>3, <2>4, <2>5
<1>13. ASSUME NEW i \in 1 .. n
       PROVE  After(i)' = IF spans[i].process = p THEN After(i) \cup {n + 1} ELSE After(i)
  <2>1. After(i)' = {k \in i + 1 .. n + 1 : spans'[k].process = spans[i].process}
    BY <1>7 DEF After
  <2>2. \A k \in i + 1 .. n + 1 : k = n + 1 \/ (k \in i + 1 .. n /\ spans'[k] = spans[k])
    BY <1>6, <1>7
  <2>3. n + 1 \in i + 1 .. n + 1 /\ \A k \in i + 1 .. n : k \in i + 1 .. n + 1 /\ spans'[k] = spans[k]
    BY <1>6, <1>7
  <2>4. spans'[n + 1].process = p
    BY <1>5, <1>7
  <2>5. CASE spans[i].process = p
    BY <2>1, <2>2, <2>3, <2>4, <2>5 DEF After
  <2>6. CASE spans[i].process # p
    BY <2>1, <2>2, <2>3, <2>4, <2>6 DEF After
  <2> QED
    BY <2>5, <2>6
<1>14. Counted'
  <2> SUFFICES ASSUME NEW i \in 1 .. n + 1
               PROVE  gen'[spans'[i].process].suffix
                        = ((spans'[i].id % Half) + Cardinality(After(i)')) % Half
    BY <1>7 DEF Counted, After
  <2>1. CASE i = n + 1
    <3>1. After(i)' = {}
      <4>1. After(i)' = {k \in (n + 1) + 1 .. n + 1 : spans'[k].process = spans'[i].process}
        BY <1>7, <2>1 DEF After
      <4>2. (n + 1) + 1 .. n + 1 = {}
        BY <1>6
      <4> QED
        BY <4>1, <4>2
    <3>2. Cardinality(After(i)') = 0
      BY <3>1, FS_EmptySet
    <3>3. gen'[p] = next
      BY <1>1 DEF IdsInv, IdsTyped
    <3>4. next.suffix = (gen[p].suffix + 1) % Half /\ next.suffix \in 0 .. Half - 1
      BY <1>3 DEF Digit
    <3>5. spans'[i].process = p /\ spans'[i].id % Half = next.suffix
      BY <1>3, <1>4, <1>5, <1>7, <2>1
    <3>6. (next.suffix + 0) % Half = next.suffix
      BY <3>4, Words, Remainder
    <3> QED
      BY <3>2, <3>3, <3>5, <3>6
  <2>2. CASE i \in 1 .. n /\ spans[i].process = p
    <3>1. After(i)' = After(i) \cup {n + 1}
      BY <1>13, <2>2
    <3>2. gen'[p].suffix = (gen[p].suffix + 1) % Half
      BY <1>1, <1>3 DEF IdsInv, IdsTyped
    <3>3. spans'[i] = spans[i]
      BY <1>7, <2>2
    <3>4. /\ (gen[p].suffix + 1) % Half = ((spans[i].id % Half) + (Cardinality(After(i)) + 1)) % Half
          /\ Cardinality(After(i) \cup {n + 1}) = Cardinality(After(i)) + 1
      BY <1>12, <2>2
    <3> QED
      BY <2>2, <3>1, <3>2, <3>3, <3>4
  <2>3. CASE i \in 1 .. n /\ spans[i].process # p
    <3>1. After(i)' = After(i)
      BY <1>13, <2>3
    <3>2. gen'[spans[i].process] = gen[spans[i].process]
      BY <1>1, <1>11, <2>3 DEF IdsInv, IdsTyped
    <3>3. spans'[i] = spans[i]
      BY <1>7, <2>3
    <3> QED
      BY <2>3, <3>1, <3>2, <3>3 DEF IdsInv, Counted
  <2> QED
    BY <1>8, <2>1, <2>2, <2>3
<1>15. Connected'
  <2> SUFFICES ASSUME NEW i \in 1 .. n + 1
               PROVE  /\ spans'[i].trace = spans'[1].trace /\ spans'[i].sampled = spans'[1].sampled
                      /\ spans'[i].made \in 0 .. i - 1
                      /\ spans'[i].made # 0 => spans'[i].parent = spans'[spans'[i].made].id
    BY <1>7 DEF Connected
  <2>1. CASE i \in 1 .. n
    <3>1. spans'[i] = spans[i] /\ 1 \in 1 .. n /\ spans'[1] = spans[1]
      BY <1>6, <1>7, <2>1
    <3>2. /\ spans[i].trace = spans[1].trace /\ spans[i].sampled = spans[1].sampled
          /\ spans[i].made \in 0 .. i - 1
          /\ spans[i].made # 0 => spans[i].parent = spans[spans[i].made].id
      BY <2>1 DEF IdsInv, Connected
    <3>3. spans[i].made # 0 => spans'[spans[i].made] = spans[spans[i].made]
      BY <1>6, <1>7, <2>1, <3>2
    <3> QED
      BY <3>1, <3>2, <3>3
  <2>2. CASE i = n + 1
    <3>1. spans'[i] = span
      BY <1>7, <2>2
    <3>2. trace = spans'[1].trace /\ sampled = spans'[1].sampled
      <4>1. CASE n = 0
        BY <1>5, <1>7, <4>1
      <4>2. CASE n # 0
        <5>1. 1 \in 1 .. n /\ spans # <<>>
          BY <1>6, <4>2
        <5> QED
          BY <1>7, <5>1
      <4> QED
        BY <4>1, <4>2
    <3>3. made \in 0 .. i - 1
      BY <1>6, <2>2
    <3>4. made # 0 => spans'[made] = spans[made]
      BY <1>6, <1>7
    <3> QED
      BY <1>5, <3>1, <3>2, <3>3, <3>4
  <2> QED
    BY <1>8, <2>1, <2>2
<1>16. IdsUnique'
  <2> SUFFICES ASSUME NEW j \in 1 .. n + 1, NEW i \in 1 .. j - 1, spans'[i].id = spans'[j].id
               PROVE  /\ spans'[i].process = spans'[j].process
                      /\ Cardinality({k \in i + 1 .. j : spans'[k].process = spans'[j].process}) >= Half
    <3>1. DOMAIN spans' = 1 .. n + 1
      BY <1>7, LenProperties
    <3> QED
      BY <3>1 DEF IdsUnique, MadeBetween
  <2>1. i \in 1 .. n
    BY <1>6
  <2>2. CASE j \in 1 .. n
    <3>1. spans'[i] = spans[i] /\ spans'[j] = spans[j]
      BY <1>7, <2>1, <2>2
    <3>2. /\ spans[i].process = spans[j].process
          /\ Cardinality(MadeBetween(i, j)) >= Half
      BY <1>6, <2>2, <3>1 DEF IdsInv, IdsUnique
    <3>3. \A k \in i + 1 .. j : spans'[k] = spans[k]
      <4>1. \A k \in i + 1 .. j : k \in 1 .. n
        BY <1>6, <2>1, <2>2
      <4> QED
        BY <1>7, <4>1
    <3>4. {k \in i + 1 .. j : spans'[k].process = spans'[j].process} = MadeBetween(i, j)
      BY <3>1, <3>3 DEF MadeBetween
    <3> QED
      BY <3>1, <3>2, <3>4
  <2>3. CASE j = n + 1
    <3>1. spans'[i] = spans[i] /\ spans'[j] = span
      BY <1>7, <2>1, <2>3
    <3>2. spans[i].process = p
      <4>1. Prefix[spans[i].process] = Prefix[p]
        BY <1>4, <1>5, <2>1, <3>1 DEF IdsInv, IdsTyped
      <4> QED
        BY <1>11, <2>1, <4>1, JaegerAssumption
    <3>3. {k \in i + 1 .. j : spans'[k].process = spans'[j].process} = After(i) \cup {n + 1}
      <4>1. {k \in i + 1 .. j : spans'[k].process = spans'[j].process} = After(i)'
        BY <1>5, <1>7, <2>3, <3>1, <3>2 DEF After
      <4> QED
        BY <1>13, <2>1, <3>2, <4>1
    <3>4. PICK m \in Nat : m = Cardinality(After(i)) + 1 /\ m > 0
      BY <1>11, <2>1
    <3>5. spans[i].id % Half = ((spans[i].id % Half) + m) % Half
      BY <1>4, <1>5, <1>12, <2>1, <3>1, <3>2, <3>4
    <3>6. m >= Half
      BY <1>11, <2>1, <3>4, <3>5, Words, FullCircle
    <3> QED
      BY <1>5, <1>12, <2>1, <3>1, <3>2, <3>3, <3>4, <3>6
  <2> QED
    BY <1>8, <2>2, <2>3
<1>17. Arrives'
  <2>1. reported \subseteq 1 .. n /\ records \in Seq(Given) /\ agent \in Seq({Convert(s) : s \in Given})
    BY DEF IdsInv, Arrives
  <2>2. Given' = Given
    BY <1>1, <1>7, <2>1 DEF Given
  <2>3. reported' \subseteq 1 .. n + 1
    BY <1>1, <1>6, <2>1
  <2>4. \A s : Convert(s)' = Convert(s)
    BY DEF Convert, Signed
  <2> QED
    BY <1>1, <1>7, <2>1, <2>2, <2>3 DEF IdsInv, Arrives, Convert, Signed
<1> QED
  BY <1>10, <1>14, <1>15, <1>16, <1>17 DEF IdsInv

\* The last span, which a child or a header is made from.
LEMMA LastSpan ==
  ASSUME IdsInv, spans # <<>>
  PROVE  /\ Len(spans) \in Nat /\ Len(spans) > 0 /\ Last(spans) = spans[Len(spans)]
         /\ Last(spans) \in Span
         /\ Last(spans).trace = spans[1].trace /\ Last(spans).sampled = spans[1].sampled
PROOF
<1>1. Len(spans) \in Nat /\ Len(spans) > 0
  BY EmptySeq DEF IdsInv, IdsTyped
<1>2. Len(spans) \in 1 .. Len(spans)
  BY <1>1
<1>3. spans[Len(spans)] \in Span
  BY <1>2, ElementOfSeq DEF IdsInv, IdsTyped
<1> QED
  BY <1>1, <1>2, <1>3 DEF Last, IdsInv, Connected

LEMMA RootKeeps ==
  ASSUME IdsInv, NEW p \in Process, NEW size \in Sizes, Root(p, size)
  PROVE  IdsInv'
PROOF
<1>1. PICK trace \in Traces, sampled \in BOOLEAN : NewSpan(p, trace, DefaultId, sampled, 0, size)
  BY DEF Root
<1>2. trace \in TraceIds /\ DefaultId \in SpanIds
  BY JaegerAssumption, Words DEF DefaultId, SpanIds
<1>3. spans = <<>> /\ 0 \in 0 .. Len(spans)
  BY EmptySeq DEF Root
<1> QED
  BY <1>1, <1>2, <1>3, NewSpanKeeps

LEMMA ChildKeeps ==
  ASSUME IdsInv, NEW size \in Sizes, Child(size)
  PROVE  IdsInv'
PROOF
<1> DEFINE s == Last(spans)
<1>1. spans # <<>> /\ NewSpan(s.process, s.trace, s.id, s.sampled, Len(spans), size)
  BY DEF Child
<1>2. /\ s = spans[Len(spans)] /\ s \in Span /\ Len(spans) \in Nat
      /\ s.trace = spans[1].trace /\ s.sampled = spans[1].sampled
  BY <1>1, LastSpan
<1> HIDE DEF s
<1>3. /\ s.process \in Process /\ s.trace \in TraceIds /\ s.id \in SpanIds /\ s.sampled \in BOOLEAN
      /\ Len(spans) \in 0 .. Len(spans)
  BY <1>2 DEF Span
<1> QED
  BY <1>1, <1>2, <1>3, NewSpanKeeps

\* The context arrives as it was sent.
LEMMA RemoteKeeps ==
  ASSUME IdsInv, NEW p \in Process, NEW size \in Sizes, Remote(p, size)
  PROVE  IdsInv'
PROOF
<1> DEFINE s == Last(spans)
           context == Decode(Encode(Context(s.trace, s.id, s.sampled)))
<1>1. spans # <<>> /\ NewSpan(p, context.trace, context.span, context.sampled, Len(spans), size)
  BY DEF Remote
<1>2. /\ s = spans[Len(spans)] /\ s \in Span /\ Len(spans) \in Nat
      /\ s.trace = spans[1].trace /\ s.sampled = spans[1].sampled
  BY <1>1, LastSpan
<1>3. s.trace \in TraceIds /\ s.id \in SpanIds /\ s.sampled \in BOOLEAN
  <2> HIDE DEF s
  <2> QED
    BY <1>2 DEF Span
<1>4. context = Context(s.trace, s.id, s.sampled)
  BY <1>3, ContextReadsBack
<1> HIDE DEF s, context
<1>5. context.trace = s.trace /\ context.span = s.id /\ context.sampled = s.sampled
  BY <1>4 DEF Context
<1>6. Len(spans) \in 0 .. Len(spans)
  BY <1>2
<1> QED
  BY <1>1, <1>2, <1>3, <1>5, <1>6, NewSpanKeeps

\* Whatever comes from elsewhere, what is accepted fits.
LEMMA FromForeignKeeps ==
  ASSUME IdsInv, NEW p \in Process, NEW size \in Sizes, FromForeign(p, size)
  PROVE  IdsInv'
PROOF
<1>1. PICK header \in Foreign :
        /\ Decodes(header)
        /\ NewSpan(p, Decode(header).trace, Decode(header).span, Decode(header).sampled, 0, size)
  BY DEF FromForeign
<1>2. Len(header) = 4 /\ Parses(header[2], 4) /\ Parses(header[3], 2)
  BY <1>1 DEF Decodes
<1>3. header[2] \in Seq(Nat) /\ header[3] \in Seq(Nat)
  <2>1. header \in Seq(Seq(Nat)) /\ 2 \in 1 .. Len(header) /\ 3 \in 1 .. Len(header)
    BY <1>2, JaegerAssumption
  <2> QED
    BY <2>1, ElementOfSeq
<1>4. Value(header[2], 4) \in TraceIds
  <2>1. Value(header[2], 4) \in IF 4 = 2 THEN SpanIds ELSE TraceIds
    BY <1>2, <1>3, ValueFits
  <2> QED
    BY <2>1
<1>5. Value(header[3], 2) \in SpanIds
  <2>1. Value(header[3], 2) \in IF 2 = 2 THEN SpanIds ELSE TraceIds
    BY <1>2, <1>3, ValueFits
  <2> QED
    BY <2>1
<1>6. /\ Decode(header).trace \in TraceIds /\ Decode(header).span \in SpanIds
      /\ Decode(header).sampled \in BOOLEAN
  BY <1>4, <1>5 DEF Decode, Context
<1>7. spans = <<>> /\ 0 \in 0 .. Len(spans)
  BY EmptySeq DEF FromForeign
<1> QED
  BY <1>1, <1>6, <1>7, NewSpanKeeps

-----------------------------------------------------------------------------
(* What the reporter does with them. *)

\* SetToSeq gives the elements of a finite set.
LEMMA SetToSeqElements ==
  ASSUME NEW S, IsFiniteSet(S)
  PROVE  Cardinality(S) \in Nat /\ \A k \in 1 .. Cardinality(S) : SetToSeq(S)[k] \in S
PROOF
<1>1. Cardinality(S) \in Nat /\ ExistsBijection(1 .. Cardinality(S), S)
  BY FS_CardinalityType
<1>2. \E f \in [1 .. Cardinality(S) -> S] : IsInjective(f)
  BY <1>1 DEF ExistsBijection, Bijection, Injection, IsInjective
<1>3. SetToSeq(S) \in [1 .. Cardinality(S) -> S]
  BY <1>2 DEF SetToSeq
<1> QED
  BY <1>1, <1>3

\* Without a new span the rest rests on what the reporter was given.
LEMMA SpansStay ==
  ASSUME IdsInv, UNCHANGED <<gen, spans>>, Arrives'
  PROVE  IdsInv'
PROOF
<1>1. IdsTyped' /\ Counted' /\ Connected' /\ IdsUnique'
  BY DEF IdsInv, IdsTyped, Counted, After, Connected, IdsUnique, MadeBetween
<1> QED
  BY <1>1 DEF IdsInv

LEMMA ReportArrives ==
  ASSUME IdsInv, NEW p \in Process, Report(p)
  PROVE  IdsInv'
PROOF
<1> DEFINE S == New(p)
           c == Cardinality(New(p))
<1>1. IsFiniteSet(S)
  <2>1. IsFiniteSet(1 .. MaxSpan) /\ S \subseteq 1 .. MaxSpan
    BY FS_Interval, JaegerAssumption DEF New
  <2> QED
    BY <2>1, FS_Subset
<1>2. c \in Nat /\ \A k \in 1 .. c : SetToSeq(S)[k] \in S
  BY <1>1, SetToSeqElements
<1>3. /\ records' = [k \in 1 .. c |-> spans[SetToSeq(S)[k]]]
      /\ perBatch' = c /\ reported' = reported \cup S
      /\ gen' = gen /\ spans' = spans /\ agent' = agent
  BY DEF Report
<1>4. S \subseteq 1 .. Len(spans)
  <2>1. DOMAIN spans = 1 .. Len(spans)
    BY LenProperties DEF IdsInv, IdsTyped
  <2> QED
    BY <2>1 DEF New
<1> HIDE DEF S, c
<1>5. Given \subseteq Given'
  BY <1>3 DEF Given
<1>6. records' \in Seq(Given') /\ Len(records') = c
  <2>1. ASSUME NEW k \in 1 .. c
        PROVE  spans[SetToSeq(S)[k]] \in Given'
    BY <1>2, <1>3 DEF Given
  <2>2. records' \in [1 .. c -> Given']
    BY <1>3, <2>1
  <2> QED
    BY <1>2, <2>2, FunctionIsSeq
<1>7. agent' \in Seq({Convert(s) : s \in Given}')
  <2>1. {Convert(s) : s \in Given} \subseteq {Convert(s) : s \in Given'}
    BY <1>5
  <2>2. agent \in Seq({Convert(s) : s \in Given'})
    BY <2>1, SeqMonotonic DEF IdsInv, Arrives
  <2>3. {Convert(s) : s \in Given}' = {Convert(s) : s \in Given'}
    BY DEF Convert, Signed
  <2> QED
    BY <1>3, <2>2, <2>3
<1>8. Arrives'
  <2>1. reported' \subseteq 1 .. Len(spans')
    BY <1>3, <1>4 DEF IdsInv, Arrives
  <2>2. perBatch' \in Nat /\ perBatch' <= Len(records')
    BY <1>2, <1>3, <1>6
  <2> QED
    BY <1>6, <1>7, <2>1, <2>2 DEF Arrives
<1> QED
  BY <1>3, <1>8, SpansStay

\* The sets that the reporter was given and has converted stay.
LEMMA GivenStays ==
  ASSUME UNCHANGED <<spans, reported>>
  PROVE  Given' = Given /\ {Convert(s) : s \in Given}' = {Convert(s) : s \in Given}
PROOF
<1>1. Given' = Given
  BY DEF Given
<1> QED
  BY <1>1 DEF Convert, Signed

LEMMA LoopArrives ==
  ASSUME IdsInv, LoopInv, Loop
  PROVE  IdsInv'
PROOF
<1>1. /\ reported \subseteq 1 .. Len(spans) /\ records \in Seq(Given)
      /\ perBatch \in Nat /\ perBatch <= Len(records)
      /\ agent \in Seq({Convert(s) : s \in Given}) /\ Len(records) \in Nat
  BY LenProperties DEF IdsInv, Arrives
<1>2. UNCHANGED <<gen, spans, reported>>
  BY DEF Loop, Skip, Shrink, SendPacket, SendFails, Return
<1>3. Given' = Given /\ {Convert(s) : s \in Given}' = {Convert(s) : s \in Given}
  BY <1>2, GivenStays
<1> SUFFICES Arrives'
  BY <1>2, SpansStay
<1>4. ASSUME UNCHANGED <<records, agent>>, perBatch' = perBatch \/ (perBatch > 1 /\ perBatch' = perBatch \div 2)
      PROVE  Arrives'
  <2>1. perBatch' \in Nat /\ perBatch' <= Len(records)
    BY <1>1, <1>4
  <2> QED
    BY <1>1, <1>2, <1>3, <1>4, <2>1 DEF Arrives
<1>5. CASE Skip
  BY <1>4, <1>5 DEF Skip
<1>6. CASE Shrink
  <2>1. perBatch > 1
    BY <1>1, <1>6 DEF Shrink, BatchSize, Sending, LoopInv
  <2> QED
    BY <1>4, <1>6, <2>1 DEF Shrink
<1>7. CASE SendPacket
  <2> DEFINE batch == [i \in 1 .. BatchSize |-> Convert(records[sent + i])]
             E == {Convert(s) : s \in Given}
  <2>1. /\ sent < Len(records) /\ agent' = agent \o batch
        /\ records' = records /\ perBatch' = perBatch
    BY <1>7 DEF SendPacket, Sending
  <2>2. sent \in Nat /\ BatchSize \in Nat /\ sent + BatchSize <= Len(records)
    BY <1>1, <2>1 DEF LoopInv, BatchSize
  <2>3. ASSUME NEW i \in 1 .. BatchSize
        PROVE  Convert(records[sent + i]) \in E
    <3>1. sent + i \in 1 .. Len(records)
      BY <1>1, <2>2
    <3>2. records[sent + i] \in Given
      BY <1>1, <3>1, ElementOfSeq
    <3> QED
      BY <3>2
  <2> HIDE DEF E
  <2>4. batch \in [1 .. BatchSize -> E]
    BY <2>3
  <2> HIDE DEF batch
  <2>5. batch \in Seq(E)
    BY <2>2, <2>4, FunctionIsSeq
  <2>6. agent \in Seq(E)
    BY <1>1 DEF E
  <2>7. agent' \in Seq(E)
    BY <2>1, <2>5, <2>6, ConcatProperties
  <2>8. agent' \in Seq({Convert(s) : s \in Given}')
    BY <1>3, <2>7 DEF E
  <2> QED
    BY <1>1, <1>2, <1>3, <2>1, <2>8 DEF Arrives
<1>8. CASE SendFails \/ Return
  <2>1. records' = <<>> /\ perBatch' = 0 /\ agent' = agent
    BY <1>8 DEF SendFails, Return, Reset
  <2>2. records' \in Seq(Given') /\ Len(records') = 0
    BY <2>1, EmptySeq
  <2> QED
    BY <1>1, <1>2, <1>3, <2>1, <2>2 DEF Arrives
<1> QED
  BY <1>5, <1>6, <1>7, <1>8 DEF Loop

-----------------------------------------------------------------------------
\* The ids with the loop: the two invariants together are inductive.
THEOREM IdsInductive == Spec => []IdsInv
PROOF
<1>1. Init => IdsInv
  <2> SUFFICES ASSUME Init
               PROVE  IdsInv
    OBVIOUS
  <2>1. spans = <<>> /\ reported = {} /\ records = <<>> /\ perBatch = 0 /\ agent = <<>>
    BY DEF Init
  <2>2. spans \in Seq(Span) /\ Len(spans) = 0 /\ Len(records) = 0 /\ DOMAIN spans = {}
    BY <2>1, EmptySeq
  <2>3. \A i \in 1 .. 0 : FALSE
    OBVIOUS
  <2>4. \A p \in Process : Prefix[p] \in Digit /\ 0 \in Digit
    BY JaegerAssumption, Words DEF Digit
  <2>5. gen \in [Process -> [prefix : Digit, suffix : Digit]] /\ \A p \in Process : gen[p].prefix = Prefix[p]
    BY <2>4 DEF Init
  <2>6. IdsTyped
    BY <2>2, <2>3, <2>5 DEF IdsTyped
  <2>7. Counted /\ Connected
    BY <2>2, <2>3 DEF Counted, Connected
  <2>8. IdsUnique
    BY <2>2 DEF IdsUnique
  <2>9. Arrives
    BY <2>1, <2>2, EmptySeq DEF Arrives
  <2> QED
    BY <2>6, <2>7, <2>8, <2>9 DEF IdsInv
<1>2. IInv /\ IdsInv /\ [Next]_vars => IdsInv'
  <2> SUFFICES ASSUME IInv, IdsInv, [Next]_vars
               PROVE  IdsInv'
    OBVIOUS
  <2>1. CASE \E p \in Process : \E size \in Sizes :
                Root(p, size) \/ Remote(p, size) \/ FromForeign(p, size)
    BY <2>1, RootKeeps, RemoteKeeps, FromForeignKeeps
  <2>2. CASE \E size \in Sizes : Child(size)
    BY <2>2, ChildKeeps
  <2>3. CASE \E p \in Process : Report(p)
    BY <2>3, ReportArrives
  <2>4. CASE Loop
    BY <2>4, LoopArrives DEF IInv
  <2>5. CASE UNCHANGED vars
    <3>1. UNCHANGED <<gen, spans, reported, records, perBatch, agent>>
      BY <2>5 DEF vars, loopVars
    <3>2. Given' = Given /\ {Convert(s) : s \in Given}' = {Convert(s) : s \in Given}
      BY <3>1, GivenStays
    <3>3. Arrives'
      BY <3>1, <3>2 DEF IdsInv, Arrives
    <3> QED
      BY <3>1, <3>3, SpansStay
  <2> QED
    BY <2>1, <2>2, <2>3, <2>4, <2>5 DEF Next
<1> QED
  BY <1>1, <1>2, BatchesInductive, PTL DEF Spec

\* Two spans, of one process or of two, have one id only if their generator
\* has gone all the way round between them (SpanId::next_id).
THEOREM IdsStayUnique == Spec => []IdsUnique
PROOF
<1>1. IdsInv => IdsUnique
  BY DEF IdsInv
<1> QED
  BY <1>1, IdsInductive, PTL

\* What the agent has received makes one tree: through the header of another
\* process and the signed halves of Jaeger, trace id, span id and parent stay
\* what they were (encode_w3c_traceparent, decode_w3c_traceparent, convert).
THEOREM AgentConnects == Spec => []TreeConnects
PROOF
<1>1. IdsInv => TreeConnects
  <2> SUFFICES ASSUME IdsInv, NEW k \in DOMAIN agent
               PROVE  \E i \in reported :
                        /\ spans[i].sampled = spans[1].sampled
                        /\ Reads(agent[k], spans[i],
                                 IF spans[i].made = 0 THEN spans[i].parent ELSE spans[spans[i].made].id)
    BY DEF TreeConnects
  <2>1. PICK i \in reported : agent[k] = Convert(spans[i])
    <3>1. agent[k] \in {Convert(s) : s \in Given}
      BY LenProperties, ElementOfSeq DEF IdsInv, Arrives
    <3> QED
      BY <3>1 DEF Given
  <2>2. i \in 1 .. Len(spans)
    BY DEF IdsInv, Arrives
  <2>3. spans[i] \in Span
    BY <2>2, ElementOfSeq DEF IdsInv, IdsTyped
  <2>4. spans[i].trace \in TraceIds /\ spans[i].id \in SpanIds /\ spans[i].parent \in SpanIds
    BY <2>3 DEF Span
  <2>5. /\ AgentTrace(agent[k]) = spans[i].trace
        /\ Unsigned(agent[k].span) = spans[i].id /\ Unsigned(agent[k].parent) = spans[i].parent
    BY <2>1, <2>4, ConvertReads
  <2>6. /\ spans[i].trace = spans[1].trace /\ spans[i].sampled = spans[1].sampled
        /\ spans[i].made # 0 => spans[i].parent = spans[spans[i].made].id
    BY <2>2 DEF IdsInv, Connected
  <2> QED
    BY <2>5, <2>6 DEF Reads
<1> QED
  BY <1>1, IdsInductive, PTL

\* Ids have their width and the loop keeps to its records; a batch is never
\* empty (SpanId, TraceId, try_report).
THEOREM TypesHold == Spec => []TypeOK
PROOF
<1>1. IInv /\ IdsInv => TypeOK
  <2> SUFFICES ASSUME IInv, IdsInv
               PROVE  TypeOK
    OBVIOUS
  <2>1. ASSUME NEW i \in DOMAIN spans
        PROVE  spans[i].trace \in TraceIds /\ spans[i].id \in SpanIds /\ spans[i].parent \in SpanIds
    <3>1. spans[i] \in Span
      BY LenProperties, ElementOfSeq DEF IdsInv, IdsTyped
    <3> QED
      BY <3>1 DEF Span
  <2>2. sent \in 0 .. Len(records) /\ (Sending => perBatch > 0)
    BY DEF IInv, LoopInv
  <2>3. perBatch \in 0 .. Len(records)
    BY DEF IInv, LoopInv, IdsInv, Arrives
  <2> QED
    BY <2>1, <2>2, <2>3 DEF TypeOK
<1> QED
  BY <1>1, BatchesInductive, IdsInductive, PTL
====
