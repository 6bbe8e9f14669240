-------------------------- MODULE CollectorProofs ---------------------------
(***************************************************************************)
(* The collection pipeline, proved for any number of threads, traces and   *)
(* spans and every capacity of the channels.                               *)
(*                                                                         *)
(* The first part is about values: what a batch, the post-processing and a *)
(* command hold.  The second is the type invariant, the third the history  *)
(* and the steps by what they do to the commands.  On these rest, layer by *)
(* layer, each an inductive invariant on top of those before it:           *)
(*   AcceptedInv   what is in flight was accepted                          *)
(*   RootInv       one root per trace, which has ended when it commits     *)
(*   HomeInv       the commands of a trace come from one thread            *)
(*   FirstInv      the start of a trace leads all its commands             *)
(*   OnceInv       nothing about a trace follows its commit                *)
(*   KeptInv       what is owed is held, or ahead of its commit            *)
(*   CancelInv     a cancellation reaches the collector before a commit    *)
(*   FlushInv      what a flush waits for is reported or ahead of the scan *)
(***************************************************************************)
EXTENDS Collector, DataInduction

-----------------------------------------------------------------------------
(* Types. *)

Parent    == SpanId \cup {NoParent}
Kind      == {"Span", "Attachment"}
RawSpan   == [id : SpanId, parent : Parent, kind : Kind]
AnyTrace  == CollectId \cup {NotSampled}
TokenItem == [collect : AnyTrace, parent : Parent]
Sampled   == [collect : CollectId, parent : Parent]

Command ==
  [cmd : {"start"}, collect : CollectId]
    \cup [cmd : {"drop", "commit"}, collect : AnyTrace]
    \cup [cmd : {"submit"}, set : Seq(RawSpan), token : Seq(Sampled)]

SpanObject == [live : BOOLEAN, home : Thread, token : Seq(TokenItem), collect : AnyTrace \cup {-1}]

\* Span collections, amended raw spans and records, of traces in T.
Coll(T)     == [set : Seq(RawSpan), trace : T, parent : Parent]
Amended(T)  == [trace : T, id : SpanId, kind : Kind, parent : Parent]
Recorded(T) == [trace : T, span : SpanId, parent : Parent, events : Seq(SpanId)]

Danglings == UNION {[S -> Seq(SpanId)] : S \in SUBSET Parent}

ActiveCollector(c) == [colls : Seq(Coll({c})), danglings : Danglings]

-----------------------------------------------------------------------------
(* Filters. *)

\* The filter that Select is, with a set for its test.
LEMMA FilterRange ==
  ASSUME NEW E, NEW T, NEW seq \in Seq(E),
         NEW kept, kept = FlattenSeq([i \in DOMAIN seq |-> IF seq[i] \in T THEN <<seq[i]>> ELSE <<>>])
  PROVE  kept \in Seq(E \cap T) /\ ToSet(kept) = ToSet(seq) \cap T
PROOF
<1> DEFINE F == [i \in DOMAIN seq |-> IF seq[i] \in T THEN <<seq[i]>> ELSE <<>>]
<1>1. Len(seq) \in Nat /\ DOMAIN seq = 1 .. Len(seq) /\ \A i \in 1 .. Len(seq) : seq[i] \in E
  BY ElementOfSeq, LenProperties
<1>2. ASSUME NEW i \in 1 .. Len(seq)
      PROVE  F[i] \in Seq(E \cap T) /\ ToSet(F[i]) = IF seq[i] \in T THEN {seq[i]} ELSE {}
  <2>1. CASE seq[i] \in T
    <3>1. F[i] = <<seq[i]>> /\ seq[i] \in E \cap T
      BY <1>1, <2>1
    <3>2. <<>> \in Seq(E \cap T) /\ \A x \in E \cap T : <<x>> \in Seq(E \cap T) /\ ToSet(<<x>>) = {x}
      BY ShortRanges
    <3>3. ToSet(<<>>) = {}
      BY ShortRanges
    <3> HIDE DEF F
    <3> QED
      BY <2>1, <3>1, <3>2, <3>3
  <2>2. CASE seq[i] \notin T
    <3>1. F[i] = <<>>
      BY <1>1, <2>2
    <3>2. <<>> \in Seq(E \cap T) /\ \A x \in E \cap T : <<x>> \in Seq(E \cap T) /\ ToSet(<<x>>) = {x}
      BY ShortRanges
    <3>3. ToSet(<<>>) = {}
      BY ShortRanges
    <3> HIDE DEF F
    <3> QED
      BY <2>2, <3>1, <3>2, <3>3
  <2> QED
    BY <2>1, <2>2
<1>3. F \in Seq(Seq(E \cap T)) /\ Len(F) = Len(seq)
  <2>1. F = [i \in 1 .. Len(seq) |-> F[i]]
    BY <1>1
  <2> HIDE DEF F
  <2> QED
    BY <1>1, <1>2, <2>1
<1> HIDE DEF F
<1>4. FlattenSeq(F) \in Seq(E \cap T) /\ ToSet(FlattenSeq(F)) = UNION {ToSet(F[i]) : i \in 1 .. Len(seq)}
  BY <1>3, FlattenRange
<1>5. ToSet(seq) = {seq[i] : i \in 1 .. Len(seq)}
  BY <1>1 DEF ToSet
<1>6. ToSet(FlattenSeq(F)) = ToSet(seq) \cap T
  <2>1. \A x \in ToSet(FlattenSeq(F)) : x \in ToSet(seq) \cap T
    <3>1. ASSUME NEW i \in 1 .. Len(seq), NEW x \in ToSet(F[i])
          PROVE  x \in ToSet(seq) \cap T
      BY <1>2, <1>5
    <3> QED
      BY <1>4, <3>1
  <2>2. ASSUME NEW i \in 1 .. Len(seq), seq[i] \in T
        PROVE  seq[i] \in ToSet(FlattenSeq(F))
    <3>1. seq[i] \in ToSet(F[i])
      BY <1>2, <2>2
    <3> QED
      BY <1>4, <3>1
  <2> QED
    BY <1>5, <2>1, <2>2
<1> QED
  BY <1>4, <1>6 DEF F

\* The spans and the attachments of a sequence.
LEMMA SelectSpans ==
  ASSUME NEW E, NEW seq \in Seq(E)
  PROVE  /\ Select(seq, IsSpan) \in Seq({x \in E : IsSpan(x)})
         /\ ToSet(Select(seq, IsSpan)) = {x \in ToSet(seq) : IsSpan(x)}
PROOF
<1> DEFINE T == {x \in E : IsSpan(x)}
<1>1. \A i \in DOMAIN seq : seq[i] \in E
  BY ElementOfSeq, LenProperties
<1>2. [i \in DOMAIN seq |-> IF seq[i] \in T THEN <<seq[i]>> ELSE <<>>]
        = [i \in DOMAIN seq |-> IF IsSpan(seq[i]) THEN <<seq[i]>> ELSE <<>>]
  BY <1>1
<1>3. Select(seq, IsSpan) = FlattenSeq([i \in DOMAIN seq |-> IF seq[i] \in T THEN <<seq[i]>> ELSE <<>>])
  BY <1>2 DEF Select
<1> HIDE DEF T
<1>4. Select(seq, IsSpan) \in Seq(E \cap T) /\ ToSet(Select(seq, IsSpan)) = ToSet(seq) \cap T
  BY <1>3, FilterRange
<1>5. ToSet(seq) \subseteq E /\ E \cap T = T
  BY <1>1 DEF ToSet, T
<1> QED
  BY <1>4, <1>5 DEF T

LEMMA SelectAttachments ==
  ASSUME NEW E, NEW seq \in Seq(E)
  PROVE  /\ Select(seq, IsAttachment) \in Seq(E)
         /\ ToSet(Select(seq, IsAttachment)) = {x \in ToSet(seq) : IsAttachment(x)}
PROOF
<1> DEFINE T == {x \in E : IsAttachment(x)}
<1>1. \A i \in DOMAIN seq : seq[i] \in E
  BY ElementOfSeq, LenProperties
<1>2. [i \in DOMAIN seq |-> IF seq[i] \in T THEN <<seq[i]>> ELSE <<>>]
        = [i \in DOMAIN seq |-> IF IsAttachment(seq[i]) THEN <<seq[i]>> ELSE <<>>]
  BY <1>1
<1>3. Select(seq, IsAttachment) = FlattenSeq([i \in DOMAIN seq |-> IF seq[i] \in T THEN <<seq[i]>> ELSE <<>>])
  BY <1>2 DEF Select
<1>4. E \cap T \subseteq E /\ \A x \in ToSet(seq) : x \in E
  BY <1>1 DEF ToSet
<1> HIDE DEF T
<1>5. Select(seq, IsAttachment) \in Seq(E \cap T) /\ ToSet(Select(seq, IsAttachment)) = ToSet(seq) \cap T
  BY <1>3, FilterRange
<1>6. Seq(E \cap T) \subseteq Seq(E)
  BY <1>4, SeqMonotonic
<1> QED
  BY <1>4, <1>5, <1>6 DEF T

\* Those that belong to span p.
LEMMA SelectParent ==
  ASSUME NEW E, NEW seq \in Seq(E), NEW p
  PROVE  /\ Select(seq, LAMBDA a : a.parent = p) \in Seq(E)
         /\ ToSet(Select(seq, LAMBDA a : a.parent = p)) = {x \in ToSet(seq) : x.parent = p}
PROOF
<1> DEFINE T == {x \in E : x.parent = p}
<1>1. \A i \in DOMAIN seq : seq[i] \in E
  BY ElementOfSeq, LenProperties
<1>2. [i \in DOMAIN seq |-> IF seq[i] \in T THEN <<seq[i]>> ELSE <<>>]
        = [i \in DOMAIN seq |-> IF seq[i].parent = p THEN <<seq[i]>> ELSE <<>>]
  BY <1>1
<1>3. Select(seq, LAMBDA a : a.parent = p)
        = FlattenSeq([i \in DOMAIN seq |-> IF seq[i] \in T THEN <<seq[i]>> ELSE <<>>])
  BY <1>2 DEF Select
<1>4. E \cap T \subseteq E /\ \A x \in ToSet(seq) : x \in E
  BY <1>1 DEF ToSet
<1> HIDE DEF T
<1>5. /\ Select(seq, LAMBDA a : a.parent = p) \in Seq(E \cap T)
      /\ ToSet(Select(seq, LAMBDA a : a.parent = p)) = ToSet(seq) \cap T
  BY <1>3, FilterRange
<1>6. Seq(E \cap T) \subseteq Seq(E)
  BY <1>4, SeqMonotonic
<1> QED
  BY <1>4, <1>5, <1>6 DEF T

\* The items of a token that are sampled.
LEMMA SelectSampled ==
  ASSUME NEW token \in Seq(TokenItem)
  PROVE  /\ Select(token, IsSampled) \in Seq(Sampled)
         /\ ToSet(Select(token, IsSampled)) = {x \in ToSet(token) : IsSampled(x)}
PROOF
<1>1. \A i \in DOMAIN token : token[i] \in TokenItem
  BY ElementOfSeq, LenProperties
<1>2. \A x \in TokenItem : IsSampled(x) <=> x \in Sampled
  BY CollectorAssumption DEF TokenItem, Sampled, IsSampled, AnyTrace, NotSampled, CollectId
<1>3. [i \in DOMAIN token |-> IF token[i] \in Sampled THEN <<token[i]>> ELSE <<>>]
        = [i \in DOMAIN token |-> IF IsSampled(token[i]) THEN <<token[i]>> ELSE <<>>]
  BY <1>1, <1>2
<1>4. Select(token, IsSampled)
        = FlattenSeq([i \in DOMAIN token |-> IF token[i] \in Sampled THEN <<token[i]>> ELSE <<>>])
  BY <1>3 DEF Select
<1>5. TokenItem \cap Sampled \subseteq Sampled /\ \A x \in ToSet(token) : x \in TokenItem
  BY <1>1 DEF ToSet
<1>6. /\ Select(token, IsSampled) \in Seq(TokenItem \cap Sampled)
      /\ ToSet(Select(token, IsSampled)) = ToSet(token) \cap Sampled
  BY <1>4, FilterRange
<1>7. Seq(TokenItem \cap Sampled) \subseteq Seq(Sampled)
  BY <1>5, SeqMonotonic
<1> QED
  BY <1>2, <1>5, <1>6, <1>7

-----------------------------------------------------------------------------
(* Post-processing. *)

\* A collection is amended within its trace.
LEMMA AmendType ==
  ASSUME NEW T, NEW coll \in Coll(T)
  PROVE  /\ Amend(coll) \in Seq(Amended(T))
         /\ ToSet(Amend(coll)) = {[trace |-> coll.trace, id |-> raw.id, kind |-> raw.kind,
                                   parent |-> IF raw.parent = NoParent THEN coll.parent ELSE raw.parent]
                                    : raw \in ToSet(coll.set)}
PROOF
<1> DEFINE n == Len(coll.set)
           A(raw) == [trace |-> coll.trace, id |-> raw.id, kind |-> raw.kind,
                      parent |-> IF raw.parent = NoParent THEN coll.parent ELSE raw.parent]
           F == [i \in 1 .. n |-> A(coll.set[i])]
<1>1. coll.set \in Seq(RawSpan) /\ coll.trace \in T /\ coll.parent \in Parent
  BY DEF Coll
<1>2. /\ n \in Nat /\ DOMAIN coll.set = 1 .. n
      /\ \A i \in 1 .. n : coll.set[i] \in RawSpan
  BY <1>1, ElementOfSeq, LenProperties
<1>3. Amend(coll) = F
  BY <1>2 DEF Amend
<1>4. \A raw \in RawSpan : A(raw) \in Amended(T)
  BY <1>1 DEF RawSpan, Amended
<1>5. \A i \in 1 .. n : F[i] = A(coll.set[i])
  OBVIOUS
<1>6. F = [i \in 1 .. n |-> F[i]] /\ DOMAIN F = 1 .. n
  OBVIOUS
<1> HIDE DEF F, n, A
<1>7. \A i \in 1 .. n : F[i] \in Amended(T)
  BY <1>2, <1>4, <1>5
<1>8. F \in Seq(Amended(T))
  BY <1>2, <1>6, <1>7
<1>9. ToSet(F) = {A(raw) : raw \in ToSet(coll.set)}
  BY <1>2, <1>5, <1>6 DEF ToSet
<1> QED
  BY <1>1, <1>3, <1>8, <1>9 DEF A

LEMMA AmendAllType ==
  ASSUME NEW T, NEW colls \in Seq(Coll(T))
  PROVE  /\ AmendAll(colls) \in Seq(Amended(T))
         /\ ToSet(AmendAll(colls)) = UNION {ToSet(Amend(coll)) : coll \in ToSet(colls)}
PROOF
<1> DEFINE n == Len(colls)
           F == [i \in 1 .. n |-> Amend(colls[i])]
<1>1. n \in Nat /\ DOMAIN colls = 1 .. n /\ \A i \in 1 .. n : colls[i] \in Coll(T)
  BY ElementOfSeq, LenProperties
<1>2. \A i \in 1 .. n : F[i] = Amend(colls[i])
  OBVIOUS
<1>3. F = [i \in 1 .. n |-> F[i]]
  OBVIOUS
<1>4. AmendAll(colls) = FlattenSeq(F)
  BY <1>1 DEF AmendAll
<1> HIDE DEF F, n
<1>5. \A i \in 1 .. n : F[i] \in Seq(Amended(T))
  BY <1>1, <1>2, AmendType
<1>6. F \in Seq(Seq(Amended(T))) /\ Len(F) = n
  BY <1>1, <1>3, <1>5
<1>7. /\ FlattenSeq(F) \in Seq(Amended(T))
      /\ ToSet(FlattenSeq(F)) = UNION {ToSet(F[i]) : i \in 1 .. n}
  BY <1>6, FlattenRange
<1>8. {ToSet(F[i]) : i \in 1 .. n} = {ToSet(Amend(coll)) : coll \in ToSet(colls)}
  <2>1. ToSet(colls) = {colls[i] : i \in 1 .. n}
    BY <1>1 DEF ToSet
  <2> QED
    BY <1>2, <2>1
<1> QED
  BY <1>4, <1>7, <1>8

\* The attachments that wait for the record of span p.
Waiting(danglings, p) == IF p \in DOMAIN danglings THEN ToSet(danglings[p]) ELSE {}

LEMMA DangleType ==
  ASSUME NEW T, NEW amended \in Seq(Amended(T)), NEW danglings \in Danglings
  PROVE  /\ Dangle(danglings, amended) \in Danglings
         /\ \A p : Waiting(Dangle(danglings, amended), p)
                     = Waiting(danglings, p)
                         \cup {a.id : a \in {x \in ToSet(amended) : IsAttachment(x) /\ x.parent = p}}
PROOF
<1> DEFINE att == Select(amended, IsAttachment)
           mine(p) == Select(att, LAMBDA a : a.parent = p)
           new(p) == [i \in DOMAIN mine(p) |-> mine(p)[i].id]
           old(p) == IF p \in DOMAIN danglings THEN danglings[p] ELSE <<>>
           D == DOMAIN danglings \cup {att[i].parent : i \in DOMAIN att}
           F == [p \in D |-> old(p) \o new(p)]
<1>1. att \in Seq(Amended(T)) /\ ToSet(att) = {x \in ToSet(amended) : IsAttachment(x)}
  BY SelectAttachments
<1>2. \A p : mine(p) \in Seq(Amended(T)) /\ ToSet(mine(p)) = {x \in ToSet(att) : x.parent = p}
  BY <1>1, SelectParent
<1>3. Dangle(danglings, amended) = F
  BY DEF Dangle
<1>4. PICK S \in SUBSET Parent : danglings \in [S -> Seq(SpanId)]
  BY DEF Danglings
<1>5. \A p : old(p) \in Seq(SpanId) /\ ToSet(old(p)) = Waiting(danglings, p)
  BY <1>4, ShortRanges DEF Waiting
<1>6. \A a \in Amended(T) : a.id \in SpanId /\ a.parent \in Parent
  BY DEF Amended
<1> HIDE DEF att, mine, old
<1>7. ASSUME NEW p
      PROVE  new(p) \in Seq(SpanId) /\ ToSet(new(p)) = {a.id : a \in ToSet(mine(p))}
  <2>1. SUFFICES ASSUME NEW m \in Seq(Amended(T)), m = mine(p), NEW f, f = [i \in DOMAIN m |-> m[i].id]
                 PROVE  f \in Seq(SpanId) /\ ToSet(f) = {a.id : a \in ToSet(m)}
    BY <1>2
  <2>2. Len(m) \in Nat /\ DOMAIN m = 1 .. Len(m) /\ \A i \in 1 .. Len(m) : m[i] \in Amended(T)
    BY ElementOfSeq, LenProperties
  <2>3. f = [i \in 1 .. Len(m) |-> m[i].id] /\ \A i \in 1 .. Len(m) : m[i].id \in SpanId
    BY <1>6, <2>1, <2>2
  <2>4. f \in Seq(SpanId)
    BY <2>2, <2>3
  <2>5. DOMAIN f = DOMAIN m /\ \A i \in DOMAIN m : f[i] = m[i].id
    BY <2>1
  <2> QED
    BY <2>4, <2>5 DEF ToSet
<1> HIDE DEF new
<1>8. \A p : old(p) \o new(p) \in Seq(SpanId) /\ ToSet(old(p) \o new(p)) = ToSet(old(p)) \cup ToSet(new(p))
  BY <1>5, <1>7, ConcatRange
<1>9. D \in SUBSET Parent
  <2>1. \A i \in DOMAIN att : att[i] \in Amended(T)
    BY <1>1, ElementOfSeq, LenProperties
  <2> QED
    BY <1>4, <1>6, <2>1
<1>10. F \in Danglings
  <2> HIDE DEF D
  <2>1. F \in [D -> Seq(SpanId)]
    BY <1>8
  <2> HIDE DEF F
  <2> QED
    BY <1>9, <2>1 DEF Danglings
<1>11. ASSUME NEW p
       PROVE  Waiting(F, p) = Waiting(danglings, p)
                                \cup {a.id : a \in {x \in ToSet(amended) : IsAttachment(x) /\ x.parent = p}}
  <2>1. {a.id : a \in ToSet(mine(p))} = {a.id : a \in {x \in ToSet(amended) : IsAttachment(x) /\ x.parent = p}}
    BY <1>1, <1>2
  <2>2. CASE p \in D
    <3>1. Waiting(F, p) = ToSet(old(p) \o new(p))
      BY <2>2 DEF Waiting
    <3> QED
      BY <1>5, <1>7, <1>8, <2>1, <3>1
  <2>3. CASE p \notin D
    <3>1. Waiting(F, p) = {} /\ Waiting(danglings, p) = {}
      BY <2>3 DEF Waiting
    <3>2. \A x \in ToSet(att) : x.parent # p
      BY <2>3 DEF ToSet
    <3> QED
      BY <1>1, <3>1, <3>2
  <2> QED
    BY <2>2, <2>3
<1> QED
  BY <1>3, <1>10, <1>11

\* A record for every span, with the parent it was amended to.
LEMMA MountRecords ==
  ASSUME NEW T, NEW amended \in Seq(Amended(T)), NEW danglings \in Danglings
  PROVE  /\ Mount(amended, danglings) \in Seq(Recorded(T))
         /\ \A a \in ToSet(amended) : IsSpan(a) =>
              \E r \in ToSet(Mount(amended, danglings)) : r.span = a.id /\ r.trace = a.trace
         /\ \A r \in ToSet(Mount(amended, danglings)) :
              \E a \in ToSet(amended) : IsSpan(a) /\ r.span = a.id /\ r.parent = a.parent /\ r.trace = a.trace
PROOF
<1> DEFINE sp == Select(amended, IsSpan)
           takes(i) == /\ sp[i].id \in DOMAIN danglings
                       /\ \A j \in 1 .. i - 1 : sp[j].id # sp[i].id
           ev(i) == IF takes(i) THEN danglings[sp[i].id] ELSE <<>>
           F == [i \in DOMAIN sp |-> [trace |-> sp[i].trace, span |-> sp[i].id, parent |-> sp[i].parent,
                                      events |-> ev(i)]]
<1>1. sp \in Seq(Amended(T)) /\ ToSet(sp) = {x \in ToSet(amended) : IsSpan(x)}
  <2>1. {x \in Amended(T) : IsSpan(x)} \subseteq Amended(T)
    OBVIOUS
  <2>2. Seq({x \in Amended(T) : IsSpan(x)}) \subseteq Seq(Amended(T))
    BY <2>1, SeqMonotonic
  <2> QED
    BY <2>2, SelectSpans
<1>2. Mount(amended, danglings) = F
  BY DEF Mount
<1> HIDE DEF sp
<1>3. /\ Len(sp) \in Nat /\ DOMAIN sp = 1 .. Len(sp)
      /\ \A i \in 1 .. Len(sp) : sp[i] \in Amended(T)
  BY <1>1, ElementOfSeq, LenProperties
<1>4. \A i \in 1 .. Len(sp) : ev(i) \in Seq(SpanId)
  <2>1. PICK S \in SUBSET Parent : danglings \in [S -> Seq(SpanId)]
    BY DEF Danglings
  <2> QED
    BY <2>1, ShortRanges
<1> HIDE DEF takes, ev
<1>5. /\ DOMAIN F = 1 .. Len(sp) /\ F = [i \in 1 .. Len(sp) |-> F[i]]
      /\ \A i \in 1 .. Len(sp) : F[i] = [trace |-> sp[i].trace, span |-> sp[i].id,
                                          parent |-> sp[i].parent, events |-> ev(i)]
  BY <1>3
<1> HIDE DEF F
<1>6. \A i \in 1 .. Len(sp) : F[i] \in Recorded(T)
  BY <1>3, <1>4, <1>5 DEF Amended, Recorded
<1>7. F \in Seq(Recorded(T))
  BY <1>3, <1>5, <1>6
<1>8. ASSUME NEW a \in ToSet(amended), IsSpan(a)
      PROVE  \E r \in ToSet(F) : r.span = a.id /\ r.trace = a.trace
  <2>1. PICK i \in 1 .. Len(sp) : sp[i] = a
    BY <1>1, <1>3, <1>8 DEF ToSet
  <2>2. F[i] \in ToSet(F) /\ F[i].span = a.id /\ F[i].trace = a.trace
    BY <1>5, <2>1 DEF ToSet
  <2> QED
    BY <2>2
<1>9. ASSUME NEW r \in ToSet(F)
      PROVE  \E a \in ToSet(amended) : IsSpan(a) /\ r.span = a.id /\ r.parent = a.parent /\ r.trace = a.trace
  <2>1. PICK i \in 1 .. Len(sp) : F[i] = r
    BY <1>5 DEF ToSet
  <2>2. sp[i] \in ToSet(sp) /\ r.span = sp[i].id /\ r.parent = sp[i].parent /\ r.trace = sp[i].trace
    BY <1>3, <1>5, <2>1 DEF ToSet
  <2> QED
    BY <1>1, <2>2
<1> QED
  BY <1>2, <1>7, <1>8, <1>9

\* What post-processing gives for collections of traces in T.
LEMMA PostprocessType ==
  ASSUME NEW T, NEW colls \in Seq(Coll(T)), NEW danglings \in Danglings,
         NEW out, out = PostprocessSpanCollection(colls, danglings)
  PROVE  /\ out.records \in Seq(Recorded(T)) /\ out.danglings \in Danglings
         /\ \A a \in ToSet(AmendAll(colls)) : IsSpan(a) =>
              \E r \in ToSet(out.records) : r.span = a.id /\ r.trace = a.trace
         /\ \A r \in ToSet(out.records) :
              \E a \in ToSet(AmendAll(colls)) : IsSpan(a) /\ r.span = a.id /\ r.parent = a.parent /\ r.trace = a.trace
PROOF
<1> DEFINE amended == AmendAll(colls)
           dangling == Dangle(danglings, amended)
           records == Mount(amended, dangling)
<1>1. out.records = records /\ out.danglings = Unmounted(records, dangling)
  BY DEF PostprocessSpanCollection
<1>2. amended \in Seq(Amended(T))
  BY AmendAllType
<1> HIDE DEF amended
<1>3. dangling \in Danglings
  BY <1>2, DangleType
<1> HIDE DEF dangling
<1>4. Unmounted(records, dangling) \in Danglings
  <2>1. PICK S \in SUBSET Parent : dangling \in [S -> Seq(SpanId)]
    BY <1>3 DEF Danglings
  <2> DEFINE left == DOMAIN dangling \ {records[i].span : i \in DOMAIN records}
  <2>2. left \in SUBSET Parent /\ [s \in left |-> dangling[s]] \in [left -> Seq(SpanId)]
    BY <2>1
  <2>3. Unmounted(records, dangling) = [s \in left |-> dangling[s]]
    BY DEF Unmounted
  <2> QED
    BY <2>2, <2>3 DEF Danglings
<1> QED
  BY <1>1, <1>2, <1>3, <1>4, MountRecords DEF amended

-----------------------------------------------------------------------------
(* Commands, and the batch. *)

\* The spans of a set of collections, each with its trace.
PairsOf(colls) ==
  {<<x[1].trace, x[2].id>> : x \in {y \in colls \X RawSpan : y[2] \in ToSet(y[1].set) /\ y[2].kind = "Span"}}

LEMMA PairsOfMember ==
  ASSUME NEW colls, NEW p
  PROVE  p \in PairsOf(colls) <=>
           \E coll \in colls : \E raw \in RawSpan :
              raw \in ToSet(coll.set) /\ raw.kind = "Span" /\ p = <<coll.trace, raw.id>>
PROOF
<1>1. ASSUME p \in PairsOf(colls)
      PROVE  \E coll \in colls : \E raw \in RawSpan :
              raw \in ToSet(coll.set) /\ raw.kind = "Span" /\ p = <<coll.trace, raw.id>>
  <2>1. PICK y \in colls \X RawSpan : y[2] \in ToSet(y[1].set) /\ y[2].kind = "Span" /\ p = <<y[1].trace, y[2].id>>
    BY <1>1 DEF PairsOf
  <2>2. y[1] \in colls /\ y[2] \in RawSpan
    BY <2>1
  <2> QED
    BY <2>1, <2>2
<1>2. ASSUME NEW coll \in colls, NEW raw \in RawSpan,
             raw \in ToSet(coll.set), raw.kind = "Span", p = <<coll.trace, raw.id>>
      PROVE  p \in PairsOf(colls)
  <2>1. /\ <<coll, raw>> \in colls \X RawSpan /\ <<coll, raw>>[1] = coll /\ <<coll, raw>>[2] = raw
    OBVIOUS
  <2> QED
    BY <1>2, <2>1 DEF PairsOf
<1> QED
  BY <1>1, <1>2

\* The amended spans of a sequence of collections are these.
LEMMA AmendPairs ==
  ASSUME NEW T, NEW colls \in Seq(Coll(T))
  PROVE  {Pair(a) : a \in {x \in ToSet(AmendAll(colls)) : IsSpan(x)}} = PairsOf(ToSet(colls))
PROOF
<1> DEFINE A(coll, raw) == [trace |-> coll.trace, id |-> raw.id, kind |-> raw.kind,
                            parent |-> IF raw.parent = NoParent THEN coll.parent ELSE raw.parent]
<1>1. \A coll \in ToSet(colls) : coll \in Coll(T)
  BY ElementOfSeq, LenProperties DEF ToSet
<1>2. \A coll \in Coll(T) : ToSet(Amend(coll)) = {A(coll, raw) : raw \in ToSet(coll.set)}
  BY AmendType
<1>3. ToSet(AmendAll(colls)) = UNION {ToSet(Amend(coll)) : coll \in ToSet(colls)}
  BY AmendAllType
<1>4. \A coll, raw : Pair(A(coll, raw)) = <<coll.trace, raw.id>> /\ (IsSpan(A(coll, raw)) <=> raw.kind = "Span")
  BY DEF Pair, IsSpan
<1>5. \A coll \in Coll(T) : \A raw \in ToSet(coll.set) : raw \in RawSpan
  BY ElementOfSeq, LenProperties DEF ToSet, Coll
<1> HIDE DEF A
<1>6. ASSUME NEW a \in ToSet(AmendAll(colls)), IsSpan(a)
      PROVE  Pair(a) \in PairsOf(ToSet(colls))
  <2>1. PICK coll \in ToSet(colls) : a \in ToSet(Amend(coll))
    BY <1>3, <1>6
  <2>2. PICK raw \in ToSet(coll.set) : a = A(coll, raw)
    BY <1>1, <1>2, <2>1
  <2> QED
    BY <1>1, <1>4, <1>5, <1>6, <2>1, <2>2, PairsOfMember
<1>7. ASSUME NEW p \in PairsOf(ToSet(colls))
      PROVE  \E a \in ToSet(AmendAll(colls)) : IsSpan(a) /\ Pair(a) = p
  <2>1. PICK coll \in ToSet(colls), raw \in RawSpan :
          raw \in ToSet(coll.set) /\ raw.kind = "Span" /\ p = <<coll.trace, raw.id>>
    BY <1>7, PairsOfMember
  <2>2. A(coll, raw) \in ToSet(AmendAll(colls))
    BY <1>1, <1>2, <1>3, <2>1
  <2> QED
    BY <1>4, <2>1, <2>2
<1> QED
  BY <1>6, <1>7

LEMMA CopiesType ==
  ASSUME NEW cmd \in Command, cmd.cmd = "submit"
  PROVE  /\ Copies(cmd) \in Seq(Coll(CollectId))
         /\ ToSet(Copies(cmd)) = {[set |-> cmd.set, trace |-> item.collect, parent |-> item.parent]
                                    : item \in ToSet(cmd.token)}
PROOF
<1>1. cmd.set \in Seq(RawSpan) /\ cmd.token \in Seq(Sampled)
  BY DEF Command
<1> DEFINE n == Len(cmd.token)
           C(item) == [set |-> cmd.set, trace |-> item.collect, parent |-> item.parent]
           F == [i \in 1 .. n |-> C(cmd.token[i])]
<1>2. /\ n \in Nat /\ DOMAIN cmd.token = 1 .. n
      /\ \A i \in 1 .. n : cmd.token[i] \in Sampled
  BY <1>1, ElementOfSeq, LenProperties
<1>3. Copies(cmd) = F
  BY <1>2 DEF Copies
<1>4. \A item \in Sampled : C(item) \in Coll(CollectId)
  BY <1>1 DEF Sampled, Coll
<1>5. /\ F = [i \in 1 .. n |-> F[i]] /\ DOMAIN F = 1 .. n
      /\ \A i \in 1 .. n : F[i] = C(cmd.token[i])
  OBVIOUS
<1> HIDE DEF F, n, C
<1>6. \A i \in 1 .. n : F[i] \in Coll(CollectId)
  BY <1>2, <1>4, <1>5
<1>7. F \in Seq(Coll(CollectId))
  BY <1>2, <1>5, <1>6
<1>8. ToSet(F) = {C(item) : item \in ToSet(cmd.token)}
  BY <1>2, <1>5 DEF ToSet
<1> QED
  BY <1>3, <1>7, <1>8 DEF C

\* What the commands of a batch submit.
SubmittedBy(commands) ==
  UNION {ToSet(Copies(m)) : m \in {x \in commands : x.cmd = "submit"}}

LEMMA SubmittedType ==
  ASSUME batch \in Seq(Command)
  PROVE  Submitted \in Seq(Coll(CollectId)) /\ ToSet(Submitted) = SubmittedBy(ToSet(batch))
PROOF
<1> DEFINE n == Len(batch)
           F == [i \in 1 .. n |-> IF batch[i].cmd = "submit" THEN Copies(batch[i]) ELSE <<>>]
<1>1. n \in Nat /\ DOMAIN batch = 1 .. n /\ \A i \in 1 .. n : batch[i] \in Command
  BY ElementOfSeq, LenProperties
<1>2. Submitted = FlattenSeq(F)
  BY <1>1 DEF Submitted
<1>3. /\ F = [i \in 1 .. n |-> F[i]]
      /\ \A i \in 1 .. n : F[i] = IF batch[i].cmd = "submit" THEN Copies(batch[i]) ELSE <<>>
  OBVIOUS
<1> HIDE DEF F, n
<1>4. <<>> \in Seq(Coll(CollectId)) /\ ToSet(<<>>) = {}
  BY ShortRanges
<1>5. \A i \in 1 .. n : F[i] \in Seq(Coll(CollectId))
  BY <1>1, <1>3, <1>4, CopiesType
<1>6. F \in Seq(Seq(Coll(CollectId))) /\ Len(F) = n
  BY <1>1, <1>3, <1>5, SMTT(30)
<1>7. /\ FlattenSeq(F) \in Seq(Coll(CollectId))
      /\ ToSet(FlattenSeq(F)) = UNION {ToSet(F[i]) : i \in 1 .. n}
  BY <1>6, FlattenRange
<1>8. ToSet(batch) = {batch[i] : i \in 1 .. n}
  BY <1>1 DEF ToSet
<1>9. UNION {ToSet(F[i]) : i \in 1 .. n} = SubmittedBy(ToSet(batch))
  <2>1. ASSUME NEW i \in 1 .. n, NEW x \in ToSet(F[i])
        PROVE  x \in SubmittedBy(ToSet(batch))
    <3>1. batch[i].cmd = "submit" /\ x \in ToSet(Copies(batch[i]))
      BY <1>3, <1>4, <2>1
    <3> QED
      BY <1>8, <3>1 DEF SubmittedBy
  <2>2. ASSUME NEW i \in 1 .. n, batch[i].cmd = "submit", NEW x \in ToSet(Copies(batch[i]))
        PROVE  x \in UNION {ToSet(F[j]) : j \in 1 .. n}
    BY <1>3, <2>2
  <2>3. ASSUME NEW x \in SubmittedBy(ToSet(batch))
        PROVE  x \in UNION {ToSet(F[j]) : j \in 1 .. n}
    <3>1. PICK m \in ToSet(batch) : m.cmd = "submit" /\ x \in ToSet(Copies(m))
      BY <2>3 DEF SubmittedBy
    <3>2. PICK i \in 1 .. n : m = batch[i]
      BY <1>8
    <3> QED
      BY <2>2, <3>1, <3>2
  <2> QED
    BY <2>1, <2>3
<1> QED
  BY <1>2, <1>7, <1>9

\* The collections submitted for one trace, and those that come too late.
LEMMA SelectTrace ==
  ASSUME NEW c \in CollectId, NEW seq \in Seq(Coll(CollectId))
  PROVE  /\ Select(seq, LAMBDA s : s.trace = c) \in Seq(Coll({c}))
         /\ ToSet(Select(seq, LAMBDA s : s.trace = c)) = {x \in ToSet(seq) : x.trace = c}
PROOF
<1>1. \A i \in DOMAIN seq : seq[i] \in Coll(CollectId)
  BY ElementOfSeq, LenProperties
<1>2. \A x \in Coll(CollectId) : x.trace = c <=> x \in Coll({c})
  BY DEF Coll
<1>3. [i \in DOMAIN seq |-> IF seq[i] \in Coll({c}) THEN <<seq[i]>> ELSE <<>>]
        = [i \in DOMAIN seq |-> IF seq[i].trace = c THEN <<seq[i]>> ELSE <<>>]
  BY <1>1, <1>2
<1>4. Select(seq, LAMBDA s : s.trace = c)
        = FlattenSeq([i \in DOMAIN seq |-> IF seq[i] \in Coll({c}) THEN <<seq[i]>> ELSE <<>>])
  BY <1>3 DEF Select
<1>5. /\ Coll(CollectId) \cap Coll({c}) \subseteq Coll({c})
      /\ \A x \in ToSet(seq) : x \in Coll(CollectId)
  BY <1>1 DEF ToSet
<1>6. /\ Select(seq, LAMBDA s : s.trace = c) \in Seq(Coll(CollectId) \cap Coll({c}))
      /\ ToSet(Select(seq, LAMBDA s : s.trace = c)) = ToSet(seq) \cap Coll({c})
  BY <1>4, FilterRange
<1>7. Seq(Coll(CollectId) \cap Coll({c})) \subseteq Seq(Coll({c}))
  BY <1>5, SeqMonotonic
<1> QED
  BY <1>2, <1>5, <1>6, <1>7

LEMMA SelectOthers ==
  ASSUME NEW seq \in Seq(Coll(CollectId))
  PROVE  /\ Select(seq, LAMBDA s : s.trace \notin DOMAIN Started) \in Seq(Coll(CollectId))
         /\ ToSet(Select(seq, LAMBDA s : s.trace \notin DOMAIN Started)) = {x \in ToSet(seq) : x.trace \notin DOMAIN Started}
PROOF
<1> DEFINE T == {x \in Coll(CollectId) : x.trace \notin DOMAIN Started}
<1>1. \A i \in DOMAIN seq : seq[i] \in Coll(CollectId)
  BY ElementOfSeq, LenProperties
<1>2. [i \in DOMAIN seq |-> IF seq[i] \in T THEN <<seq[i]>> ELSE <<>>]
        = [i \in DOMAIN seq |-> IF seq[i].trace \notin DOMAIN Started THEN <<seq[i]>> ELSE <<>>]
  BY <1>1
<1>3. Select(seq, LAMBDA s : s.trace \notin DOMAIN Started)
        = FlattenSeq([i \in DOMAIN seq |-> IF seq[i] \in T THEN <<seq[i]>> ELSE <<>>])
  BY <1>2 DEF Select
<1>4. Coll(CollectId) \cap T \subseteq Coll(CollectId) /\ \A x \in ToSet(seq) : x \in Coll(CollectId)
  BY <1>1 DEF ToSet
<1> HIDE DEF T
<1>5. /\ Select(seq, LAMBDA s : s.trace \notin DOMAIN Started) \in Seq(Coll(CollectId) \cap T)
      /\ ToSet(Select(seq, LAMBDA s : s.trace \notin DOMAIN Started)) = ToSet(seq) \cap T
  BY <1>3, FilterRange
<1>6. Seq(Coll(CollectId) \cap T) \subseteq Seq(Coll(CollectId))
  BY <1>4, SeqMonotonic
<1> QED
  BY <1>4, <1>5, <1>6 DEF T

-----------------------------------------------------------------------------
(* The type invariant, in parts. *)

\* The Span objects and the identifiers given out.
SpansOK ==
  /\ nextRaw \in 1 .. MaxRaw + 1 /\ nextRoot \in 1 .. MaxRoot + 1
  /\ DOMAIN spans \subseteq 1 .. nextRaw - 1
  /\ \A s \in DOMAIN spans : spans[s] \in SpanObject
  /\ borrow \in [Thread -> SpanId \cup {NoSpan}]

\* Only a thread that runs has commands to send.
ThreadsOK ==
  /\ thread \in [Thread -> ThreadState]
  /\ todo \in [Thread -> Seq(Command)]
  /\ past \in [Thread -> BOOLEAN]
  /\ \A t \in Thread : thread[t] # "run" => todo[t] = <<>>

\* Only forced commands are parked, and a channel that holds a command has a
\* registered receiver until its sender is gone.
ChannelsOK ==
  /\ chan \in [Thread -> Channels(Command)]
  /\ \A t \in Thread : Len(chan[t].ring) <= Capacity
  /\ \A t \in Thread : \A m \in ToSet(chan[t].pending) : Forced(m)
  /\ \A t \in Thread : chan[t].open <=> thread[t] # "gone"
  /\ \A t \in Thread : (chan[t].ring # <<>> \/ chan[t].pending # <<>>) /\ chan[t].open
                         => t \in ToSet(rxs)

\* A flush runs the collector for a thread that waits for it.
ReceiversOK ==
  /\ rxs \in Seq(Thread) /\ IsInjective(rxs)
  /\ runner \in {"none", "loop"} \cup Thread
  /\ at \in 0 .. Len(rxs) + 1
  /\ empty \in BOOLEAN /\ (empty => AtReceiver)
  /\ batch \in Seq(Command)
  /\ runner = "none" => at = 0 /\ batch = <<>>
  /\ runner \in Thread => thread[runner] = "flush"

\* Collectors and records, of sampled traces only.
CollectorsOK ==
  /\ DOMAIN active \subseteq CollectId
  /\ \A c \in DOMAIN active : active[c] \in ActiveCollector(c)
  /\ IsABag(reported)
  /\ DOMAIN reported \subseteq Recorded(CollectId)

TypeInv == SpansOK /\ ThreadsOK /\ ChannelsOK /\ ReceiversOK /\ CollectorsOK

-----------------------------------------------------------------------------
(* What the calls of the Span API send. *)

LEMMA IssueTokenType ==
  ASSUME SpansOK, NEW s \in DOMAIN spans
  PROVE  /\ s \in SpanId /\ spans[s] \in SpanObject
         /\ spans[s].token \in Seq(TokenItem)
         /\ IssueCollectToken(s) \in Seq(TokenItem)
PROOF
<1>1. s \in SpanId /\ spans[s] \in SpanObject /\ spans[s].token \in Seq(TokenItem)
  BY CollectorAssumption DEF SpansOK, SpanId, SpanObject
<1> DEFINE token == spans[s].token
           n == Len(token)
           I == [i \in 1 .. n |-> Item(token[i].collect, s)]
<1>2. n \in Nat /\ DOMAIN token = 1 .. n /\ \A i \in 1 .. n : token[i] \in TokenItem
  BY <1>1, ElementOfSeq, LenProperties
<1>3. IssueCollectToken(s) = I
  BY <1>2 DEF IssueCollectToken
<1>4. \A i \in 1 .. n : I[i] \in TokenItem
  BY <1>1, <1>2 DEF TokenItem, Item, Parent
<1>5. I = [i \in 1 .. n |-> I[i]]
  OBVIOUS
<1> HIDE DEF I, n
<1>6. I \in Seq(TokenItem)
  BY <1>2, <1>4, <1>5
<1> QED
  BY <1>1, <1>3, <1>6

LEMMA SubmitSpansType ==
  ASSUME NEW set \in Seq(RawSpan), NEW token \in Seq(TokenItem)
  PROVE  /\ SubmitSpans(set, token) \in Seq(Command)
         /\ \/ SubmitSpans(set, token) = <<>>
            \/ \E m \in Command : m.cmd = "submit" /\ SubmitSpans(set, token) = <<m>>
PROOF
<1>1. Select(token, IsSampled) \in Seq(Sampled)
  BY SelectSampled
<1>2. CASE Select(token, IsSampled) = <<>>
  BY <1>2 DEF SubmitSpans
<1>3. CASE Select(token, IsSampled) # <<>>
  <2> DEFINE m == [cmd |-> "submit", set |-> set, token |-> Select(token, IsSampled)]
  <2>1. m \in Command /\ m.cmd = "submit"
    BY <1>1 DEF Command
  <2>2. SubmitSpans(set, token) = <<m>>
    BY <1>3 DEF SubmitSpans
  <2> HIDE DEF m
  <2> QED
    BY <2>1, <2>2
<1> QED
  BY <1>2, <1>3

\* The token of a span with several parents.
LEMMA ParentsTokenType ==
  ASSUME SpansOK, NEW n \in Nat, NEW parents \in [1 .. n -> DOMAIN spans],
         NEW token, token = FlattenSeq([i \in DOMAIN parents |-> IssueCollectToken(parents[i])])
  PROVE  token \in Seq(TokenItem)
PROOF
<1> DEFINE F == [i \in 1 .. n |-> IssueCollectToken(parents[i])]
<1>1. token = FlattenSeq(F)
  OBVIOUS
<1>2. \A i \in 1 .. n : F[i] \in Seq(TokenItem)
  BY IssueTokenType
<1>3. F = [i \in 1 .. n |-> F[i]]
  OBVIOUS
<1> HIDE DEF F
<1>4. F \in Seq(Seq(TokenItem))
  BY <1>2, <1>3
<1> QED
  BY <1>1, <1>4, FlattenRange

LEMMA SpanDroppedType ==
  ASSUME SpansOK, NEW s \in DOMAIN spans
  PROVE  SpanDropped(s) \in Seq(Command)
PROOF
<1>1. s \in SpanId /\ spans[s].token \in Seq(TokenItem) /\ spans[s].collect \in AnyTrace \cup {-1}
  BY IssueTokenType DEF SpanObject
<1>2. <<Raw(s, NoParent, "Span")>> \in Seq(RawSpan)
  BY <1>1 DEF RawSpan, Raw, Parent, Kind
<1>3. SubmitSpans(<<Raw(s, NoParent, "Span")>>, spans[s].token) \in Seq(Command)
  BY <1>1, <1>2, SubmitSpansType
<1>4. (IF spans[s].collect = -1 THEN <<>> ELSE <<CommitCollect(spans[s].collect)>>) \in Seq(Command)
  <2>1. CASE spans[s].collect = -1
    BY <2>1
  <2>2. CASE spans[s].collect # -1
    <3>1. CommitCollect(spans[s].collect) \in Command
      BY <1>1, <2>2 DEF CommitCollect, Command
    <3> QED
      BY <2>2, <3>1
  <2> QED
    BY <2>1, <2>2
<1> QED
  BY <1>3, <1>4, ConcatProperties DEF SpanDropped

-----------------------------------------------------------------------------
(* The steps keep the types. *)

\* A span that is created, and the threads' borrows.
LEMMA NewSpanType ==
  ASSUME SpansOK, NEW t \in Thread, NEW token \in Seq(TokenItem), NEW c \in AnyTrace \cup {-1},
         nextRaw <= MaxRaw, nextRaw' = nextRaw + 1, NewSpan(t, token, c)
  PROVE  /\ DOMAIN spans' = DOMAIN spans \cup {nextRaw} /\ nextRaw \notin DOMAIN spans
         /\ spans'[nextRaw] = [live |-> TRUE, home |-> t, token |-> token, collect |-> c]
         /\ \A s \in DOMAIN spans : spans'[s] = spans[s]
         /\ nextRaw' \in 1 .. MaxRaw + 1
         /\ DOMAIN spans' \subseteq 1 .. nextRaw' - 1
         /\ \A s \in DOMAIN spans' : spans'[s] \in SpanObject
PROOF
<1>1. /\ DOMAIN spans' = DOMAIN spans \cup {nextRaw} /\ nextRaw \notin DOMAIN spans
      /\ nextRaw' \in 1 .. MaxRaw + 1 /\ DOMAIN spans' \subseteq 1 .. nextRaw' - 1
  BY CollectorAssumption DEF SpansOK, NewSpan
<1>2. spans'[nextRaw] = [live |-> TRUE, home |-> t, token |-> token, collect |-> c]
  BY DEF NewSpan
<1>3. \A s \in DOMAIN spans : spans'[s] = spans[s]
  BY <1>1 DEF NewSpan
<1>4. spans'[nextRaw] \in SpanObject
  BY <1>2 DEF SpanObject
<1> QED
  BY <1>1, <1>2, <1>3, <1>4 DEF SpansOK

LEMMA IssueType ==
  ASSUME SpansOK, ThreadsOK, NEW t \in Thread, NEW s \in SpanId \cup {NoSpan},
         NEW cmds \in Seq(Command), Issue(t, s, cmds)
  PROVE  /\ borrow' \in [Thread -> SpanId \cup {NoSpan}]
         /\ todo' \in [Thread -> Seq(Command)]
         /\ todo' = [todo EXCEPT ![t] = cmds]
PROOF
BY DEF SpansOK, ThreadsOK, Issue, NoSpan

LEMMA CallType ==
  ASSUME TypeInv, NEW t \in Thread, Call(t)
  PROVE  /\ SpansOK'
         /\ Idle(t)
         /\ UNCHANGED <<thread, past, chan, rxs, collVars, seen>>
         /\ todo' \in [Thread -> Seq(Command)]
         /\ \A u \in Thread \ {t} : todo'[u] = todo[u]
PROOF
<1> USE CollectorAssumption DEF TypeInv
<1>1. CASE Root(t)
  <2>1. nextRoot \in CollectId /\ nextRoot' \in 1 .. MaxRoot + 1 /\ nextRaw <= MaxRaw /\ nextRaw' = nextRaw + 1
    BY <1>1 DEF Root, SpansOK, CollectId
  <2>2. <<Item(nextRoot, NoParent)>> \in Seq(TokenItem)
    BY <2>1 DEF Item, TokenItem, AnyTrace, Parent
  <2>3. NewSpan(t, <<Item(nextRoot, NoParent)>>, nextRoot) /\ nextRoot \in AnyTrace \cup {-1}
    BY <1>1, <2>1 DEF Root, AnyTrace
  <2>4. <<StartCollect(nextRoot)>> \in Seq(Command)
    BY <2>1 DEF StartCollect, Command
  <2>5. Issue(t, NoSpan, <<StartCollect(nextRoot)>>)
    BY <1>1 DEF Root
  <2>6. borrow' \in [Thread -> SpanId \cup {NoSpan}] /\ todo' \in [Thread -> Seq(Command)]
        /\ todo' = [todo EXCEPT ![t] = <<StartCollect(nextRoot)>>]
    BY <2>4, <2>5, IssueType
  <2>7. SpansOK'
    BY <2>1, <2>2, <2>3, <2>6, NewSpanType DEF SpansOK
  <2> QED
    BY <1>1, <2>6, <2>7 DEF Root, ThreadsOK
<1>2. CASE UnsampledRoot(t)
  <2>1. <<Item(NotSampled, NoParent)>> \in Seq(TokenItem) /\ NotSampled \in AnyTrace \cup {-1}
    BY DEF Item, TokenItem, AnyTrace, Parent
  <2>2. SpansOK'
    BY <1>2, <2>1, NewSpanType DEF UnsampledRoot, SpansOK
  <2> QED
    BY <1>2, <2>2 DEF UnsampledRoot, ThreadsOK
<1>3. ASSUME NEW s \in SpanId, Attach(t, s) \/ PushChildSpans(t, s)
      PROVE  /\ SpansOK'
             /\ todo' \in [Thread -> Seq(Command)]
             /\ \A u \in Thread \ {t} : todo'[u] = todo[u]
  <2>1. s \in DOMAIN spans /\ IssueCollectToken(s) \in Seq(TokenItem)
    BY <1>3, IssueTokenType DEF Attach, PushChildSpans, MayUse, Live
  <2>2. PICK cmds \in Seq(Command) : Issue(t, s, cmds)
    <3>1. CASE Attach(t, s)
      <4>1. <<Raw(nextRaw, NoParent, "Attachment")>> \in Seq(RawSpan)
        BY <3>1 DEF Attach, SpansOK, RawSpan, Raw, SpanId, Parent, Kind
      <4> QED
        BY <2>1, <3>1, <4>1, SubmitSpansType DEF Attach
    <3>2. CASE PushChildSpans(t, s)
      <4>1. Raw(nextRaw, NoParent, "Span") \in RawSpan /\ Raw(nextRaw + 1, nextRaw, "Attachment") \in RawSpan
        BY <3>2 DEF PushChildSpans, SpansOK, RawSpan, Raw, SpanId, Parent, Kind
      <4>2. <<Raw(nextRaw, NoParent, "Span"), Raw(nextRaw + 1, nextRaw, "Attachment")>> \in Seq(RawSpan)
        BY <4>1
      <4> QED
        BY <2>1, <3>2, <4>2, SubmitSpansType DEF PushChildSpans
    <3> QED
      BY <1>3, <3>1, <3>2
  <2>3. /\ borrow' \in [Thread -> SpanId \cup {NoSpan}] /\ todo' \in [Thread -> Seq(Command)]
        /\ todo' = [todo EXCEPT ![t] = cmds]
    BY <2>2, IssueType
  <2>4. /\ nextRaw' \in 1 .. MaxRaw + 1 /\ nextRaw' >= nextRaw /\ UNCHANGED <<spans, nextRoot>>
    BY <1>3 DEF Attach, PushChildSpans, SpansOK
  <2> QED
    BY <2>3, <2>4 DEF SpansOK, ThreadsOK
<1>4. ASSUME NEW s \in SpanId, Cancel(t, s) \/ DropSpan(t, s)
      PROVE  /\ SpansOK'
             /\ todo' \in [Thread -> Seq(Command)]
             /\ \A u \in Thread \ {t} : todo'[u] = todo[u]
  <2>1. s \in DOMAIN spans /\ spans[s] \in SpanObject
    BY <1>4, IssueTokenType DEF Cancel, DropSpan, MayUse, Live
  <2>2. PICK cmds \in Seq(Command), lent \in SpanId \cup {NoSpan} : Issue(t, lent, cmds)
    <3>1. CASE Cancel(t, s)
      <4>1. DropCollect(spans[s].collect) \in Command
        BY <2>1, <3>1 DEF Cancel, DropCollect, Command, SpanObject
      <4>2. <<DropCollect(spans[s].collect)>> \in Seq(Command)
        BY <4>1
      <4> QED
        BY <3>1, <4>2 DEF Cancel
    <3>2. CASE DropSpan(t, s)
      BY <2>1, <3>2, SpanDroppedType DEF DropSpan
    <3> QED
      BY <1>4, <3>1, <3>2
  <2>3. /\ borrow' \in [Thread -> SpanId \cup {NoSpan}] /\ todo' \in [Thread -> Seq(Command)]
        /\ todo' = [todo EXCEPT ![t] = cmds]
    BY <2>2, IssueType
  <2>4. /\ UNCHANGED <<nextRaw, nextRoot>> /\ DOMAIN spans' = DOMAIN spans
        /\ \A r \in DOMAIN spans : spans'[r] \in SpanObject
    <3>1. CASE Cancel(t, s)
      BY <3>1 DEF Cancel, SpansOK
    <3>2. CASE DropSpan(t, s)
      <4>1. [spans[s] EXCEPT !.live = FALSE] \in SpanObject
        BY <2>1 DEF SpanObject
      <4>2. UNCHANGED <<nextRaw, nextRoot>> /\ spans' = [spans EXCEPT ![s] = [spans[s] EXCEPT !.live = FALSE]]
        BY <3>2 DEF DropSpan
      <4> QED
        BY <2>1, <4>1, <4>2 DEF SpansOK
    <3> QED
      BY <1>4, <3>1, <3>2
  <2> QED
    BY <2>3, <2>4 DEF SpansOK, ThreadsOK
<1>5. ASSUME NEW n \in 1 .. MaxParents, NEW parents \in [1 .. n -> SpanId], Child(t, parents)
      PROVE  /\ SpansOK'
             /\ todo' \in [Thread -> Seq(Command)]
             /\ \A u \in Thread \ {t} : todo'[u] = todo[u]
  <2> DEFINE token == FlattenSeq([i \in DOMAIN parents |-> IssueCollectToken(parents[i])])
  <2>1. parents \in [1 .. n -> DOMAIN spans] /\ n \in Nat
    BY <1>5 DEF Child, MayUse, Live
  <2>2. token \in Seq(TokenItem)
    BY <2>1, ParentsTokenType
  <2>3. NewSpan(t, token, -1) /\ nextRaw <= MaxRaw /\ nextRaw' = nextRaw + 1
        /\ UNCHANGED <<nextRoot, todo, borrow>>
    BY <1>5 DEF Child
  <2> HIDE DEF token
  <2>4. SpansOK'
    BY <2>2, <2>3, NewSpanType DEF SpansOK
  <2> QED
    BY <2>3, <2>4 DEF ThreadsOK
<1>6. Idle(t) /\ UNCHANGED <<thread, past, chan, rxs, collVars, seen>>
  BY DEF Call, Root, UnsampledRoot, Attach, PushChildSpans, Cancel, DropSpan, Child
<1> QED
  BY <1>1, <1>2, <1>3, <1>4, <1>5, <1>6 DEF Call

\* The elementary updates of a channel.
LEMMA PushType ==
  ASSUME NEW ch \in Channels(Command), NEW m \in Command, HasRoom(ch), Len(ch.ring) <= Capacity
  PROVE  /\ Push(ch, m) \in Channels(Command)
         /\ Push(ch, m).ring = Append(ch.ring, m) /\ Len(Push(ch, m).ring) <= Capacity
         /\ Push(ch, m).pending = ch.pending /\ Push(ch, m).open = ch.open
PROOF
<1>1. ch.ring \in Seq(Command) /\ Len(ch.ring) \in Nat /\ Capacity \in Nat
  BY CapacityAssumption DEF Channels
<1>2. Append(ch.ring, m) \in Seq(Command) /\ Len(Append(ch.ring, m)) = Len(ch.ring) + 1
  BY <1>1, AppendProperties
<1> DEFINE longer == Append(ch.ring, m)
<1>3. Push(ch, m) = [ch EXCEPT !.ring = longer]
  BY DEF Push
<1>4. longer \in Seq(Command) /\ Len(longer) <= Capacity
  BY <1>1, <1>2 DEF HasRoom
<1> HIDE DEF longer
<1>5. /\ Push(ch, m) \in Channels(Command) /\ Push(ch, m).ring = longer
      /\ Push(ch, m).pending = ch.pending /\ Push(ch, m).open = ch.open
  BY <1>3, <1>4 DEF Channels
<1> QED
  BY <1>4, <1>5 DEF longer

LEMMA PopType ==
  ASSUME NEW ch \in Channels(Command), ch.ring # <<>>, Len(ch.ring) <= Capacity
  PROVE  /\ Pop(ch) \in Channels(Command)
         /\ Pop(ch).ring = Tail(ch.ring) /\ Len(Pop(ch).ring) <= Capacity
         /\ Pop(ch).pending = ch.pending /\ Pop(ch).open = ch.open
         /\ Head(ch.ring) \in Command
PROOF
<1>1. ch.ring \in Seq(Command) /\ Len(ch.ring) \in Nat /\ Capacity \in Nat
  BY CapacityAssumption DEF Channels
<1>2. Tail(ch.ring) \in Seq(Command) /\ Len(Tail(ch.ring)) = Len(ch.ring) - 1 /\ Head(ch.ring) \in Command
  BY <1>1, HeadTailProperties
<1>3. /\ Pop(ch).ring = Tail(ch.ring)
      /\ Pop(ch).pending = ch.pending /\ Pop(ch).open = ch.open
      /\ Pop(ch) = [ring |-> Tail(ch.ring), pending |-> ch.pending, open |-> ch.open]
  BY SMTT(30) DEF Pop, Channels
<1>4. Pop(ch) \in Channels(Command)
  <2>1. ch.pending \in Seq(Command) /\ ch.open \in BOOLEAN
    BY DEF Channels
  <2> QED
    BY <1>2, <1>3, <2>1 DEF Channels
<1>5. Len(Pop(ch).ring) <= Capacity
  <2> HIDE DEF Pop
  <2>1. Len(Pop(ch).ring) = Len(ch.ring) - 1
    BY <1>2, <1>3
  <2> QED
    BY <1>1, <2>1
<1> QED
  BY <1>2, <1>3, <1>4, <1>5

LEMMA PushPendingType ==
  ASSUME NEW ch \in Channels(Command), HasRoom(ch), ch.pending # <<>>, Len(ch.ring) <= Capacity
  PROVE  /\ PushPending(ch) \in Channels(Command)
         /\ NewestPending(ch) \in ToSet(ch.pending) /\ NewestPending(ch) \in Command
         /\ PushPending(ch).ring = Append(ch.ring, NewestPending(ch)) /\ Len(PushPending(ch).ring) <= Capacity
         /\ PushPending(ch).pending = SubSeq(ch.pending, 1, Len(ch.pending) - 1)
         /\ ToSet(PushPending(ch).pending) \subseteq ToSet(ch.pending)
         /\ PushPending(ch).open = ch.open
PROOF
<1> DEFINE p == ch.pending
           n == Len(p)
           q == SubSeq(p, 1, n - 1)
<1>1. p \in Seq(Command) /\ n \in Nat /\ n > 0 /\ DOMAIN p = 1 .. n /\ ch.pending = p
  BY EmptySeq, LenProperties DEF Channels
<1>2. p[n] \in ToSet(p) /\ p[n] \in Command
  BY <1>1, ElementOfSeq DEF ToSet
<1>3. q \in Seq(Command) /\ DOMAIN q = 1 .. n - 1 /\ \A i \in 1 .. n - 1 : q[i] = p[i]
  BY <1>1, SubSeqProperties, LenProperties
<1>4. ToSet(q) \subseteq ToSet(p)
  BY <1>1, <1>3 DEF ToSet
<1>5. NewestPending(ch) = p[n]
  BY DEF NewestPending
<1> HIDE DEF p, n, q
<1>6. /\ Push(ch, p[n]) \in Channels(Command)
      /\ Push(ch, p[n]).ring = Append(ch.ring, p[n]) /\ Len(Push(ch, p[n]).ring) <= Capacity
      /\ Push(ch, p[n]).pending = p /\ Push(ch, p[n]).open = ch.open
  BY <1>1, <1>2, PushType
<1>7. PushPending(ch) = [Push(ch, p[n]) EXCEPT !.pending = q]
  BY <1>5, <1>6 DEF PushPending, q, n
<1>8. /\ PushPending(ch) \in Channels(Command) /\ PushPending(ch).ring = Append(ch.ring, p[n])
      /\ Len(PushPending(ch).ring) <= Capacity /\ PushPending(ch).open = ch.open
      /\ PushPending(ch).pending = q
  BY <1>3, <1>6, <1>7 DEF Channels
<1> QED
  BY <1>1, <1>2, <1>4, <1>5, <1>8 DEF q, n

LEMMA ParkType ==
  ASSUME NEW ch \in Channels(Command), NEW m \in Command
  PROVE  /\ Park(ch, m) \in Channels(Command)
         /\ Park(ch, m).ring = ch.ring /\ Park(ch, m).pending = Append(ch.pending, m)
         /\ ToSet(Park(ch, m).pending) = ToSet(ch.pending) \cup {m}
         /\ Park(ch, m).open = ch.open
PROOF
<1>1. ch.pending \in Seq(Command)
  BY DEF Channels
<1>2. Append(ch.pending, m) \in Seq(Command) /\ ToSet(Append(ch.pending, m)) = ToSet(ch.pending) \cup {m}
  BY <1>1, AppendRange
<1>3. Park(ch, m) = [ch EXCEPT !.pending = Append(ch.pending, m)]
  BY DEF Park
<1> QED
  BY <1>2, <1>3 DEF Channels

LEMMA DrainPendingType ==
  ASSUME NEW ch \in Channels(Command), ch.pending # <<>>, Len(ch.ring) <= Capacity
  PROVE  /\ DrainPending(ch) \in Channels(Command)
         /\ Head(ch.pending) \in ToSet(ch.pending) /\ Head(ch.pending) \in Command
         /\ DrainPending(ch).ring = IF HasRoom(ch) THEN Append(ch.ring, Head(ch.pending)) ELSE ch.ring
         /\ Len(DrainPending(ch).ring) <= Capacity
         /\ DrainPending(ch).pending = Tail(ch.pending)
         /\ ToSet(ch.pending) = {Head(ch.pending)} \cup ToSet(DrainPending(ch).pending)
         /\ DrainPending(ch).open = ch.open
PROOF
<1> DEFINE rest == [ch EXCEPT !.pending = Tail(ch.pending)]
<1>1. ch.pending \in Seq(Command) /\ ch.ring \in Seq(Command) /\ Len(ch.ring) \in Nat /\ Capacity \in Nat
  BY CapacityAssumption DEF Channels
<1>2. Tail(ch.pending) \in Seq(Command) /\ Head(ch.pending) \in Command
      /\ ToSet(ch.pending) = {Head(ch.pending)} \cup ToSet(Tail(ch.pending))
  BY <1>1, HeadTailRange
<1>3. rest \in Channels(Command) /\ rest.ring = ch.ring /\ rest.pending = Tail(ch.pending) /\ rest.open = ch.open
  BY <1>2 DEF Channels
<1>4. DrainPending(ch) = IF HasRoom(ch) THEN Push(rest, Head(ch.pending)) ELSE rest
  BY DEF DrainPending
<1> HIDE DEF rest
<1>5. CASE HasRoom(ch)
  <2>1. HasRoom(rest) /\ Len(rest.ring) <= Capacity
    BY <1>3, <1>5 DEF HasRoom
  <2>2. /\ Push(rest, Head(ch.pending)) \in Channels(Command)
        /\ Push(rest, Head(ch.pending)).ring = Append(rest.ring, Head(ch.pending))
        /\ Len(Push(rest, Head(ch.pending)).ring) <= Capacity
        /\ Push(rest, Head(ch.pending)).pending = rest.pending /\ Push(rest, Head(ch.pending)).open = rest.open
    BY <1>2, <1>3, <2>1, PushType
  <2> QED
    BY <1>2, <1>3, <1>4, <1>5, <2>2
<1>6. CASE ~HasRoom(ch)
  BY <1>1, <1>2, <1>3, <1>4, <1>6
<1> QED
  BY <1>5, <1>6

LEMMA AbandonType ==
  ASSUME NEW ch \in Channels(Command)
  PROVE  /\ Abandon(ch) \in Channels(Command)
         /\ Abandon(ch).ring = ch.ring /\ Abandon(ch).pending = ch.pending /\ ~Abandon(ch).open
PROOF
BY DEF Abandon, Channels

\* What a send changes: its own command, channel and registration.
LEMMA FinishType ==
  ASSUME TypeInv, NEW t \in Thread, Sending(t), Finish(t)
  PROVE  /\ todo' \in [Thread -> Seq(Command)] /\ todo'[t] = Tail(todo[t])
         /\ \A u \in Thread \ {t} : todo'[u] = todo[u]
         /\ past' \in [Thread -> BOOLEAN]
         /\ borrow' \in [Thread -> SpanId \cup {NoSpan}]
         /\ Cmd(t) \in Command /\ todo[t] = <<Cmd(t)>> \o Tail(todo[t])
PROOF
<1>1. todo[t] \in Seq(Command) /\ todo[t] # <<>> /\ todo \in [Thread -> Seq(Command)]
  BY DEF TypeInv, ThreadsOK, Sending
<1>2. Tail(todo[t]) \in Seq(Command) /\ todo[t][1] \in Command
  BY <1>1, HeadTailRange
<1>3. todo' = [todo EXCEPT ![t] = Tail(todo[t])]
  BY DEF Finish
<1>4. past' \in [Thread -> BOOLEAN] /\ borrow' \in [Thread -> SpanId \cup {NoSpan}]
  BY DEF Finish, TypeInv, ThreadsOK, SpansOK, NoSpan
<1>5. todo[t] = <<todo[t][1]>> \o Tail(todo[t])
  BY <1>1
<1> QED
  BY <1>1, <1>2, <1>3, <1>4, <1>5 DEF Cmd

LEMMA SendType ==
  ASSUME TypeInv, NEW t \in Thread, Send(t)
  PROVE  TypeInv'
PROOF
<1>1. /\ chan \in [Thread -> Channels(Command)] /\ chan[t] \in Channels(Command)
      /\ Len(chan[t].ring) <= Capacity /\ rxs \in Seq(Thread)
      /\ Len(rxs) \in Nat /\ DOMAIN rxs = 1 .. Len(rxs)
  BY LenProperties DEF TypeInv, ChannelsOK, ReceiversOK
<1>2. CASE RegisterReceiver(t)
  <2>1. rxs' = Append(rxs, t) /\ t \notin ToSet(rxs) /\ at = 0
        /\ UNCHANGED <<appVars, thread, todo, past, chan, collVars, seen>>
    BY <1>2 DEF RegisterReceiver, Draining
  <2>2. /\ rxs' \in Seq(Thread) /\ Len(rxs') = Len(rxs) + 1 /\ ToSet(rxs') = ToSet(rxs) \cup {t}
        /\ \A i \in 1 .. Len(rxs) : rxs'[i] = rxs[i] /\ rxs[i] \in ToSet(rxs)
        /\ rxs'[Len(rxs) + 1] = t /\ DOMAIN rxs' = 1 .. Len(rxs) + 1
    BY <1>1, <2>1, AppendRange, LenProperties DEF ToSet
  <2>3. IsInjective(rxs')
    <3>1. ASSUME NEW i \in DOMAIN rxs', NEW j \in DOMAIN rxs', rxs'[i] = rxs'[j]
          PROVE  i = j
      <4>1. CASE i = Len(rxs) + 1 \/ j = Len(rxs) + 1
        BY <1>1, <2>1, <2>2, <3>1, <4>1
      <4>2. CASE i \in DOMAIN rxs /\ j \in DOMAIN rxs
        BY <1>1, <2>2, <3>1, <4>2 DEF TypeInv, ReceiversOK, IsInjective
      <4> QED
        BY <1>1, <2>2, <4>1, <4>2
    <3> QED
      BY <3>1 DEF IsInjective
  <2>4. SpansOK' /\ ThreadsOK' /\ CollectorsOK' /\ ChannelsOK'
    BY <2>1, <2>2 DEF TypeInv, SpansOK, ThreadsOK, CollectorsOK, ChannelsOK, appVars, collVars
  <2>5. ReceiversOK'
    BY <1>1, <2>1, <2>2, <2>3 DEF TypeInv, ReceiversOK, AtReceiver, appVars, collVars
  <2> QED
    BY <2>4, <2>5 DEF TypeInv
<1>3. CASE RetryPending(t)
  <2>1. /\ chan' = [chan EXCEPT ![t] = PushPending(chan[t])] /\ chan[t].pending # <<>> /\ HasRoom(chan[t])
        /\ t \in ToSet(rxs) /\ UNCHANGED <<appVars, thread, todo, past, rxs, collVars, seen>>
    BY <1>3 DEF RetryPending, Ready
  <2>2. /\ PushPending(chan[t]) \in Channels(Command) /\ Len(PushPending(chan[t]).ring) <= Capacity
        /\ ToSet(PushPending(chan[t]).pending) \subseteq ToSet(chan[t].pending)
        /\ PushPending(chan[t]).open = chan[t].open
    BY <1>1, <2>1, PushPendingType
  <2>3. SpansOK' /\ ThreadsOK' /\ CollectorsOK' /\ ReceiversOK'
    BY <2>1 DEF TypeInv, SpansOK, ThreadsOK, CollectorsOK, ReceiversOK, AtReceiver, appVars, collVars
  <2>4. ChannelsOK'
    BY <2>1, <2>2 DEF TypeInv, ChannelsOK
  <2> QED
    BY <2>3, <2>4 DEF TypeInv
<1>4. CASE ForceRetryFull(t)
  BY <1>4 DEF ForceRetryFull, TypeInv, SpansOK, ThreadsOK, CollectorsOK, ReceiversOK, ChannelsOK,
              AtReceiver, appVars, collVars
<1>5. CASE PushCommand(t)
  <2>1. /\ chan' = [chan EXCEPT ![t] = Push(chan[t], Cmd(t))] /\ HasRoom(chan[t]) /\ Finish(t) /\ Sending(t)
        /\ t \in ToSet(rxs) /\ UNCHANGED <<spans, nextRaw, nextRoot, thread, rxs, collVars>>
    BY <1>5 DEF PushCommand, AtPush, Ready
  <2>2. Cmd(t) \in Command
    BY <2>1, FinishType
  <2>3. /\ Push(chan[t], Cmd(t)) \in Channels(Command) /\ Len(Push(chan[t], Cmd(t)).ring) <= Capacity
        /\ Push(chan[t], Cmd(t)).pending = chan[t].pending
        /\ Push(chan[t], Cmd(t)).open = chan[t].open
    BY <1>1, <2>1, <2>2, PushType
  <2>4. SpansOK' /\ ThreadsOK'
    BY <2>1, FinishType DEF TypeInv, SpansOK, ThreadsOK, Sending
  <2>5. CollectorsOK' /\ ReceiversOK'
    BY <2>1 DEF TypeInv, CollectorsOK, ReceiversOK, AtReceiver, collVars
  <2>6. ChannelsOK'
    BY <2>1, <2>3 DEF TypeInv, ChannelsOK
  <2> QED
    BY <2>4, <2>5, <2>6 DEF TypeInv
<1>6. CASE ParkCommand(t)
  <2>1. /\ chan' = [chan EXCEPT ![t] = Park(chan[t], Cmd(t))] /\ Finish(t) /\ Sending(t) /\ Forced(Cmd(t))
        /\ t \in ToSet(rxs) /\ UNCHANGED <<spans, nextRaw, nextRoot, thread, rxs, collVars>>
    BY <1>6 DEF ParkCommand, AtPush, Ready
  <2>2. Cmd(t) \in Command
    BY <2>1, FinishType
  <2>3. /\ Park(chan[t], Cmd(t)) \in Channels(Command) /\ Park(chan[t], Cmd(t)).ring = chan[t].ring
        /\ ToSet(Park(chan[t], Cmd(t)).pending) = ToSet(chan[t].pending) \cup {Cmd(t)}
        /\ Park(chan[t], Cmd(t)).open = chan[t].open
    BY <1>1, <2>2, ParkType
  <2>4. SpansOK' /\ ThreadsOK'
    BY <2>1, FinishType DEF TypeInv, SpansOK, ThreadsOK, Sending
  <2>5. CollectorsOK' /\ ReceiversOK'
    BY <2>1 DEF TypeInv, CollectorsOK, ReceiversOK, AtReceiver, collVars
  <2>6. ChannelsOK'
    BY <2>1, <2>3 DEF TypeInv, ChannelsOK
  <2> QED
    BY <2>4, <2>5, <2>6 DEF TypeInv
<1>7. CASE LoseCommand(t)
  <2>1. Finish(t) /\ Sending(t) /\ UNCHANGED <<spans, nextRaw, nextRoot, thread, chan, rxs, collVars, seen>>
    BY <1>7 DEF LoseCommand, Ready
  <2>2. SpansOK' /\ ThreadsOK'
    BY <2>1, FinishType DEF TypeInv, SpansOK, ThreadsOK, Sending
  <2>3. CollectorsOK' /\ ReceiversOK' /\ ChannelsOK'
    BY <2>1 DEF TypeInv, CollectorsOK, ReceiversOK, ChannelsOK, AtReceiver, collVars
  <2> QED
    BY <2>2, <2>3 DEF TypeInv
<1> QED
  BY <1>2, <1>3, <1>4, <1>5, <1>6, <1>7 DEF Send

\* The steps of a thread that ends or flushes.
LEMMA ThreadType ==
  ASSUME TypeInv, NEW t \in Thread, Flush(t) \/ ExitThread(t) \/ ExitDrain(t) \/ ExitDone(t)
  PROVE  TypeInv'
PROOF
<1>1. /\ chan \in [Thread -> Channels(Command)] /\ chan[t] \in Channels(Command)
      /\ Len(chan[t].ring) <= Capacity
  BY DEF TypeInv, ChannelsOK
<1>2. SpansOK' /\ CollectorsOK'
  BY DEF TypeInv, SpansOK, CollectorsOK, Flush, ExitThread, ExitDrain, ExitDone, appVars, collVars
<1>3. CASE Flush(t)
  BY <1>2, <1>3 DEF TypeInv, ThreadsOK, ChannelsOK, ReceiversOK, AtReceiver, Flush, Idle, ThreadState,
                    appVars, collVars
<1>4. CASE ExitThread(t)
  BY <1>2, <1>4 DEF TypeInv, ThreadsOK, ChannelsOK, ReceiversOK, AtReceiver, ExitThread, Idle, ThreadState,
                    appVars, collVars
<1>5. CASE ExitDrain(t)
  <2>1. /\ chan' = [chan EXCEPT ![t] = DrainPending(chan[t])] /\ chan[t].pending # <<>>
        /\ UNCHANGED <<appVars, thread, todo, past, rxs, collVars, seen>>
    BY <1>5 DEF ExitDrain
  <2>2. /\ DrainPending(chan[t]) \in Channels(Command) /\ Len(DrainPending(chan[t]).ring) <= Capacity
        /\ ToSet(DrainPending(chan[t]).pending) \subseteq ToSet(chan[t].pending)
        /\ DrainPending(chan[t]).open = chan[t].open
    BY <1>1, <2>1, DrainPendingType
  <2>3. ThreadsOK' /\ ReceiversOK'
    BY <2>1 DEF TypeInv, ThreadsOK, ReceiversOK, AtReceiver, collVars
  <2>4. ChannelsOK'
    BY <2>1, <2>2 DEF TypeInv, ChannelsOK
  <2> QED
    BY <1>2, <2>3, <2>4 DEF TypeInv
<1>6. CASE ExitDone(t)
  <2>1. /\ chan' = [chan EXCEPT ![t] = Abandon(chan[t])] /\ thread[t] = "exit"
        /\ thread' = [thread EXCEPT ![t] = "gone"]
        /\ UNCHANGED <<appVars, todo, past, rxs, collVars, seen>>
    BY <1>6 DEF ExitDone
  <2>2. /\ Abandon(chan[t]) \in Channels(Command) /\ Abandon(chan[t]).ring = chan[t].ring
        /\ Abandon(chan[t]).pending = chan[t].pending /\ ~Abandon(chan[t]).open
    BY <1>1, AbandonType
  <2>3. ThreadsOK' /\ ReceiversOK'
    BY <2>1 DEF TypeInv, ThreadsOK, ReceiversOK, AtReceiver, collVars, ThreadState
  <2>4. ChannelsOK'
    BY <2>1, <2>2 DEF TypeInv, ChannelsOK, ThreadsOK
  <2> QED
    BY <1>2, <2>3, <2>4 DEF TypeInv
<1> QED
  BY <1>3, <1>4, <1>5, <1>6

\* The steps of the collector up to the batch.
LEMMA DrainType ==
  ASSUME TypeInv,
         \/ LoopBegin \/ RecvCommand \/ RecvEmpty \/ RecvNone \/ RecvClosed \/ RecvDone
         \/ \E t \in Thread : FlushBegin(t)
  PROVE  TypeInv'
PROOF
<1>1. SpansOK' /\ ThreadsOK' /\ CollectorsOK'
  BY DEF TypeInv, SpansOK, ThreadsOK, CollectorsOK, LoopBegin, FlushBegin, Begin, RecvCommand, RecvEmpty,
         RecvNone, RecvClosed, RecvDone, appVars
<1>2. rxs \in Seq(Thread) /\ Len(rxs) \in Nat /\ DOMAIN rxs = 1 .. Len(rxs) /\ at \in 0 .. Len(rxs) + 1
      /\ \A i \in DOMAIN rxs : rxs[i] \in Thread /\ rxs[i] \in ToSet(rxs)
  BY ElementOfSeq, LenProperties DEF TypeInv, ReceiversOK, ToSet
<1>3. CASE LoopBegin \/ \E t \in Thread : FlushBegin(t)
  <2>1. PICK who \in {"loop"} \cup Thread : Begin(who) /\ (who \in Thread => thread[who] = "flush")
    BY <1>3, CollectorAssumption DEF LoopBegin, FlushBegin
  <2>2. /\ runner = "none" /\ runner' = who /\ at' = 1 /\ at = 0 /\ ~empty /\ who # "none"
        /\ UNCHANGED <<appVars, thread, todo, past, chan, rxs, empty, batch, active, reported, seen>>
    BY <1>2, <2>1, CollectorAssumption DEF Begin, TypeInv, ReceiversOK, AtReceiver
  <2>3. ReceiversOK'
    BY <1>2, <2>1, <2>2, CollectorAssumption DEF TypeInv, ReceiversOK, AtReceiver
  <2>4. ChannelsOK'
    BY <2>2 DEF TypeInv, ChannelsOK
  <2> QED
    BY <1>1, <2>3, <2>4 DEF TypeInv
<1>4. CASE RecvCommand
  <2> DEFINE u == Current
  <2>1. /\ u \in Thread /\ chan[u] \in Channels(Command) /\ Len(chan[u].ring) <= Capacity
        /\ u \in ToSet(rxs)
    BY <1>2, <1>4 DEF RecvCommand, AtReceiver, Current, TypeInv, ChannelsOK
  <2>2. /\ AtReceiver /\ chan[u].ring # <<>> /\ batch' = Append(batch, Head(chan[u].ring))
        /\ chan' = [chan EXCEPT ![u] = Pop(chan[u])]
        /\ UNCHANGED <<appVars, thread, todo, past, rxs, runner, at, empty, active, reported, seen>>
    BY <1>4 DEF RecvCommand
  <2> HIDE DEF u
  <2>3. /\ Pop(chan[u]) \in Channels(Command) /\ Len(Pop(chan[u]).ring) <= Capacity
        /\ Pop(chan[u]).pending = chan[u].pending /\ Pop(chan[u]).open = chan[u].open
        /\ Head(chan[u].ring) \in Command
    BY <2>1, <2>2, PopType
  <2>4. ChannelsOK'
    BY <2>1, <2>2, <2>3 DEF TypeInv, ChannelsOK
  <2>5. batch \in Seq(Command) /\ batch' \in Seq(Command) /\ runner # "none"
    BY <1>2, <2>2, <2>3, AppendRange DEF TypeInv, ReceiversOK, AtReceiver
  <2>6. ReceiversOK'
    BY <2>2, <2>5 DEF TypeInv, ReceiversOK, AtReceiver
  <2> QED
    BY <1>1, <2>4, <2>6 DEF TypeInv
<1>5. CASE RecvEmpty \/ RecvNone \/ RecvDone
  <2>1. ChannelsOK'
    BY <1>5 DEF RecvEmpty, RecvNone, RecvDone, TypeInv, ChannelsOK, appVars
  <2>2. ReceiversOK'
    <3>1. /\ at' \in 0 .. Len(rxs) + 1 /\ (empty' => at' \in DOMAIN rxs) /\ empty' \in BOOLEAN
          /\ runner # "none" /\ UNCHANGED <<rxs, runner, batch, thread>>
      <4>1. CASE RecvEmpty
        BY <1>2, <4>1 DEF RecvEmpty, TypeInv, ReceiversOK, AtReceiver, appVars
      <4>2. CASE RecvNone
        <5>1. at \in DOMAIN rxs /\ empty' = FALSE /\ at' = at + 1 /\ UNCHANGED <<thread, rxs, runner, batch>>
          BY <4>2 DEF RecvNone, AtReceiver
        <5>2. runner # "none" /\ at' \in 0 .. Len(rxs) + 1
          BY <1>2, <5>1 DEF TypeInv, ReceiversOK
        <5> QED
          BY <5>1, <5>2
      <4>3. CASE RecvDone
        <5>1. ~empty /\ at' = 0 /\ UNCHANGED <<thread, rxs, runner, empty, batch>>
          BY <1>2, <4>3 DEF RecvDone, TypeInv, ReceiversOK, AtReceiver
        <5>2. runner # "none" /\ empty = FALSE
          BY <1>2, <4>3, <5>1 DEF RecvDone, TypeInv, ReceiversOK
        <5>3. empty' = FALSE /\ at' = 0 /\ UNCHANGED <<thread, rxs, runner, batch>>
          BY <5>1, <5>2
        <5>4. empty' \in BOOLEAN /\ (empty' => at' \in DOMAIN rxs)
          BY <5>3
        <5> QED
          BY <1>2, <5>2, <5>3, <5>4
      <4> QED
        BY <1>5, <4>1, <4>2, <4>3
    <3> QED
      BY <3>1 DEF TypeInv, ReceiversOK, AtReceiver
  <2> QED
    BY <1>1, <2>1, <2>2 DEF TypeInv
<1>6. CASE RecvClosed
  <2>1. /\ at \in DOMAIN rxs /\ ~chan[rxs[at]].open /\ empty' = FALSE /\ rxs' = RemoveAt(rxs, at)
        /\ UNCHANGED <<appVars, thread, todo, past, chan, runner, at, batch, active, reported, seen>>
    BY <1>6 DEF RecvClosed, AtReceiver, Current
  <2>2. IsInjective(rxs)
    BY DEF TypeInv, ReceiversOK
  <2>3. /\ rxs' \in Seq(Thread) /\ Len(rxs') = Len(rxs) - 1 /\ IsInjective(rxs')
        /\ ToSet(rxs') = ToSet(rxs) \ {rxs[at]}
    BY <1>2, <2>1, <2>2, RemoveAtRange
  <2>4. ChannelsOK'
    BY <2>1, <2>3 DEF TypeInv, ChannelsOK
  <2>5. ReceiversOK'
    <3>1. at \in 0 .. Len(rxs') + 1
      BY <1>2, <2>1, <2>3
    <3>2. runner # "none"
      BY <1>2, <2>1 DEF TypeInv, ReceiversOK
    <3> QED
      BY <2>1, <2>3, <3>1, <3>2 DEF TypeInv, ReceiversOK, AtReceiver
  <2> QED
    BY <1>1, <2>4, <2>5 DEF TypeInv
<1> QED
  BY <1>3, <1>4, <1>5, <1>6

-----------------------------------------------------------------------------
(* Processing a batch. *)

\* The traces with a collector, and the collections it holds, before the
\* collectors report.
StartedTraces == (DOMAIN active \cup Ids("start")) \ Ids("drop")

HeldBy(c) ==
  (IF c \in Ids("start") THEN {} ELSE ToSet(active[c].colls))
    \cup {x \in SubmittedBy(ToSet(batch)) : x.trace = c}

LEMMA IdsMember ==
  ASSUME batch \in Seq(Command), NEW kind, NEW c
  PROVE  c \in Ids(kind) <=> \E m \in ToSet(batch) : m.cmd = kind /\ m.collect = c
PROOF
BY DEF Ids

\* Only a sampled trace is started.
LEMMA StartedIds ==
  ASSUME batch \in Seq(Command)
  PROVE  Ids("start") \subseteq CollectId
PROOF
<1>1. \A m \in ToSet(batch) : m \in Command
  BY ElementOfSeq, LenProperties DEF ToSet
<1>2. \A m \in Command : m.cmd = "start" => m.collect \in CollectId
  BY DEF Command
<1> QED
  BY <1>1, <1>2 DEF Ids

LEMMA StartedType ==
  ASSUME CollectorsOK, batch \in Seq(Command)
  PROVE  /\ DOMAIN Started = StartedTraces /\ StartedTraces \subseteq CollectId
         /\ \A c \in StartedTraces : /\ Started[c] \in ActiveCollector(c)
                                     /\ ToSet(Started[c].colls) = (IF c \in Ids("start") THEN {} ELSE ToSet(active[c].colls))
PROOF
<1>1. DOMAIN Started = StartedTraces /\ StartedTraces \subseteq CollectId
  BY StartedIds DEF Started, StartedTraces, CollectorsOK
<1>2. \A c : NewCollector \in ActiveCollector(c) /\ ToSet(NewCollector.colls) = {}
  <2>1. NoDanglings \in Danglings
    <3>1. NoDanglings \in [{} -> Seq(SpanId)] /\ {} \in SUBSET Parent
      BY DEF NoDanglings
    <3> QED
      BY <3>1 DEF Danglings
  <2> QED
    BY <2>1, ShortRanges DEF NewCollector, ActiveCollector
<1>3. ASSUME NEW c \in StartedTraces
      PROVE  Started[c] = IF c \in Ids("start") THEN NewCollector ELSE active[c]
  BY <1>3 DEF Started, StartedTraces
<1> QED
  BY <1>1, <1>2, <1>3 DEF CollectorsOK, StartedTraces

LEMMA FilledType ==
  ASSUME CollectorsOK, batch \in Seq(Command)
  PROVE  /\ DOMAIN Filled = StartedTraces
         /\ \A c \in StartedTraces : /\ Filled[c] \in ActiveCollector(c)
                                     /\ ToSet(Filled[c].colls) = HeldBy(c)
                                     /\ Filled[c].danglings = Started[c].danglings
PROOF
<1>1. DOMAIN Filled = StartedTraces
  BY StartedType DEF Filled
<1>2. ASSUME NEW c \in StartedTraces
      PROVE  /\ Filled[c] \in ActiveCollector(c) /\ ToSet(Filled[c].colls) = HeldBy(c)
             /\ Filled[c].danglings = Started[c].danglings
  <2> DEFINE mine == Select(Submitted, LAMBDA s : s.trace = c)
             all  == Started[c].colls \o mine
  <2>1. c \in CollectId /\ c \in DOMAIN Started /\ Started[c] \in ActiveCollector(c)
        /\ ToSet(Started[c].colls) = (IF c \in Ids("start") THEN {} ELSE ToSet(active[c].colls))
    BY <1>2, StartedType
  <2>2. mine \in Seq(Coll({c})) /\ ToSet(mine) = {x \in SubmittedBy(ToSet(batch)) : x.trace = c}
    BY <2>1, SubmittedType, SelectTrace
  <2>3. Filled[c] = [Started[c] EXCEPT !.colls = all]
    BY <2>1 DEF Filled
  <2> HIDE DEF mine
  <2>4. Started[c].colls \in Seq(Coll({c}))
    BY <2>1 DEF ActiveCollector
  <2>5. all \in Seq(Coll({c})) /\ ToSet(all) = ToSet(Started[c].colls) \cup ToSet(mine)
    BY <2>2, <2>4, ConcatRange
  <2> HIDE DEF all
  <2>6. Filled[c] \in ActiveCollector(c) /\ Filled[c].colls = all /\ Filled[c].danglings = Started[c].danglings
    BY <2>1, <2>3, <2>5 DEF ActiveCollector
  <2> QED
    BY <2>1, <2>2, <2>5, <2>6 DEF HeldBy
<1> QED
  BY <1>1, <1>2

\* What a collector reports: a record of every span it holds, and of no other.
LEMMA OutcomeType ==
  ASSUME CollectorsOK, batch \in Seq(Command), NEW c \in StartedTraces
  PROVE  /\ DOMAIN Outcomes(Filled) = StartedTraces
         /\ Outcomes(Filled)[c].records \in Seq(Recorded(CollectId))
         /\ Outcomes(Filled)[c].danglings \in Danglings
         /\ {<<r.trace, r.span>> : r \in ToSet(Outcomes(Filled)[c].records)} = PairsOf(HeldBy(c))
PROOF
<1> DEFINE f   == Filled[c]
           out == Outcomes(Filled)[c]
           A   == {x \in ToSet(AmendAll(f.colls)) : IsSpan(x)}
<1>1. DOMAIN Outcomes(Filled) = StartedTraces /\ out = PostprocessSpanCollection(f.colls, f.danglings)
  BY FilledType DEF Outcomes
<1>2. /\ c \in CollectId /\ f.colls \in Seq(Coll({c})) /\ f.danglings \in Danglings
      /\ ToSet(f.colls) = HeldBy(c)
  BY FilledType, StartedType DEF ActiveCollector
<1> HIDE DEF out, f
<1>3. /\ out.records \in Seq(Recorded({c})) /\ out.danglings \in Danglings
      /\ \A a \in ToSet(AmendAll(f.colls)) : IsSpan(a) =>
            \E r \in ToSet(out.records) : r.span = a.id /\ r.trace = a.trace
      /\ \A r \in ToSet(out.records) :
            \E a \in ToSet(AmendAll(f.colls)) : IsSpan(a) /\ r.span = a.id /\ r.parent = a.parent /\ r.trace = a.trace
  BY <1>1, <1>2, PostprocessType
<1>4. out.records \in Seq(Recorded(CollectId))
  <2>1. Recorded({c}) \subseteq Recorded(CollectId)
    BY <1>2 DEF Recorded
  <2> QED
    BY <1>3, <2>1, SeqMonotonic
<1>5. {<<r.trace, r.span>> : r \in ToSet(out.records)} = {Pair(a) : a \in A}
  BY <1>3 DEF Pair
<1>6. {Pair(a) : a \in A} = PairsOf(HeldBy(c))
  BY <1>2, AmendPairs
<1> QED
  BY <1>1, <1>3, <1>4, <1>5, <1>6 DEF out

\* What the batch gives the reporter.
LEMMA CommittedType ==
  ASSUME CollectorsOK, batch \in Seq(Command),
         NEW records, records = CommittedRecords(Outcomes(Filled))
  PROVE  /\ records \in Seq(Recorded(CollectId))
         /\ Cancelable => {<<r.trace, r.span>> : r \in ToSet(records)}
                            = UNION {PairsOf(HeldBy(c)) : c \in StartedTraces \cap Ids("commit")}
         /\ ~Cancelable => {<<r.trace, r.span>> : r \in ToSet(records)}
                             = (UNION {PairsOf(HeldBy(c)) : c \in StartedTraces})
                                 \cup PairsOf({x \in SubmittedBy(ToSet(batch)) : x.trace \notin StartedTraces})
         /\ \A c \in StartedTraces : (Cancelable => c \in Ids("commit")) =>
                ToSet(Outcomes(Filled)[c].records) \subseteq ToSet(records)
PROOF
<1> DEFINE R == Recorded(CollectId)
           out == Outcomes(Filled)
           reporting == IF Cancelable THEN DOMAIN out \cap Ids("commit") ELSE DOMAIN out
           F == [c \in CollectId |-> IF c \in reporting THEN out[c].records ELSE <<>>]
           late == Stale
           m == Len(late)
           G == [i \in 1 .. m |-> PostprocessSpanCollection(<<late[i]>>, NoDanglings).records]
           P(r) == <<r.trace, r.span>>
<1>1. MaxRoot \in Nat /\ CollectId = 1 .. MaxRoot
  BY CollectorAssumption DEF CollectId
<1>2. late \in Seq(Coll(CollectId))
      /\ ToSet(late) = IF Cancelable THEN {} ELSE {x \in SubmittedBy(ToSet(batch)) : x.trace \notin StartedTraces}
  <2>1. CASE Cancelable
    BY <2>1, ShortRanges DEF Stale
  <2>2. CASE ~Cancelable
    <3>1. late = Select(Submitted, LAMBDA s : s.trace \notin DOMAIN Started)
      BY <2>2 DEF Stale
    <3>2. Select(Submitted, LAMBDA s : s.trace \notin DOMAIN Started) \in Seq(Coll(CollectId))
          /\ ToSet(Select(Submitted, LAMBDA s : s.trace \notin DOMAIN Started))
               = {x \in SubmittedBy(ToSet(batch)) : x.trace \notin DOMAIN Started}
      BY SubmittedType, SelectOthers
    <3>3. DOMAIN Started = StartedTraces
      BY StartedType
    <3> HIDE DEF late
    <3> QED
      BY <2>2, <3>1, <3>2, <3>3
  <2> QED
    BY <2>1, <2>2
<1> HIDE DEF late
<1>3. m \in Nat /\ DOMAIN late = 1 .. m /\ \A i \in 1 .. m : late[i] \in Coll(CollectId)
  BY <1>2, ElementOfSeq, LenProperties
<1>4. records = FlattenSeq(F) \o FlattenSeq(G)
  BY <1>3 DEF CommittedRecords, late
<1>5. <<>> \in Seq(R) /\ ToSet(<<>>) = {} /\ NoDanglings \in Danglings
  <2>1. NoDanglings \in [{} -> Seq(SpanId)] /\ {} \in SUBSET Parent
    BY DEF NoDanglings
  <2> QED
    BY <2>1, ShortRanges DEF Danglings
<1>6. DOMAIN out = StartedTraces /\ StartedTraces \subseteq CollectId
  BY StartedType, FilledType DEF Outcomes
<1>16. \A c \in reporting : F[c] = out[c].records
  BY <1>6
<1>7. ASSUME NEW c \in CollectId
      PROVE  /\ F[c] \in Seq(R)
             /\ {P(r) : r \in ToSet(F[c])} = IF c \in reporting THEN PairsOf(HeldBy(c)) ELSE {}
  <2>1. CASE c \in reporting
    <3>1. c \in StartedTraces /\ F[c] = out[c].records
      BY <1>6, <2>1
    <3> QED
      BY <2>1, <3>1, OutcomeType
  <2>2. CASE c \notin reporting
    <3>1. F[c] = <<>>
      BY <2>2
    <3> HIDE DEF F
    <3> QED
      BY <1>5, <2>2, <3>1
  <2> QED
    BY <2>1, <2>2
<1>8. ASSUME NEW i \in 1 .. m
      PROVE  /\ G[i] \in Seq(R)
             /\ {P(r) : r \in ToSet(G[i])} = PairsOf({late[i]})
  <2> DEFINE one == <<late[i]>>
             o == PostprocessSpanCollection(one, NoDanglings)
             A == {x \in ToSet(AmendAll(one)) : IsSpan(x)}
  <2>1. one \in Seq(Coll(CollectId)) /\ ToSet(one) = {late[i]}
    BY <1>3, ShortRanges
  <2> HIDE DEF o, one
  <2>2. /\ o.records \in Seq(R)
        /\ \A a \in ToSet(AmendAll(one)) : IsSpan(a) =>
              \E r \in ToSet(o.records) : r.span = a.id /\ r.trace = a.trace
        /\ \A r \in ToSet(o.records) :
              \E a \in ToSet(AmendAll(one)) : IsSpan(a) /\ r.span = a.id /\ r.parent = a.parent /\ r.trace = a.trace
    <3>1. o = PostprocessSpanCollection(one, NoDanglings)
      BY DEF o
    <3> HIDE DEF R
    <3>2. /\ o.records \in Seq(Recorded(CollectId))
          /\ \A a \in ToSet(AmendAll(one)) : IsSpan(a) =>
                \E r \in ToSet(o.records) : r.span = a.id /\ r.trace = a.trace
          /\ \A r \in ToSet(o.records) :
                \E a \in ToSet(AmendAll(one)) : IsSpan(a) /\ r.span = a.id /\ r.parent = a.parent /\ r.trace = a.trace
      BY <1>5, <2>1, <3>1, PostprocessType
    <3> QED
      BY <3>2 DEF R
  <2>3. {P(r) : r \in ToSet(o.records)} = {Pair(a) : a \in A}
    BY <2>2 DEF Pair
  <2>4. {Pair(a) : a \in A} = PairsOf({late[i]})
    BY <2>1, AmendPairs
  <2>5. G[i] = o.records
    BY DEF o, one
  <2> QED
    BY <2>2, <2>3, <2>4, <2>5
<1>9. FlattenSeq(F) \in Seq(R) /\ ToSet(FlattenSeq(F)) = UNION {ToSet(F[c]) : c \in CollectId}
  <2>1. F = [c \in 1 .. MaxRoot |-> F[c]]
    BY <1>1
  <2> HIDE DEF F, R
  <2>2. F \in Seq(Seq(R)) /\ Len(F) = MaxRoot
    BY <1>1, <1>7, <2>1
  <2> QED
    BY <1>1, <2>2, FlattenRange
<1>10. FlattenSeq(G) \in Seq(R) /\ ToSet(FlattenSeq(G)) = UNION {ToSet(G[i]) : i \in 1 .. m}
  <2>1. G = [i \in 1 .. m |-> G[i]]
    OBVIOUS
  <2> HIDE DEF G, R, m
  <2>2. \A i \in 1 .. m : G[i] \in Seq(R)
    BY <1>8
  <2>3. G \in Seq(Seq(R)) /\ Len(G) = m
    BY <1>3, <2>1, <2>2, SMTT(30)
  <2> QED
    BY <2>3, FlattenRange
<1> HIDE DEF F, G, R, m
<1>11. records \in Seq(R) /\ ToSet(records) = ToSet(FlattenSeq(F)) \cup ToSet(FlattenSeq(G))
  BY <1>4, <1>9, <1>10, ConcatRange
<1>12. {P(r) : r \in ToSet(FlattenSeq(F))} = UNION {PairsOf(HeldBy(c)) : c \in reporting}
  <2>1. {P(r) : r \in ToSet(FlattenSeq(F))} = UNION {{P(r) : r \in ToSet(F[c])} : c \in CollectId}
    BY <1>9
  <2>2. reporting \subseteq CollectId
    BY <1>6
  <2> HIDE DEF reporting, P
  <2> QED
    BY <1>7, <2>1, <2>2
<1>13. {P(r) : r \in ToSet(FlattenSeq(G))} = PairsOf(ToSet(late))
  <2>1. {P(r) : r \in ToSet(FlattenSeq(G))} = UNION {{P(r) : r \in ToSet(G[i])} : i \in 1 .. m}
    BY <1>10
  <2>2. ToSet(late) = {late[i] : i \in 1 .. m}
    BY <1>3 DEF ToSet
  <2>3. UNION {PairsOf({late[i]}) : i \in 1 .. m} = PairsOf(ToSet(late))
    <3>1. ASSUME NEW i \in 1 .. m, NEW p \in PairsOf({late[i]})
          PROVE  p \in PairsOf(ToSet(late))
      BY <2>2, <3>1, PairsOfMember
    <3>2. ASSUME NEW p \in PairsOf(ToSet(late))
          PROVE  \E i \in 1 .. m : p \in PairsOf({late[i]})
      <4>1. PICK coll \in ToSet(late) : \E raw \in RawSpan :
                raw \in ToSet(coll.set) /\ raw.kind = "Span" /\ p = <<coll.trace, raw.id>>
        BY <3>2, PairsOfMember
      <4>2. p \in PairsOf({coll})
        BY <4>1, PairsOfMember
      <4> QED
        BY <2>2, <4>2
    <3> QED
      BY <3>1, <3>2
  <2>4. {{P(r) : r \in ToSet(G[i])} : i \in 1 .. m} = {PairsOf({late[i]}) : i \in 1 .. m}
    <3> HIDE DEF P
    <3> QED
      BY <1>8
  <2> QED
    BY <2>1, <2>3, <2>4
<1>14. {P(r) : r \in ToSet(records)}
         = (UNION {PairsOf(HeldBy(c)) : c \in reporting}) \cup PairsOf(ToSet(late))
  <2>1. {P(r) : r \in ToSet(records)} = {P(r) : r \in ToSet(FlattenSeq(F))} \cup {P(r) : r \in ToSet(FlattenSeq(G))}
    BY <1>11
  <2> QED
    BY <1>12, <1>13, <2>1
<1>15. PairsOf({}) = {}
  BY PairsOfMember
<1>17. \A c \in StartedTraces : (Cancelable => c \in Ids("commit")) => ToSet(out[c].records) \subseteq ToSet(records)
  <2>1. \A c \in StartedTraces : (Cancelable => c \in Ids("commit")) => c \in reporting /\ c \in CollectId
    BY <1>6
  <2> HIDE DEF reporting, out
  <2> QED
    BY <1>9, <1>11, <1>16, <2>1
<1> QED
  BY <1>2, <1>6, <1>11, <1>14, <1>15, <1>17 DEF R

\* Adding a sequence of records to a bag.
LEMMA AddRecords ==
  ASSUME NEW R, NEW seq \in Seq(R), NEW bag, IsABag(bag),
         NEW sum, sum = bag (+) BagOf(seq)
  PROVE  IsABag(sum) /\ DOMAIN sum = DOMAIN bag \cup ToSet(seq)
PROOF
<1> DEFINE n == Len(seq)
           B == BagOf(seq)
           places(x) == {i \in DOMAIN seq : seq[i] = x}
<1>1. n \in Nat /\ DOMAIN seq = 1 .. n /\ DOMAIN B = ToSet(seq)
  BY ElementOfSeq, LenProperties DEF BagOf
<1>2. ASSUME NEW x \in ToSet(seq)
      PROVE  B[x] \in Nat /\ B[x] > 0
  <2>1. B[x] = Cardinality(places(x))
    BY <1>2 DEF BagOf
  <2>2. places(x) \subseteq 1 .. n /\ places(x) # {}
    BY <1>1, <1>2 DEF ToSet
  <2>3. IsFiniteSet(1 .. n)
    BY <1>1, FS_Interval
  <2>4. IsFiniteSet(places(x))
    BY <2>2, <2>3, FS_Subset
  <2>5. Cardinality(places(x)) \in Nat /\ Cardinality(places(x)) # 0
    BY <2>2, <2>4, FS_CardinalityType, FS_EmptySet
  <2> HIDE DEF B, places
  <2> QED
    BY <2>1, <2>5
<1> HIDE DEF B
<1>3. \A x \in DOMAIN bag : bag[x] \in Nat /\ bag[x] > 0
  BY DEF IsABag
<1>4. sum = [x \in DOMAIN bag \cup DOMAIN B |->
               (IF x \in DOMAIN bag THEN bag[x] ELSE 0) + (IF x \in DOMAIN B THEN B[x] ELSE 0)]
  BY DEF (+), B
<1>5. DOMAIN sum = DOMAIN bag \cup ToSet(seq)
  BY <1>1, <1>4
<1>6. \A x \in DOMAIN sum : sum[x] \in Nat /\ sum[x] > 0
  BY <1>1, <1>2, <1>3, <1>4
<1>7. sum = [x \in DOMAIN sum |-> sum[x]]
  BY <1>4
<1> HIDE DEF B
<1>8. IsABag(sum)
  <2> HIDE <1>4
  <2> QED
    BY <1>6, <1>7 DEF IsABag
<1> QED
  BY <1>5, <1>8

\* What a batch does to the collectors and to the reporter.
LEMMA BatchEffect ==
  ASSUME TypeInv, ProcessBatch
  PROVE  /\ CollectorsOK'
         /\ DOMAIN active' = StartedTraces \ Ids("commit")
         /\ Cancelable => \A c \in DOMAIN active' : ToSet(active'[c].colls) = HeldBy(c)
         /\ DOMAIN reported \subseteq DOMAIN reported'
         /\ Cancelable => Got' = Got \cup UNION {PairsOf(HeldBy(c)) : c \in StartedTraces \cap Ids("commit")}
         /\ ~Cancelable => Got' = Got \cup (UNION {PairsOf(HeldBy(c)) : c \in StartedTraces})
                                      \cup PairsOf({x \in SubmittedBy(ToSet(batch)) : x.trace \notin StartedTraces})
         /\ \A c \in StartedTraces : (Cancelable => c \in Ids("commit")) =>
                ToSet(Outcomes(Filled)[c].records) \subseteq DOMAIN reported'
PROOF
<1> DEFINE out == Outcomes(Filled)
           records == CommittedRecords(out)
<1>1. CollectorsOK /\ batch \in Seq(Command)
  BY DEF TypeInv, ReceiversOK
<1>2. active' = StillActive(Filled, out) /\ reported' = reported (+) BagOf(records)
  BY DEF ProcessBatch
<1>3. DOMAIN active' = StartedTraces \ Ids("commit")
  BY <1>1, <1>2, FilledType DEF StillActive
<1>4. ASSUME NEW c \in DOMAIN active'
      PROVE  /\ c \in CollectId
             /\ active'[c] \in ActiveCollector(c)
             /\ Cancelable => ToSet(active'[c].colls) = HeldBy(c)
  <2>1. c \in StartedTraces /\ c \in CollectId /\ c \in DOMAIN Filled \ Ids("commit")
    BY <1>1, <1>3, <1>4, StartedType, FilledType
  <2>2. CASE Cancelable
    <3>1. active'[c] = Filled[c]
      BY <1>2, <2>1, <2>2 DEF StillActive
    <3> QED
      BY <1>1, <2>1, <3>1, FilledType
  <2>3. CASE ~Cancelable
    <3>1. active'[c] = [colls |-> <<>>, danglings |-> out[c].danglings]
      BY <1>2, <2>1, <2>3 DEF StillActive
    <3>2. out[c].danglings \in Danglings /\ <<>> \in Seq(Coll({c}))
      BY <1>1, <2>1, OutcomeType, ShortRanges
    <3> HIDE DEF out
    <3> QED
      BY <2>1, <2>3, <3>1, <3>2 DEF ActiveCollector
  <2> QED
    BY <2>2, <2>3
<1> HIDE DEF records
<1>5. /\ records \in Seq(Recorded(CollectId))
      /\ Cancelable => {<<r.trace, r.span>> : r \in ToSet(records)}
                         = UNION {PairsOf(HeldBy(c)) : c \in StartedTraces \cap Ids("commit")}
      /\ ~Cancelable => {<<r.trace, r.span>> : r \in ToSet(records)}
                          = (UNION {PairsOf(HeldBy(c)) : c \in StartedTraces})
                              \cup PairsOf({x \in SubmittedBy(ToSet(batch)) : x.trace \notin StartedTraces})
      /\ \A c \in StartedTraces : (Cancelable => c \in Ids("commit")) => ToSet(out[c].records) \subseteq ToSet(records)
  BY <1>1, CommittedType DEF records
<1>6. IsABag(reported') /\ DOMAIN reported' = DOMAIN reported \cup ToSet(records)
  <2>1. IsABag(reported)
    BY <1>1 DEF CollectorsOK
  <2> QED
    BY <1>2, <1>5, <2>1, AddRecords
<1>7. ToSet(records) \subseteq Recorded(CollectId)
  BY <1>5, ElementOfSeq, LenProperties DEF ToSet
<1>8. Got' = Got \cup {<<r.trace, r.span>> : r \in ToSet(records)}
  BY <1>6 DEF Got
<1>9. CollectorsOK'
  BY <1>1, <1>4, <1>6, <1>7 DEF CollectorsOK
<1> QED
  BY <1>3, <1>4, <1>5, <1>6, <1>8, <1>9

LEMMA BatchType ==
  ASSUME TypeInv, ProcessBatch
  PROVE  TypeInv'
PROOF
<1>1. /\ batch' = <<>> /\ runner' = "none" /\ at = 0 /\ runner # "none"
      /\ thread' = [t \in Thread |-> IF t = runner THEN "run" ELSE thread[t]]
      /\ UNCHANGED <<appVars, todo, past, chan, rxs, at, empty>>
  BY DEF ProcessBatch, Draining
<1>2. SpansOK'
  BY <1>1 DEF TypeInv, SpansOK, appVars
<1>3. runner \in Thread => todo[runner] = <<>> /\ thread[runner] = "flush"
  BY DEF TypeInv, ThreadsOK, ReceiversOK
<1>4. ThreadsOK'
  BY <1>1 DEF TypeInv, ThreadsOK, ThreadState
<1>5. ChannelsOK'
  <2>1. \A t \in Thread : thread'[t] # "gone" <=> thread[t] # "gone"
    BY <1>1, <1>3
  <2> QED
    BY <1>1, <2>1 DEF TypeInv, ChannelsOK
<1>6. ReceiversOK'
  <2>1. "none" \notin Thread /\ <<>> \in Seq(Command)
    BY CollectorAssumption
  <2> QED
    BY <1>1, <2>1 DEF TypeInv, ReceiversOK, AtReceiver
<1> QED
  BY <1>2, <1>4, <1>5, <1>6, BatchEffect DEF TypeInv

-----------------------------------------------------------------------------
(* The type invariant of the specification. *)

LEMMA InitType == Init => TypeInv
PROOF
<1> SUFFICES ASSUME Init
             PROVE  TypeInv
  OBVIOUS
<1>1. SpansOK
  BY CollectorAssumption DEF Init, SpansOK, NoSpan
<1>2. ThreadsOK
  BY DEF Init, ThreadsOK, ThreadState
<1>3. ChannelsOK
  <2>1. NewChannel \in Channels(Command) /\ Len(NewChannel.ring) = 0 /\ NewChannel.open
        /\ NewChannel.pending = <<>> /\ NewChannel.ring = <<>>
    BY DEF NewChannel, Channels
  <2>2. ToSet(<<>>) = {}
    BY ShortRanges
  <2> QED
    BY <2>1, <2>2, CapacityAssumption DEF Init, ChannelsOK
<1>4. ReceiversOK
  <2>1. "none" \notin Thread /\ IsInjective(<<>>)
    BY CollectorAssumption DEF IsInjective
  <2>2. /\ rxs = <<>> /\ runner = "none" /\ at = 0 /\ empty = FALSE /\ batch = <<>>
        /\ <<>> \in Seq(Thread) /\ <<>> \in Seq(Command) /\ Len(<<>>) = 0
    BY DEF Init
  <2>3. at \in 0 .. Len(rxs) + 1
    BY <2>2
  <2>4. empty \in BOOLEAN /\ ~empty
    BY <2>2
  <2> QED
    BY <2>1, <2>2, <2>3, <2>4 DEF ReceiversOK, AtReceiver
<1>5. CollectorsOK
  <2>1. DOMAIN active = {} /\ reported = EmptyBag
    BY DEF Init
  <2>2. IsABag(EmptyBag) /\ DOMAIN EmptyBag = {}
    BY DEF IsABag, EmptyBag, SetToBag
  <2> QED
    BY <2>1, <2>2 DEF CollectorsOK
<1> QED
  BY <1>1, <1>2, <1>3, <1>4, <1>5 DEF TypeInv

LEMMA NextType == TypeInv /\ [Next]_vars => TypeInv'
PROOF
<1> SUFFICES ASSUME TypeInv, [Next]_vars
             PROVE  TypeInv'
  OBVIOUS
<1>1. ASSUME NEW t \in Thread, Call(t)
      PROVE  TypeInv'
  <2>1. /\ SpansOK' /\ Idle(t) /\ UNCHANGED <<thread, past, chan, rxs, collVars, seen>>
        /\ todo' \in [Thread -> Seq(Command)]
        /\ \A u \in Thread \ {t} : todo'[u] = todo[u]
    BY <1>1, CallType
  <2>2. ThreadsOK'
    BY <2>1 DEF TypeInv, ThreadsOK, Idle
  <2>3. ChannelsOK' /\ ReceiversOK' /\ CollectorsOK'
    BY <2>1 DEF TypeInv, ChannelsOK, ReceiversOK, CollectorsOK, AtReceiver, collVars
  <2> QED
    BY <2>1, <2>2, <2>3 DEF TypeInv
<1>2. ASSUME UNCHANGED vars
      PROVE  TypeInv'
  BY <1>2 DEF TypeInv, SpansOK, ThreadsOK, ChannelsOK, ReceiversOK, CollectorsOK, AtReceiver, vars
<1> QED
  BY <1>1, <1>2, SendType, ThreadType, DrainType, BatchType DEF Next, Collect

\* Every value has its type, for any number of threads, traces and spans: in
\* particular a channel with something in it has a receiver for the collector to
\* drain, no receiver is registered twice, and only a thread that runs sends.
THEOREM TypesHold == Spec => []TypeOK
PROOF
<1>1. TypeInv => TypeOK
  BY CollectorAssumption
     DEF TypeInv, SpansOK, ThreadsOK, ChannelsOK, ReceiversOK, CollectorsOK, TypeOK, SpanId
<1> QED
  BY <1>1, InitType, NextType, PTL DEF Spec

\* Spans of traces that are not sampled never reach the reporter.
THEOREM UnsampledNeverReported == Spec => []UnsampledStaysOut
PROOF
<1>1. TypeInv => UnsampledStaysOut
  BY CollectorAssumption DEF TypeInv, CollectorsOK, UnsampledStaysOut, Recorded, CollectId, NotSampled
<1> QED
  BY <1>1, InitType, NextType, PTL DEF Spec

-----------------------------------------------------------------------------
(* The history. *)

SpanPair == CollectId \X SpanId

SeenOK ==
  seen \in [sent : SUBSET Amended(CollectId), started : SUBSET CollectId,
            cancelled : SUBSET AnyTrace, committed : SUBSET AnyTrace, done : SUBSET AnyTrace,
            owed : SUBSET SpanPair, mount : SUBSET Amended(CollectId),
            asked : [Thread -> SUBSET SpanPair], due : SUBSET SpanPair]

\* What a channel that accepts a command adds to the history.
SentBy(m) == IF m.cmd = "submit" THEN ToSet(AmendAll(Copies(m))) ELSE {}

OwedFor(m) ==
  IF m.cmd = "commit" /\ Cancelable /\ m.collect \in seen.started \ seen.cancelled
  THEN {Pair(a) : a \in {x \in seen.sent : IsSpan(x) /\ x.trace = m.collect}}
  ELSE IF m.cmd = "submit" /\ ~Cancelable
  THEN {Pair(a) : a \in {x \in SentBy(m) : IsSpan(x)}}
  ELSE {}

IdIf(m, kind) == IF m.cmd = kind THEN {m.collect} ELSE {}

LEMMA SubmitSends ==
  ASSUME NEW m \in Command, m.cmd = "submit"
  PROVE  /\ Copies(m) \in Seq(Coll(CollectId))
         /\ ToSet(AmendAll(Copies(m))) \subseteq Amended(CollectId)
         /\ {Pair(a) : a \in {x \in ToSet(AmendAll(Copies(m))) : IsSpan(x)}} = PairsOf(ToSet(Copies(m)))
PROOF
<1>1. Copies(m) \in Seq(Coll(CollectId))
  BY CopiesType
<1>2. AmendAll(Copies(m)) \in Seq(Amended(CollectId))
  BY <1>1, AmendAllType
<1>3. ToSet(AmendAll(Copies(m))) \subseteq Amended(CollectId)
  BY <1>2, ElementOfSeq, LenProperties DEF ToSet
<1> QED
  BY <1>1, <1>3, AmendPairs

LEMMA RecordEffect ==
  ASSUME SeenOK, NEW m \in Command, seen' = Record(m)
  PROVE  /\ SeenOK'
         /\ seen'.started = seen.started \cup IdIf(m, "start")
         /\ seen'.cancelled = seen.cancelled \cup IdIf(m, "drop")
         /\ seen'.committed = seen.committed \cup IdIf(m, "commit")
         /\ seen'.sent = seen.sent \cup SentBy(m)
         /\ seen'.owed = seen.owed \cup OwedFor(m)
         /\ seen'.done = seen.done /\ seen'.asked = seen.asked /\ seen'.due = seen.due
PROOF
<1>1. \A a \in Amended(CollectId) : Pair(a) \in SpanPair
  BY DEF Amended, Pair, SpanPair
<1>2. CASE m.cmd = "start"
  <2>1. m.collect \in CollectId /\ seen' = [seen EXCEPT !.started = seen.started \cup {m.collect}]
    BY <1>2 DEF Record, Command
  <2> QED
    BY <1>2, <2>1 DEF SeenOK, SentBy, OwedFor, IdIf
<1>3. CASE m.cmd = "drop"
  <2>1. m.collect \in AnyTrace /\ seen' = [seen EXCEPT !.cancelled = seen.cancelled \cup {m.collect}]
    BY <1>3 DEF Record, Command
  <2> QED
    BY <1>3, <2>1 DEF SeenOK, SentBy, OwedFor, IdIf
<1>4. CASE m.cmd = "commit"
  <2> DEFINE add == OwedFor(m)
  <2>1. m.collect \in AnyTrace
    BY <1>4 DEF Command
  <2>2. add \subseteq SpanPair
    BY <1>1, <1>4 DEF OwedFor, SeenOK
  <2>3. seen' = [seen EXCEPT !.committed = seen.committed \cup {m.collect}, !.owed = seen.owed \cup add]
    BY <1>4 DEF Record, OwedFor
  <2> HIDE DEF add
  <2>4. /\ SeenOK' /\ seen'.committed = seen.committed \cup {m.collect} /\ seen'.owed = seen.owed \cup add
        /\ seen'.started = seen.started /\ seen'.cancelled = seen.cancelled /\ seen'.sent = seen.sent
        /\ seen'.done = seen.done /\ seen'.asked = seen.asked /\ seen'.due = seen.due
    BY <2>1, <2>2, <2>3, ZenonT(30) DEF SeenOK
  <2> QED
    BY <1>4, <2>4 DEF SentBy, add, IdIf
<1>5. CASE m.cmd = "submit"
  <2> DEFINE new == ToSet(AmendAll(Copies(m)))
             open == {a \in new : IsSpan(a) /\ a.trace \notin seen.committed}
             more == {a \in seen.sent \cup new : IsAttachment(a) /\ <<a.trace, a.parent>> \in {Pair(x) : x \in open}}
             add == OwedFor(m)
  <2>1. new \subseteq Amended(CollectId)
    BY <1>5, SubmitSends
  <2>2. add \subseteq SpanPair
    BY <1>1, <1>5, <2>1 DEF OwedFor, SentBy
  <2>3. more \subseteq Amended(CollectId)
    BY <2>1 DEF SeenOK
  <2>4. seen' = [seen EXCEPT !.sent = seen.sent \cup new, !.owed = seen.owed \cup add,
                             !.mount = seen.mount \cup more]
    BY <1>5 DEF Record, OwedFor, SentBy
  <2>5. new = SentBy(m)
    BY <1>5 DEF SentBy
  <2> HIDE DEF new, open, more, add
  <2>6. /\ SeenOK' /\ seen'.sent = seen.sent \cup new /\ seen'.owed = seen.owed \cup add
        /\ seen'.started = seen.started /\ seen'.cancelled = seen.cancelled /\ seen'.committed = seen.committed
        /\ seen'.done = seen.done /\ seen'.asked = seen.asked /\ seen'.due = seen.due
    BY <2>1, <2>2, <2>3, <2>4 DEF SeenOK
  <2> QED
    BY <1>5, <2>5, <2>6 DEF add, IdIf
<1> QED
  BY <1>2, <1>3, <1>4, <1>5 DEF Command

\* What the processing of a batch adds to it.
LEMMA BatchHistory ==
  ASSUME TypeInv, SeenOK, ProcessBatch
  PROVE  /\ SeenOK'
         /\ seen'.done = seen.done \cup Ids("commit")
         /\ seen'.due = seen.due \cup (IF runner = "loop" THEN {} ELSE seen.asked[runner])
         /\ seen'.asked = [t \in Thread |-> IF t = runner THEN {} ELSE seen.asked[t]]
         /\ \A x \in {"sent", "started", "cancelled", "committed", "owed", "mount"} : seen'[x] = seen[x]
PROOF
<1>1. batch \in Seq(Command) /\ runner \in {"loop"} \cup Thread
  BY DEF TypeInv, ReceiversOK, ProcessBatch
<1>2. \A m \in ToSet(batch) : m \in Command
  BY <1>1, ElementOfSeq, LenProperties DEF ToSet
<1>3. Ids("commit") \subseteq AnyTrace
  BY <1>2 DEF Ids, Command
<1>4. seen' = [seen EXCEPT !.done = seen.done \cup Ids("commit"),
                           !.due = seen.due \cup (IF runner = "loop" THEN {} ELSE seen.asked[runner]),
                           !.asked = [t \in Thread |-> IF t = runner THEN {} ELSE seen.asked[t]]]
  BY DEF ProcessBatch
<1> QED
  BY <1>1, <1>3, <1>4 DEF SeenOK

-----------------------------------------------------------------------------
(* The steps, by what they do to the commands. *)

Ring(t)   == chan[t].ring
Parked(t) == chan[t].pending

\* No command moves; only what a flush asks for is noted.
NothingMoves ==
  /\ UNCHANGED <<appVars, todo, batch, active, reported>>
  /\ \A t \in Thread : Ring(t)' = Ring(t) /\ Parked(t)' = Parked(t)
  /\ \E f \in [Thread -> SUBSET SpanPair] : seen' = [seen EXCEPT !.asked = f]

\* A command of thread t is taken off its call; no other channel changes.
Takes(t) ==
  /\ Sending(t) /\ Finish(t)
  /\ UNCHANGED <<spans, nextRaw, nextRoot, thread, rxs, collVars>>
  /\ \A u \in Thread \ {t} : Ring(u)' = Ring(u) /\ Parked(u)' = Parked(u)

Pushes(t) ==
  /\ Takes(t) /\ seen' = Record(Cmd(t))
  /\ Ring(t)' = Append(Ring(t), Cmd(t)) /\ Parked(t)' = Parked(t)

Parks(t) ==
  /\ Takes(t) /\ seen' = Record(Cmd(t)) /\ Forced(Cmd(t))
  /\ Ring(t)' = Ring(t) /\ Parked(t)' = Append(Parked(t), Cmd(t))

Loses(t) ==
  /\ Takes(t) /\ seen' = seen
  /\ Ring(t)' = Ring(t) /\ Parked(t)' = Parked(t)

\* A parked command enters the ring, or is lost with its thread.
Unparks(t) ==
  /\ UNCHANGED <<appVars, thread, todo, past, rxs, collVars, seen>>
  /\ \A u \in Thread \ {t} : Ring(u)' = Ring(u) /\ Parked(u)' = Parked(u)
  /\ Parked(t) # <<>> /\ ToSet(Parked(t)') \subseteq ToSet(Parked(t))
  /\ Ring(t)' = Ring(t) \/ \E m \in ToSet(Parked(t)) : Ring(t)' = Append(Ring(t), m)

\* The oldest command of a channel joins the batch.
Receives(t) ==
  /\ UNCHANGED <<appVars, thread, todo, past, rxs, runner, at, empty, active, reported, seen>>
  /\ at \in DOMAIN rxs /\ t = rxs[at] /\ ~empty
  /\ \A u \in Thread : Parked(u)' = Parked(u)
  /\ \A u \in Thread \ {t} : Ring(u)' = Ring(u)
  /\ Ring(t) # <<>> /\ Ring(t)' = Tail(Ring(t)) /\ batch' = Append(batch, Head(Ring(t)))

LEMMA SendKinds ==
  ASSUME TypeInv, NEW t \in Thread, Send(t)
  PROVE  RegisterReceiver(t) \/ ForceRetryFull(t) \/ Pushes(t) \/ Parks(t) \/ Loses(t) \/ Unparks(t)
PROOF
<1>1. /\ chan \in [Thread -> Channels(Command)]
      /\ \A u \in Thread : chan[u] \in Channels(Command) /\ Len(chan[u].ring) <= Capacity
  BY DEF TypeInv, ChannelsOK
<1>2. CASE RetryPending(t)
  <2>1. /\ chan' = [chan EXCEPT ![t] = PushPending(chan[t])] /\ chan[t].pending # <<>> /\ HasRoom(chan[t])
        /\ UNCHANGED <<appVars, thread, todo, past, rxs, collVars, seen>>
    BY <1>2 DEF RetryPending
  <2>2. /\ NewestPending(chan[t]) \in ToSet(chan[t].pending)
        /\ PushPending(chan[t]).ring = Append(chan[t].ring, NewestPending(chan[t]))
        /\ ToSet(PushPending(chan[t]).pending) \subseteq ToSet(chan[t].pending)
    BY <1>1, <2>1, PushPendingType
  <2> QED
    BY <1>1, <2>1, <2>2 DEF Unparks, Ring, Parked
<1>3. CASE PushCommand(t)
  <2>1. /\ chan' = [chan EXCEPT ![t] = Push(chan[t], Cmd(t))] /\ HasRoom(chan[t]) /\ Finish(t) /\ Sending(t)
        /\ seen' = Record(Cmd(t)) /\ UNCHANGED <<spans, nextRaw, nextRoot, thread, rxs, collVars>>
    BY <1>3 DEF PushCommand, AtPush, Ready
  <2>2. Cmd(t) \in Command
    BY <2>1, FinishType
  <2>3. /\ Push(chan[t], Cmd(t)).ring = Append(chan[t].ring, Cmd(t))
        /\ Push(chan[t], Cmd(t)).pending = chan[t].pending
    BY <1>1, <2>1, <2>2, PushType
  <2> QED
    BY <1>1, <2>1, <2>3 DEF Pushes, Takes, Ring, Parked
<1>4. CASE ParkCommand(t)
  <2>1. /\ chan' = [chan EXCEPT ![t] = Park(chan[t], Cmd(t))] /\ Forced(Cmd(t)) /\ Finish(t) /\ Sending(t)
        /\ seen' = Record(Cmd(t)) /\ UNCHANGED <<spans, nextRaw, nextRoot, thread, rxs, collVars>>
    BY <1>4 DEF ParkCommand, AtPush, Ready
  <2>2. Cmd(t) \in Command
    BY <2>1, FinishType
  <2>3. /\ Park(chan[t], Cmd(t)).ring = chan[t].ring
        /\ Park(chan[t], Cmd(t)).pending = Append(chan[t].pending, Cmd(t))
    BY <1>1, <2>2, ParkType
  <2> QED
    BY <1>1, <2>1, <2>3 DEF Parks, Takes, Ring, Parked
<1>5. CASE LoseCommand(t)
  BY <1>5 DEF LoseCommand, Ready, Loses, Takes, Ring, Parked
<1> QED
  BY <1>2, <1>3, <1>4, <1>5 DEF Send

LEMMA RecvKind ==
  ASSUME TypeInv, RecvCommand
  PROVE  \E t \in Thread : Receives(t)
PROOF
<1>1. /\ chan \in [Thread -> Channels(Command)]
      /\ \A t \in Thread : chan[t] \in Channels(Command) /\ Len(chan[t].ring) <= Capacity
  BY DEF TypeInv, ChannelsOK
<1>2. PICK t \in Thread : t = Current
  BY ElementOfSeq, LenProperties DEF RecvCommand, AtReceiver, Current, TypeInv, ReceiversOK
<1>3. at \in DOMAIN rxs /\ t = rxs[at] /\ chan[t] \in Channels(Command)
  BY <1>1, <1>2 DEF RecvCommand, AtReceiver, Current
<1>4. /\ ~empty /\ chan[t].ring # <<>> /\ batch' = Append(batch, Head(chan[t].ring))
      /\ chan' = [chan EXCEPT ![t] = Pop(chan[t])]
      /\ UNCHANGED <<appVars, thread, todo, past, rxs, runner, at, empty, active, reported, seen>>
  BY <1>2 DEF RecvCommand
<1>5. Pop(chan[t]).ring = Tail(chan[t].ring) /\ Pop(chan[t]).pending = chan[t].pending
  BY <1>1, <1>3, <1>4, PopType
<1>6. /\ \A u \in Thread : Parked(u)' = Parked(u)
      /\ \A u \in Thread \ {t} : Ring(u)' = Ring(u)
      /\ Ring(t)' = Tail(Ring(t))
  BY <1>1, <1>3, <1>4, <1>5 DEF Ring, Parked
<1>7. Receives(t)
  BY <1>3, <1>4, <1>6 DEF Receives, Ring
<1> QED
  BY <1>3, <1>7

LEMMA StepKinds ==
  ASSUME TypeInv, SeenOK, [Next]_vars
  PROVE  \/ NothingMoves
         \/ ProcessBatch
         \/ \E t \in Thread : Call(t) \/ Pushes(t) \/ Parks(t) \/ Loses(t) \/ Unparks(t) \/ Receives(t)
PROOF
<1>1. /\ chan \in [Thread -> Channels(Command)]
      /\ \A t \in Thread : chan[t] \in Channels(Command) /\ Len(chan[t].ring) <= Capacity
  BY DEF TypeInv, ChannelsOK
<1>2. ASSUME UNCHANGED <<appVars, todo, batch, active, reported>>,
             \A t \in Thread : Ring(t)' = Ring(t) /\ Parked(t)' = Parked(t),
             UNCHANGED seen
      PROVE  NothingMoves
  <2>1. seen.asked \in [Thread -> SUBSET SpanPair] /\ seen' = [seen EXCEPT !.asked = seen.asked]
    BY <1>2 DEF SeenOK
  <2> QED
    BY <1>2, <2>1 DEF NothingMoves
<1>3. ASSUME NEW t \in Thread, Flush(t)
      PROVE  NothingMoves
  <2> DEFINE f == [seen.asked EXCEPT ![t] = seen.owed]
  <2>1. f \in [Thread -> SUBSET SpanPair] /\ seen' = [seen EXCEPT !.asked = f]
    BY <1>3 DEF SeenOK, Flush
  <2> HIDE DEF f
  <2>2. UNCHANGED <<appVars, todo, batch, active, reported>>
        /\ \A u \in Thread : Ring(u)' = Ring(u) /\ Parked(u)' = Parked(u)
    BY <1>3 DEF Flush, collVars, Ring, Parked
  <2> QED
    BY <2>1, <2>2 DEF NothingMoves
<1>4. ASSUME NEW t \in Thread, Send(t)
      PROVE  NothingMoves \/ Pushes(t) \/ Parks(t) \/ Loses(t) \/ Unparks(t)
  <2>1. CASE RegisterReceiver(t) \/ ForceRetryFull(t)
    <3>1. /\ UNCHANGED <<appVars, todo, batch, active, reported, seen>>
          /\ \A u \in Thread : Ring(u)' = Ring(u) /\ Parked(u)' = Parked(u)
      BY <2>1 DEF RegisterReceiver, ForceRetryFull, collVars, Ring, Parked
    <3> QED
      BY <1>2, <3>1
  <2> QED
    BY <1>4, <2>1, SendKinds
<1>5. ASSUME NEW t \in Thread, ExitThread(t) \/ ExitDone(t)
      PROVE  NothingMoves
  <2>1. UNCHANGED <<appVars, todo, batch, active, reported, seen>>
    BY <1>5 DEF ExitThread, ExitDone, collVars
  <2>2. Abandon(chan[t]).ring = chan[t].ring /\ Abandon(chan[t]).pending = chan[t].pending
    BY <1>1, AbandonType
  <2>3. \A u \in Thread : Ring(u)' = Ring(u) /\ Parked(u)' = Parked(u)
    BY <1>1, <1>5, <2>2 DEF ExitThread, ExitDone, Ring, Parked
  <2> QED
    BY <1>2, <2>1, <2>3
<1>6. ASSUME NEW t \in Thread, ExitDrain(t)
      PROVE  Unparks(t)
  <2>1. /\ chan' = [chan EXCEPT ![t] = DrainPending(chan[t])] /\ chan[t].pending # <<>>
        /\ UNCHANGED <<appVars, thread, todo, past, rxs, collVars, seen>>
    BY <1>6 DEF ExitDrain
  <2>2. /\ Head(chan[t].pending) \in ToSet(chan[t].pending)
        /\ DrainPending(chan[t]).ring = IF HasRoom(chan[t]) THEN Append(chan[t].ring, Head(chan[t].pending)) ELSE chan[t].ring
        /\ ToSet(DrainPending(chan[t]).pending) \subseteq ToSet(chan[t].pending)
    BY <1>1, <2>1, DrainPendingType
  <2> QED
    BY <1>1, <2>1, <2>2 DEF Unparks, Ring, Parked
<1>7. ASSUME LoopBegin \/ RecvEmpty \/ RecvNone \/ RecvClosed \/ RecvDone \/ \E t \in Thread : FlushBegin(t)
      PROVE  NothingMoves
  <2>1. /\ UNCHANGED <<appVars, todo, batch, active, reported, seen>>
        /\ \A u \in Thread : Ring(u)' = Ring(u) /\ Parked(u)' = Parked(u)
    BY <1>7 DEF LoopBegin, FlushBegin, Begin, RecvEmpty, RecvNone, RecvClosed, RecvDone, Ring, Parked
  <2> QED
    BY <1>2, <2>1
<1>8. RecvCommand => \E t \in Thread : Receives(t)
  BY RecvKind
<1>9. ASSUME UNCHANGED vars
      PROVE  NothingMoves
  <2>1. /\ UNCHANGED <<appVars, todo, batch, active, reported, seen>>
        /\ \A u \in Thread : Ring(u)' = Ring(u) /\ Parked(u)' = Parked(u)
    BY <1>9 DEF vars, appVars, Ring, Parked
  <2> QED
    BY <1>2, <2>1
<1> QED
  BY <1>3, <1>4, <1>5, <1>6, <1>7, <1>8, <1>9 DEF Next, Collect

LEMMA InitSeen == Init => SeenOK
PROOF
BY DEF Init, SeenOK, SpanPair

LEMMA NextSeen == TypeInv /\ SeenOK /\ [Next]_vars => SeenOK'
PROOF
<1> SUFFICES ASSUME TypeInv, SeenOK, [Next]_vars
             PROVE  SeenOK'
  OBVIOUS
<1>1. CASE NothingMoves
  <2>1. PICK f \in [Thread -> SUBSET SpanPair] : seen' = [seen EXCEPT !.asked = f]
    BY <1>1 DEF NothingMoves
  <2> QED
    BY <2>1 DEF SeenOK
<1>2. CASE ProcessBatch
  BY <1>2, BatchHistory
<1>3. ASSUME NEW t \in Thread, Pushes(t) \/ Parks(t)
      PROVE  SeenOK'
  <2>1. Cmd(t) \in Command /\ seen' = Record(Cmd(t))
    BY <1>3, FinishType DEF Pushes, Parks, Takes
  <2> QED
    BY <2>1, RecordEffect
<1>4. ASSUME NEW t \in Thread, Call(t) \/ Loses(t) \/ Unparks(t) \/ Receives(t)
      PROVE  SeenOK'
  <2>1. seen' = seen
    BY <1>4, CallType DEF Loses, Unparks, Receives
  <2> QED
    BY <2>1 DEF SeenOK
<1> QED
  BY <1>1, <1>2, <1>3, <1>4, StepKinds

\* The commands a channel holds.
Carried(t) == ToSet(Ring(t)) \cup ToSet(Parked(t))

LEMMA CommandSeqs ==
  ASSUME TypeInv
  PROVE  /\ batch \in Seq(Command) /\ ToSet(batch) \subseteq Command
         /\ \A t \in Thread : /\ Ring(t) \in Seq(Command) /\ Parked(t) \in Seq(Command) /\ todo[t] \in Seq(Command)
                              /\ ToSet(Ring(t)) \subseteq Command /\ ToSet(Parked(t)) \subseteq Command
                              /\ ToSet(todo[t]) \subseteq Command /\ Carried(t) \subseteq Command
PROOF
<1>1. batch \in Seq(Command)
  BY DEF TypeInv, ReceiversOK
<1>2. ASSUME NEW t \in Thread
      PROVE  Ring(t) \in Seq(Command) /\ Parked(t) \in Seq(Command) /\ todo[t] \in Seq(Command)
  BY DEF TypeInv, ChannelsOK, ThreadsOK, Ring, Parked, Channels
<1>3. \A seq \in Seq(Command) : ToSet(seq) \subseteq Command
  BY ElementOfSeq, LenProperties DEF ToSet
<1> QED
  BY <1>1, <1>2, <1>3 DEF Carried

\* What the steps do to the sets of commands.
LEMMA TakesSets ==
  ASSUME TypeInv, NEW t \in Thread, Takes(t)
  PROVE  /\ Cmd(t) \in Command /\ todo[t] # <<>>
         /\ Cmd(t) = Head(todo[t]) /\ todo'[t] = Tail(todo[t])
         /\ ToSet(todo[t]) = {Cmd(t)} \cup ToSet(todo'[t])
         /\ \A u \in Thread \ {t} : todo'[u] = todo[u] /\ Carried(u)' = Carried(u)
         /\ UNCHANGED <<batch, active, reported, spans, nextRoot>>
PROOF
<1>1. Finish(t) /\ Sending(t)
  BY DEF Takes
<1>2. todo[t] \in Seq(Command) /\ todo[t] # <<>>
  BY <1>1, CommandSeqs DEF Sending
<1>3. Cmd(t) \in Command /\ todo'[t] = Tail(todo[t]) /\ \A u \in Thread \ {t} : todo'[u] = todo[u]
  BY <1>1, FinishType
<1>4. Head(todo[t]) = todo[t][1] /\ ToSet(todo[t]) = {Head(todo[t])} \cup ToSet(Tail(todo[t]))
  BY <1>2, HeadTailRange
<1>5. \A u \in Thread \ {t} : Carried(u)' = Carried(u)
  BY DEF Takes, Carried
<1> QED
  BY <1>2, <1>3, <1>4, <1>5 DEF Takes, Cmd, collVars

LEMMA AcceptSets ==
  ASSUME TypeInv, NEW t \in Thread, Pushes(t) \/ Parks(t)
  PROVE  Carried(t)' = Carried(t) \cup {Cmd(t)}
PROOF
<1>1. Cmd(t) \in Command /\ Ring(t) \in Seq(Command) /\ Parked(t) \in Seq(Command)
  BY TakesSets, CommandSeqs DEF Pushes, Parks
<1>2. CASE Pushes(t)
  <2>1. ToSet(Ring(t)') = ToSet(Ring(t)) \cup {Cmd(t)} /\ Parked(t)' = Parked(t)
    BY <1>1, <1>2, AppendRange DEF Pushes
  <2> QED
    BY <2>1 DEF Carried
<1>3. CASE Parks(t)
  <2>1. ToSet(Parked(t)') = ToSet(Parked(t)) \cup {Cmd(t)} /\ Ring(t)' = Ring(t)
    BY <1>1, <1>3, AppendRange DEF Parks
  <2> QED
    BY <2>1 DEF Carried
<1> QED
  BY <1>2, <1>3

LEMMA UnparkSets ==
  ASSUME TypeInv, NEW t \in Thread, Unparks(t)
  PROVE  /\ Carried(t)' \subseteq Carried(t)
         /\ \A u \in Thread \ {t} : Carried(u)' = Carried(u)
         /\ UNCHANGED <<todo, batch, active, reported, spans, nextRoot, seen>>
PROOF
<1>1. Ring(t) \in Seq(Command) /\ \A m \in ToSet(Parked(t)) : m \in Command
  BY CommandSeqs
<1>2. ToSet(Ring(t)') \subseteq ToSet(Ring(t)) \cup ToSet(Parked(t))
  <2>1. CASE Ring(t)' = Ring(t)
    BY <2>1
  <2>2. CASE \E m \in ToSet(Parked(t)) : Ring(t)' = Append(Ring(t), m)
    BY <1>1, <2>2, AppendRange
  <2> QED
    BY <2>1, <2>2 DEF Unparks
<1>3. Carried(t)' \subseteq Carried(t)
  BY <1>2 DEF Unparks, Carried
<1> QED
  BY <1>3 DEF Unparks, Carried, appVars, collVars

LEMMA ReceiveSets ==
  ASSUME TypeInv, NEW t \in Thread, Receives(t)
  PROVE  /\ Head(Ring(t)) \in Command
         /\ ToSet(Ring(t)) = {Head(Ring(t))} \cup ToSet(Ring(t)')
         /\ ToSet(batch') = ToSet(batch) \cup {Head(Ring(t))}
         /\ Carried(t) = Carried(t)' \cup {Head(Ring(t))}
         /\ \A u \in Thread \ {t} : Carried(u)' = Carried(u)
         /\ UNCHANGED <<todo, active, reported, spans, nextRoot, seen>>
PROOF
<1>1. Ring(t) \in Seq(Command) /\ batch \in Seq(Command)
  BY CommandSeqs
<1>2. Head(Ring(t)) \in Command /\ ToSet(Ring(t)) = {Head(Ring(t))} \cup ToSet(Ring(t)')
  BY <1>1, HeadTailRange DEF Receives
<1>3. ToSet(batch') = ToSet(batch) \cup {Head(Ring(t))}
  BY <1>1, <1>2, AppendRange DEF Receives
<1>4. Carried(t) = Carried(t)' \cup {Head(Ring(t))}
  BY <1>2 DEF Receives, Carried
<1>5. \A u \in Thread \ {t} : Carried(u)' = Carried(u)
  BY DEF Receives, Carried
<1> QED
  BY <1>2, <1>3, <1>4, <1>5 DEF Receives, appVars

-----------------------------------------------------------------------------
(* What is in flight was accepted. *)

Accepted(m) ==
  /\ m.cmd = "start"  => m.collect \in seen.started
  /\ m.cmd = "drop"   => m.collect \in seen.cancelled
  /\ m.cmd = "commit" => m.collect \in seen.committed

\* With cancelable traces, what has been reported belongs to committed ones.
AcceptedInv ==
  /\ \A t \in Thread : \A m \in Carried(t) : Accepted(m)
  /\ \A m \in ToSet(batch) : Accepted(m)
  /\ seen.done \subseteq seen.committed
  /\ Cancelable => \A p \in Got : p[1] \in seen.committed

LEMMA AcceptedMonotone ==
  ASSUME TypeInv, SeenOK, [Next]_vars
  PROVE  /\ \A m \in Command : Accepted(m) => Accepted(m)'
         /\ seen.started \subseteq seen'.started /\ seen.cancelled \subseteq seen'.cancelled
         /\ seen.committed \subseteq seen'.committed
PROOF
<1>1. /\ seen.started \subseteq seen'.started /\ seen.cancelled \subseteq seen'.cancelled
      /\ seen.committed \subseteq seen'.committed
  <2>1. CASE NothingMoves
    BY <2>1 DEF NothingMoves, SeenOK
  <2>2. CASE ProcessBatch
    BY <2>2, BatchHistory
  <2>3. ASSUME NEW t \in Thread, Pushes(t) \/ Parks(t)
        PROVE  /\ seen.started \subseteq seen'.started /\ seen.cancelled \subseteq seen'.cancelled
               /\ seen.committed \subseteq seen'.committed
    BY <2>3, TakesSets, RecordEffect DEF Pushes, Parks
  <2>4. ASSUME NEW t \in Thread, Call(t) \/ Loses(t) \/ Unparks(t) \/ Receives(t)
        PROVE  seen' = seen
    BY <2>4, CallType DEF Loses, Unparks, Receives
  <2> QED
    BY <2>1, <2>2, <2>3, <2>4, StepKinds
<1> QED
  BY <1>1 DEF Accepted

\* What a collector holds is of its trace.
LEMMA HeldTraces ==
  ASSUME TypeInv, NEW c \in StartedTraces, NEW p \in PairsOf(HeldBy(c))
  PROVE  p[1] = c
PROOF
<1>1. PICK coll \in HeldBy(c), raw \in RawSpan : p = <<coll.trace, raw.id>>
  BY PairsOfMember
<1>2. c \notin Ids("start") => c \in DOMAIN active /\ active[c].colls \in Seq(Coll({c}))
  BY DEF StartedTraces, TypeInv, CollectorsOK, ActiveCollector
<1>3. \A x \in Coll({c}) : x.trace = c
  BY DEF Coll
<1>4. \A seq \in Seq(Coll({c})) : \A x \in ToSet(seq) : x.trace = c
  BY <1>3, ElementOfSeq, LenProperties DEF ToSet
<1> QED
  BY <1>1, <1>2, <1>4 DEF HeldBy

LEMMA NextAccepted == TypeInv /\ SeenOK /\ AcceptedInv /\ [Next]_vars => AcceptedInv'
PROOF
<1> SUFFICES ASSUME TypeInv, SeenOK, AcceptedInv, [Next]_vars
             PROVE  AcceptedInv'
  OBVIOUS
<1>1. /\ \A m \in Command : Accepted(m) => Accepted(m)'
      /\ seen.started \subseteq seen'.started /\ seen.cancelled \subseteq seen'.cancelled
      /\ seen.committed \subseteq seen'.committed
  BY AcceptedMonotone
<1>2. ToSet(batch) \subseteq Command /\ \A t \in Thread : Carried(t) \subseteq Command
  BY CommandSeqs
<1>3. CASE NothingMoves
  <2>1. Got' = Got /\ batch' = batch /\ seen'.done = seen.done /\ \A t \in Thread : Carried(t)' = Carried(t)
    BY <1>3 DEF NothingMoves, Got, Carried, SeenOK
  <2> QED
    BY <1>1, <1>2, <2>1 DEF AcceptedInv
<1>4. CASE ProcessBatch
  <2>1. /\ batch' = <<>> /\ ToSet(<<>>) = {} /\ \A t \in Thread : Carried(t)' = Carried(t)
    BY <1>4, ShortRanges DEF ProcessBatch, Carried, Ring, Parked
  <2>2. Ids("commit") \subseteq seen.committed
    BY CommandSeqs DEF Ids, AcceptedInv, Accepted
  <2>3. ASSUME Cancelable, NEW p \in Got'
        PROVE  p[1] \in seen.committed
    <3>1. CASE p \in Got
      BY <2>3, <3>1 DEF AcceptedInv
    <3>2. CASE p \notin Got
      <4>1. PICK c \in StartedTraces \cap Ids("commit") : p \in PairsOf(HeldBy(c))
        BY <1>4, <2>3, <3>2, BatchEffect
      <4> QED
        BY <2>2, <4>1, HeldTraces
    <3> QED
      BY <3>1, <3>2
  <2> QED
    BY <1>1, <1>2, <1>4, <2>1, <2>2, <2>3, BatchHistory DEF AcceptedInv
<1>5. ASSUME NEW t \in Thread, Pushes(t) \/ Parks(t)
      PROVE  AcceptedInv'
  <2>1. PICK m \in Command : m = Cmd(t)
    BY <1>5, TakesSets DEF Pushes, Parks
  <2>2. Takes(t) /\ seen' = Record(m) /\ Carried(t)' = Carried(t) \cup {m}
    BY <1>5, <2>1, AcceptSets DEF Pushes, Parks
  <2>3. Accepted(m)' /\ seen'.done = seen.done
    BY <2>2, RecordEffect DEF Accepted, IdIf
  <2>4. Got' = Got /\ batch' = batch /\ \A u \in Thread \ {t} : Carried(u)' = Carried(u)
    BY <2>2, TakesSets DEF Got
  <2> QED
    BY <1>1, <1>2, <2>2, <2>3, <2>4 DEF AcceptedInv
<1>6. ASSUME NEW t \in Thread, Call(t) \/ Loses(t)
      PROVE  AcceptedInv'
  <2>1. seen' = seen /\ Got' = Got /\ batch' = batch /\ \A u \in Thread : Carried(u)' = Carried(u)
    <3>1. CASE Call(t)
      BY <3>1, CallType DEF Got, Carried, Ring, Parked, collVars
    <3>2. CASE Loses(t)
      BY <3>2, TakesSets DEF Loses, Got, Carried
    <3> QED
      BY <1>6, <3>1, <3>2
  <2> QED
    BY <1>1, <1>2, <2>1 DEF AcceptedInv
<1>7. ASSUME NEW t \in Thread, Unparks(t)
      PROVE  AcceptedInv'
  <2>1. Got' = Got /\ batch' = batch /\ seen' = seen /\ \A u \in Thread : Carried(u)' \subseteq Carried(u)
    BY <1>7, UnparkSets DEF Got
  <2> QED
    BY <1>1, <1>2, <2>1 DEF AcceptedInv
<1>8. ASSUME NEW t \in Thread, Receives(t)
      PROVE  AcceptedInv'
  <2>1. /\ Got' = Got /\ seen' = seen /\ \A u \in Thread : Carried(u)' \subseteq Carried(u)
        /\ ToSet(batch') = ToSet(batch) \cup {Head(Ring(t))} /\ Head(Ring(t)) \in Carried(t)
    BY <1>8, ReceiveSets DEF Got
  <2> QED
    BY <1>1, <1>2, <2>1 DEF AcceptedInv
<1> QED
  BY <1>3, <1>4, <1>5, <1>6, <1>7, <1>8, StepKinds

\* The invariant so far, of the specification.
FlowInv == TypeInv /\ SeenOK /\ AcceptedInv

LEMMA InitAccepted == Init => AcceptedInv
PROOF
<1> SUFFICES ASSUME Init
             PROVE  AcceptedInv
  OBVIOUS
<1>1. ToSet(<<>>) = {} /\ Got = {} /\ seen.done = {} /\ batch = <<>>
  BY ShortRanges DEF Init, Got, EmptyBag, SetToBag
<1>2. \A t \in Thread : Carried(t) = {}
  BY <1>1 DEF Init, Carried, Ring, Parked, NewChannel
<1> QED
  BY <1>1, <1>2 DEF AcceptedInv

LEMMA FlowHolds == Spec => []FlowInv
PROOF
<1>1. Init => FlowInv
  BY InitType, InitSeen, InitAccepted DEF FlowInv
<1>2. FlowInv /\ [Next]_vars => FlowInv'
  BY NextType, NextSeen, NextAccepted DEF FlowInv
<1> QED
  BY <1>1, <1>2, PTL DEF Spec

\* A cancelable trace is held back until its root has ended, whatever the
\* capacity of the channels, also when spans move between threads and threads
\* exit: a record belongs to a trace whose commit a channel has accepted.
THEOREM HeldBackUntilCommit == Spec => []HeldUntilCommit
PROOF
<1>1. FlowInv => HeldUntilCommit
  <2> SUFFICES ASSUME FlowInv, Cancelable, NEW r \in DOMAIN reported
               PROVE  r.trace \in seen.committed
    BY DEF HeldUntilCommit
  <2>1. <<r.trace, r.span>> \in Got
    BY DEF Got
  <2>2. \A p \in Got : p[1] \in seen.committed
    BY DEF FlowInv, AcceptedInv
  <2> QED
    BY <2>1, <2>2
<1> QED
  BY <1>1, FlowHolds, PTL


-----------------------------------------------------------------------------
(* What a call of the Span API adds. *)

\* The traces that the token of a span and a command are about.
SpanTraces(s) == {item.collect : item \in ToSet(spans[s].token)}

Traces(m) ==
  IF m.cmd = "submit" THEN {item.collect : item \in ToSet(m.token)} ELSE {m.collect}

About(c) == {m \in Command : c \in Traces(m)}

LEMMA TracesType ==
  ASSUME NEW m \in Command
  PROVE  Traces(m) \subseteq AnyTrace
PROOF
<1>1. \A token \in Seq(Sampled) : \A x \in ToSet(token) : x \in Sampled
  BY ElementOfSeq, LenProperties DEF ToSet
<1> QED
  BY <1>1 DEF Command, Traces, Sampled, AnyTrace

LEMMA IssueTraces ==
  ASSUME SpansOK, NEW s \in DOMAIN spans
  PROVE  {item.collect : item \in ToSet(IssueCollectToken(s))} = SpanTraces(s)
PROOF
<1> DEFINE token == spans[s].token
<1>1. IssueCollectToken(s) = [i \in DOMAIN token |-> [collect |-> token[i].collect, parent |-> s]]
  BY DEF IssueCollectToken, Item
<1>2. ToSet(IssueCollectToken(s)) = {[collect |-> token[i].collect, parent |-> s] : i \in DOMAIN token}
  BY <1>1 DEF ToSet
<1>3. ToSet(token) = {token[i] : i \in DOMAIN token}
  BY DEF ToSet
<1>4. ASSUME NEW i \in DOMAIN token
      PROVE  /\ token[i].collect \in SpanTraces(s)
             /\ token[i].collect \in {item.collect : item \in ToSet(IssueCollectToken(s))}
  <2>1. PICK item \in ToSet(IssueCollectToken(s)) : item = [collect |-> token[i].collect, parent |-> s]
    BY <1>2
  <2>2. item.collect = token[i].collect
    BY <2>1
  <2> QED
    BY <1>3, <2>2 DEF SpanTraces
<1>5. ASSUME NEW item \in ToSet(IssueCollectToken(s))
      PROVE  \E i \in DOMAIN token : item.collect = token[i].collect
  BY <1>2
<1>6. ASSUME NEW x \in SpanTraces(s)
      PROVE  \E i \in DOMAIN token : x = token[i].collect
  BY <1>3 DEF SpanTraces
<1> QED
  BY <1>4, <1>5, <1>6

LEMMA SubmitTraces ==
  ASSUME NEW set \in Seq(RawSpan), NEW token \in Seq(TokenItem), NEW m \in ToSet(SubmitSpans(set, token))
  PROVE  /\ m \in Command /\ m.cmd = "submit" /\ m.set = set
         /\ Traces(m) \subseteq {item.collect : item \in ToSet(token)} \ {NotSampled}
         /\ ToSet(m.token) = {x \in ToSet(token) : IsSampled(x)}
PROOF
<1>1. /\ Select(token, IsSampled) \in Seq(Sampled)
      /\ ToSet(Select(token, IsSampled)) = {x \in ToSet(token) : IsSampled(x)}
  BY SelectSampled
<1>2. CASE Select(token, IsSampled) = <<>>
  BY <1>2, ShortRanges DEF SubmitSpans
<1>3. CASE Select(token, IsSampled) # <<>>
  <2> DEFINE x == [cmd |-> "submit", set |-> set, token |-> Select(token, IsSampled)]
  <2>1. x \in Command /\ x.cmd = "submit" /\ x.set = set /\ x.token = Select(token, IsSampled)
    BY <1>1 DEF Command
  <2>2. SubmitSpans(set, token) = <<x>>
    BY <1>3 DEF SubmitSpans
  <2> HIDE DEF x
  <2>3. m = x
    BY <2>1, <2>2, ShortRanges
  <2> QED
    BY <1>1, <2>1, <2>3 DEF Traces, IsSampled
<1> QED
  BY <1>2, <1>3

\* Every command of a call is about traces of a span that the thread may use,
\* or starts the trace of a new root.
LEMMA CallCommands ==
  ASSUME TypeInv, NEW t \in Thread, Call(t), NEW m \in ToSet(todo'[t])
  PROVE  \/ Root(t) /\ todo'[t] = <<m>> /\ m = StartCollect(nextRoot)
         \/ \E s \in DOMAIN spans :
              /\ MayUse(t, s)
              /\ \/ m \in Command /\ m.cmd = "submit" /\ Traces(m) \subseteq SpanTraces(s) \ {NotSampled}
                 \/ Cancel(t, s) /\ todo'[t] = <<m>> /\ m = DropCollect(spans[s].collect) /\ spans[s].collect # -1
                 \/ DropSpan(t, s) /\ m = CommitCollect(spans[s].collect) /\ spans[s].collect # -1
PROOF
<1>1. todo[t] = <<>> /\ ToSet(<<>>) = {} /\ todo \in [Thread -> Seq(Command)] /\ SpansOK
  BY CallType, ShortRanges DEF Idle, TypeInv, ThreadsOK
<1>2. CASE Root(t)
  <2>1. todo'[t] = <<StartCollect(nextRoot)>>
    BY <1>1, <1>2 DEF Root, Issue
  <2>2. ToSet(<<StartCollect(nextRoot)>>) = {StartCollect(nextRoot)}
    BY ShortRanges
  <2> QED
    BY <1>2, <2>1, <2>2
<1>3. CASE UnsampledRoot(t) \/ \E n \in 1 .. MaxParents : \E parents \in [1 .. n -> SpanId] : Child(t, parents)
  BY <1>1, <1>3 DEF UnsampledRoot, Child
<1>4. ASSUME NEW s \in SpanId, Attach(t, s)
      PROVE  s \in DOMAIN spans /\ MayUse(t, s) /\ m \in Command /\ m.cmd = "submit"
             /\ Traces(m) \subseteq SpanTraces(s) \ {NotSampled}
  <2>1. s \in DOMAIN spans /\ MayUse(t, s) /\ nextRaw \in SpanId
    BY <1>1, <1>4 DEF Attach, MayUse, Live, SpansOK, SpanId
  <2> DEFINE set == <<Raw(nextRaw, NoParent, "Attachment")>>
  <2>2. set \in Seq(RawSpan)
    BY <2>1 DEF Raw, RawSpan, Parent, Kind
  <2>3. todo'[t] = SubmitSpans(set, IssueCollectToken(s))
    BY <1>1, <1>4 DEF Attach, Issue
  <2> HIDE DEF set
  <2> QED
    BY <1>1, <2>1, <2>2, <2>3, IssueTokenType, IssueTraces, SubmitTraces
<1>5. ASSUME NEW s \in SpanId, PushChildSpans(t, s)
      PROVE  s \in DOMAIN spans /\ MayUse(t, s) /\ m \in Command /\ m.cmd = "submit"
             /\ Traces(m) \subseteq SpanTraces(s) \ {NotSampled}
  <2>1. s \in DOMAIN spans /\ MayUse(t, s) /\ nextRaw \in SpanId /\ nextRaw + 1 \in SpanId
    BY <1>1, <1>5, CollectorAssumption DEF PushChildSpans, MayUse, Live, SpansOK, SpanId
  <2> DEFINE set == <<Raw(nextRaw, NoParent, "Span"), Raw(nextRaw + 1, nextRaw, "Attachment")>>
  <2>2. set \in Seq(RawSpan)
    <3>1. Raw(nextRaw, NoParent, "Span") \in RawSpan /\ Raw(nextRaw + 1, nextRaw, "Attachment") \in RawSpan
      BY <2>1 DEF Raw, RawSpan, Parent, Kind
    <3> QED
      BY <3>1
  <2>3. todo'[t] = SubmitSpans(set, IssueCollectToken(s))
    BY <1>1, <1>5 DEF PushChildSpans, Issue
  <2> HIDE DEF set
  <2> QED
    BY <1>1, <2>1, <2>2, <2>3, IssueTokenType, IssueTraces, SubmitTraces
<1>6. ASSUME NEW s \in SpanId, Cancel(t, s)
      PROVE  /\ s \in DOMAIN spans /\ MayUse(t, s)
             /\ todo'[t] = <<m>> /\ m = DropCollect(spans[s].collect) /\ spans[s].collect # -1
  <2>1. todo'[t] = <<DropCollect(spans[s].collect)>> /\ s \in DOMAIN spans /\ MayUse(t, s) /\ spans[s].collect # -1
    BY <1>1, <1>6 DEF Cancel, Issue, MayUse, Live
  <2>2. ToSet(<<DropCollect(spans[s].collect)>>) = {DropCollect(spans[s].collect)}
    BY ShortRanges
  <2> QED
    BY <2>1, <2>2
<1>7. ASSUME NEW s \in SpanId, DropSpan(t, s)
      PROVE  /\ s \in DOMAIN spans /\ MayUse(t, s)
             /\ \/ m \in Command /\ m.cmd = "submit" /\ Traces(m) \subseteq SpanTraces(s) \ {NotSampled}
                \/ m = CommitCollect(spans[s].collect) /\ spans[s].collect # -1
  <2>1. s \in DOMAIN spans /\ MayUse(t, s) /\ todo'[t] = SpanDropped(s)
    BY <1>1, <1>7 DEF DropSpan, Issue, MayUse, Live
  <2>2. spans[s].token \in Seq(TokenItem) /\ spans[s].collect \in AnyTrace \cup {-1} /\ s \in SpanId
    BY <1>1, <2>1, IssueTokenType DEF SpanObject
  <2> DEFINE set == <<Raw(s, NoParent, "Span")>>
             a == SubmitSpans(set, spans[s].token)
             b == IF spans[s].collect = -1 THEN <<>> ELSE <<CommitCollect(spans[s].collect)>>
  <2>3. set \in Seq(RawSpan)
    BY <2>2 DEF Raw, RawSpan, Parent, Kind
  <2> HIDE DEF set
  <2>4. a \in Seq(Command)
    BY <2>2, <2>3, SubmitSpansType
  <2>5. b \in Seq(Command) /\ \A x \in ToSet(b) : x = CommitCollect(spans[s].collect) /\ spans[s].collect # -1
    <3>1. CASE spans[s].collect = -1
      BY <3>1, ShortRanges
    <3>2. CASE spans[s].collect # -1
      <4>1. CommitCollect(spans[s].collect) \in Command /\ b = <<CommitCollect(spans[s].collect)>>
        BY <2>2, <3>2 DEF CommitCollect, Command
      <4> HIDE DEF b
      <4> QED
        BY <3>2, <4>1, ShortRanges
    <3> QED
      BY <3>1, <3>2
  <2>6. SpanDropped(s) = a \o b
    BY DEF SpanDropped, set
  <2> HIDE DEF a, b
  <2>7. ToSet(SpanDropped(s)) = ToSet(a) \cup ToSet(b)
    BY <2>4, <2>5, <2>6, ConcatRange
  <2>8. CASE m \in ToSet(a)
    BY <2>1, <2>2, <2>3, <2>8, SubmitTraces DEF a, SpanTraces
  <2> QED
    BY <2>1, <2>5, <2>7, <2>8
<1> QED
  BY <1>2, <1>3, <1>4, <1>5, <1>6, <1>7 DEF Call

\* What it does to the spans: nothing, or one ends, or one is created whose
\* traces are those of spans that the thread may use.
LEMMA CallSpans ==
  ASSUME TypeInv, NEW t \in Thread, Call(t)
  PROVE  \/ UNCHANGED <<spans, nextRoot>>
         \/ \E s \in DOMAIN spans :
              /\ DropSpan(t, s) /\ MayUse(t, s) /\ nextRoot' = nextRoot
              /\ spans' = [spans EXCEPT ![s].live = FALSE]
         \/ \E token \in Seq(TokenItem), c \in AnyTrace \cup {-1} :
              /\ nextRaw <= MaxRaw /\ nextRaw' = nextRaw + 1 /\ NewSpan(t, token, c)
              /\ \/ /\ Root(t) /\ c = nextRoot /\ nextRoot' = nextRoot + 1
                    /\ {item.collect : item \in ToSet(token)} = {nextRoot}
                 \/ /\ c \in {NotSampled, -1} /\ nextRoot' = nextRoot
                    /\ \A x \in {item.collect : item \in ToSet(token)} :
                          x = NotSampled \/ \E r \in DOMAIN spans : MayUse(t, r) /\ x \in SpanTraces(r)
PROOF
<1>1. SpansOK
  BY DEF TypeInv
<1>2. CASE Root(t)
  <2> DEFINE item == Item(nextRoot, NoParent)
  <2>1. item \in TokenItem /\ item.collect = nextRoot /\ nextRoot \in AnyTrace
    BY <1>1, <1>2 DEF Root, SpansOK, CollectId, Item, TokenItem, AnyTrace, Parent
  <2>2. NewSpan(t, <<item>>, nextRoot) /\ nextRaw <= MaxRaw /\ nextRaw' = nextRaw + 1 /\ nextRoot' = nextRoot + 1
    BY <1>2 DEF Root
  <2> HIDE DEF item
  <2>3. PICK token \in Seq(TokenItem) : token = <<item>> /\ ToSet(token) = {item}
    BY <2>1, ShortRanges
  <2> QED
    BY <1>2, <2>1, <2>2, <2>3
<1>3. CASE UnsampledRoot(t)
  <2> DEFINE item == Item(NotSampled, NoParent)
  <2>1. item \in TokenItem /\ item.collect = NotSampled /\ NotSampled \in AnyTrace
    BY DEF Item, TokenItem, AnyTrace, Parent
  <2>2. NewSpan(t, <<item>>, NotSampled) /\ nextRaw <= MaxRaw /\ nextRaw' = nextRaw + 1 /\ nextRoot' = nextRoot
    BY <1>3 DEF UnsampledRoot
  <2> HIDE DEF item
  <2>3. PICK token \in Seq(TokenItem) : token = <<item>> /\ ToSet(token) = {item}
    BY <2>1, ShortRanges
  <2> QED
    BY <2>1, <2>2, <2>3
<1>4. ASSUME NEW s \in SpanId, Attach(t, s) \/ PushChildSpans(t, s) \/ Cancel(t, s)
      PROVE  UNCHANGED <<spans, nextRoot>>
  BY <1>4 DEF Attach, PushChildSpans, Cancel
<1>5. ASSUME NEW s \in SpanId, DropSpan(t, s)
      PROVE  /\ s \in DOMAIN spans /\ DropSpan(t, s) /\ MayUse(t, s) /\ nextRoot' = nextRoot
             /\ spans' = [spans EXCEPT ![s].live = FALSE]
  BY <1>5 DEF DropSpan, MayUse, Live
<1>6. ASSUME NEW n \in 1 .. MaxParents, NEW parents \in [1 .. n -> SpanId], Child(t, parents)
      PROVE  \E token \in Seq(TokenItem) :
               /\ nextRaw <= MaxRaw /\ nextRaw' = nextRaw + 1 /\ NewSpan(t, token, -1) /\ nextRoot' = nextRoot
               /\ \A x \in {item.collect : item \in ToSet(token)} :
                     \E r \in DOMAIN spans : MayUse(t, r) /\ x \in SpanTraces(r)
  <2> DEFINE F == [i \in 1 .. n |-> IssueCollectToken(parents[i])]
  <2>1. \A i \in 1 .. n : parents[i] \in DOMAIN spans /\ MayUse(t, parents[i])
    BY <1>6 DEF Child, MayUse, Live
  <2>2. /\ nextRaw <= MaxRaw /\ nextRaw' = nextRaw + 1 /\ nextRoot' = nextRoot
        /\ NewSpan(t, FlattenSeq(F), -1)
    BY <1>6 DEF Child
  <2>3. \A i \in 1 .. n : F[i] \in Seq(TokenItem) /\ {item.collect : item \in ToSet(F[i])} = SpanTraces(parents[i])
    BY <1>1, <2>1, IssueTokenType, IssueTraces
  <2>4. F = [i \in 1 .. n |-> F[i]] /\ n \in Nat
    OBVIOUS
  <2> HIDE DEF F
  <2>5. F \in Seq(Seq(TokenItem)) /\ Len(F) = n
    BY <2>3, <2>4
  <2>6. FlattenSeq(F) \in Seq(TokenItem) /\ ToSet(FlattenSeq(F)) = UNION {ToSet(F[i]) : i \in 1 .. n}
    BY <2>5, FlattenRange
  <2>7. ASSUME NEW x \in {item.collect : item \in ToSet(FlattenSeq(F))}
        PROVE  \E r \in DOMAIN spans : MayUse(t, r) /\ x \in SpanTraces(r)
    <3>1. PICK i \in 1 .. n : \E item \in ToSet(F[i]) : x = item.collect
      BY <2>6, <2>7
    <3>2. x \in SpanTraces(parents[i])
      BY <2>3, <3>1
    <3> QED
      BY <2>1, <3>2
  <2> QED
    BY <2>2, <2>6, <2>7
<1> QED
  <2>1. CASE \E n \in 1 .. MaxParents : \E parents \in [1 .. n -> SpanId] : Child(t, parents)
    BY <1>6, <2>1
  <2> QED
    BY <1>2, <1>3, <1>4, <1>5, <2>1 DEF Call

-----------------------------------------------------------------------------
(* Roots: each has its own collect id, and is dropped once. *)

LEMMA CommandShape ==
  ASSUME NEW m \in Command
  PROVE  /\ m.cmd \in {"start", "drop", "commit", "submit"}
         /\ m.cmd = "start"  => m.collect \in CollectId /\ m = StartCollect(m.collect)
         /\ m.cmd = "drop"   => m.collect \in AnyTrace /\ m = DropCollect(m.collect)
         /\ m.cmd = "commit" => m.collect \in AnyTrace /\ m = CommitCollect(m.collect)
PROOF
BY DEF Command, StartCollect, DropCollect, CommitCollect

LEMMA ShortCommands ==
  ASSUME NEW c \in CollectId
  PROVE  /\ StartCollect(c) \in Command /\ StartCollect(c).cmd = "start"
         /\ DropCollect(c) \in Command /\ DropCollect(c).cmd = "drop"
         /\ CommitCollect(c) \in Command /\ CommitCollect(c).cmd = "commit"
         /\ StartCollect(c).collect = c /\ DropCollect(c).collect = c /\ CommitCollect(c).collect = c
         /\ Traces(StartCollect(c)) = {c} /\ Traces(DropCollect(c)) = {c} /\ Traces(CommitCollect(c)) = {c}
PROOF
BY DEF Command, StartCollect, DropCollect, CommitCollect, AnyTrace, Traces

\* The commands of a thread that the collector has not received.
Held(t) == ToSet(todo[t]) \cup Carried(t)

\* Apart from the calls, commands only move on.
LEMMA OtherSteps ==
  ASSUME FlowInv, [Next]_vars, ~ \E t \in Thread : Call(t)
  PROVE  /\ UNCHANGED <<spans, nextRoot>>
         /\ \A t \in Thread : /\ Held(t)' \subseteq Held(t)
                              /\ ToSet(todo'[t]) \subseteq ToSet(todo[t])
                              /\ todo'[t] = todo[t] \/ (todo[t] # <<>> /\ todo'[t] = Tail(todo[t]))
         /\ \A m \in ToSet(batch') : m \in ToSet(batch) \/ \E t \in Thread : m \in Carried(t)
         /\ \A c \in seen'.committed : c \in seen.committed \/ \E t \in Thread : CommitCollect(c) \in ToSet(todo[t])
         /\ \A c \in seen'.started : c \in seen.started \/ \E t \in Thread : StartCollect(c) \in ToSet(todo[t])
         /\ \A c \in DOMAIN active' : c \in DOMAIN active \/ StartCollect(c) \in ToSet(batch)
         /\ \A c \in seen'.done : c \in seen.done \/ CommitCollect(c) \in ToSet(batch)
PROOF
<1> DEFINE Goal ==
         /\ UNCHANGED <<spans, nextRoot>>
         /\ \A t \in Thread : /\ Held(t)' \subseteq Held(t)
                              /\ ToSet(todo'[t]) \subseteq ToSet(todo[t])
                              /\ todo'[t] = todo[t] \/ (todo[t] # <<>> /\ todo'[t] = Tail(todo[t]))
         /\ \A m \in ToSet(batch') : m \in ToSet(batch) \/ \E t \in Thread : m \in Carried(t)
         /\ \A c \in seen'.committed : c \in seen.committed \/ \E t \in Thread : CommitCollect(c) \in ToSet(todo[t])
         /\ \A c \in seen'.started : c \in seen.started \/ \E t \in Thread : StartCollect(c) \in ToSet(todo[t])
         /\ \A c \in DOMAIN active' : c \in DOMAIN active \/ StartCollect(c) \in ToSet(batch)
         /\ \A c \in seen'.done : c \in seen.done \/ CommitCollect(c) \in ToSet(batch)
<1>1. TypeInv /\ SeenOK
  BY DEF FlowInv
<1>2. ASSUME NothingMoves
      PROVE  Goal
  <2>1. /\ UNCHANGED <<spans, nextRoot, todo, batch, active>> /\ \A t \in Thread : Carried(t)' = Carried(t)
        /\ seen'.committed = seen.committed /\ seen'.started = seen.started /\ seen'.done = seen.done
    BY <1>1, <1>2 DEF NothingMoves, appVars, Carried, SeenOK
  <2> QED
    BY <2>1 DEF Held
<1>3. ASSUME ProcessBatch
      PROVE  Goal
  <2>1. /\ UNCHANGED <<spans, nextRoot, todo>> /\ batch' = <<>> /\ ToSet(<<>>) = {}
        /\ \A t \in Thread : Carried(t)' = Carried(t)
    BY <1>3, ShortRanges DEF ProcessBatch, appVars, Carried, Ring, Parked
  <2>2. /\ seen'.committed = seen.committed /\ seen'.started = seen.started
        /\ seen'.done = seen.done \cup Ids("commit") /\ DOMAIN active' \subseteq DOMAIN active \cup Ids("start")
    BY <1>1, <1>3, BatchHistory, BatchEffect DEF StartedTraces
  <2>3. /\ \A c \in Ids("commit") : CommitCollect(c) \in ToSet(batch)
        /\ \A c \in Ids("start") : StartCollect(c) \in ToSet(batch)
    BY <1>1, CommandSeqs, CommandShape DEF Ids
  <2> QED
    BY <2>1, <2>2, <2>3 DEF Held
<1>4. ASSUME NEW t \in Thread, Takes(t), Pushes(t) \/ Parks(t) \/ Loses(t)
      PROVE  Goal
  <2>1. PICK m \in Command : m = Cmd(t)
    BY <1>1, <1>4, TakesSets
  <2>2. /\ UNCHANGED <<batch, active, spans, nextRoot>>
        /\ todo[t] # <<>> /\ todo'[t] = Tail(todo[t])
        /\ ToSet(todo[t]) = {m} \cup ToSet(todo'[t])
        /\ \A u \in Thread \ {t} : todo'[u] = todo[u] /\ Carried(u)' = Carried(u)
    BY <1>1, <1>4, <2>1, TakesSets
  <2>3. Carried(t)' \subseteq Carried(t) \cup {m}
    <3>1. CASE Loses(t)
      BY <3>1 DEF Loses, Carried
    <3>2. CASE Pushes(t) \/ Parks(t)
      BY <1>1, <2>1, <3>2, AcceptSets
    <3> QED
      BY <1>4, <3>1, <3>2
  <2>4. /\ seen'.committed \subseteq seen.committed \cup IdIf(m, "commit")
        /\ seen'.started \subseteq seen.started \cup IdIf(m, "start") /\ seen'.done = seen.done
    <3>1. CASE Loses(t)
      BY <3>1 DEF Loses
    <3>2. CASE Pushes(t) \/ Parks(t)
      BY <1>1, <2>1, <3>2, RecordEffect DEF Pushes, Parks
    <3> QED
      BY <1>4, <3>1, <3>2
  <2>5. /\ \A c \in IdIf(m, "commit") : CommitCollect(c) \in ToSet(todo[t])
        /\ \A c \in IdIf(m, "start") : StartCollect(c) \in ToSet(todo[t])
    BY <2>2, CommandShape DEF IdIf
  <2>6. \A u \in Thread : /\ Held(u)' \subseteq Held(u)
                          /\ ToSet(todo'[u]) \subseteq ToSet(todo[u])
                          /\ todo'[u] = todo[u] \/ (todo[u] # <<>> /\ todo'[u] = Tail(todo[u]))
    BY <2>2, <2>3 DEF Held
  <2> QED
    BY <2>2, <2>4, <2>5, <2>6
<1>5. ASSUME NEW t \in Thread, Unparks(t)
      PROVE  Goal
  BY <1>1, <1>5, UnparkSets DEF Held
<1>6. ASSUME NEW t \in Thread, Receives(t)
      PROVE  Goal
  BY <1>1, <1>6, ReceiveSets DEF Held
<1> QED
  <2>1. Goal
    <3> HIDE DEF Goal
    <3>1. \A t \in Thread : Pushes(t) \/ Parks(t) \/ Loses(t) => Takes(t)
      BY DEF Pushes, Parks, Loses
    <3> QED
      BY <1>1, <1>2, <1>3, <1>4, <1>5, <1>6, <3>1, StepKinds
  <2> QED
    BY <2>1

\* The collect ids given out, and the one of unsampled traces.
Known == 0 .. nextRoot - 1

\* The root of the trace was dropped, after its start was sent.
Ended(c) ==
  /\ \A s \in DOMAIN spans : spans[s].collect = c => ~spans[s].live
  /\ \A t \in Thread : StartCollect(c) \notin ToSet(todo[t])

RootInv ==
  /\ \A s \in DOMAIN spans : spans[s].collect < nextRoot /\ SpanTraces(s) \subseteq Known
  /\ \A s, r \in DOMAIN spans : spans[s].collect \in CollectId /\ spans[s].collect = spans[r].collect => s = r
  /\ \A t \in Thread : \A m \in Held(t) : Traces(m) \subseteq Known
  /\ \A m \in ToSet(batch) : Traces(m) \subseteq Known
  /\ DOMAIN active \subseteq Known /\ seen.started \subseteq Known
  /\ seen.committed \subseteq Known /\ seen.done \subseteq Known
  /\ \A t \in Thread : \A m \in ToSet(todo[t]) : m.cmd = "start" => todo[t] = <<m>>
  /\ \A c \in CollectId :
       c \in seen.committed \/ (\E t \in Thread : CommitCollect(c) \in ToSet(todo[t])) => Ended(c)

LEMMA CallRoots == 
  ASSUME FlowInv, RootInv, NEW t \in Thread, Call(t)
  PROVE  RootInv'
PROOF
<1>1. /\ TypeInv /\ SpansOK /\ nextRoot \in 1 .. MaxRoot + 1 /\ MaxRoot \in Nat
  BY CollectorAssumption DEF FlowInv, TypeInv, SpansOK
<1>2. /\ UNCHANGED <<batch, active, seen>> /\ \A u \in Thread : Carried(u)' = Carried(u)
      /\ \A u \in Thread \ {t} : todo'[u] = todo[u]
      /\ todo[t] = <<>> /\ ToSet(<<>>) = {} /\ todo'[t] \in Seq(Command)
  BY <1>1, CallType, ShortRanges DEF collVars, Carried, Ring, Parked, Idle
<1>3. nextRoot' \in {nextRoot, nextRoot + 1} /\ Known \subseteq Known'
      /\ (nextRoot' = nextRoot + 1 => nextRoot \in Known')
  <2>1. nextRoot' \in {nextRoot, nextRoot + 1}
    BY <1>1, CallSpans
  <2>2. CASE nextRoot' = nextRoot
    BY <1>1, <2>2 DEF Known
  <2>3. CASE nextRoot' = nextRoot + 1
    BY <1>1, <2>3 DEF Known
  <2> QED
    BY <2>1, <2>2, <2>3
<1> DEFINE SpansFine ==
         /\ \A s \in DOMAIN spans' : spans'[s].collect < nextRoot' /\ SpanTraces(s)' \subseteq Known'
         /\ \A s, r \in DOMAIN spans' : spans'[s].collect \in CollectId /\ spans'[s].collect = spans'[r].collect => s = r
         /\ \A s \in DOMAIN spans : /\ s \in DOMAIN spans' /\ spans'[s].collect = spans[s].collect
                                    /\ (spans'[s].live => spans[s].live)
         /\ \A s \in DOMAIN spans' \ DOMAIN spans : spans'[s].collect \in CollectId => spans'[s].collect \notin Known
<1>4. /\ \A s \in DOMAIN spans' : spans'[s].collect < nextRoot' /\ SpanTraces(s)' \subseteq Known'
      /\ \A s, r \in DOMAIN spans' : spans'[s].collect \in CollectId /\ spans'[s].collect = spans'[r].collect => s = r
      /\ \A s \in DOMAIN spans : /\ s \in DOMAIN spans' /\ spans'[s].collect = spans[s].collect
                                 /\ (spans'[s].live => spans[s].live)
      /\ \A s \in DOMAIN spans' \ DOMAIN spans : spans'[s].collect \in CollectId => spans'[s].collect \notin Known
  <2>2. ASSUME NEW s \in DOMAIN spans, spans' = [spans EXCEPT ![s].live = FALSE], nextRoot' = nextRoot
        PROVE  /\ DOMAIN spans' = DOMAIN spans
               /\ \A r \in DOMAIN spans : /\ spans'[r].collect = spans[r].collect /\ SpanTraces(r)' = SpanTraces(r)
                                          /\ (spans'[r].live => spans[r].live)
    <3>1. \A r \in DOMAIN spans : spans[r] \in SpanObject
      BY <1>1 DEF SpansOK
    <3>2. DOMAIN spans' = DOMAIN spans /\ \A r \in DOMAIN spans : spans'[r] = IF r = s THEN [spans[s] EXCEPT !.live = FALSE] ELSE spans[r]
      BY <2>2
    <3>3. \A r \in DOMAIN spans : /\ spans'[r].collect = spans[r].collect /\ spans'[r].token = spans[r].token
                                  /\ (spans'[r].live => spans[r].live)
      BY <3>1, <3>2 DEF SpanObject
    <3> QED
      BY <3>2, <3>3 DEF SpanTraces
  <2>3. ASSUME NEW s \in DOMAIN spans, spans' = [spans EXCEPT ![s].live = FALSE], nextRoot' = nextRoot
        PROVE  SpansFine
    <3>1. /\ DOMAIN spans' = DOMAIN spans
          /\ \A r \in DOMAIN spans : /\ spans'[r].collect = spans[r].collect /\ SpanTraces(r)' = SpanTraces(r)
                                     /\ (spans'[r].live => spans[r].live)
      BY <2>2, <2>3
    <3>2. \A r \in DOMAIN spans : SpanTraces(r) \subseteq Known' /\ spans[r].collect < nextRoot'
      BY <1>3, <2>3 DEF RootInv
    <3>3. \A s_1, r \in DOMAIN spans : spans[s_1].collect \in CollectId /\ spans[s_1].collect = spans[r].collect => s_1 = r
      BY DEF RootInv
    <3> QED
      BY <3>1, <3>2, <3>3
  <2>4. ASSUME NEW token \in Seq(TokenItem), NEW c \in AnyTrace \cup {-1},
               nextRaw <= MaxRaw, nextRaw' = nextRaw + 1, NewSpan(t, token, c),
               c \in CollectId => c = nextRoot /\ nextRoot' = nextRoot + 1,
               c < nextRoot', {item.collect : item \in ToSet(token)} \subseteq Known'
        PROVE  SpansFine
    <3>1. PICK new : new = nextRaw
      OBVIOUS
    <3>2. /\ DOMAIN spans' = DOMAIN spans \cup {new} /\ new \notin DOMAIN spans
          /\ spans'[new] = [live |-> TRUE, home |-> t, token |-> token, collect |-> c]
          /\ \A s \in DOMAIN spans : spans'[s] = spans[s]
      BY <1>1, <2>4, <3>1, NewSpanType
    <3>3. spans'[new].collect = c /\ SpanTraces(new)' = {item.collect : item \in ToSet(token)}
      BY <3>2 DEF SpanTraces
    <3>4. \A s \in DOMAIN spans : /\ spans'[s].collect = spans[s].collect /\ SpanTraces(s)' = SpanTraces(s)
                                  /\ spans'[s].live = spans[s].live
      BY <3>2 DEF SpanTraces
    <3>5. \A s \in DOMAIN spans : spans[s].collect < nextRoot /\ spans[s].collect < nextRoot'
                                  /\ spans[s].collect \in AnyTrace \cup {-1}
      <4>1. \A s \in DOMAIN spans : spans[s].collect \in AnyTrace \cup {-1} /\ spans[s].collect < nextRoot
        BY <1>1 DEF SpansOK, SpanObject, RootInv
      <4>2. \A x \in AnyTrace \cup {-1} : x \in Int
        BY DEF AnyTrace, CollectId, NotSampled
      <4> QED
        BY <1>1, <1>3, <4>1, <4>2
    <3>6. c \in CollectId => c \notin Known /\ \A s \in DOMAIN spans : spans[s].collect # c
      BY <1>1, <2>4, <3>5 DEF Known
    <3> QED
      BY <1>3, <2>4, <3>2, <3>3, <3>4, <3>5, <3>6 DEF RootInv
  <2>5. ASSUME NEW token \in Seq(TokenItem), NEW c \in AnyTrace \cup {-1},
               nextRaw <= MaxRaw, nextRaw' = nextRaw + 1, NewSpan(t, token, c),
               Root(t), c = nextRoot, nextRoot' = nextRoot + 1,
               {item.collect : item \in ToSet(token)} = {nextRoot}
        PROVE  SpansFine
    <3>1. c < nextRoot' /\ {item.collect : item \in ToSet(token)} \subseteq Known'
      BY <1>1, <1>3, <2>5
    <3> HIDE DEF SpansFine
    <3> QED
      BY <2>4, <2>5, <3>1
  <2>6. ASSUME NEW token \in Seq(TokenItem), NEW c \in AnyTrace \cup {-1},
               nextRaw <= MaxRaw, nextRaw' = nextRaw + 1, NewSpan(t, token, c),
               c \in {NotSampled, -1}, nextRoot' = nextRoot,
               \A x \in {item.collect : item \in ToSet(token)} :
                  x = NotSampled \/ \E r \in DOMAIN spans : MayUse(t, r) /\ x \in SpanTraces(r)
        PROVE  SpansFine
    <3>1. c < nextRoot' /\ c \notin CollectId /\ NotSampled \in Known'
      BY <1>1, <2>6 DEF CollectId, NotSampled, Known
    <3>2. {item.collect : item \in ToSet(token)} \subseteq Known'
      BY <1>3, <2>6, <3>1 DEF RootInv
    <3> HIDE DEF SpansFine
    <3> QED
      BY <2>4, <2>6, <3>1, <3>2
  <2>7. UNCHANGED <<spans, nextRoot>> => SpansFine
    BY DEF RootInv, SpanTraces, Known
  <2>8. SpansFine
    <3> HIDE DEF SpansFine
    <3> QED
      BY <1>1, <2>3, <2>5, <2>6, <2>7, CallSpans
  <2> QED
    BY <2>8
<1>5. ASSUME NEW m \in ToSet(todo'[t])
      PROVE  /\ Traces(m) \subseteq Known'
             /\ m.cmd = "start" => todo'[t] = <<m>> /\ m = StartCollect(nextRoot)
  <2>1. CASE Root(t) /\ todo'[t] = <<m>> /\ m = StartCollect(nextRoot)
    <3>1. nextRoot \in CollectId /\ nextRoot \in Known'
      BY <1>1, <1>3, <2>1 DEF Root, CollectId
    <3> QED
      BY <2>1, <3>1, ShortCommands
  <2>2. ASSUME NEW s \in DOMAIN spans, m \in Command, m.cmd = "submit", Traces(m) \subseteq SpanTraces(s)
        PROVE  Traces(m) \subseteq Known' /\ m.cmd # "start"
    BY <1>3, <2>2 DEF RootInv
  <2>3. ASSUME NEW s \in DOMAIN spans, spans[s].collect # -1,
               m = DropCollect(spans[s].collect) \/ m = CommitCollect(spans[s].collect)
        PROVE  Traces(m) \subseteq Known' /\ m.cmd # "start"
    <3>1. spans[s].collect \in AnyTrace /\ spans[s].collect < nextRoot
      BY <1>1, <2>3 DEF SpansOK, SpanObject, RootInv
    <3>2. spans[s].collect \in Known
      BY <1>1, <3>1 DEF Known, AnyTrace, CollectId, NotSampled
    <3> QED
      BY <1>3, <2>3, <3>2 DEF DropCollect, CommitCollect, Traces
  <2> QED
    BY <1>1, <1>5, <2>1, <2>2, <2>3, CallCommands
<1>6. ASSUME NEW c \in CollectId,
             c \in seen'.committed \/ \E u \in Thread : CommitCollect(c) \in ToSet(todo'[u])
      PROVE  Ended(c)'
  <2>1. CASE c \in seen.committed \/ \E u \in Thread : CommitCollect(c) \in ToSet(todo[u])
    <3>1. Ended(c) /\ c \in Known
      <4>1. \A u \in Thread : CommitCollect(c) \in ToSet(todo[u]) => c \in Known
        BY ShortCommands DEF RootInv, Held
      <4> QED
        BY <2>1, <4>1 DEF RootInv
    <3>2. c # nextRoot
      BY <1>1, <3>1 DEF Known
    <3>3. \A s \in DOMAIN spans' : spans'[s].collect = c => ~spans'[s].live
      BY <1>4, <3>1 DEF Ended
    <3>4. StartCollect(c) \notin ToSet(todo'[t])
      <4>1. StartCollect(c).cmd = "start" /\ StartCollect(c).collect = c /\ StartCollect(nextRoot).collect = nextRoot
        BY DEF StartCollect
      <4> QED
        BY <1>5, <3>2, <4>1
    <3> QED
      BY <1>2, <3>1, <3>3, <3>4 DEF Ended
  <2>2. CASE ~(c \in seen.committed \/ \E u \in Thread : CommitCollect(c) \in ToSet(todo[u]))
    <3>1. CommitCollect(c) \in ToSet(todo'[t])
      BY <1>2, <1>6, <2>2
    <3>2. PICK s \in DOMAIN spans : DropSpan(t, s) /\ MayUse(t, s) /\ spans[s].collect = c
      BY <1>1, <3>1, CallCommands DEF CommitCollect, StartCollect, DropCollect
    <3>3. \A r \in DOMAIN spans' : spans'[r].collect = c => ~spans'[r].live
      <4>1. spans' = [spans EXCEPT ![s].live = FALSE]
        BY <3>2 DEF DropSpan
      <4>2. spans[s] \in SpanObject
        BY <1>1 DEF SpansOK
      <4>3. DOMAIN spans' = DOMAIN spans /\ spans'[s].live = FALSE
        BY <4>1, <4>2 DEF SpanObject
      <4>4. \A r \in DOMAIN spans : spans'[r].collect = spans[r].collect
        BY <1>4
      <4> QED
        BY <3>2, <4>3, <4>4 DEF RootInv
    <3>4. ASSUME NEW u \in Thread, StartCollect(c) \in ToSet(todo[u])
          PROVE  FALSE
      <4>1. todo[u] = <<StartCollect(c)>>
        BY <3>4 DEF RootInv, StartCollect
      <4>2. BeingCreated(s)
        BY <3>2, <4>1 DEF BeingCreated
      <4> QED
        BY <3>2, <4>2 DEF MayUse, Live
    <3>5. StartCollect(c) \notin ToSet(todo'[t])
      <4>1. SUFFICES ASSUME StartCollect(c) \in ToSet(todo'[t])
                     PROVE  FALSE
        OBVIOUS
      <4>2. todo'[t] = <<StartCollect(c)>>
        BY <1>5, <4>1 DEF StartCollect
      <4>3. ToSet(<<StartCollect(c)>>) = {StartCollect(c)}
        BY ShortRanges
      <4>4. CommitCollect(c) # StartCollect(c)
        BY ShortCommands
      <4> QED
        BY <3>1, <4>2, <4>3, <4>4
    <3> QED
      BY <1>2, <3>3, <3>4, <3>5 DEF Ended
  <2> QED
    BY <2>1, <2>2
<1>7. \A u \in Thread : \A m \in Held(u)' : Traces(m) \subseteq Known'
  BY <1>2, <1>3, <1>5 DEF RootInv, Held
<1>8. \A u \in Thread : \A m \in ToSet(todo'[u]) : m.cmd = "start" => todo'[u] = <<m>>
  BY <1>2, <1>5 DEF RootInv
<1> HIDE DEF SpansFine
<1> QED
  BY <1>2, <1>3, <1>4, <1>6, <1>7, <1>8 DEF RootInv

LEMMA NextRoots == FlowInv /\ RootInv /\ [Next]_vars => RootInv'
PROOF
<1> SUFFICES ASSUME FlowInv, RootInv, [Next]_vars
             PROVE  RootInv'
  OBVIOUS
<1>1. CASE \E t \in Thread : Call(t)
  BY <1>1, CallRoots
<1>2. CASE ~ \E t \in Thread : Call(t)
  <2>1. /\ UNCHANGED <<spans, nextRoot>>
        /\ \A t \in Thread : /\ Held(t)' \subseteq Held(t)
                             /\ ToSet(todo'[t]) \subseteq ToSet(todo[t])
                             /\ todo'[t] = todo[t] \/ (todo[t] # <<>> /\ todo'[t] = Tail(todo[t]))
        /\ \A m \in ToSet(batch') : m \in ToSet(batch) \/ \E t \in Thread : m \in Carried(t)
        /\ \A c \in seen'.committed : c \in seen.committed \/ \E t \in Thread : CommitCollect(c) \in ToSet(todo[t])
        /\ \A c \in seen'.started : c \in seen.started \/ \E t \in Thread : StartCollect(c) \in ToSet(todo[t])
        /\ \A c \in DOMAIN active' : c \in DOMAIN active \/ StartCollect(c) \in ToSet(batch)
        /\ \A c \in seen'.done : c \in seen.done \/ CommitCollect(c) \in ToSet(batch)
    BY <1>2, OtherSteps
  <2>2. /\ Known' = Known /\ \A s \in DOMAIN spans : SpanTraces(s)' = SpanTraces(s)
    BY <2>1 DEF Known, SpanTraces
  <2>3. \A c : Traces(StartCollect(c)) = {c} /\ Traces(CommitCollect(c)) = {c}
    BY DEF StartCollect, CommitCollect, Traces
  <2>4. DOMAIN active' \subseteq Known /\ seen'.started \subseteq Known
        /\ seen'.committed \subseteq Known /\ seen'.done \subseteq Known
    <3>1. /\ \A t \in Thread : \A c : StartCollect(c) \in ToSet(todo[t]) => c \in Known
          /\ \A t \in Thread : \A c : CommitCollect(c) \in ToSet(todo[t]) => c \in Known
      BY <2>3 DEF RootInv, Held
    <3>2. \A c : StartCollect(c) \in ToSet(batch) \/ CommitCollect(c) \in ToSet(batch) => c \in Known
      BY <2>3 DEF RootInv
    <3>3. /\ DOMAIN active \subseteq Known /\ seen.started \subseteq Known
          /\ seen.committed \subseteq Known /\ seen.done \subseteq Known
      BY DEF RootInv
    <3>4. DOMAIN active' \subseteq Known
      BY <2>1, <3>2, <3>3
    <3>5. seen'.started \subseteq Known
      BY <2>1, <3>1, <3>3
    <3>6. seen'.committed \subseteq Known
      BY <2>1, <3>1, <3>3
    <3>7. seen'.done \subseteq Known
      BY <2>1, <3>2, <3>3
    <3> QED
      BY <3>4, <3>5, <3>6, <3>7
  <2>5. ASSUME NEW t \in Thread, NEW m \in ToSet(todo'[t]), m.cmd = "start"
        PROVE  todo'[t] = <<m>>
    <3>1. todo[t] = <<m>>
      BY <2>1, <2>5 DEF RootInv
    <3>2. CASE todo'[t] = todo[t]
      BY <3>1, <3>2
    <3>3. CASE todo'[t] = Tail(todo[t])
      <4>1. Tail(<<m>>) = <<>> /\ ToSet(<<>>) = {}
        BY ShortRanges
      <4> QED
        BY <2>5, <3>1, <3>3, <4>1
    <3> QED
      BY <2>1, <3>2, <3>3
  <2>6. \A c : Ended(c) => Ended(c)'
    BY <2>1 DEF Ended
  <2>7. \A t \in Thread : \A m \in Held(t)' : Traces(m) \subseteq Known
    BY <2>1 DEF RootInv
  <2>8. \A m \in ToSet(batch') : Traces(m) \subseteq Known
    BY <2>1 DEF RootInv, Held
  <2>9. \A c \in CollectId :
          c \in seen'.committed \/ (\E t \in Thread : CommitCollect(c) \in ToSet(todo'[t])) => Ended(c)'
    BY <2>1, <2>6 DEF RootInv
  <2> QED
    BY <2>1, <2>2, <2>4, <2>5, <2>7, <2>8, <2>9 DEF RootInv
<1> QED
  BY <1>1, <1>2

LEMMA InitRoots == Init => RootInv
PROOF
<1> SUFFICES ASSUME Init
             PROVE  RootInv
  OBVIOUS
<1>1. /\ ToSet(<<>>) = {} /\ DOMAIN spans = {} /\ DOMAIN active = {} /\ batch = <<>>
      /\ seen.started = {} /\ seen.committed = {} /\ seen.done = {}
      /\ \A t \in Thread : todo[t] = <<>>
  BY ShortRanges DEF Init
<1>2. \A t \in Thread : Held(t) = {}
  BY <1>1 DEF Init, Held, Carried, Ring, Parked, NewChannel
<1> QED
  BY <1>1, <1>2 DEF RootInv

-----------------------------------------------------------------------------
(* Without migration, everything about a trace stays on one thread. *)

\* The thread of the root of a trace.
Homed(c, t) == \E s \in DOMAIN spans : spans[s].collect = c /\ spans[s].home = t

HomeInv ==
  /\ \A s \in DOMAIN spans : \A c \in CollectId \cap SpanTraces(s) : Homed(c, spans[s].home)
  /\ \A t \in Thread : \A m \in Held(t) : \A c \in CollectId \cap Traces(m) : Homed(c, t)

LEMMA OneHome ==
  ASSUME RootInv, NEW c \in CollectId, NEW t, NEW u, Homed(c, t), Homed(c, u)
  PROVE  t = u
PROOF
BY DEF RootInv, Homed

LEMMA NextHomes == ~Migrate /\ FlowInv /\ RootInv /\ HomeInv /\ [Next]_vars => HomeInv'
PROOF
<1> SUFFICES ASSUME ~Migrate, FlowInv, RootInv, HomeInv, [Next]_vars
             PROVE  HomeInv'
  OBVIOUS
<1>1. ASSUME NEW t \in Thread, Call(t)
      PROVE  HomeInv'
  <2>1. /\ TypeInv /\ SpansOK /\ todo[t] = <<>>
        /\ \A u \in Thread : Carried(u)' = Carried(u)
        /\ \A u \in Thread \ {t} : todo'[u] = todo[u]
    BY <1>1, CallType DEF FlowInv, TypeInv, Carried, Ring, Parked, Idle
  <2>2. \A s : MayUse(t, s) => s \in DOMAIN spans /\ spans[s].home = t
    BY DEF MayUse, Live
  <2> DEFINE SpansFine == /\ \A c, u : Homed(c, u) => Homed(c, u)'
                          /\ \A s \in DOMAIN spans' : \A c \in CollectId \cap SpanTraces(s)' : Homed(c, spans[s].home)'
                          /\ \A c : Root(t) /\ c = nextRoot => Homed(c, t)'
  <2>3. ASSUME DOMAIN spans' = DOMAIN spans,
               \A s \in DOMAIN spans : /\ spans'[s].collect = spans[s].collect /\ spans'[s].home = spans[s].home
                                       /\ spans'[s].token = spans[s].token,
               ~Root(t)
        PROVE  SpansFine
    <3>1. \A c, u : Homed(c, u) => Homed(c, u)'
      BY <2>3 DEF Homed
    <3>2. \A s \in DOMAIN spans : SpanTraces(s)' = SpanTraces(s)
      BY <2>3 DEF SpanTraces
    <3> QED
      BY <2>3, <3>1, <3>2 DEF HomeInv
  <2>4. ASSUME UNCHANGED <<spans, nextRoot>>
        PROVE  SpansFine
    <3>1. ~Root(t)
      BY <2>1, <2>4 DEF Root, SpansOK
    <3> HIDE DEF SpansFine
    <3> QED
      BY <2>3, <2>4, <3>1
  <2>5. ASSUME NEW s \in DOMAIN spans, spans' = [spans EXCEPT ![s].live = FALSE], nextRoot' = nextRoot
        PROVE  SpansFine
    <3>1. \A r \in DOMAIN spans : spans[r] \in SpanObject
      BY <2>1 DEF SpansOK
    <3>2. DOMAIN spans' = DOMAIN spans /\ \A r \in DOMAIN spans : spans'[r] = IF r = s THEN [spans[s] EXCEPT !.live = FALSE] ELSE spans[r]
      BY <2>5
    <3>3. \A r \in DOMAIN spans : /\ spans'[r].collect = spans[r].collect /\ spans'[r].home = spans[r].home
                                  /\ spans'[r].token = spans[r].token
      BY <3>1, <3>2 DEF SpanObject
    <3>4. ~Root(t)
      BY <2>1, <2>5 DEF Root, SpansOK
    <3> HIDE DEF SpansFine
    <3> QED
      BY <2>3, <3>2, <3>3, <3>4
  <2>6. ASSUME NEW token \in Seq(TokenItem), NEW c \in AnyTrace \cup {-1},
               nextRaw <= MaxRaw, nextRaw' = nextRaw + 1, NewSpan(t, token, c), Root(t) => c = nextRoot,
               \A x \in CollectId \cap {item.collect : item \in ToSet(token)} :
                  x = c \/ \E r \in DOMAIN spans : MayUse(t, r) /\ x \in SpanTraces(r)
        PROVE  SpansFine
    <3>1. PICK new : new = nextRaw
      OBVIOUS
    <3>2. /\ DOMAIN spans' = DOMAIN spans \cup {new} /\ new \notin DOMAIN spans
          /\ spans'[new] = [live |-> TRUE, home |-> t, token |-> token, collect |-> c]
          /\ \A s \in DOMAIN spans : spans'[s] = spans[s]
      BY <2>1, <2>6, <3>1, NewSpanType
    <3>3. spans'[new].home = t /\ SpanTraces(new)' = {item.collect : item \in ToSet(token)}
      BY <3>2 DEF SpanTraces
    <3>4. \A s \in DOMAIN spans : SpanTraces(s)' = SpanTraces(s)
      BY <3>2 DEF SpanTraces
    <3>5. \A x, u : Homed(x, u) => Homed(x, u)'
      BY <3>2 DEF Homed
    <3>6. Homed(c, t)'
      BY <3>2 DEF Homed
    <3>7. \A x \in CollectId \cap {item.collect : item \in ToSet(token)} : Homed(x, t)'
      BY <2>2, <2>6, <3>5, <3>6 DEF HomeInv
    <3> QED
      BY <2>6, <3>2, <3>3, <3>4, <3>5, <3>6, <3>7 DEF HomeInv
  <2>7. ASSUME NEW token \in Seq(TokenItem), NEW c \in AnyTrace \cup {-1},
               nextRaw <= MaxRaw, nextRaw' = nextRaw + 1, NewSpan(t, token, c),
               c \in {NotSampled, -1}, nextRoot' = nextRoot,
               \A x \in {item.collect : item \in ToSet(token)} :
                  x = NotSampled \/ \E r \in DOMAIN spans : MayUse(t, r) /\ x \in SpanTraces(r)
        PROVE  SpansFine
    <3>1. ~Root(t) /\ NotSampled \notin CollectId
      BY <2>1, <2>7 DEF Root, SpansOK, CollectId, NotSampled
    <3> HIDE DEF SpansFine
    <3> QED
      BY <2>6, <2>7, <3>1
  <2>a. ASSUME NEW token \in Seq(TokenItem), NEW c \in AnyTrace \cup {-1},
               nextRaw <= MaxRaw, nextRaw' = nextRaw + 1, NewSpan(t, token, c),
               Root(t), c = nextRoot, {item.collect : item \in ToSet(token)} = {nextRoot}
        PROVE  SpansFine
    <3> HIDE DEF SpansFine
    <3> QED
      BY <2>6, <2>a
  <2>8. SpansFine
    <3> HIDE DEF SpansFine
    <3> QED
      BY <1>1, <2>1, <2>4, <2>5, <2>7, <2>a, CallSpans
  <2>9. ASSUME NEW m \in ToSet(todo'[t]), NEW c \in CollectId \cap Traces(m)
        PROVE  Homed(c, t)'
    <3>1. CASE Root(t) /\ m = StartCollect(nextRoot)
      <4>1. c = nextRoot
        BY <2>9, <3>1 DEF StartCollect, Traces
      <4> QED
        BY <2>8, <3>1, <4>1
    <3>2. ASSUME NEW s \in DOMAIN spans, MayUse(t, s), Traces(m) \subseteq SpanTraces(s)
          PROVE  Homed(c, t)'
      BY <2>2, <2>8, <2>9, <3>2 DEF HomeInv
    <3>3. ASSUME NEW s \in DOMAIN spans, MayUse(t, s),
                 m = DropCollect(spans[s].collect) \/ m = CommitCollect(spans[s].collect)
          PROVE  Homed(c, t)'
      <4>1. c = spans[s].collect
        BY <2>9, <3>3 DEF DropCollect, CommitCollect, Traces
      <4>2. Homed(c, t)
        BY <2>2, <3>3, <4>1 DEF Homed
      <4> QED
        BY <2>8, <4>2
    <3> QED
      BY <2>1, <2>9, <3>1, <3>2, <3>3, <1>1, CallCommands
  <2>10. \A u \in Thread : \A m \in Held(u)' : m \in Held(u) \/ (u = t /\ m \in ToSet(todo'[t]))
    BY <2>1 DEF Held
  <2> HIDE DEF SpansFine
  <2>11. ASSUME SpansFine
         PROVE  HomeInv'
    BY <2>9, <2>10, <2>11 DEF SpansFine, HomeInv
  <2> QED
    BY <2>8, <2>11
<1>2. CASE ~ \E t \in Thread : Call(t)
  <2>1. UNCHANGED spans /\ \A t \in Thread : Held(t)' \subseteq Held(t)
    BY <1>2, OtherSteps
  <2>2. \A c, t : Homed(c, t)' <=> Homed(c, t)
    BY <2>1 DEF Homed
  <2>3. \A s \in DOMAIN spans : SpanTraces(s)' = SpanTraces(s)
    BY <2>1 DEF SpanTraces
  <2> QED
    BY <2>1, <2>2, <2>3 DEF HomeInv
<1> QED
  BY <1>1, <1>2

LEMMA InitHomes == Init => HomeInv
PROOF
<1> SUFFICES ASSUME Init
             PROVE  HomeInv
  OBVIOUS
<1>1. ToSet(<<>>) = {} /\ DOMAIN spans = {} /\ \A t \in Thread : todo[t] = <<>>
  BY ShortRanges DEF Init
<1>2. \A t \in Thread : Held(t) = {}
  BY <1>1 DEF Init, Held, Carried, Ring, Parked, NewChannel
<1> QED
  BY <1>1, <1>2 DEF HomeInv

\* The spans after a call: as they were, except that one may have ended and one
\* may be new.
LEMMA SpansAfter ==
  ASSUME TypeInv, NEW t \in Thread, Call(t)
  PROVE  /\ \A s \in DOMAIN spans :
              /\ s \in DOMAIN spans' /\ SpanTraces(s)' = SpanTraces(s)
              /\ spans'[s].collect = spans[s].collect /\ spans'[s].home = spans[s].home
         /\ \A s \in DOMAIN spans' \ DOMAIN spans :
              \/ Root(t) /\ SpanTraces(s)' = {nextRoot} /\ spans'[s].collect = nextRoot
              \/ /\ spans'[s].collect \in {NotSampled, -1}
                 /\ \A x \in SpanTraces(s)' :
                       x = NotSampled \/ \E r \in DOMAIN spans : MayUse(t, r) /\ x \in SpanTraces(r)
         /\ nextRoot \notin Known /\ Known \subseteq Known'
PROOF
<1> DEFINE Goal ==
         /\ \A s \in DOMAIN spans :
              /\ s \in DOMAIN spans' /\ SpanTraces(s)' = SpanTraces(s)
              /\ spans'[s].collect = spans[s].collect /\ spans'[s].home = spans[s].home
         /\ \A s \in DOMAIN spans' \ DOMAIN spans :
              \/ Root(t) /\ SpanTraces(s)' = {nextRoot} /\ spans'[s].collect = nextRoot
              \/ /\ spans'[s].collect \in {NotSampled, -1}
                 /\ \A x \in SpanTraces(s)' :
                       x = NotSampled \/ \E r \in DOMAIN spans : MayUse(t, r) /\ x \in SpanTraces(r)
<1>1. SpansOK /\ nextRoot \in Nat
  BY CollectorAssumption DEF TypeInv, SpansOK
<1>2. ASSUME UNCHANGED <<spans, nextRoot>>
      PROVE  Goal
  BY <1>2 DEF SpanTraces
<1>3. ASSUME NEW s \in DOMAIN spans, spans' = [spans EXCEPT ![s].live = FALSE]
      PROVE  Goal
  <2>1. \A r \in DOMAIN spans : spans[r] \in SpanObject
    BY <1>1 DEF SpansOK
  <2>2. /\ DOMAIN spans' = DOMAIN spans
        /\ \A r \in DOMAIN spans : spans'[r] = IF r = s THEN [spans[s] EXCEPT !.live = FALSE] ELSE spans[r]
    BY <1>3
  <2>3. \A r \in DOMAIN spans : /\ spans'[r].collect = spans[r].collect /\ spans'[r].home = spans[r].home
                                /\ spans'[r].token = spans[r].token
    BY <2>1, <2>2 DEF SpanObject
  <2> QED
    BY <2>2, <2>3 DEF SpanTraces
<1>4. ASSUME NEW token \in Seq(TokenItem), NEW c \in AnyTrace \cup {-1},
             nextRaw <= MaxRaw, nextRaw' = nextRaw + 1, NewSpan(t, token, c),
             \/ Root(t) /\ c = nextRoot /\ {item.collect : item \in ToSet(token)} = {nextRoot}
             \/ /\ c \in {NotSampled, -1}
                /\ \A x \in {item.collect : item \in ToSet(token)} :
                      x = NotSampled \/ \E r \in DOMAIN spans : MayUse(t, r) /\ x \in SpanTraces(r)
      PROVE  Goal
  <2>1. PICK new : new = nextRaw
    OBVIOUS
  <2>2. /\ DOMAIN spans' = DOMAIN spans \cup {new} /\ new \notin DOMAIN spans
        /\ spans'[new] = [live |-> TRUE, home |-> t, token |-> token, collect |-> c]
        /\ \A s \in DOMAIN spans : spans'[s] = spans[s]
    BY <1>1, <1>4, <2>1, NewSpanType
  <2>3. spans'[new].collect = c /\ SpanTraces(new)' = {item.collect : item \in ToSet(token)}
    BY <2>2 DEF SpanTraces
  <2>4. \A s \in DOMAIN spans : SpanTraces(s)' = SpanTraces(s)
    BY <2>2 DEF SpanTraces
  <2> QED
    BY <1>4, <2>2, <2>3, <2>4
<1>5. Goal
  <2> HIDE DEF Goal
  <2> QED
    BY <1>2, <1>3, <1>4, CallSpans
<1>6. nextRoot \notin Known /\ Known \subseteq Known'
  <2>1. nextRoot' = nextRoot \/ nextRoot' = nextRoot + 1
    BY CallSpans
  <2> QED
    BY <1>1, <2>1 DEF Known
<1> QED
  BY <1>5, <1>6

-----------------------------------------------------------------------------
(* A trace starts before anything else about it is sent. *)

\* The spans whose commands the channels have accepted.
SentPairs == {Pair(a) : a \in {x \in seen.sent : IsSpan(x)}}

NewPairs(m) == IF m.cmd = "submit" THEN PairsOf(ToSet(Copies(m))) ELSE {}

LEMMA SentGrows ==
  ASSUME SeenOK, NEW m \in Command, seen' = Record(m)
  PROVE  SentPairs' = SentPairs \cup NewPairs(m)
PROOF
<1>1. seen'.sent = seen.sent \cup SentBy(m)
  BY RecordEffect
<1>2. {Pair(a) : a \in {x \in SentBy(m) : IsSpan(x)}} = NewPairs(m)
  BY SubmitSends DEF SentBy, NewPairs
<1> QED
  BY <1>1, <1>2 DEF SentPairs

LEMMA PairTraces ==
  ASSUME NEW m \in Command, NEW p \in NewPairs(m)
  PROVE  p[1] \in Traces(m) /\ p \in SpanPair
PROOF
<1>1. m.cmd = "submit" /\ p \in PairsOf(ToSet(Copies(m)))
  BY DEF NewPairs
<1>2. PICK coll \in ToSet(Copies(m)), raw \in RawSpan : p = <<coll.trace, raw.id>>
  BY <1>1, PairsOfMember
<1>3. PICK item \in ToSet(m.token) : coll.trace = item.collect
  BY <1>1, <1>2, CopiesType
<1>4. item.collect \in CollectId
  <2>1. m.token \in Seq(Sampled)
    BY <1>1 DEF Command
  <2>2. item \in Sampled
    BY <1>3, <2>1, ElementOfSeq, LenProperties DEF ToSet
  <2> QED
    BY <2>2 DEF Sampled
<1> QED
  BY <1>1, <1>2, <1>3, <1>4 DEF Traces, SpanPair, RawSpan

\* Apart from the command that starts it, there is nothing about the trace.
Fresh(c) ==
  /\ \A t \in Thread : \A m \in Carried(t) : c \notin Traces(m)
  /\ \A t \in Thread : \A m \in ToSet(todo[t]) : c \in Traces(m) => m = StartCollect(c)
  /\ \A m \in ToSet(batch) : c \notin Traces(m)
  /\ c \notin DOMAIN active /\ c \notin seen.done
  /\ \A p \in SentPairs : p[1] # c
  /\ \A s \in DOMAIN spans : c \in SpanTraces(s) => spans[s].collect = c

\* Nothing about the trace precedes its start in a channel.
StartLeads(c) ==
  \A t \in Thread : \A i, j \in DOMAIN Ring(t) :
     Ring(t)[i] = StartCollect(c) /\ j < i => c \notin Traces(Ring(t)[j])

\* Nor has it reached the collector before it.
Unstarted(c) ==
  c \notin DOMAIN active /\ c \notin seen.done /\ \A m \in ToSet(batch) : c \notin Traces(m)

FirstInv ==
  /\ seen.cancelled \subseteq Known /\ \A p \in SentPairs : p[1] \in Known
  /\ \A c \in CollectId : \A t \in Thread : StartCollect(c) \in ToSet(todo[t]) => Fresh(c)
  /\ \A c \in CollectId : StartLeads(c)
  /\ \A c \in CollectId : \A t \in Thread : StartCollect(c) \in Carried(t) => Unstarted(c)
  /\ \A c \in CollectId : StartCollect(c) \in ToSet(batch) => c \notin DOMAIN active /\ c \notin seen.done

LEMMA NotSampledOut == NotSampled \notin CollectId
PROOF
BY CollectorAssumption DEF NotSampled, CollectId

\* While the start of a trace waits to be sent, no thread can use its root, and
\* so no call adds to the trace.
LEMMA CallFirst ==
  ASSUME FlowInv, RootInv, FirstInv, NEW t \in Thread, Call(t)
  PROVE  FirstInv'
PROOF
<1>1. /\ TypeInv /\ SpansOK /\ todo[t] = <<>> /\ ToSet(<<>>) = {}
      /\ UNCHANGED <<batch, active, seen>> /\ \A u \in Thread \ {t} : todo'[u] = todo[u]
      /\ \A u \in Thread : Ring(u)' = Ring(u) /\ Carried(u)' = Carried(u)
  BY CallType, ShortRanges DEF FlowInv, TypeInv, collVars, Carried, Ring, Parked, Idle
<1>2. nextRoot \notin Known /\ Known \subseteq Known' /\ SentPairs' = SentPairs
  BY <1>1, SpansAfter DEF SentPairs
<1>3. ASSUME NEW c \in CollectId, NEW u \in Thread, StartCollect(c) \in ToSet(todo'[u])
      PROVE  Fresh(c)'
  <2>1. CASE Root(t) /\ c = nextRoot
    <3>1. /\ \A v \in Thread : \A m \in Held(v) : c \notin Traces(m)
          /\ \A m \in ToSet(batch) : c \notin Traces(m)
          /\ c \notin DOMAIN active /\ c \notin seen.done
          /\ \A p \in SentPairs : p[1] # c
          /\ \A s \in DOMAIN spans : c \notin SpanTraces(s)
      BY <1>2, <2>1 DEF RootInv, FirstInv
    <3>2. ToSet(todo'[t]) = {StartCollect(c)}
      <4>1. todo'[t] = <<StartCollect(c)>>
        BY <1>1, <2>1 DEF Root, Issue, TypeInv, ThreadsOK
      <4> QED
        BY <4>1, ShortRanges
    <3>3. \A v \in Thread : \A m \in ToSet(todo'[v]) : c \in Traces(m) => m = StartCollect(c)
      BY <1>1, <3>1, <3>2 DEF Held
    <3>4. \A s \in DOMAIN spans' : c \in SpanTraces(s)' => spans'[s].collect = c
      BY <1>1, <2>1, <3>1, SpansAfter, NotSampledOut
    <3>5. \A v \in Thread : \A m \in Carried(v) : c \notin Traces(m)
      BY <3>1 DEF Held
    <3> QED
      BY <1>1, <1>2, <3>1, <3>3, <3>4, <3>5 DEF Fresh
  <2>2. CASE ~(Root(t) /\ c = nextRoot)
    <3>1. u # t
      <4>1. SUFFICES ASSUME StartCollect(c) \in ToSet(todo'[t])
                     PROVE  FALSE
        BY <1>3
      <4> QED
        BY <1>1, <2>2, <4>1, CallCommands DEF StartCollect, DropCollect, CommitCollect
    <3>2. StartCollect(c) \in ToSet(todo[u]) /\ todo[u] # <<>> /\ todo[u][1] = StartCollect(c) /\ Fresh(c)
      <4>1. StartCollect(c) \in ToSet(todo[u]) /\ StartCollect(c).cmd = "start"
        BY <1>1, <1>3, <3>1 DEF StartCollect
      <4>2. todo[u] = <<StartCollect(c)>>
        BY <4>1 DEF RootInv
      <4> QED
        BY <4>1, <4>2 DEF FirstInv
    <3>3. c # nextRoot
      BY <1>2, <3>2, ShortCommands DEF RootInv, Held
    <3>4. \A s \in DOMAIN spans : MayUse(t, s) => c \notin SpanTraces(s) /\ spans[s].collect # c
      BY <3>2 DEF Fresh, MayUse, Live, BeingCreated
    <3>5. ASSUME NEW m \in ToSet(todo'[t])
          PROVE  c \notin Traces(m)
      BY <1>1, <3>3, <3>4, CallCommands DEF StartCollect, DropCollect, CommitCollect, Traces
    <3>6. \A s \in DOMAIN spans' : c \in SpanTraces(s)' => spans'[s].collect = c
      BY <1>1, <3>2, <3>3, <3>4, SpansAfter, NotSampledOut DEF Fresh
    <3>7. \A v \in Thread : \A m \in ToSet(todo'[v]) : c \in Traces(m) => m = StartCollect(c)
      BY <1>1, <3>2, <3>5 DEF Fresh
    <3> QED
      BY <1>1, <1>2, <3>2, <3>6, <3>7 DEF Fresh
  <2> QED
    BY <2>1, <2>2
<1>4. \A c \in CollectId : StartLeads(c)' /\ (Unstarted(c) => Unstarted(c)')
  BY <1>1 DEF FirstInv, StartLeads, Unstarted
<1> QED
  BY <1>1, <1>2, <1>3, <1>4 DEF FirstInv

\* Sending it: the root is then the only span of its trace.
LEMMA TakesFirst ==
  ASSUME ~Migrate, FlowInv, RootInv, HomeInv, FirstInv, NEW t \in Thread, Pushes(t) \/ Parks(t) \/ Loses(t)
  PROVE  FirstInv'
PROOF
<1>1. TypeInv /\ SeenOK /\ Takes(t)
  BY DEF FlowInv, Pushes, Parks, Loses
<1>2. PICK m \in Command : m = Cmd(t)
  BY <1>1, TakesSets
<1>3. /\ m \in ToSet(todo[t]) /\ todo'[t] = Tail(todo[t]) /\ ToSet(todo'[t]) \subseteq ToSet(todo[t])
      /\ \A u \in Thread \ {t} : todo'[u] = todo[u] /\ Carried(u)' = Carried(u) /\ Ring(u)' = Ring(u)
      /\ UNCHANGED <<batch, active, spans, nextRoot>>
  BY <1>1, <1>2, TakesSets DEF Takes
<1>4. Carried(t)' \subseteq Carried(t) \cup {m}
  BY <1>1, <1>2, AcceptSets DEF Loses, Carried
<1>5. /\ SentPairs' \subseteq SentPairs \cup NewPairs(m)
      /\ seen'.cancelled \subseteq seen.cancelled \cup IdIf(m, "drop")
      /\ seen'.done = seen.done
  BY <1>1, <1>2, SentGrows, RecordEffect DEF Pushes, Parks, Loses, SentPairs
<1>6. Traces(m) \subseteq Known /\ Known' = Known
  BY <1>3 DEF RootInv, Held, Known
<1>7. ASSUME NEW c \in CollectId, NEW u \in Thread, StartCollect(c) \in ToSet(todo'[u])
      PROVE  Fresh(c)'
  <2>1. StartCollect(c) \in ToSet(todo[u]) /\ Fresh(c)
    BY <1>3, <1>7 DEF FirstInv
  <2>2. c \notin Traces(m)
    <3>1. SUFFICES ASSUME c \in Traces(m)
                   PROVE  FALSE
      OBVIOUS
    <3>2. m = StartCollect(c)
      BY <1>3, <2>1, <3>1 DEF Fresh
    <3>3. t = u
      BY <1>3, <2>1, <3>2, ShortCommands, OneHome DEF HomeInv, Held
    <3>4. todo[t] = <<m>>
      BY <1>3, <3>2, ShortCommands DEF RootInv
    <3>5. ToSet(todo'[t]) = {}
      BY <1>3, <3>4, ShortRanges
    <3> QED
      BY <1>7, <3>3, <3>5
  <2>3. \A p \in NewPairs(m) : p[1] # c
    BY <2>2, PairTraces
  <2>4. \A s \in DOMAIN spans : SpanTraces(s)' = SpanTraces(s)
    BY <1>3 DEF SpanTraces
  <2> QED
    BY <1>3, <1>4, <1>5, <2>1, <2>2, <2>3, <2>4 DEF Fresh
<1>8. ASSUME NEW c \in CollectId
      PROVE  StartLeads(c)'
  <2>1. CASE Pushes(t)
    <3>1. Ring(t)' = Append(Ring(t), m) /\ Ring(t) \in Seq(Command)
      BY <1>1, <1>2, <2>1, CommandSeqs DEF Pushes
    <3>2. \A i \in DOMAIN Ring(t) : Ring(t)[i] \in Carried(t)
      BY DEF Carried, ToSet
    <3>3. m = StartCollect(c) => \A j \in DOMAIN Ring(t) : c \notin Traces(Ring(t)[j])
      BY <1>3, <3>2 DEF FirstInv, Fresh
    <3>4. /\ Len(Ring(t)) \in Nat /\ DOMAIN Ring(t) = 1 .. Len(Ring(t))
          /\ DOMAIN (Ring(t)') = 1 .. Len(Ring(t)) + 1
          /\ \A i \in 1 .. Len(Ring(t)) : (Ring(t)')[i] = Ring(t)[i]
          /\ (Ring(t)')[Len(Ring(t)) + 1] = m
      BY <3>1, AppendRange, LenProperties
    <3>5. \A i, j \in DOMAIN (Ring(t)') : (Ring(t)')[i] = StartCollect(c) /\ j < i => c \notin Traces((Ring(t)')[j])
      BY <3>3, <3>4 DEF FirstInv, StartLeads
    <3> QED
      BY <1>3, <3>5 DEF FirstInv, StartLeads
  <2>2. CASE ~Pushes(t)
    BY <1>3, <2>2 DEF FirstInv, StartLeads, Parks, Loses
  <2> QED
    BY <2>1, <2>2
<1>9. ASSUME NEW c \in CollectId, NEW u \in Thread, StartCollect(c) \in Carried(u)'
      PROVE  Unstarted(c)'
  <2>1. Unstarted(c)
    <3>1. CASE StartCollect(c) \in Carried(u)
      BY <3>1 DEF FirstInv
    <3>2. CASE StartCollect(c) \notin Carried(u)
      BY <1>3, <1>4, <1>9, <3>2 DEF FirstInv, Fresh, Unstarted
    <3> QED
      BY <3>1, <3>2
  <2> QED
    BY <1>3, <1>5, <2>1 DEF Unstarted
<1>10. seen'.cancelled \subseteq Known' /\ \A p \in SentPairs' : p[1] \in Known'
  <2>1. IdIf(m, "drop") \subseteq Known
    BY <1>6 DEF IdIf, Traces
  <2>2. \A p \in NewPairs(m) : p[1] \in Known
    BY <1>6, PairTraces
  <2> QED
    BY <1>5, <1>6, <2>1, <2>2 DEF FirstInv
<1> QED
  BY <1>3, <1>5, <1>7, <1>8, <1>9, <1>10 DEF FirstInv

\* Only commands that are forced are ever parked: never a start, nor spans.
LEMMA ParkedForced ==
  ASSUME TypeInv, NEW t \in Thread, NEW m \in ToSet(Parked(t))
  PROVE  m \in Command /\ m.cmd \in {"drop", "commit"} /\ \A c : m # StartCollect(c)
PROOF
<1>1. m \in Command /\ Forced(m)
  BY CommandSeqs DEF TypeInv, ChannelsOK, Parked
<1> QED
  BY <1>1 DEF Forced, StartCollect

\* A ring after a command has been received, or a parked one has entered it.
LEMMA RingMoves ==
  ASSUME TypeInv, NEW t \in Thread
  PROVE  /\ Receives(t) =>
              /\ Head(Ring(t)) = Ring(t)[1] /\ 1 \in DOMAIN Ring(t) /\ Head(Ring(t)) \in Carried(t)
              /\ \A i \in DOMAIN (Ring(t)') : i + 1 \in DOMAIN Ring(t) /\ (Ring(t)')[i] = Ring(t)[i + 1]
              /\ \A i \in DOMAIN Ring(t) : i # 1 => i - 1 \in DOMAIN (Ring(t)') /\ (Ring(t)')[i - 1] = Ring(t)[i]
         /\ \A m \in Command : Ring(t)' = Append(Ring(t), m) =>
              /\ DOMAIN (Ring(t)') = DOMAIN Ring(t) \cup {Len(Ring(t)) + 1}
              /\ \A i \in DOMAIN Ring(t) : i < Len(Ring(t)) + 1 /\ (Ring(t)')[i] = Ring(t)[i]
              /\ (Ring(t)')[Len(Ring(t)) + 1] = m
         /\ DOMAIN Ring(t) \subseteq Nat /\ Len(Ring(t)) \in Nat
PROOF
<1>1. Ring(t) \in Seq(Command) /\ Len(Ring(t)) \in Nat /\ DOMAIN Ring(t) = 1 .. Len(Ring(t))
  BY CommandSeqs, LenProperties
<1>2. ASSUME Receives(t)
      PROVE  /\ Head(Ring(t)) = Ring(t)[1] /\ 1 \in DOMAIN Ring(t) /\ Head(Ring(t)) \in Carried(t)
             /\ \A i \in DOMAIN (Ring(t)') : i + 1 \in DOMAIN Ring(t) /\ (Ring(t)')[i] = Ring(t)[i + 1]
             /\ \A i \in DOMAIN Ring(t) : i # 1 => i - 1 \in DOMAIN (Ring(t)') /\ (Ring(t)')[i - 1] = Ring(t)[i]
  <2>1. Ring(t) # <<>> /\ Ring(t)' = Tail(Ring(t))
    BY <1>2 DEF Receives
  <2>2. /\ Len(Ring(t)) > 0 /\ Head(Ring(t)) = Ring(t)[1] /\ Tail(Ring(t)) \in Seq(Command)
        /\ Len(Tail(Ring(t))) = Len(Ring(t)) - 1
        /\ \A i \in 1 .. Len(Ring(t)) - 1 : Tail(Ring(t))[i] = Ring(t)[i + 1]
        /\ Head(Ring(t)) \in ToSet(Ring(t))
    BY <1>1, <2>1, HeadTailRange
  <2>3. DOMAIN (Ring(t)') = 1 .. Len(Ring(t)) - 1
    BY <2>1, <2>2, LenProperties
  <2>4. \A i \in 1 .. Len(Ring(t)) - 1 : (Ring(t)')[i] = Ring(t)[i + 1]
    BY <2>1, <2>2
  <2>5. ASSUME NEW i \in DOMAIN Ring(t), i # 1
        PROVE  i - 1 \in DOMAIN (Ring(t)') /\ (Ring(t)')[i - 1] = Ring(t)[i]
    <3>1. i - 1 \in 1 .. Len(Ring(t)) - 1 /\ (i - 1) + 1 = i
      BY <1>1, <2>5
    <3> QED
      BY <2>3, <2>4, <3>1
  <2> QED
    BY <1>1, <2>2, <2>3, <2>4, <2>5 DEF Carried
<1>3. ASSUME NEW m \in Command, Ring(t)' = Append(Ring(t), m)
      PROVE  /\ DOMAIN (Ring(t)') = DOMAIN Ring(t) \cup {Len(Ring(t)) + 1}
             /\ \A i \in DOMAIN Ring(t) : i < Len(Ring(t)) + 1 /\ (Ring(t)')[i] = Ring(t)[i]
             /\ (Ring(t)')[Len(Ring(t)) + 1] = m
  <2>1. DOMAIN (Ring(t)') = 1 .. Len(Ring(t)) + 1
    BY <1>1, <1>3, AppendRange, LenProperties
  <2>2. \A i \in 1 .. Len(Ring(t)) : (Ring(t)')[i] = Ring(t)[i]
    BY <1>1, <1>3, AppendRange
  <2>3. (Ring(t)')[Len(Ring(t)) + 1] = m
    BY <1>1, <1>3, AppendRange
  <2> QED
    BY <1>1, <2>1, <2>2, <2>3
<1>4. DOMAIN Ring(t) \subseteq Nat /\ Len(Ring(t)) \in Nat
  BY <1>1
<1> QED
  BY <1>2, <1>3, <1>4, Zenon

\* The other steps move commands on in order.
LEMMA MovesFirst ==
  ASSUME ~Migrate, FlowInv, RootInv, HomeInv, FirstInv, NEW t \in Thread, Unparks(t) \/ Receives(t)
  PROVE  FirstInv'
PROOF
<1>1. TypeInv
  BY DEF FlowInv
<1>2. /\ \A u \in Thread : Carried(u)' \subseteq Carried(u)
      /\ UNCHANGED <<todo, active, spans, nextRoot, seen>> /\ Known' = Known /\ SentPairs' = SentPairs
      /\ \A s \in DOMAIN spans : SpanTraces(s)' = SpanTraces(s)
      /\ \A u \in Thread \ {t} : Ring(u)' = Ring(u)
  BY <1>1, UnparkSets, ReceiveSets DEF Known, SentPairs, SpanTraces, Unparks, Receives
<1>3. CASE Unparks(t)
  <2>1. batch' = batch
    BY <1>1, <1>3, UnparkSets
  <2>2. ASSUME NEW c \in CollectId
        PROVE  StartLeads(c)'
    <3>1. CASE Ring(t)' = Ring(t)
      BY <1>2, <3>1 DEF FirstInv, StartLeads
    <3>2. ASSUME NEW m \in ToSet(Parked(t)), Ring(t)' = Append(Ring(t), m)
          PROVE  StartLeads(c)'
      <4>1. m \in Command /\ m # StartCollect(c)
        BY <1>1, ParkedForced
      <4>2. \A i, j \in DOMAIN (Ring(t)') : (Ring(t)')[i] = StartCollect(c) /\ j < i => c \notin Traces((Ring(t)')[j])
        BY <1>1, <3>2, <4>1, RingMoves DEF FirstInv, StartLeads
      <4> QED
        BY <1>2, <4>2 DEF FirstInv, StartLeads
    <3> QED
      BY <1>3, <3>1, <3>2 DEF Unparks
  <2> QED
    BY <1>2, <2>1, <2>2 DEF FirstInv, Fresh, Unstarted
<1>4. CASE Receives(t)
  <2> DEFINE m == Head(Ring(t))
  <2>1. ToSet(batch') = ToSet(batch) \cup {m} /\ m \in Carried(t) /\ m = Ring(t)[1] /\ 1 \in DOMAIN Ring(t)
    BY <1>1, <1>4, ReceiveSets, RingMoves
  <2>2. ASSUME NEW c \in CollectId
        PROVE  StartLeads(c)'
    <3>1. \A i, j \in DOMAIN (Ring(t)') : (Ring(t)')[i] = StartCollect(c) /\ j < i => c \notin Traces((Ring(t)')[j])
      <4>1. SUFFICES ASSUME NEW i \in DOMAIN (Ring(t)'), NEW j \in DOMAIN (Ring(t)'),
                            (Ring(t)')[i] = StartCollect(c), j < i
                     PROVE  c \notin Traces((Ring(t)')[j])
        OBVIOUS
      <4>2. /\ i + 1 \in DOMAIN Ring(t) /\ (Ring(t)')[i] = Ring(t)[i + 1]
            /\ j + 1 \in DOMAIN Ring(t) /\ (Ring(t)')[j] = Ring(t)[j + 1]
        BY <1>1, <1>4, RingMoves
      <4>3. i \in Nat /\ j \in Nat
        <5>1. Ring(t)' \in Seq(Command)
          BY <1>1, <1>4, CommandSeqs, HeadTailRange DEF Receives
        <5> QED
          BY <5>1, LenProperties
      <4>4. j + 1 < i + 1
        BY <4>1, <4>3
      <4> QED
        BY <4>1, <4>2, <4>4 DEF FirstInv, StartLeads
    <3> QED
      BY <1>2, <3>1 DEF FirstInv, StartLeads
  <2>3. ASSUME NEW c \in CollectId, NEW u \in Thread, StartCollect(c) \in Carried(u)'
        PROVE  Unstarted(c)'
    <3>1. StartCollect(c) \in Carried(u) /\ Unstarted(c)
      BY <1>2, <2>3 DEF FirstInv
    <3>2. c \notin Traces(m)
      <4>1. SUFFICES ASSUME c \in Traces(m)
                     PROVE  FALSE
        OBVIOUS
      <4>2. Homed(c, t) /\ Homed(c, u)
        BY <2>1, <3>1, <4>1, ShortCommands DEF HomeInv, Held
      <4>3. t = u
        BY <4>2, OneHome
      <4>4. StartCollect(c) \in ToSet(Ring(t)')
        <5>1. StartCollect(c) \notin ToSet(Parked(t)')
          BY <1>1, <1>4, ParkedForced DEF Receives
        <5> QED
          BY <2>3, <4>3, <5>1 DEF Carried
      <4>5. PICK i \in DOMAIN (Ring(t)') : (Ring(t)')[i] = StartCollect(c)
        BY <4>4 DEF ToSet
      <4>6. i + 1 \in DOMAIN Ring(t) /\ Ring(t)[i + 1] = StartCollect(c)
        BY <1>1, <1>4, <4>5, RingMoves
      <4>7. i \in Nat /\ 1 < i + 1
        <5>1. Ring(t)' \in Seq(Command)
          BY <1>1, <1>4, CommandSeqs, HeadTailRange DEF Receives
        <5> QED
          BY <5>1, LenProperties
      <4> QED
        BY <2>1, <4>1, <4>6, <4>7 DEF FirstInv, StartLeads
    <3> QED
      BY <1>2, <2>1, <3>1, <3>2 DEF Unstarted
  <2>4. ASSUME NEW c \in CollectId, StartCollect(c) \in ToSet(batch')
        PROVE  c \notin DOMAIN active /\ c \notin seen.done
    BY <2>1, <2>4 DEF FirstInv, Unstarted
  <2>5. ASSUME NEW c \in CollectId, NEW u \in Thread, StartCollect(c) \in ToSet(todo[u])
        PROVE  Fresh(c)'
    <3>1. Fresh(c) /\ c \notin Traces(m)
      BY <2>1, <2>5 DEF FirstInv, Fresh
    <3> QED
      BY <1>2, <2>1, <3>1 DEF Fresh
  <2> QED
    BY <1>2, <2>2, <2>3, <2>4, <2>5 DEF FirstInv
<1> QED
  BY <1>3, <1>4

LEMMA NextFirst == ~Migrate /\ FlowInv /\ RootInv /\ HomeInv /\ FirstInv /\ [Next]_vars => FirstInv'
PROOF
<1> SUFFICES ASSUME ~Migrate, FlowInv, RootInv, HomeInv, FirstInv, [Next]_vars
             PROVE  FirstInv'
  OBVIOUS
<1>1. TypeInv /\ SeenOK
  BY DEF FlowInv
<1>2. CASE NothingMoves
  <2>1. /\ UNCHANGED <<spans, nextRoot, todo, batch, active>>
        /\ \A t \in Thread : Carried(t)' = Carried(t) /\ Ring(t)' = Ring(t)
        /\ seen'.cancelled = seen.cancelled /\ seen'.done = seen.done /\ seen'.sent = seen.sent
    BY <1>1, <1>2 DEF NothingMoves, appVars, Carried, SeenOK
  <2>2. Known' = Known /\ SentPairs' = SentPairs /\ \A s \in DOMAIN spans : SpanTraces(s)' = SpanTraces(s)
    BY <2>1 DEF Known, SentPairs, SpanTraces
  <2> QED
    BY <2>1, <2>2 DEF FirstInv, Fresh, StartLeads, Unstarted
<1>3. CASE ProcessBatch
  <2>1. /\ UNCHANGED <<spans, nextRoot, todo>> /\ batch' = <<>> /\ ToSet(<<>>) = {}
        /\ \A t \in Thread : Carried(t)' = Carried(t) /\ Ring(t)' = Ring(t)
    BY <1>3, ShortRanges DEF ProcessBatch, appVars, Carried, Ring, Parked
  <2>2. /\ seen'.cancelled = seen.cancelled /\ seen'.sent = seen.sent
        /\ seen'.done = seen.done \cup Ids("commit") /\ DOMAIN active' \subseteq DOMAIN active \cup Ids("start")
    BY <1>1, <1>3, BatchHistory, BatchEffect DEF StartedTraces
  <2>3. Known' = Known /\ SentPairs' = SentPairs /\ \A s \in DOMAIN spans : SpanTraces(s)' = SpanTraces(s)
    BY <2>1, <2>2 DEF Known, SentPairs, SpanTraces
  <2>4. \A c \in Ids("commit") \cup Ids("start") : \E m \in ToSet(batch) : c \in Traces(m)
    BY DEF Ids, Traces
  <2>5. \A c \in CollectId : /\ Fresh(c) => Fresh(c)'
                             /\ Unstarted(c) => Unstarted(c)'
                             /\ StartLeads(c)'
    BY <2>1, <2>2, <2>3, <2>4 DEF FirstInv, Fresh, StartLeads, Unstarted
  <2> QED
    BY <2>1, <2>2, <2>3, <2>5 DEF FirstInv
<1> QED
  BY <1>1, <1>2, <1>3, CallFirst, TakesFirst, MovesFirst, StepKinds

\* What holds when spans stay with the thread that created them.
HomeFlow == FlowInv /\ RootInv /\ HomeInv /\ FirstInv

LEMMA HomeFlowHolds == ~Migrate /\ Spec => []HomeFlow
PROOF
<1>1. Init => FirstInv
  <2> SUFFICES ASSUME Init
               PROVE  FirstInv
    OBVIOUS
  <2>1. /\ ToSet(<<>>) = {} /\ seen.cancelled = {} /\ seen.sent = {} /\ batch = <<>>
        /\ \A t \in Thread : todo[t] = <<>> /\ Ring(t) = <<>> /\ Parked(t) = <<>>
    BY ShortRanges DEF Init, Ring, Parked, NewChannel
  <2> QED
    BY <2>1 DEF FirstInv, SentPairs, StartLeads, Carried
<1>2. Init => HomeFlow
  <2>1. Init => FlowInv
    BY InitType, InitSeen, InitAccepted DEF FlowInv
  <2> QED
    BY <1>1, <2>1, InitRoots, InitHomes DEF HomeFlow
<1>3. ~Migrate /\ HomeFlow /\ [Next]_vars => HomeFlow'
  BY NextType, NextSeen, NextAccepted, NextRoots, NextHomes, NextFirst DEF HomeFlow, FlowInv
<1>4. CASE Migrate
  BY <1>4
<1>5. CASE ~Migrate
  <2>1. HomeFlow /\ [Next]_vars => HomeFlow'
    BY <1>3, <1>5
  <2> QED
    BY <1>2, <2>1, PTL DEF Spec
<1> QED
  BY <1>4, <1>5

\* When spans stay with the thread that created them, the start of a trace
\* never reaches the collector after its commit, whatever the order in which the
\* channels are drained, and no collector outlives its commit: active_collectors
\* does not grow with the traces that have ended.
THEOREM NoCollectorOrphaned == ~Migrate /\ Spec => []NoOrphan
PROOF
<1>1. Init => NoOrphan
  BY DEF Init, NoOrphan
<1>2. HomeFlow /\ NoOrphan /\ [Next]_vars => NoOrphan'
  <2> SUFFICES ASSUME HomeFlow, NoOrphan, [Next]_vars
               PROVE  NoOrphan'
    OBVIOUS
  <2>1. TypeInv /\ SeenOK
    BY DEF HomeFlow, FlowInv
  <2>2. CASE ProcessBatch
    <3>1. /\ seen'.done = seen.done \cup Ids("commit") /\ DOMAIN active' = StartedTraces \ Ids("commit")
      BY <2>1, <2>2, BatchHistory, BatchEffect
    <3>2. ASSUME NEW c \in Ids("start")
          PROVE  c \notin seen.done
      <4>1. c \in CollectId /\ StartCollect(c) \in ToSet(batch)
        BY <2>1, CommandSeqs, CommandShape DEF Ids
      <4> QED
        BY <4>1 DEF HomeFlow, FirstInv
    <3> QED
      BY <3>1, <3>2 DEF NoOrphan, StartedTraces
  <2>3. CASE NothingMoves
    BY <2>1, <2>3 DEF NothingMoves, SeenOK, NoOrphan
  <2>4. ASSUME NEW t \in Thread, Pushes(t) \/ Parks(t)
        PROVE  NoOrphan'
    BY <2>1, <2>4, TakesSets, RecordEffect DEF Pushes, Parks, NoOrphan
  <2>5. ASSUME NEW t \in Thread, Call(t) \/ Loses(t) \/ Unparks(t) \/ Receives(t)
        PROVE  NoOrphan'
    BY <2>1, <2>5, CallType, TakesSets, UnparkSets, ReceiveSets DEF Loses, collVars, NoOrphan
  <2> QED
    BY <2>1, <2>2, <2>3, <2>4, <2>5, StepKinds
<1>3. Spec /\ []HomeFlow => []NoOrphan
  BY <1>1, <1>2, PTL DEF Spec
<1> QED
  BY <1>3, HomeFlowHolds, PTL

-----------------------------------------------------------------------------
(* A trace is committed once, and not cancelled after that. *)

OnceInv ==
  /\ \A c \in CollectId : \A t \in Thread : DropCollect(c) \in ToSet(todo[t]) =>
       c \notin seen.committed /\ \A u \in Thread : CommitCollect(c) \notin ToSet(todo[u])
  /\ \A c \in CollectId : \A t \in Thread : CommitCollect(c) \in ToSet(todo[t]) => c \notin seen.committed
  /\ \A t \in Thread : \A i \in DOMAIN todo[t] : todo[t][i].cmd = "commit" => i = Len(todo[t])

LEMMA CommitLast ==
  ASSUME TypeInv, NEW t \in Thread, Call(t)
  PROVE  \A i \in DOMAIN (todo'[t]) : (todo'[t])[i].cmd = "commit" => i = Len(todo'[t])
PROOF
<1> DEFINE Good(seq) == \A i \in DOMAIN seq : seq[i].cmd = "commit" => i = Len(seq)
<1>1. todo[t] = <<>> /\ todo \in [Thread -> Seq(Command)] /\ SpansOK
  BY CallType DEF Idle, TypeInv, ThreadsOK
<1>2. Good(<<>>) /\ \A m : Good(<<m>>)
  OBVIOUS
<1>3. CASE Root(t)
  BY <1>1, <1>2, <1>3 DEF Root, Issue
<1>4. CASE UnsampledRoot(t) \/ \E n \in 1 .. MaxParents : \E parents \in [1 .. n -> SpanId] : Child(t, parents)
  BY <1>1, <1>2, <1>4 DEF UnsampledRoot, Child
<1>5. \A set, token : Good(SubmitSpans(set, token))
  BY <1>2 DEF SubmitSpans
<1>6. ASSUME NEW s \in SpanId, Attach(t, s) \/ PushChildSpans(t, s) \/ Cancel(t, s)
      PROVE  Good(todo'[t])
  <2> HIDE DEF Good
  <2> QED
    BY <1>1, <1>2, <1>5, <1>6 DEF Attach, PushChildSpans, Cancel, Issue
<1>7. ASSUME NEW s \in SpanId, DropSpan(t, s)
      PROVE  Good(todo'[t])
  <2> DEFINE a == SubmitSpans(<<Raw(s, NoParent, "Span")>>, spans[s].token)
             b == IF spans[s].collect = -1 THEN <<>> ELSE <<CommitCollect(spans[s].collect)>>
  <2>1. s \in DOMAIN spans /\ todo'[t] = a \o b
    BY <1>1, <1>7 DEF DropSpan, Issue, SpanDropped, MayUse, Live
  <2>2. spans[s].token \in Seq(TokenItem) /\ spans[s].collect \in AnyTrace \cup {-1} /\ s \in SpanId
    BY <1>1, <2>1, IssueTokenType DEF SpanObject
  <2>3. <<Raw(s, NoParent, "Span")>> \in Seq(RawSpan)
    BY <2>2 DEF Raw, RawSpan, Parent, Kind
  <2>4. a \in Seq(Command) /\ (a = <<>> \/ \E m \in Command : m.cmd = "submit" /\ a = <<m>>)
    BY <2>2, <2>3, SubmitSpansType
  <2>5. b \in Seq(Command) /\ (b = <<>> \/ \E m \in Command : b = <<m>>)
    <3>1. CASE spans[s].collect = -1
      BY <3>1, ShortRanges
    <3>2. CASE spans[s].collect # -1
      <4>1. CommitCollect(spans[s].collect) \in Command /\ b = <<CommitCollect(spans[s].collect)>>
        BY <2>2, <3>2 DEF CommitCollect, Command
      <4> HIDE DEF b
      <4> QED
        BY <4>1
    <3> QED
      BY <3>1, <3>2
  <2> HIDE DEF a, b
  <2>6. CASE a = <<>>
    <3>1. a \o b = b
      BY <2>5, <2>6, ConcatEmptySeq
    <3> QED
      BY <1>2, <2>1, <2>5, <3>1
  <2>7. ASSUME NEW m \in Command, m.cmd = "submit", a = <<m>>
        PROVE  Good(a \o b)
    <3>1. CASE b = <<>>
      <4>1. a \o b = <<m>>
        BY <2>7, <3>1
      <4> QED
        BY <1>2, <4>1
    <3>2. ASSUME NEW n \in Command, b = <<n>>
          PROVE  Good(a \o b)
      <4>1. Len(a) = 1 /\ Len(b) = 1 /\ a[1] = m
        BY <2>7, <3>2
      <4>2. a \o b \in Seq(Command) /\ Len(a \o b) = 2 /\ (a \o b)[1] = m
        BY <2>4, <2>5, <4>1, ConcatProperties
      <4>3. DOMAIN (a \o b) = 1 .. 2
        BY <4>2, LenProperties
      <4> QED
        BY <2>7, <4>2, <4>3
    <3> QED
      BY <2>5, <3>1, <3>2
  <2> QED
    BY <2>1, <2>4, <2>6, <2>7
<1> QED
  BY <1>3, <1>4, <1>6, <1>7 DEF Call

\* Once its commit has been computed, a root is gone: nothing cancels the
\* trace or commits it again.
LEMMA NextOnce == ~Migrate /\ FlowInv /\ RootInv /\ HomeInv /\ OnceInv /\ [Next]_vars => OnceInv'
PROOF
<1> SUFFICES ASSUME ~Migrate, FlowInv, RootInv, HomeInv, OnceInv, [Next]_vars
             PROVE  OnceInv'
  OBVIOUS
<1>1. TypeInv /\ SeenOK
  BY DEF FlowInv
<1>2. ASSUME NEW t \in Thread, Call(t)
      PROVE  OnceInv'
  <2>1. UNCHANGED seen /\ \A u \in Thread \ {t} : todo'[u] = todo[u]
    BY <1>1, <1>2, CallType
  <2>2. ASSUME NEW c \in CollectId, DropCollect(c) \in ToSet(todo'[t]) \/ CommitCollect(c) \in ToSet(todo'[t])
        PROVE  /\ Homed(c, t) /\ c \notin seen.committed
               /\ \A u \in Thread : CommitCollect(c) \notin ToSet(todo[u])
               /\ ~(DropCollect(c) \in ToSet(todo'[t]) /\ CommitCollect(c) \in ToSet(todo'[t]))
    <3>1. PICK s \in DOMAIN spans : MayUse(t, s) /\ spans[s].collect = c
      BY <1>1, <1>2, <2>2, CallCommands DEF StartCollect, DropCollect, CommitCollect
    <3>2. ~Ended(c) /\ Homed(c, t)
      BY <3>1 DEF MayUse, Live, Ended, Homed
    <3>3. ASSUME DropCollect(c) \in ToSet(todo'[t])
          PROVE  CommitCollect(c) \notin ToSet(todo'[t])
      <4>1. todo'[t] = <<DropCollect(c)>>
        BY <1>1, <1>2, <3>3, CallCommands DEF StartCollect, DropCollect, CommitCollect
      <4> QED
        BY <4>1, ShortRanges, ShortCommands
    <3> QED
      BY <3>2, <3>3 DEF RootInv
  <2>3. \A c \in CollectId : \A u \in Thread :
          DropCollect(c) \in ToSet(todo[u]) \/ CommitCollect(c) \in ToSet(todo[u]) => Homed(c, u)
    BY ShortCommands DEF HomeInv, Held
  <2>4. ASSUME NEW c \in CollectId, NEW v \in Thread, DropCollect(c) \in ToSet(todo'[v])
        PROVE  c \notin seen.committed /\ \A u \in Thread : CommitCollect(c) \notin ToSet(todo'[u])
    <3>1. CASE v = t
      BY <2>1, <2>2, <2>4, <3>1
    <3>2. CASE v # t
      <4>1. DropCollect(c) \in ToSet(todo[v]) /\ Homed(c, v)
        BY <2>1, <2>3, <2>4, <3>2
      <4>2. CommitCollect(c) \notin ToSet(todo'[t])
        BY <2>2, <3>2, <4>1, OneHome
      <4> QED
        BY <2>1, <4>1, <4>2 DEF OnceInv
    <3> QED
      BY <3>1, <3>2
  <2>5. ASSUME NEW c \in CollectId, NEW v \in Thread, CommitCollect(c) \in ToSet(todo'[v])
        PROVE  c \notin seen.committed
    BY <2>1, <2>2, <2>5 DEF OnceInv
  <2>6. \A u \in Thread : \A i \in DOMAIN (todo'[u]) : (todo'[u])[i].cmd = "commit" => i = Len(todo'[u])
    BY <1>1, <1>2, <2>1, CommitLast DEF OnceInv
  <2> QED
    BY <2>1, <2>4, <2>5, <2>6 DEF OnceInv
<1>3. CASE ~ \E t \in Thread : Call(t)
  <2>1. /\ \A t \in Thread : /\ ToSet(todo'[t]) \subseteq ToSet(todo[t])
                             /\ todo'[t] = todo[t] \/ (todo[t] # <<>> /\ todo'[t] = Tail(todo[t]))
        /\ \A c \in seen'.committed : c \in seen.committed \/ \E t \in Thread : CommitCollect(c) \in ToSet(todo[t])
    BY <1>3, OtherSteps
  <2>2. ASSUME NEW t \in Thread, NEW i \in DOMAIN (todo'[t]), (todo'[t])[i].cmd = "commit"
        PROVE  i = Len(todo'[t])
    <3>1. CASE todo'[t] = todo[t]
      BY <2>2, <3>1 DEF OnceInv
    <3>2. CASE todo[t] # <<>> /\ todo'[t] = Tail(todo[t])
      <4>1. /\ todo[t] \in Seq(Command) /\ Len(todo[t]) \in Nat /\ Tail(todo[t]) \in Seq(Command)
            /\ Len(Tail(todo[t])) = Len(todo[t]) - 1
            /\ \A k \in 1 .. Len(todo[t]) - 1 : Tail(todo[t])[k] = todo[t][k + 1]
        BY <1>1, <3>2, CommandSeqs, HeadTailRange
      <4>2. i \in 1 .. Len(todo[t]) - 1
        BY <2>2, <3>2, <4>1, LenProperties
      <4>3. i + 1 \in DOMAIN todo[t] /\ todo[t][i + 1].cmd = "commit"
        BY <2>2, <3>2, <4>1, <4>2, LenProperties
      <4>4. i + 1 = Len(todo[t])
        BY <4>3 DEF OnceInv
      <4> QED
        BY <3>2, <4>1, <4>2, <4>4
    <3> QED
      BY <2>1, <3>1, <3>2
  <2>3. ASSUME NEW c \in CollectId, NEW t \in Thread, CommitCollect(c) \in ToSet(todo'[t])
        PROVE  c \notin seen'.committed
    <3>1. c \notin seen.committed /\ CommitCollect(c) \in ToSet(todo[t])
      BY <2>1, <2>3 DEF OnceInv
    <3>2. CASE \E u \in Thread : Pushes(u) \/ Parks(u)
      <4>1. PICK u \in Thread : Pushes(u) \/ Parks(u)
        BY <3>2
      <4>2. PICK m \in Command : m = Cmd(u)
        BY <1>1, <4>1, TakesSets DEF Pushes, Parks
      <4>3. seen'.committed = seen.committed \cup IdIf(m, "commit")
        BY <1>1, <4>1, <4>2, RecordEffect DEF Pushes, Parks
      <4>4. SUFFICES ASSUME c \in IdIf(m, "commit")
                     PROVE  FALSE
        BY <3>1, <4>3
      <4>5. m = CommitCollect(c) /\ m.cmd = "commit"
        BY <4>4, CommandShape DEF IdIf
      <4>6. m \in ToSet(todo[u]) /\ todo[u] # <<>> /\ m = todo[u][1] /\ todo'[u] = Tail(todo[u])
        BY <1>1, <4>1, <4>2, TakesSets DEF Pushes, Parks, Cmd
      <4>7. t = u
        <5>1. CommitCollect(c) \in Held(t) /\ CommitCollect(c) \in Held(u) /\ c \in CollectId \cap Traces(CommitCollect(c))
          BY <3>1, <4>5, <4>6, ShortCommands DEF Held
        <5>2. Homed(c, t) /\ Homed(c, u)
          BY <5>1 DEF HomeInv
        <5> QED
          BY <5>2, OneHome
      <4>8. todo[u] \in Seq(Command) /\ Len(todo[u]) \in Nat /\ Len(todo[u]) > 0
        BY <1>1, <4>6, CommandSeqs, HeadTailRange
      <4>9. Len(todo[u]) = 1
        <5>1. 1 \in DOMAIN todo[u]
          BY <4>8, LenProperties
        <5> QED
          BY <4>5, <4>6, <5>1 DEF OnceInv
      <4>10. ToSet(Tail(todo[u])) = {}
        <5>1. Tail(todo[u]) \in Seq(Command) /\ Len(Tail(todo[u])) = 0
          BY <4>6, <4>8, <4>9, HeadTailRange
        <5> QED
          BY <5>1, LenProperties DEF ToSet
      <4> QED
        BY <2>3, <4>6, <4>7, <4>10
    <3>3. CASE ~ \E u \in Thread : Pushes(u) \/ Parks(u)
      <4>1. seen'.committed = seen.committed
        <5>1. NothingMoves => seen'.committed = seen.committed
          BY <1>1 DEF NothingMoves, SeenOK
        <5>2. ProcessBatch => seen'.committed = seen.committed
          BY <1>1, BatchHistory
        <5>3. \A u \in Thread : Loses(u) \/ Unparks(u) \/ Receives(u) => seen' = seen
          BY <1>1, UnparkSets, ReceiveSets DEF Loses
        <5> QED
          BY <1>1, <1>3, <3>3, <5>1, <5>2, <5>3, StepKinds
      <4> QED
        BY <3>1, <4>1
    <3> QED
      BY <3>2, <3>3
  <2>4. ASSUME NEW c \in CollectId, NEW t \in Thread, DropCollect(c) \in ToSet(todo'[t])
        PROVE  c \notin seen'.committed /\ \A u \in Thread : CommitCollect(c) \notin ToSet(todo'[u])
    BY <2>1, <2>4 DEF OnceInv
  <2> QED
    BY <2>2, <2>3, <2>4 DEF OnceInv
<1> QED
  BY <1>2, <1>3

-----------------------------------------------------------------------------
(* Cancelable traces: what is submitted before its root ends is kept, first   *)
(* ahead of the commit in the channel and then by the collector.              *)

\* The collector has it, and reports it with the trace.
Received(p) ==
  \/ p \in Got
  \/ /\ p[1] \notin seen.done
     /\ \/ p[1] \in DOMAIN active /\ p \in PairsOf(ToSet(active[p[1]].colls))
        \/ \E m \in ToSet(batch) : p \in NewPairs(m)

\* It is in a channel, and the commit of its trace is behind it.
Ahead(p) ==
  /\ p[1] \notin seen.done /\ CommitCollect(p[1]) \notin ToSet(batch)
  /\ \E t \in Thread : \E j \in DOMAIN Ring(t) :
       /\ p \in NewPairs(Ring(t)[j])
       /\ \A i \in DOMAIN Ring(t) : i < j => Ring(t)[i] # CommitCollect(p[1])

\* Owed, or to be owed once its trace is committed.
Wanted(p) ==
  p \in seen.owed \/ (p \in SentPairs /\ p[1] \in seen.started \ (seen.cancelled \cup seen.committed))

\* Where the start of a trace is.
StartFound(c) ==
  \/ c \in seen.cancelled \cup seen.done \cup DOMAIN active
  \/ StartCollect(c) \in ToSet(batch)
  \/ \E t \in Thread : StartCollect(c) \in ToSet(Ring(t))

KeptInv ==
  /\ \A p \in seen.owed : p[1] \in CollectId /\ p[1] \in (seen.started \cap seen.committed) \ seen.cancelled
  /\ \A c \in seen.started : StartFound(c)
  /\ \A p : Wanted(p) => Received(p) \/ Ahead(p)

\* What a pair has to do with its trace.
LEMMA WantedTrace ==
  ASSUME SeenOK, KeptInv, NEW p, Wanted(p)
  PROVE  p[1] \in CollectId /\ p[1] \in seen.started \ seen.cancelled
PROOF
BY DEF KeptInv, Wanted, SeenOK

LEMMA KeptTakes ==
  ASSUME Cancelable, HomeFlow, OnceInv, KeptInv, NEW t \in Thread, Pushes(t) \/ Parks(t)
  PROVE  KeptInv'
PROOF
<1>1. TypeInv /\ SeenOK /\ Takes(t) /\ FirstInv /\ AcceptedInv
  BY DEF HomeFlow, FlowInv, Pushes, Parks
<1>2. PICK m \in Command : m = Cmd(t)
  BY <1>1, TakesSets
<1>3. /\ m \in ToSet(todo[t]) /\ seen' = Record(m)
      /\ \A u \in Thread \ {t} : Ring(u)' = Ring(u)
      /\ Ring(t)' = Append(Ring(t), m) \/ (Ring(t)' = Ring(t) /\ Forced(m))
      /\ UNCHANGED <<batch, active, reported>>
  BY <1>1, <1>2, TakesSets DEF Takes, Pushes, Parks
<1>4. /\ SentPairs' = SentPairs \cup NewPairs(m)
      /\ seen'.started = seen.started \cup IdIf(m, "start")
      /\ seen'.cancelled = seen.cancelled \cup IdIf(m, "drop")
      /\ seen'.committed = seen.committed \cup IdIf(m, "commit")
      /\ seen'.owed = seen.owed \cup OwedFor(m)
      /\ seen'.done = seen.done /\ Got' = Got
  BY <1>1, <1>3, SentGrows, RecordEffect DEF Got
<1>5. ASSUME NEW p \in OwedFor(m)
      PROVE  /\ m.cmd = "commit" /\ p[1] = m.collect /\ p \in SentPairs
             /\ p[1] \in CollectId /\ p[1] \in seen.started \ (seen.cancelled \cup seen.committed)
  <2>1. m.cmd = "commit" /\ m.collect \in seen.started \ seen.cancelled
        /\ p \in {Pair(a) : a \in {x \in seen.sent : IsSpan(x) /\ x.trace = m.collect}}
    BY <1>5 DEF OwedFor
  <2>2. PICK a \in seen.sent : IsSpan(a) /\ a.trace = m.collect /\ p = Pair(a)
    BY <2>1
  <2>3. p[1] = m.collect /\ p \in SentPairs /\ m.collect \in CollectId
    BY <1>1, <2>1, <2>2 DEF Pair, SentPairs, SeenOK
  <2>4. m = CommitCollect(m.collect)
    BY <2>1, CommandShape
  <2>5. m.collect \notin seen.committed
    BY <1>3, <2>3, <2>4 DEF OnceInv
  <2> QED
    BY <2>1, <2>3, <2>5
<1>6. ASSUME NEW p \in seen'.owed
      PROVE  p[1] \in CollectId /\ p[1] \in (seen'.started \cap seen'.committed) \ seen'.cancelled
  <2>1. CASE p \in seen.owed
    <3>1. p[1] \in CollectId /\ p[1] \in (seen.started \cap seen.committed) \ seen.cancelled
      BY <2>1 DEF KeptInv
    <3>2. p[1] \notin IdIf(m, "drop")
      BY <1>3, <3>1, CommandShape DEF IdIf, OnceInv
    <3> QED
      BY <1>4, <3>1, <3>2
  <2>2. CASE p \in OwedFor(m)
    BY <1>4, <1>5, <2>2 DEF IdIf
  <2> QED
    BY <1>4, <1>6, <2>1, <2>2
<1>a. ToSet(Append(Ring(t), m)) = ToSet(Ring(t)) \cup {m}
  <2>1. Ring(t) \in Seq(Command)
    BY <1>1, CommandSeqs
  <2> QED
    BY <2>1, AppendRange
<1>7. ASSUME NEW u \in Thread
      PROVE  ToSet(Ring(u)) \subseteq ToSet(Ring(u)')
  <2>1. CASE Ring(u)' = Ring(u)
    BY <2>1
  <2>2. CASE u = t /\ Ring(t)' = Append(Ring(t), m)
    BY <1>a, <2>2
  <2> QED
    BY <1>3, <2>1, <2>2
<1>8. ASSUME NEW c \in seen'.started
      PROVE  StartFound(c)'
  <2>1. CASE c \in seen.started
    BY <1>3, <1>4, <1>7, <2>1 DEF KeptInv, StartFound
  <2>2. CASE c \in IdIf(m, "start")
    <3>1. m = StartCollect(c) /\ ~Forced(m)
      BY <2>2, CommandShape DEF IdIf, Forced
    <3>2. m \in ToSet(Ring(t)')
      BY <1>3, <1>a, <3>1
    <3> QED
      BY <3>1, <3>2 DEF StartFound
  <2> QED
    BY <1>4, <1>8, <2>1, <2>2
<1>9. \A p : (Received(p) => Received(p)') /\ (Ahead(p) => Ahead(p)')
  <2>1. SUFFICES ASSUME NEW p, Ahead(p)
                 PROVE  Ahead(p)'
    BY <1>3, <1>4 DEF Received
  <2>a. PICK u \in Thread : \E j \in DOMAIN Ring(u) :
          /\ p \in NewPairs(Ring(u)[j])
          /\ \A i \in DOMAIN Ring(u) : i < j => Ring(u)[i] # CommitCollect(p[1])
    BY <2>1 DEF Ahead
  <2>2. PICK j \in DOMAIN Ring(u) :
          /\ p \in NewPairs(Ring(u)[j])
          /\ \A i \in DOMAIN Ring(u) : i < j => Ring(u)[i] # CommitCollect(p[1])
    BY <2>a
  <2>3. /\ j \in DOMAIN (Ring(u)') /\ (Ring(u)')[j] = Ring(u)[j]
        /\ \A i \in DOMAIN (Ring(u)') : i < j => i \in DOMAIN Ring(u) /\ (Ring(u)')[i] = Ring(u)[i]
    <3>1. CASE u = t /\ Ring(t)' = Append(Ring(t), m)
      <4>1. /\ DOMAIN (Ring(t)') = DOMAIN Ring(t) \cup {Len(Ring(t)) + 1}
            /\ \A i \in DOMAIN Ring(t) : i < Len(Ring(t)) + 1 /\ (Ring(t)')[i] = Ring(t)[i]
            /\ DOMAIN Ring(t) \subseteq Nat /\ Len(Ring(t)) \in Nat
        BY <1>1, <3>1, RingMoves
      <4> QED
        BY <3>1, <4>1
    <3>2. CASE Ring(u)' = Ring(u)
      BY <3>2
    <3> QED
      BY <1>3, <3>1, <3>2
  <2> QED
    BY <1>3, <1>4, <2>1, <2>2, <2>3 DEF Ahead
<1>10. ASSUME NEW p, Wanted(p)'
       PROVE  Received(p)' \/ Ahead(p)'
  <2>1. CASE Wanted(p)
    BY <1>9, <2>1 DEF KeptInv
  <2>2. CASE ~Wanted(p)
    <3>1. /\ p \notin seen.owed /\ p \notin OwedFor(m)
          /\ p \in SentPairs \cup NewPairs(m)
          /\ p[1] \in seen'.started \ (seen'.cancelled \cup seen'.committed)
      BY <1>4, <1>5, <1>10, <2>2 DEF Wanted
    <3>2. p[1] \in CollectId /\ p[1] \notin seen.committed
      BY <1>1, <1>3, <1>4, <3>1, RecordEffect DEF SeenOK
    <3>3. p \in NewPairs(m)
      <4>1. SUFFICES ASSUME p \notin NewPairs(m)
                     PROVE  FALSE
        OBVIOUS
      <4>2. p \in SentPairs /\ p[1] \in IdIf(m, "start")
        BY <1>4, <2>2, <3>1, <4>1 DEF Wanted
      <4>3. m = StartCollect(p[1])
        BY <4>2, CommandShape DEF IdIf
      <4>4. Fresh(p[1])
        BY <1>1, <1>3, <3>2, <4>3 DEF FirstInv
      <4> QED
        BY <4>2, <4>4 DEF Fresh
    <3>4. Ring(t)' = Append(Ring(t), m)
      BY <1>3, <3>3 DEF NewPairs, Forced
    <3>5. ASSUME NEW u \in Thread, CommitCollect(p[1]) \in ToSet(Ring(u))
          PROVE  FALSE
      BY <1>1, <3>2, <3>5, ShortCommands DEF AcceptedInv, Accepted, Carried
    <3>6. CommitCollect(p[1]) \notin ToSet(batch) /\ p[1] \notin seen.done
      BY <1>1, <3>2, ShortCommands DEF AcceptedInv, Accepted
    <3>7. /\ DOMAIN (Ring(t)') = DOMAIN Ring(t) \cup {Len(Ring(t)) + 1}
          /\ \A i \in DOMAIN Ring(t) : i < Len(Ring(t)) + 1 /\ (Ring(t)')[i] = Ring(t)[i]
          /\ (Ring(t)')[Len(Ring(t)) + 1] = m
          /\ DOMAIN Ring(t) \subseteq Nat /\ Len(Ring(t)) \in Nat
      BY <1>1, <3>4, RingMoves
    <3>8. \A i \in DOMAIN Ring(t) : Ring(t)[i] # CommitCollect(p[1])
      BY <3>5 DEF ToSet
    <3>9. \A i \in DOMAIN (Ring(t)') : i < Len(Ring(t)) + 1 => (Ring(t)')[i] # CommitCollect(p[1])
      BY <3>7, <3>8
    <3> QED
      BY <1>3, <1>4, <3>3, <3>6, <3>7, <3>9 DEF Ahead
  <2> QED
    BY <2>1, <2>2
<1> QED
  BY <1>6, <1>8, <1>10 DEF KeptInv

\* A command received, or a parked one that enters the ring.
LEMMA KeptMoves ==
  ASSUME HomeFlow, KeptInv, NEW t \in Thread, Unparks(t) \/ Receives(t)
  PROVE  KeptInv'
PROOF
<1>1. TypeInv /\ SeenOK /\ RootInv /\ HomeInv
  BY DEF HomeFlow, FlowInv
<1>2. UNCHANGED <<active, seen>> /\ Got' = Got /\ \A u \in Thread \ {t} : Ring(u)' = Ring(u)
  BY <1>1, UnparkSets, ReceiveSets DEF Got, Unparks, Receives
<1>3. \A p : Wanted(p)' => Wanted(p) /\ p[1] \in CollectId
  BY <1>1, <1>2, WantedTrace DEF Wanted, SentPairs
<1>4. CASE Unparks(t)
  <2>1. batch' = batch
    BY <1>1, <1>4, UnparkSets
  <2>2. PICK m \in Command : Ring(t)' = Ring(t) \/ Ring(t)' = Append(Ring(t), m)
    <3>1. PICK x \in ToSet(Parked(t)) : Ring(t)' = Ring(t) \/ Ring(t)' = Append(Ring(t), x)
      <4>1. PICK x \in ToSet(Parked(t)) : TRUE
        <5>1. Parked(t) # <<>> /\ Parked(t) \in Seq(Command)
          BY <1>1, <1>4, CommandSeqs DEF Unparks
        <5> QED
          BY <5>1, HeadTailRange
      <4> QED
        BY <1>4, <4>1 DEF Unparks
    <3> QED
      BY <1>1, <3>1, ParkedForced
  <2>3. \A u \in Thread : /\ \A j \in DOMAIN Ring(u) : j \in DOMAIN (Ring(u)') /\ (Ring(u)')[j] = Ring(u)[j]
                          /\ \A j \in DOMAIN Ring(u) : \A i \in DOMAIN (Ring(u)') : i < j => i \in DOMAIN Ring(u)
    <3>1. SUFFICES ASSUME Ring(t)' = Append(Ring(t), m)
                   PROVE  /\ \A j \in DOMAIN Ring(t) : j \in DOMAIN (Ring(t)') /\ (Ring(t)')[j] = Ring(t)[j]
                          /\ \A j \in DOMAIN Ring(t) : \A i \in DOMAIN (Ring(t)') : i < j => i \in DOMAIN Ring(t)
      BY <1>2, <2>2
    <3>2. /\ DOMAIN (Ring(t)') = DOMAIN Ring(t) \cup {Len(Ring(t)) + 1}
          /\ \A i \in DOMAIN Ring(t) : i < Len(Ring(t)) + 1 /\ (Ring(t)')[i] = Ring(t)[i]
          /\ DOMAIN Ring(t) \subseteq Nat /\ Len(Ring(t)) \in Nat
      BY <1>1, <3>1, RingMoves
    <3> QED
      BY <3>2
  <2>4. \A p : (Received(p) => Received(p)') /\ (Ahead(p) => Ahead(p)')
    <3>1. \A p : Received(p) => Received(p)'
      BY <1>2, <2>1 DEF Received
    <3>2. SUFFICES ASSUME NEW p, Ahead(p)
                   PROVE  Ahead(p)'
      BY <3>1
    <3>3. PICK u \in Thread : \E j \in DOMAIN Ring(u) :
            /\ p \in NewPairs(Ring(u)[j])
            /\ \A i \in DOMAIN Ring(u) : i < j => Ring(u)[i] # CommitCollect(p[1])
      BY <3>2 DEF Ahead
    <3>4. PICK j \in DOMAIN Ring(u) :
            /\ p \in NewPairs(Ring(u)[j])
            /\ \A i \in DOMAIN Ring(u) : i < j => Ring(u)[i] # CommitCollect(p[1])
      BY <3>3
    <3>5. /\ j \in DOMAIN (Ring(u)') /\ p \in NewPairs((Ring(u)')[j])
          /\ \A i \in DOMAIN (Ring(u)') : i < j => (Ring(u)')[i] # CommitCollect(p[1])
      BY <2>3, <3>4
    <3> QED
      BY <1>2, <2>1, <3>2, <3>5 DEF Ahead
  <2>5. \A c : StartFound(c) => StartFound(c)'
    BY <1>2, <2>1, <2>3 DEF StartFound, ToSet
  <2> QED
    BY <1>2, <1>3, <2>4, <2>5 DEF KeptInv
<1>5. CASE Receives(t)
  <2> DEFINE m == Head(Ring(t))
  <2>1. ToSet(batch') = ToSet(batch) \cup {m} /\ m \in Carried(t) /\ m = Ring(t)[1] /\ m \in Command
        /\ ToSet(Ring(t)) = {m} \cup ToSet(Ring(t)')
    BY <1>1, <1>5, ReceiveSets, RingMoves
  <2> HIDE DEF m
  <2>2. \A c : StartFound(c) => StartFound(c)'
    BY <1>2, <2>1 DEF StartFound
  <2>3. \A p : Received(p) => Received(p)'
    BY <1>2, <2>1 DEF Received
  <2>4. ASSUME NEW p, Ahead(p), p[1] \in CollectId
        PROVE  Received(p)' \/ Ahead(p)'
    <3>1. PICK u \in Thread : \E j \in DOMAIN Ring(u) :
            /\ p \in NewPairs(Ring(u)[j])
            /\ \A i \in DOMAIN Ring(u) : i < j => Ring(u)[i] # CommitCollect(p[1])
      BY <2>4 DEF Ahead
    <3>2. PICK j \in DOMAIN Ring(u) :
            /\ p \in NewPairs(Ring(u)[j])
            /\ \A i \in DOMAIN Ring(u) : i < j => Ring(u)[i] # CommitCollect(p[1])
      BY <3>1
    <3>3. DOMAIN Ring(u) \subseteq Nat /\ (u = t => 1 \in DOMAIN Ring(u)) /\ j > 0
      <4>1. Ring(u) \in Seq(Command)
        BY <1>1, CommandSeqs
      <4> QED
        BY <1>1, <1>5, <4>1, RingMoves, LenProperties
    <3>4. CASE u = t /\ j = 1
      BY <1>2, <2>1, <2>4, <3>2, <3>4 DEF Received, Ahead
    <3>5. CASE ~(u = t /\ j = 1)
      <4>1. m # CommitCollect(p[1])
        <5>1. CASE u = t
          BY <2>1, <3>2, <3>3, <3>5, <5>1
        <5>2. CASE u # t
          <6>1. Ring(u)[j] \in Command /\ Ring(u)[j] \in Held(u)
            BY <1>1, CommandSeqs DEF Held, Carried, ToSet
          <6>2. p[1] \in Traces(Ring(u)[j])
            BY <3>2, <6>1, PairTraces
          <6>3. Homed(p[1], u)
            BY <1>1, <2>4, <6>1, <6>2 DEF HomeInv
          <6>4. CommitCollect(p[1]) \in Held(t) => Homed(p[1], t)
            BY <1>1, <2>4, ShortCommands DEF HomeInv
          <6> QED
            BY <1>1, <2>1, <2>4, <5>2, <6>3, <6>4, OneHome DEF Held
        <5> QED
          BY <5>1, <5>2
      <4>2. \E k \in DOMAIN (Ring(u)') : /\ p \in NewPairs((Ring(u)')[k])
                                         /\ \A i \in DOMAIN (Ring(u)') : i < k => (Ring(u)')[i] # CommitCollect(p[1])
        <5>1. CASE u # t
          BY <1>2, <3>2, <5>1
        <5>2. CASE u = t
          <6>1. j - 1 \in DOMAIN (Ring(t)') /\ (Ring(t)')[j - 1] = Ring(t)[j]
            BY <1>1, <1>5, <3>5, <5>2, RingMoves
          <6>2. ASSUME NEW i \in DOMAIN (Ring(t)'), i < j - 1
                PROVE  (Ring(t)')[i] # CommitCollect(p[1])
            <7>1. i + 1 \in DOMAIN Ring(t) /\ (Ring(t)')[i] = Ring(t)[i + 1]
              BY <1>1, <1>5, RingMoves
            <7>2. i \in Nat
              <8>1. Ring(t)' \in Seq(Command)
                BY <1>1, <1>5, CommandSeqs, HeadTailRange DEF Receives
              <8> QED
                BY <8>1, LenProperties
            <7>3. i + 1 < j
              BY <3>3, <6>2, <7>2
            <7> QED
              BY <3>2, <5>2, <7>1, <7>3
          <6> QED
            BY <3>2, <5>2, <6>1, <6>2
        <5> QED
          BY <5>1, <5>2
      <4> QED
        BY <1>2, <2>1, <2>4, <4>1, <4>2 DEF Ahead
    <3> QED
      BY <3>4, <3>5
  <2> QED
    BY <1>2, <1>3, <2>2, <2>3, <2>4 DEF KeptInv
<1> QED
  BY <1>4, <1>5

\* A batch: every wanted span it brings finds the collector of its trace.
LEMMA KeptBatch ==
  ASSUME Cancelable, HomeFlow, KeptInv, ProcessBatch
  PROVE  KeptInv'
PROOF
<1>1. TypeInv /\ SeenOK /\ FirstInv /\ AcceptedInv
  BY DEF HomeFlow, FlowInv
<1>2. /\ batch' = <<>> /\ ToSet(<<>>) = {} /\ \A t \in Thread : Ring(t)' = Ring(t)
  BY ShortRanges DEF ProcessBatch, Ring
<1>3. /\ seen'.started = seen.started /\ seen'.cancelled = seen.cancelled /\ seen'.committed = seen.committed
      /\ seen'.owed = seen.owed /\ seen'.sent = seen.sent /\ seen'.done = seen.done \cup Ids("commit")
  BY <1>1, BatchHistory
<1>4. /\ DOMAIN active' = StartedTraces \ Ids("commit")
      /\ \A c \in DOMAIN active' : ToSet(active'[c].colls) = HeldBy(c)
      /\ Got' = Got \cup UNION {PairsOf(HeldBy(c)) : c \in StartedTraces \cap Ids("commit")}
  BY <1>1, BatchEffect
<1>5. /\ \A c \in Ids("commit") : CommitCollect(c) \in ToSet(batch)
      /\ \A c \in Ids("drop") : c \in seen.cancelled
      /\ \A c : c \in Ids("start") <=> StartCollect(c) \in ToSet(batch)
  <2>1. \A m \in ToSet(batch) : m \in Command
    BY <1>1, CommandSeqs
  <2>2. /\ \A c \in Ids("commit") : CommitCollect(c) \in ToSet(batch)
        /\ \A c \in Ids("start") : StartCollect(c) \in ToSet(batch)
    BY <2>1, CommandShape DEF Ids
  <2>3. \A c \in Ids("drop") : c \in seen.cancelled
    BY <1>1 DEF Ids, AcceptedInv, Accepted
  <2>4. \A c : StartCollect(c) \in ToSet(batch) => c \in Ids("start")
    BY DEF Ids, StartCollect
  <2> QED
    BY <2>2, <2>3, <2>4
<1>6. \A c : StartFound(c) => StartFound(c)'
  BY <1>2, <1>3, <1>4, <1>5 DEF StartFound, StartedTraces
<1>7. ASSUME NEW p, Wanted(p), Received(p), p \notin Got
      PROVE  p[1] \in StartedTraces /\ p \in PairsOf(HeldBy(p[1])) /\ p[1] \notin seen.done
  <2>1. p[1] \in CollectId /\ p[1] \in seen.started \ seen.cancelled /\ p[1] \notin seen.done
    BY <1>1, <1>7, WantedTrace DEF Received
  <2>2. CASE p[1] \in DOMAIN active /\ p \in PairsOf(ToSet(active[p[1]].colls))
    <3>1. p[1] \notin Ids("start") /\ p[1] \in StartedTraces
      BY <1>1, <1>5, <2>1, <2>2 DEF FirstInv, StartedTraces
    <3>2. ToSet(active[p[1]].colls) \subseteq HeldBy(p[1])
      BY <3>1 DEF HeldBy
    <3> QED
      BY <2>1, <2>2, <3>1, <3>2, PairsOfMember
  <2>3. ASSUME NEW m \in ToSet(batch), p \in NewPairs(m)
        PROVE  p[1] \in StartedTraces /\ p \in PairsOf(HeldBy(p[1]))
    <3>1. m \in Command /\ m.cmd = "submit" /\ p \in PairsOf(ToSet(Copies(m))) /\ p[1] \in Traces(m)
      BY <1>1, <2>3, CommandSeqs, PairTraces DEF NewPairs
    <3>2. \A t \in Thread : StartCollect(p[1]) \notin ToSet(Ring(t))
      BY <1>1, <2>1, <2>3, <3>1 DEF FirstInv, Unstarted, Carried
    <3>3. p[1] \in StartedTraces
      BY <1>5, <2>1, <3>2 DEF KeptInv, StartFound, StartedTraces
    <3>4. PICK coll \in ToSet(Copies(m)), raw \in RawSpan :
            raw \in ToSet(coll.set) /\ raw.kind = "Span" /\ p = <<coll.trace, raw.id>>
      BY <3>1, PairsOfMember
    <3>5. coll \in SubmittedBy(ToSet(batch)) /\ coll.trace = p[1]
      BY <2>3, <3>1, <3>4 DEF SubmittedBy
    <3>6. coll \in HeldBy(p[1])
      BY <3>5 DEF HeldBy
    <3> QED
      BY <3>3, <3>4, <3>6, PairsOfMember
  <2> QED
    BY <1>7, <2>1, <2>2, <2>3 DEF Received
<1>8. ASSUME NEW p, Wanted(p), Received(p)
      PROVE  Received(p)'
  <2>1. CASE p \in Got
    BY <1>4, <2>1 DEF Received
  <2>2. CASE p \notin Got /\ p[1] \in Ids("commit")
    BY <1>4, <1>7, <1>8, <2>2 DEF Received
  <2>3. CASE p \notin Got /\ p[1] \notin Ids("commit")
    BY <1>3, <1>4, <1>7, <1>8, <2>3 DEF Received
  <2> QED
    BY <2>1, <2>2, <2>3
<1>9. ASSUME NEW p, Ahead(p)
      PROVE  Ahead(p)'
  <2>1. p[1] \notin Ids("commit")
    BY <1>5, <1>9 DEF Ahead
  <2> QED
    BY <1>2, <1>3, <1>9, <2>1 DEF Ahead
<1>10. \A p : Wanted(p)' => Wanted(p)
  BY <1>3 DEF Wanted, SentPairs
<1> QED
  BY <1>3, <1>6, <1>8, <1>9, <1>10 DEF KeptInv

LEMMA NextKept == Cancelable /\ HomeFlow /\ OnceInv /\ KeptInv /\ [Next]_vars => KeptInv'
PROOF
<1> SUFFICES ASSUME Cancelable, HomeFlow, OnceInv, KeptInv, [Next]_vars
             PROVE  KeptInv'
  OBVIOUS
<1>1. TypeInv /\ SeenOK
  BY DEF HomeFlow, FlowInv
<1>2. ASSUME UNCHANGED <<batch, active>>, Got' = Got, \A t \in Thread : Ring(t)' = Ring(t),
             \A x \in {"sent", "started", "cancelled", "committed", "done", "owed"} : seen'[x] = seen[x]
      PROVE  KeptInv'
  <2>1. /\ seen'.started = seen.started /\ seen'.cancelled = seen.cancelled /\ seen'.committed = seen.committed
        /\ seen'.owed = seen.owed /\ seen'.sent = seen.sent /\ seen'.done = seen.done
    BY <1>2
  <2>2. \A p : (Wanted(p)' <=> Wanted(p)) /\ (Received(p)' <=> Received(p)) /\ (Ahead(p)' <=> Ahead(p))
    BY <1>2, <2>1 DEF Wanted, SentPairs, Received, Ahead
  <2>3. \A c : StartFound(c)' <=> StartFound(c)
    BY <1>2, <2>1 DEF StartFound
  <2> QED
    BY <2>1, <2>2, <2>3 DEF KeptInv
<1>3. CASE NothingMoves
  BY <1>1, <1>2, <1>3 DEF NothingMoves, Got, SeenOK
<1>4. ASSUME NEW t \in Thread, Call(t) \/ Loses(t)
      PROVE  KeptInv'
  <2>1. seen' = seen /\ UNCHANGED <<batch, active>> /\ Got' = Got /\ \A u \in Thread : Ring(u)' = Ring(u)
    <3>1. CASE Call(t)
      BY <1>1, <3>1, CallType DEF Got, Ring, collVars
    <3>2. CASE Loses(t)
      BY <1>1, <3>2, TakesSets DEF Loses, Got, Takes
    <3> QED
      BY <1>4, <3>1, <3>2
  <2> QED
    BY <1>2, <2>1
<1> QED
  BY <1>1, <1>3, <1>4, KeptTakes, KeptMoves, KeptBatch, StepKinds

KeptFlow == HomeFlow /\ OnceInv /\ (Cancelable => KeptInv)

LEMMA KeptFlowHolds == ~Migrate /\ Spec => []KeptFlow
PROOF
<1>1. Init => OnceInv /\ KeptInv
  <2> SUFFICES ASSUME Init
               PROVE  OnceInv /\ KeptInv
    OBVIOUS
  <2>1. /\ ToSet(<<>>) = {} /\ seen.owed = {} /\ seen.started = {}
        /\ \A t \in Thread : todo[t] = <<>>
    BY ShortRanges DEF Init
  <2> QED
    BY <2>1 DEF OnceInv, KeptInv, Wanted
<1>2. CASE Migrate
  BY <1>2
<1>3. CASE ~Migrate
  <2>1. HomeFlow /\ HomeFlow' /\ OnceInv /\ (Cancelable => KeptInv) /\ [Next]_vars
          => OnceInv' /\ (Cancelable => KeptInv)'
    BY <1>3, NextOnce, NextKept DEF HomeFlow
  <2>2. Spec => []HomeFlow
    BY <1>3, HomeFlowHolds
  <2> QED
    BY <1>1, <2>1, <2>2, PTL DEF Spec, KeptFlow
<1> QED
  BY <1>2, <1>3

\* When the commit of a cancelable trace has been processed, every span that was
\* submitted before the root ended has been reported, for any number of
\* threads, traces and spans and any capacity of the channels, as long as spans
\* stay with the thread that created them.
THEOREM ChildrenReportedWithRoot == ~Migrate /\ Spec => []RootReportsChildren
PROOF
<1>1. KeptFlow => RootReportsChildren
  <2> SUFFICES ASSUME KeptFlow, Cancelable, NEW p \in seen.owed, p[1] \in seen.done
               PROVE  p \in Got
    BY DEF RootReportsChildren
  <2> QED
    BY DEF KeptFlow, KeptInv, Wanted, Received, Ahead
<1> QED
  BY <1>1, KeptFlowHolds, PTL

-----------------------------------------------------------------------------
(* Cancellations, as long as no forced command has to be parked: a commit     *)
(* overtakes a parked cancellation of its trace when it is pushed after a     *)
(* failed retry, or retried before it because it was parked later.            *)

NothingParked == \A t \in Thread : chan[t].pending = <<>>

\* No collector, and none to come.
Gone(c) ==
  /\ c \notin DOMAIN active /\ StartCollect(c) \notin ToSet(batch)
  /\ \A t \in Thread : StartCollect(c) \notin Held(t)

CancelInv ==
  /\ \A c \in CollectId : \A t \in Thread : \A i, j \in DOMAIN Ring(t) :
       Ring(t)[i] = CommitCollect(c) /\ i < j => Ring(t)[j] # DropCollect(c)
  /\ \A c \in CollectId : \A t \in Thread :
       DropCollect(c) \in ToSet(Ring(t)) => CommitCollect(c) \notin ToSet(batch)
  /\ \A c \in CollectId \cap seen.cancelled :
       \/ Gone(c)
       \/ DropCollect(c) \in ToSet(batch)
       \/ \E t \in Thread : DropCollect(c) \in ToSet(Ring(t))
  /\ \A p \in Got : p[1] \notin seen.cancelled

LEMMA GoneStays ==
  ASSUME HomeFlow, [Next]_vars, NEW c \in CollectId \cap Known, Gone(c)
  PROVE  Gone(c)'
PROOF
<1>1. /\ FlowInv /\ TypeInv /\ FirstInv
  BY DEF HomeFlow, FlowInv
<1>2. ASSUME NEW t \in Thread, Call(t)
      PROVE  Gone(c)'
  <2>1. /\ UNCHANGED <<batch, active>> /\ \A u \in Thread : Carried(u)' = Carried(u)
        /\ \A u \in Thread \ {t} : todo'[u] = todo[u]
    BY <1>1, <1>2, CallType DEF collVars, Carried, Ring, Parked
  <2>2. c # nextRoot
    BY <1>1, <1>2, SpansAfter
  <2>3. StartCollect(c) \notin ToSet(todo'[t])
    BY <1>1, <1>2, <2>2, CallCommands DEF StartCollect, DropCollect, CommitCollect
  <2> QED
    BY <2>1, <2>3 DEF Gone, Held
<1>3. CASE ~ \E t \in Thread : Call(t)
  BY <1>1, <1>3, OtherSteps DEF Gone, Held
<1> QED
  BY <1>2, <1>3

LEMMA NextCancel ==
  ~Migrate /\ Cancelable /\ HomeFlow /\ OnceInv /\ CancelInv /\ NothingParked /\ NothingParked' /\ [Next]_vars
    => CancelInv'
PROOF
<1> SUFFICES ASSUME ~Migrate, Cancelable, HomeFlow, OnceInv, CancelInv, NothingParked, NothingParked', [Next]_vars
             PROVE  CancelInv'
  OBVIOUS
<1>1. TypeInv /\ SeenOK /\ FirstInv /\ AcceptedInv /\ RootInv /\ HomeInv
  BY DEF HomeFlow, FlowInv
<1>a. \A c \in CollectId \cap seen.cancelled : Gone(c) => Gone(c)'
  <2>1. seen.cancelled \subseteq Known
    BY <1>1 DEF FirstInv
  <2> QED
    BY <2>1, GoneStays
<1>2. ASSUME UNCHANGED batch, Got' = Got, \A t \in Thread : Ring(t)' = Ring(t),
             seen'.cancelled = seen.cancelled
      PROVE  CancelInv'
  BY <1>a, <1>2 DEF CancelInv
<1>3. CASE NothingMoves
  BY <1>1, <1>2, <1>3 DEF NothingMoves, Got, SeenOK
<1>4. ASSUME NEW t \in Thread, Call(t) \/ Loses(t)
      PROVE  CancelInv'
  <2>1. seen' = seen /\ UNCHANGED batch /\ Got' = Got /\ \A u \in Thread : Ring(u)' = Ring(u)
    <3>1. CASE Call(t)
      BY <1>1, <3>1, CallType DEF Got, Ring, collVars
    <3>2. CASE Loses(t)
      BY <1>1, <3>2, TakesSets DEF Loses, Got, Takes
    <3> QED
      BY <1>4, <3>1, <3>2
  <2> QED
    BY <1>2, <2>1
<1>5. ASSUME NEW t \in Thread, Parks(t) \/ Unparks(t)
      PROVE  FALSE
  <2>1. Parked(t) = <<>> /\ Parked(t)' = <<>>
    BY DEF NothingParked, Parked
  <2>2. ~Unparks(t)
    BY <2>1 DEF Unparks
  <2>3. ASSUME Parks(t)
        PROVE  FALSE
    <3>1. Cmd(t) \in Command /\ Parked(t) \in Seq(Command) /\ Parked(t)' = Append(Parked(t), Cmd(t))
      BY <1>1, <2>3, TakesSets, CommandSeqs DEF Parks
    <3>2. Len(Parked(t)') = Len(Parked(t)) + 1 /\ Len(<<>>) = 0
      BY <3>1, AppendRange
    <3> QED
      BY <2>1, <3>2
  <2> QED
    BY <1>5, <2>2, <2>3
<1>6. ASSUME NEW t \in Thread, Pushes(t)
      PROVE  CancelInv'
  <2>1. PICK m \in Command : m = Cmd(t)
    BY <1>1, <1>6, TakesSets DEF Pushes
  <2>2. /\ m \in ToSet(todo[t]) /\ seen' = Record(m) /\ Ring(t)' = Append(Ring(t), m)
        /\ \A u \in Thread \ {t} : Ring(u)' = Ring(u)
        /\ UNCHANGED batch /\ Got' = Got
    BY <1>1, <1>6, <2>1, TakesSets DEF Takes, Pushes, Got
  <2>3. seen'.cancelled = seen.cancelled \cup IdIf(m, "drop")
    BY <1>1, <2>2, RecordEffect
  <2>4. ToSet(Ring(t)') = ToSet(Ring(t)) \cup {m} /\ ToSet(Ring(t)) \subseteq Carried(t)
    BY <1>1, <2>2, CommandSeqs, AppendRange DEF Carried
  <2>5. /\ DOMAIN (Ring(t)') = DOMAIN Ring(t) \cup {Len(Ring(t)) + 1}
        /\ \A i \in DOMAIN Ring(t) : i < Len(Ring(t)) + 1 /\ (Ring(t)')[i] = Ring(t)[i]
        /\ (Ring(t)')[Len(Ring(t)) + 1] = m
        /\ DOMAIN Ring(t) \subseteq Nat /\ Len(Ring(t)) \in Nat
    BY <1>1, <2>2, RingMoves
  <2>6. ASSUME NEW c \in CollectId, m = DropCollect(c)
        PROVE  c \notin seen.committed /\ CommitCollect(c) \notin ToSet(Ring(t)) /\ CommitCollect(c) \notin ToSet(batch)
    <3>1. c \notin seen.committed
      BY <2>2, <2>6 DEF OnceInv
    <3> QED
      BY <1>1, <2>4, <3>1, ShortCommands DEF AcceptedInv, Accepted
  <2>7. ASSUME NEW c \in CollectId, NEW i \in DOMAIN (Ring(t)'), NEW j \in DOMAIN (Ring(t)'),
               (Ring(t)')[i] = CommitCollect(c), i < j
        PROVE  (Ring(t)')[j] # DropCollect(c)
    <3>1. i \in DOMAIN Ring(t) /\ Ring(t)[i] = CommitCollect(c) /\ Ring(t)[i] \in ToSet(Ring(t))
      BY <2>5, <2>7 DEF ToSet
    <3>2. CASE j \in DOMAIN Ring(t)
      BY <2>5, <2>7, <3>1, <3>2 DEF CancelInv
    <3>3. CASE j = Len(Ring(t)) + 1
      BY <2>5, <2>6, <3>1, <3>3
    <3> QED
      BY <2>5, <3>2, <3>3
  <2>8. ASSUME NEW c \in CollectId \cap seen'.cancelled
        PROVE  \/ Gone(c)'
               \/ DropCollect(c) \in ToSet(batch)
               \/ \E u \in Thread : DropCollect(c) \in ToSet(Ring(u)')
    <3>1. CASE c \in seen.cancelled
      BY <2>2, <2>4, <3>1, <1>a DEF CancelInv
    <3>2. CASE c \in IdIf(m, "drop")
      BY <2>4, <3>2, CommandShape DEF IdIf
    <3> QED
      BY <2>3, <3>1, <3>2
  <2>9. ASSUME NEW p \in Got
        PROVE  p[1] \notin seen'.cancelled
    <3>1. p[1] \in seen.committed /\ p[1] \notin seen.cancelled /\ p[1] \in CollectId
      <4>1. p[1] \in CollectId
        BY <1>1 DEF TypeInv, CollectorsOK, Got, Recorded
      <4> QED
        BY <1>1, <4>1 DEF AcceptedInv, CancelInv
    <3> QED
      BY <2>3, <2>6, <3>1, CommandShape DEF IdIf
  <2> QED
    BY <2>2, <2>4, <2>6, <2>7, <2>8, <2>9 DEF CancelInv
<1>7. ASSUME NEW t \in Thread, Receives(t)
      PROVE  CancelInv'
  <2> DEFINE m == Head(Ring(t))
  <2>1. /\ ToSet(batch') = ToSet(batch) \cup {m} /\ m \in Carried(t) /\ m = Ring(t)[1] /\ m \in Command
        /\ ToSet(Ring(t)) = {m} \cup ToSet(Ring(t)') /\ 1 \in DOMAIN Ring(t)
        /\ seen' = seen /\ Got' = Got /\ \A u \in Thread \ {t} : Ring(u)' = Ring(u)
    BY <1>1, <1>7, ReceiveSets, RingMoves DEF Receives, Got
  <2> HIDE DEF m
  <2>2. \A i \in DOMAIN (Ring(t)') : i \in Nat /\ i + 1 \in DOMAIN Ring(t) /\ (Ring(t)')[i] = Ring(t)[i + 1]
    <3>1. Ring(t)' \in Seq(Command)
      BY <1>1, <1>7, CommandSeqs, HeadTailRange DEF Receives
    <3>2. \A i \in DOMAIN (Ring(t)') : i \in Nat
      BY <3>1, LenProperties
    <3> QED
      BY <1>1, <1>7, <3>2, RingMoves
  <2>3. ASSUME NEW c \in CollectId, NEW i \in DOMAIN (Ring(t)'), NEW j \in DOMAIN (Ring(t)'),
               (Ring(t)')[i] = CommitCollect(c), i < j
        PROVE  (Ring(t)')[j] # DropCollect(c)
    <3>1. i + 1 < j + 1
      BY <2>2, <2>3
    <3> QED
      BY <2>2, <2>3, <3>1 DEF CancelInv
  <2>4. ASSUME NEW c \in CollectId, NEW u \in Thread, DropCollect(c) \in ToSet(Ring(u)')
        PROVE  CommitCollect(c) \notin ToSet(batch')
    <3>1. DropCollect(c) \in ToSet(Ring(u)) /\ CommitCollect(c) \notin ToSet(batch)
      BY <2>1, <2>4 DEF CancelInv
    <3>2. SUFFICES ASSUME m = CommitCollect(c)
                   PROVE  FALSE
      BY <2>1, <3>1
    <3>3. CommitCollect(c) \in Held(t) /\ DropCollect(c) \in Held(u)
          /\ c \in CollectId \cap Traces(CommitCollect(c)) /\ c \in CollectId \cap Traces(DropCollect(c))
      BY <2>1, <3>1, <3>2, ShortCommands DEF Held, Carried
    <3>4. Homed(c, t) /\ Homed(c, u)
      BY <1>1, <3>3 DEF HomeInv
    <3>5. t = u
      BY <1>1, <3>4, OneHome
    <3>6. PICK i \in DOMAIN (Ring(t)') : (Ring(t)')[i] = DropCollect(c)
      BY <2>4, <3>5 DEF ToSet
    <3>7. i + 1 \in DOMAIN Ring(t) /\ Ring(t)[i + 1] = DropCollect(c) /\ 1 < i + 1
      <4>1. i # 0
        <5>1. Ring(t)' \in Seq(Command)
          BY <1>1, <1>7, CommandSeqs, HeadTailRange DEF Receives
        <5> QED
          BY <5>1, LenProperties
      <4> QED
        BY <2>2, <3>6, <4>1
    <3> QED
      BY <2>1, <3>2, <3>7 DEF CancelInv
  <2>5. \A c \in CollectId \cap seen.cancelled :
          \/ Gone(c)'
          \/ DropCollect(c) \in ToSet(batch')
          \/ \E u \in Thread : DropCollect(c) \in ToSet(Ring(u)')
    BY <2>1, <1>a DEF CancelInv
  <2> QED
    BY <2>1, <2>3, <2>4, <2>5 DEF CancelInv
<1>8. CASE ProcessBatch
  <2>1. /\ batch' = <<>> /\ ToSet(<<>>) = {} /\ UNCHANGED todo
        /\ \A t \in Thread : Ring(t)' = Ring(t) /\ Carried(t)' = Carried(t)
    BY <1>8, ShortRanges DEF ProcessBatch, appVars, Ring, Parked, Carried
  <2>2. seen'.cancelled = seen.cancelled
    BY <1>1, <1>8, BatchHistory
  <2>3. /\ DOMAIN active' = StartedTraces \ Ids("commit")
        /\ Got' = Got \cup UNION {PairsOf(HeldBy(c)) : c \in StartedTraces \cap Ids("commit")}
    BY <1>1, <1>8, BatchEffect
  <2>4. /\ \A c \in Ids("commit") : CommitCollect(c) \in ToSet(batch)
        /\ \A c \in Ids("start") : StartCollect(c) \in ToSet(batch)
        /\ \A c : DropCollect(c) \in ToSet(batch) => c \in Ids("drop")
    <3>1. \A m \in ToSet(batch) : m \in Command
      BY <1>1, CommandSeqs
    <3>2. \A c : DropCollect(c) \in ToSet(batch) => c \in Ids("drop")
      BY DEF Ids, DropCollect
    <3> QED
      BY <3>1, <3>2, CommandShape DEF Ids
  <2>5. ASSUME NEW c \in CollectId, DropCollect(c) \in ToSet(batch)
        PROVE  Gone(c)'
    <3>1. c \notin DOMAIN active'
      BY <2>3, <2>4, <2>5 DEF StartedTraces
    <3>2. ASSUME NEW t \in Thread, StartCollect(c) \in Held(t)
          PROVE  FALSE
      BY <1>1, <2>5, <3>2, ShortCommands DEF FirstInv, Fresh, Unstarted, Held
    <3> QED
      BY <2>1, <3>1, <3>2 DEF Gone, Held
  <2>6. ASSUME NEW p \in Got', p[1] \in seen.cancelled
        PROVE  FALSE
    <3>1. p \notin Got
      BY <2>6 DEF CancelInv
    <3>2. PICK c \in StartedTraces \cap Ids("commit") : p \in PairsOf(HeldBy(c))
      BY <2>3, <2>6, <3>1
    <3>3. p[1] = c /\ c \in CollectId
      <4>1. StartedTraces \subseteq CollectId
        BY <1>1, StartedType DEF TypeInv, ReceiversOK
      <4> QED
        BY <1>1, <3>2, <4>1, HeldTraces
    <3>4. ~Gone(c)
      BY <2>4, <3>2 DEF Gone, StartedTraces
    <3>5. DropCollect(c) \notin ToSet(batch)
      BY <2>4, <3>2 DEF StartedTraces
    <3>6. \A t \in Thread : DropCollect(c) \notin ToSet(Ring(t))
      BY <2>4, <3>2, <3>3 DEF CancelInv
    <3> QED
      BY <2>6, <3>3, <3>4, <3>5, <3>6 DEF CancelInv
  <2>7. \A c \in CollectId \cap seen.cancelled :
          \/ Gone(c)'
          \/ \E u \in Thread : DropCollect(c) \in ToSet(Ring(u)')
    BY <2>1, <2>5, <1>a DEF CancelInv
  <2> QED
    BY <2>1, <2>2, <2>6, <2>7 DEF CancelInv
<1> QED
  BY <1>1, <1>3, <1>4, <1>5, <1>6, <1>7, <1>8, StepKinds

\* As long as every channel has room for the forced commands, no span of a trace
\* whose root was cancelled before it ended is reported, for any number of
\* threads, traces and spans, when spans stay with the thread that created them.
THEOREM CancelledNeverReported == ~Migrate /\ Spec /\ []NothingParked => []CancelHonoured
PROOF
<1>1. Init => CancelInv
  <2> SUFFICES ASSUME Init
               PROVE  CancelInv
    OBVIOUS
  <2>1. /\ ToSet(<<>>) = {} /\ seen.cancelled = {} /\ Got = {}
        /\ \A t \in Thread : Ring(t) = <<>>
    BY ShortRanges DEF Init, Ring, NewChannel, Got, EmptyBag, SetToBag
  <2> QED
    BY <2>1 DEF CancelInv
<1>2. CancelInv => CancelHonoured
  <2> SUFFICES ASSUME CancelInv, NEW r \in DOMAIN reported, r.trace \in seen.cancelled
               PROVE  FALSE
    BY DEF CancelHonoured
  <2>1. <<r.trace, r.span>> \in Got
    BY DEF Got
  <2>2. \A p \in Got : p[1] \notin seen.cancelled
    BY DEF CancelInv
  <2>3. <<r.trace, r.span>>[1] = r.trace
    OBVIOUS
  <2> QED
    BY <2>1, <2>2, <2>3
<1>3. CASE ~Migrate /\ Cancelable
  <2>1. KeptFlow /\ CancelInv /\ NothingParked /\ NothingParked' /\ [Next]_vars => CancelInv'
    BY <1>3, NextCancel DEF KeptFlow
  <2>2. Spec => []KeptFlow
    BY <1>3, KeptFlowHolds
  <2> QED
    BY <1>1, <1>2, <2>1, <2>2, PTL DEF Spec
<1>4. CASE Migrate
  BY <1>4
<1>5. CASE ~Cancelable
  <2>1. CancelHonoured
    BY <1>5 DEF CancelHonoured
  <2> QED
    BY <2>1, PTL
<1> QED
  BY <1>3, <1>4, <1>5

-----------------------------------------------------------------------------
(* flush, as long as no thread ends.                                          *)

\* What makes the reporter get a span that is owed: the batch that commits its
\* trace or, unless traces are cancelable, the batch it is submitted in.
Landed(p) == IF Cancelable THEN p[1] \in seen.done ELSE p \in Got

Carries(m, p) == IF Cancelable THEN m = CommitCollect(p[1]) ELSE p \in NewPairs(m)

InBatch(p)   == \E m \in ToSet(batch) : Carries(m, p)
InRing(t, p) == \E m \in ToSet(Ring(t)) : Carries(m, p)

\* The drain in progress will find it: its receiver is not passed yet.
ToCome(p) ==
  /\ at # 0
  /\ \E k \in DOMAIN rxs : k >= at /\ (k = at => ~empty) /\ InRing(rxs[k], p)

FlushInv ==
  /\ \A t \in Thread : thread[t] \in {"run", "flush"}
  /\ \A p \in seen.owed : Landed(p) \/ InBatch(p) \/ \E t \in Thread : InRing(t, p)
  /\ \A t \in Thread : seen.asked[t] \subseteq seen.owed
  /\ runner \in Thread => \A p \in seen.asked[runner] : Landed(p) \/ InBatch(p) \/ ToCome(p)
  /\ \A p \in seen.due : p \in seen.owed /\ Landed(p)

\* The steps of the registration of receivers and of the drain.
Scans ==
  \/ LoopBegin \/ RecvEmpty \/ RecvNone \/ RecvDone
  \/ \E t \in Thread : FlushBegin(t) \/ RegisterReceiver(t)

Still == UNCHANGED <<thread, chan, rxs, runner, at, empty, batch, reported, seen>>

LEMMA ScanKinds ==
  ASSUME TypeInv, SeenOK, MayExit = {}, FlushInv, [Next]_vars
  PROVE  \/ Still \/ Scans \/ ProcessBatch
         \/ \E t \in Thread : \/ Flush(t) \/ Call(t) \/ Pushes(t) \/ Parks(t)
                              \/ Loses(t) \/ Unparks(t) \/ Receives(t)
PROOF
<1>1. \A t \in Thread : ~ExitThread(t) /\ ~ExitDrain(t) /\ ~ExitDone(t)
  BY DEF FlushInv, ExitThread, ExitDrain, ExitDone
<1>2. ~RecvClosed
  <2> SUFFICES ASSUME RecvClosed
               PROVE  FALSE
    OBVIOUS
  <2>1. PICK t \in Thread : t = Current
    BY ElementOfSeq, LenProperties DEF RecvClosed, AtReceiver, Current, TypeInv, ReceiversOK
  <2>2. ~chan[t].open
    BY <2>1 DEF RecvClosed
  <2>3. thread[t] = "gone"
    BY <2>2 DEF TypeInv, ChannelsOK
  <2> QED
    BY <2>3 DEF FlushInv
<1>3. ASSUME NEW t \in Thread, ForceRetryFull(t)
      PROVE  Still
  BY <1>3 DEF ForceRetryFull, Still, collVars
<1>4. CASE UNCHANGED vars
  BY <1>4 DEF vars, Still
<1>5. ASSUME NEW t \in Thread, Send(t)
      PROVE  Still \/ Scans \/ Pushes(t) \/ Parks(t) \/ Loses(t) \/ Unparks(t)
  BY <1>3, <1>5, SendKinds DEF Scans
<1>6. ASSUME Collect
      PROVE  Scans \/ ProcessBatch \/ \E t \in Thread : Receives(t)
  BY <1>2, <1>6, RecvKind DEF Collect, Scans
<1> QED
  BY <1>1, <1>4, <1>5, <1>6 DEF Next

\* What has landed stays so.
LEMMA LandedStays ==
  ASSUME TypeInv, SeenOK, [Next]_vars, NEW p, Landed(p)
  PROVE  Landed(p)'
PROOF
<1>1. seen.done \subseteq seen'.done /\ Got \subseteq Got'
  <2>1. CASE NothingMoves
    BY <2>1 DEF NothingMoves, SeenOK, Got
  <2>2. CASE ProcessBatch
    <3>1. DOMAIN reported \subseteq DOMAIN reported'
      BY <2>2, BatchEffect
    <3> QED
      BY <2>2, <3>1, BatchHistory DEF Got
  <2>3. ASSUME NEW t \in Thread, Pushes(t) \/ Parks(t)
        PROVE  seen'.done = seen.done /\ Got' = Got
    BY <2>3, TakesSets, RecordEffect DEF Pushes, Parks, Got
  <2>4. ASSUME NEW t \in Thread, Call(t) \/ Loses(t) \/ Unparks(t) \/ Receives(t)
        PROVE  seen' = seen /\ Got' = Got
    <3>1. CASE Call(t)
      BY <3>1, CallType DEF Got, collVars
    <3>2. CASE Loses(t)
      BY <3>2, TakesSets DEF Loses, Got
    <3>3. CASE Unparks(t)
      BY <3>3, UnparkSets DEF Got
    <3>4. CASE Receives(t)
      BY <3>4, ReceiveSets DEF Got
    <3> QED
      BY <2>4, <3>1, <3>2, <3>3, <3>4
  <2> QED
    BY <2>1, <2>2, <2>3, <2>4, StepKinds
<1> QED
  BY <1>1 DEF Landed

\* A batch lands what it carries.
LEMMA BatchLands ==
  ASSUME TypeInv, SeenOK, ProcessBatch, NEW p, InBatch(p)
  PROVE  Landed(p)'
PROOF
<1>1. PICK m \in ToSet(batch) : Carries(m, p)
  BY DEF InBatch
<1>2. m \in Command
  BY CommandSeqs
<1>3. CASE Cancelable
  <2>1. m.cmd = "commit" /\ m.collect = p[1]
    BY <1>1, <1>3 DEF Carries, CommitCollect
  <2>2. p[1] \in Ids("commit")
    BY <2>1 DEF Ids
  <2> QED
    BY <1>3, <2>2, BatchHistory DEF Landed
<1>4. CASE ~Cancelable
  <2>1. m.cmd = "submit" /\ p \in PairsOf(ToSet(Copies(m)))
    BY <1>1, <1>4 DEF Carries, NewPairs
  <2>2. PICK coll \in ToSet(Copies(m)), raw \in RawSpan :
          raw \in ToSet(coll.set) /\ raw.kind = "Span" /\ p = <<coll.trace, raw.id>>
    BY <2>1, PairsOfMember
  <2>3. coll \in SubmittedBy(ToSet(batch))
    BY <2>1, <2>2 DEF SubmittedBy
  <2> DEFINE late == {x \in SubmittedBy(ToSet(batch)) : x.trace \notin StartedTraces}
  <2>4. Got' = Got \cup (UNION {PairsOf(HeldBy(c)) : c \in StartedTraces}) \cup PairsOf(late)
    BY <1>4, BatchEffect
  <2>5. CASE coll.trace \in StartedTraces
    <3>1. coll \in HeldBy(coll.trace)
      BY <2>3 DEF HeldBy
    <3>2. p \in PairsOf(HeldBy(coll.trace))
      BY <2>2, <3>1, PairsOfMember
    <3> QED
      BY <1>4, <2>4, <2>5, <3>2 DEF Landed
  <2>6. CASE coll.trace \notin StartedTraces
    <3>1. coll \in late
      BY <2>3, <2>6
    <3>2. p \in PairsOf(late)
      BY <2>2, <3>1, PairsOfMember
    <3> QED
      BY <1>4, <2>4, <3>2 DEF Landed
  <2> QED
    BY <2>5, <2>6
<1> QED
  BY <1>3, <1>4

\* What is owed anew is in the channel that accepted the command.
LEMMA OwedCarried ==
  ASSUME SeenOK, NEW m \in Command, NEW p \in OwedFor(m)
  PROVE  Carries(m, p) /\ (~Cancelable => m.cmd = "submit") /\ (Cancelable => m.cmd = "commit")
PROOF
<1>1. CASE Cancelable
  <2>1. m.cmd = "commit" /\ p \in {Pair(a) : a \in {x \in seen.sent : IsSpan(x) /\ x.trace = m.collect}}
    BY <1>1 DEF OwedFor
  <2>2. p[1] = m.collect
    BY <2>1 DEF Pair
  <2>3. m = CommitCollect(p[1])
    BY <2>1, <2>2, CommandShape
  <2> QED
    BY <1>1, <2>1, <2>3 DEF Carries
<1>2. CASE ~Cancelable
  <2>1. m.cmd = "submit" /\ p \in {Pair(a) : a \in {x \in SentBy(m) : IsSpan(x)}}
    BY <1>2 DEF OwedFor
  <2>2. p \in NewPairs(m)
    BY <2>1, SubmitSends DEF SentBy, NewPairs
  <2> QED
    BY <1>2, <2>1, <2>2 DEF Carries
<1> QED
  BY <1>1, <1>2

\* The scan finds every channel that holds a command.
LEMMA FlushScans ==
  ASSUME TypeInv, SeenOK, FlushInv, Scans
  PROVE  FlushInv'
PROOF
<1>1. /\ UNCHANGED <<thread, chan, batch, reported, seen>>
      /\ \A p : (Landed(p)' <=> Landed(p)) /\ (InBatch(p)' <=> InBatch(p))
      /\ \A t \in Thread : \A p : InRing(t, p)' <=> InRing(t, p)
  <2>1. UNCHANGED <<thread, chan, batch, reported, seen>>
    BY DEF Scans, LoopBegin, FlushBegin, Begin, RecvEmpty, RecvNone, RecvDone, RegisterReceiver, collVars
  <2> QED
    BY <2>1 DEF Landed, InBatch, InRing, Got, Ring
<1>2. rxs \in Seq(Thread) /\ at \in 0 .. Len(rxs) + 1 /\ DOMAIN rxs = 1 .. Len(rxs) /\ Len(rxs) \in Nat
  BY LenProperties DEF TypeInv, ReceiversOK
<1>3. \A k \in DOMAIN rxs : rxs[k] \in Thread
  BY <1>2, ElementOfSeq
<1>4. ASSUME runner' \in Thread, NEW p \in seen.asked[runner'], ~Landed(p), ~InBatch(p)
      PROVE  ToCome(p)'
  <2>1. CASE RecvEmpty \/ RecvNone \/ RecvDone
    <3>1. runner' = runner /\ rxs' = rxs
      BY <2>1 DEF RecvEmpty, RecvNone, RecvDone
    <3>2. at # 0 /\ \E k \in DOMAIN rxs : k >= at /\ (k = at => ~empty) /\ InRing(rxs[k], p)
      BY <1>4, <3>1 DEF FlushInv, ToCome
    <3>3. PICK k \in DOMAIN rxs : k >= at /\ (k = at => ~empty) /\ InRing(rxs[k], p)
      BY <3>2
    <3>4. Ring(rxs[k]) # <<>> /\ InRing(rxs[k], p)'
      <4>1. PICK u \in Thread : u = rxs[k]
        BY <1>3, <3>3
      <4>2. InRing(u, p)
        BY <3>3, <4>1
      <4>3. Ring(u) # <<>>
        <5>1. ToSet(<<>>) = {}
          BY ShortRanges
        <5> QED
          BY <4>2, <5>1 DEF InRing
      <4>4. InRing(u, p)'
        BY <1>1, <4>2
      <4>5. rxs'[k] = u
        BY <3>1, <4>1
      <4> QED
        BY <4>1, <4>3, <4>4, <4>5
    <3>5. CASE RecvEmpty
      <4>1. at' = at /\ Ring(rxs[at]) = <<>>
        BY <3>5 DEF RecvEmpty, Current, Ring
      <4>2. k # at
        BY <3>4, <4>1
      <4> QED
        BY <3>1, <3>2, <3>3, <3>4, <4>1, <4>2 DEF ToCome
    <3>6. CASE RecvNone
      <4>1. at' = at + 1 /\ empty /\ ~empty'
        BY <3>6 DEF RecvNone
      <4>2. k # at
        BY <3>3, <4>1
      <4>3. k \in Nat /\ at \in Nat /\ k >= at' /\ at' # 0
        BY <1>2, <3>3, <4>1, <4>2
      <4> QED
        BY <3>1, <3>4, <4>1, <4>3 DEF ToCome
    <3>7. CASE RecvDone
      <4>1. at = Len(rxs) + 1 /\ k <= Len(rxs)
        BY <1>2, <3>7 DEF RecvDone
      <4> QED
        BY <1>2, <3>3, <4>1
    <3> QED
      BY <2>1, <3>5, <3>6, <3>7
  <2>2. ASSUME NEW t \in Thread, RegisterReceiver(t)
        PROVE  FALSE
    <3>1. runner' = runner /\ at = 0
      BY <2>2 DEF RegisterReceiver, Draining, collVars
    <3> QED
      BY <1>4, <3>1 DEF FlushInv, ToCome
  <2>3. CASE LoopBegin
    <3>1. runner' = "loop"
      BY <2>3 DEF LoopBegin, Begin
    <3> QED
      BY <1>4, <3>1, CollectorAssumption
  <2>4. ASSUME NEW t \in Thread, FlushBegin(t)
        PROVE  ToCome(p)'
    <3>1. runner = "none" /\ runner' = t /\ at' = 1 /\ rxs' = rxs
      BY <2>4 DEF FlushBegin, Begin
    <3>2. at = 0
      BY <3>1 DEF TypeInv, ReceiversOK
    <3>3. ~empty
      BY <1>2, <3>2 DEF TypeInv, ReceiversOK, AtReceiver
    <3>4. ~empty'
      BY <2>4, <3>3 DEF FlushBegin, Begin
    <3>5. p \in seen.owed
      BY <1>4, <3>1 DEF FlushInv
    <3>6. PICK u \in Thread : InRing(u, p)
      BY <1>4, <3>5 DEF FlushInv
    <3>7. Ring(u) # <<>> /\ thread[u] # "gone"
      <4>1. ToSet(<<>>) = {}
        BY ShortRanges
      <4> QED
        BY <3>6, <4>1 DEF InRing, FlushInv
    <3>8. u \in ToSet(rxs)
      BY <3>7 DEF TypeInv, ChannelsOK, Ring
    <3>9. PICK k \in DOMAIN rxs : rxs[k] = u
      BY <3>8 DEF ToSet
    <3>10. InRing(rxs[k], p)'
      BY <1>1, <3>1, <3>6, <3>9
    <3> QED
      BY <1>2, <3>1, <3>4, <3>9, <3>10 DEF ToCome
  <2> QED
    BY <2>1, <2>2, <2>3, <2>4 DEF Scans
<1> QED
  BY <1>1, <1>4 DEF FlushInv

\* A step of a thread moves commands toward the batch.
LEMMA FlushMoves ==
  ASSUME TypeInv, SeenOK, FlushInv, Cancelable => NothingParked /\ NothingParked',
         [Next]_vars, NEW t \in Thread,
         Call(t) \/ Pushes(t) \/ Parks(t) \/ Loses(t) \/ Unparks(t) \/ Receives(t)
  PROVE  FlushInv'
PROOF
<1>1. /\ UNCHANGED <<thread, rxs, runner, at, empty>>
      /\ \A u \in Thread \ {t} : Ring(u)' = Ring(u)
  <2>1. CASE Call(t)
    BY <2>1, CallType DEF collVars, Ring
  <2>2. CASE Pushes(t) \/ Parks(t) \/ Loses(t)
    BY <2>2 DEF Pushes, Parks, Loses, Takes, collVars
  <2>3. CASE Unparks(t) \/ Receives(t)
    BY <2>3 DEF Unparks, Receives, collVars
  <2> QED
    BY <2>1, <2>2, <2>3
<1>2. /\ ToSet(batch) \subseteq ToSet(batch')
      /\ ToSet(Ring(t)) \subseteq ToSet(Ring(t)') \cup ToSet(batch')
  <2>0. Ring(t) \in Seq(Command) /\ \A m \in ToSet(Parked(t)) : m \in Command
    BY CommandSeqs
  <2>1. CASE Call(t)
    BY <2>1, CallType DEF collVars, Ring
  <2>2. CASE Pushes(t)
    <3>1. UNCHANGED batch /\ Cmd(t) \in Command
      BY <2>2, TakesSets DEF Pushes
    <3>2. ToSet(Ring(t)') = ToSet(Ring(t)) \cup {Cmd(t)}
      BY <2>0, <2>2, <3>1, AppendRange DEF Pushes
    <3> QED
      BY <3>1, <3>2
  <2>3. CASE Parks(t) \/ Loses(t)
    BY <2>3 DEF Parks, Loses, Takes, collVars
  <2>4. CASE Unparks(t)
    <3>1. ToSet(Ring(t)) \subseteq ToSet(Ring(t)')
      <4>1. CASE Ring(t)' = Ring(t)
        BY <4>1
      <4>2. CASE \E m \in ToSet(Parked(t)) : Ring(t)' = Append(Ring(t), m)
        BY <2>0, <4>2, AppendRange
      <4> QED
        BY <2>4, <4>1, <4>2 DEF Unparks
    <3> QED
      BY <2>4, <3>1 DEF Unparks, collVars
  <2>5. CASE Receives(t)
    BY <2>5, ReceiveSets
  <2> QED
    BY <2>1, <2>2, <2>3, <2>4, <2>5
<1>3. \A p : /\ Landed(p) => Landed(p)'
             /\ InBatch(p) => InBatch(p)'
             /\ \A u \in Thread : InRing(u, p) => InRing(u, p)' \/ InBatch(p)'
  <2>1. \A p : Landed(p) => Landed(p)'
    BY LandedStays
  <2>2. \A p : InBatch(p) => InBatch(p)'
    BY <1>2 DEF InBatch
  <2>3. ASSUME NEW p, NEW u \in Thread, InRing(u, p)
        PROVE  InRing(u, p)' \/ InBatch(p)'
    <3>1. CASE u = t
      BY <1>2, <2>3, <3>1 DEF InRing, InBatch
    <3>2. CASE u # t
      BY <1>1, <2>3, <3>2 DEF InRing
    <3> QED
      BY <3>1, <3>2
  <2> QED
    BY <2>1, <2>2, <2>3
<1>4. \A p : ToCome(p) => ToCome(p)' \/ InBatch(p)'
  <2>1. rxs \in Seq(Thread)
    BY DEF TypeInv, ReceiversOK
  <2>2. \A k \in DOMAIN rxs : rxs[k] \in Thread
    BY <2>1, ElementOfSeq, LenProperties
  <2> QED
    BY <1>1, <1>3, <2>2 DEF ToCome
<1>5. /\ seen'.asked = seen.asked /\ seen'.due = seen.due /\ seen.owed \subseteq seen'.owed
      /\ \A p \in seen'.owed \ seen.owed : InRing(t, p)'
  <2>1. CASE Call(t) \/ Loses(t) \/ Unparks(t) \/ Receives(t)
    <3>1. seen' = seen
      BY <2>1, CallType DEF Loses, Unparks, Receives
    <3> QED
      BY <3>1
  <2>2. CASE Pushes(t) \/ Parks(t)
    <3>1. PICK m \in Command : m = Cmd(t)
      BY <2>2, TakesSets DEF Pushes, Parks
    <3>2. seen' = Record(m)
      BY <2>2, <3>1 DEF Pushes, Parks
    <3>3. seen'.asked = seen.asked /\ seen'.due = seen.due /\ seen'.owed = seen.owed \cup OwedFor(m)
      BY <3>2, RecordEffect
    <3>4. CASE Pushes(t)
      <4>1. Ring(t) \in Seq(Command) /\ Ring(t)' = Append(Ring(t), m)
        BY <3>1, <3>4, CommandSeqs DEF Pushes
      <4>2. m \in ToSet(Ring(t)')
        BY <4>1, AppendRange
      <4>3. \A p \in OwedFor(m) : Carries(m, p)
        BY OwedCarried
      <4> QED
        BY <3>3, <4>2, <4>3 DEF InRing, Carries
    <3>5. CASE Parks(t)
      <4>1. OwedFor(m) = {}
        <5>1. CASE Cancelable
          <6>1. Parked(t) = <<>> /\ Parked(t)' = <<>>
            BY <5>1 DEF NothingParked, Parked
          <6>2. Parked(t) \in Seq(Command) /\ Parked(t)' = Append(Parked(t), m)
            BY <3>1, <3>5, CommandSeqs DEF Parks
          <6>3. Len(Parked(t)') = Len(Parked(t)) + 1 /\ Len(<<>>) = 0
            BY <6>2, AppendRange
          <6> QED
            BY <6>1, <6>3
        <5>2. CASE ~Cancelable
          <6>1. m.cmd # "submit"
            BY <3>1, <3>5 DEF Parks, Forced
          <6> QED
            BY <5>2, <6>1 DEF OwedFor
        <5> QED
          BY <5>1, <5>2
      <4> QED
        BY <3>3, <4>1
    <3> QED
      BY <2>2, <3>4, <3>5
  <2> QED
    BY <2>1, <2>2
<1>6. \A u \in Thread : thread'[u] \in {"run", "flush"}
  BY <1>1 DEF FlushInv
<1>7. \A p \in seen'.owed : Landed(p)' \/ InBatch(p)' \/ \E u \in Thread : InRing(u, p)'
  BY <1>3, <1>5 DEF FlushInv
<1>8. \A u \in Thread : seen'.asked[u] \subseteq seen'.owed
  BY <1>5 DEF FlushInv
<1>9. runner' \in Thread => \A p \in seen'.asked[runner'] : Landed(p)' \/ InBatch(p)' \/ ToCome(p)'
  BY <1>1, <1>3, <1>4, <1>5 DEF FlushInv
<1>10. \A p \in seen'.due : p \in seen'.owed /\ Landed(p)'
  BY <1>3, <1>5 DEF FlushInv
<1> QED
  BY <1>6, <1>7, <1>8, <1>9, <1>10 DEF FlushInv

LEMMA FlushBatch ==
  ASSUME TypeInv, SeenOK, FlushInv, ProcessBatch
  PROVE  FlushInv'
PROOF
<1>1. runner # "none" /\ at = 0 /\ runner' = "none"
      /\ thread' = [t \in Thread |-> IF t = runner THEN "run" ELSE thread[t]]
      /\ \A t \in Thread : Ring(t)' = Ring(t)
  BY DEF ProcessBatch, Draining, Ring
<1>2. \A p : Landed(p) \/ InBatch(p) => Landed(p)'
  <2>1. [Next]_vars
    BY DEF Next, Collect
  <2> QED
    BY <2>1, LandedStays, BatchLands
<1>3. \A p : \A t \in Thread : InRing(t, p) => InRing(t, p)'
  BY <1>1 DEF InRing
<1>4. /\ seen'.owed = seen.owed
      /\ seen'.due = seen.due \cup (IF runner = "loop" THEN {} ELSE seen.asked[runner])
      /\ \A t \in Thread : seen'.asked[t] \subseteq seen.asked[t]
  BY BatchHistory
<1>5. runner \in {"loop"} \cup Thread /\ "none" \notin Thread
  BY <1>1, CollectorAssumption DEF TypeInv, ReceiversOK
<1>6. \A p \in seen'.due : p \in seen.owed /\ Landed(p)'
  <2> SUFFICES ASSUME NEW p \in seen'.due
               PROVE  p \in seen.owed /\ Landed(p)'
    OBVIOUS
  <2>1. CASE p \in seen.due
    BY <1>2, <2>1 DEF FlushInv
  <2>2. CASE p \notin seen.due
    <3>1. runner \in Thread /\ p \in seen.asked[runner]
      BY <1>4, <1>5, <2>2
    <3>2. p \in seen.owed /\ (Landed(p) \/ InBatch(p))
      BY <1>1, <3>1 DEF FlushInv, ToCome
    <3> QED
      BY <1>2, <3>2
  <2> QED
    BY <2>1, <2>2
<1>7. \A t \in Thread : thread'[t] \in {"run", "flush"}
  BY <1>1 DEF FlushInv
<1>8. \A p \in seen'.owed : Landed(p)' \/ InBatch(p)' \/ \E t \in Thread : InRing(t, p)'
  BY <1>2, <1>3, <1>4 DEF FlushInv
<1>9. \A t \in Thread : seen'.asked[t] \subseteq seen'.owed
  BY <1>4 DEF FlushInv
<1> QED
  BY <1>1, <1>4, <1>5, <1>6, <1>7, <1>8, <1>9 DEF FlushInv

LEMMA NextFlush ==
  MayExit = {} /\ TypeInv /\ SeenOK /\ FlushInv /\ (Cancelable => NothingParked /\ NothingParked') /\ [Next]_vars
    => FlushInv'
PROOF
<1> SUFFICES ASSUME MayExit = {}, TypeInv, SeenOK, FlushInv, Cancelable => NothingParked /\ NothingParked', [Next]_vars
             PROVE  FlushInv'
  OBVIOUS
<1>1. CASE Still
  <2>1. UNCHANGED <<thread, rxs, runner, at, empty, seen>>
        /\ \A p : /\ Landed(p)' <=> Landed(p)
                  /\ InBatch(p)' <=> InBatch(p)
                  /\ ToCome(p)' <=> ToCome(p)
                  /\ \A t \in Thread : InRing(t, p)' <=> InRing(t, p)
    BY <1>1 DEF Still, Landed, InBatch, InRing, ToCome, Got, Ring
  <2> QED
    BY <2>1 DEF FlushInv
<1>2. ASSUME NEW t \in Thread, Flush(t)
      PROVE  FlushInv'
  <2>1. UNCHANGED <<chan, rxs, runner, at, empty, batch, reported>>
        /\ thread' = [thread EXCEPT ![t] = "flush"] /\ seen' = [seen EXCEPT !.asked[t] = seen.owed] /\ thread[t] = "run"
    BY <1>2 DEF Flush, Idle, collVars
  <2>2. seen'.owed = seen.owed /\ seen'.due = seen.due /\ seen'.done = seen.done
        /\ seen'.asked[t] = seen.owed /\ \A u \in Thread \ {t} : seen'.asked[u] = seen.asked[u]
    BY <2>1 DEF SeenOK
  <2>3. \A p : /\ Landed(p)' <=> Landed(p)
               /\ InBatch(p)' <=> InBatch(p)
               /\ ToCome(p)' <=> ToCome(p)
               /\ \A u \in Thread : InRing(u, p)' <=> InRing(u, p)
    BY <2>1, <2>2 DEF Landed, InBatch, InRing, ToCome, Got, Ring
  <2>4. runner # t
    BY <2>1 DEF TypeInv, ReceiversOK
  <2>5. \A u \in Thread : thread'[u] \in {"run", "flush"}
    BY <2>1 DEF FlushInv, TypeInv, ThreadsOK
  <2> QED
    BY <2>1, <2>2, <2>3, <2>4, <2>5 DEF FlushInv
<1> QED
  BY <1>1, <1>2, FlushScans, FlushMoves, FlushBatch, ScanKinds

LEMMA InitFlush == Init => FlushInv
PROOF
<1> SUFFICES ASSUME Init
             PROVE  FlushInv
  OBVIOUS
<1>1. seen.owed = {} /\ seen.due = {} /\ \A t \in Thread : seen.asked[t] = {} /\ thread[t] = "run"
  BY DEF Init
<1>2. runner \notin Thread
  BY CollectorAssumption DEF Init
<1> QED
  BY <1>1, <1>2 DEF FlushInv

\* flush() returns only after everything owed when it was called has been
\* reported, for any number of threads and spans and any capacity of the
\* channels, when traces are not cancelable and no thread ends.
THEOREM FlushReportsSubmitted == ~Cancelable /\ MayExit = {} /\ Spec => []FlushReports
PROOF
<1>1. CASE ~Cancelable /\ MayExit = {}
  <2>1. FlowInv /\ FlushInv /\ [Next]_vars => FlushInv'
    BY <1>1, NextFlush DEF FlowInv
  <2>2. FlushInv => FlushReports
    BY <1>1 DEF FlushInv, FlushReports, Landed
  <2> QED
    BY <2>1, <2>2, InitFlush, FlowHolds, PTL DEF Spec
<1>2. CASE ~(~Cancelable /\ MayExit = {})
  BY <1>2
<1> QED
  BY <1>1, <1>2

\* The same of the committed traces when traces are cancelable, as long as no
\* commit has to be parked and spans stay with the thread that created them.
THEOREM FlushReportsCommitted ==
  Cancelable /\ ~Migrate /\ MayExit = {} /\ Spec /\ []NothingParked => []FlushReports
PROOF
<1>1. CASE Cancelable /\ ~Migrate /\ MayExit = {}
  <2>1. KeptFlow /\ FlushInv /\ NothingParked /\ NothingParked' /\ [Next]_vars => FlushInv'
    BY <1>1, NextFlush DEF KeptFlow, HomeFlow, FlowInv
  <2>2. KeptFlow /\ FlushInv => FlushReports
    <3> SUFFICES ASSUME KeptFlow, FlushInv, NEW p \in seen.due
                 PROVE  p \in Got
      BY DEF FlushReports
    <3>1. p \in seen.owed /\ p[1] \in seen.done
      BY <1>1 DEF FlushInv, Landed
    <3> QED
      BY <1>1, <3>1 DEF KeptFlow, KeptInv, Wanted, Received, Ahead
  <2>3. Spec => []KeptFlow
    BY <1>1, KeptFlowHolds
  <2> QED
    BY <2>1, <2>2, <2>3, InitFlush, PTL DEF Spec
<1>2. CASE ~(Cancelable /\ ~Migrate /\ MayExit = {})
  BY <1>2
<1> QED
  BY <1>1, <1>2
=============================================================================
