------------------------ MODULE LocalSpanStackProofs ------------------------
(***************************************************************************)
(* The thread-local span stack, proved for every capacity, every set of    *)
(* tokens and whatever is opened and dropped in whatever order: what a     *)
(* guard hands over belongs to its scope and is well formed, and with      *)
(* guards dropped in scope order no assertion of the stack fires and it    *)
(* names the innermost span (fastrace/src/local/*.rs).                     *)
(***************************************************************************)
EXTENDS LocalSpanStack, SequenceTheorems, TLAPS

-----------------------------------------------------------------------------
(* The inductive invariant. *)

AnyToken == Tokens \cup {NoToken}

QueuedSpan == [id : Nat \ {0}, parent : Nat, kind : {"Span", "Attachment"},
               ended : BOOLEAN, tagged : BOOLEAN]

Line == [epoch : Nat, token : AnyToken, queue : Seq(QueuedSpan), next : Nat]

ScopeGuard == [kind : {"parent", "collector"}, epoch : Nat]

SpanGuard == [kind : {"span"}, epoch : Nat, index : Nat \ {0}, id : Nat \ {0}]

Guard == ScopeGuard \cup SpanGuard

Scope == [token : AnyToken, ids : SUBSET Nat, asked : SUBSET Nat]

SpanSet == [epoch : Nat, token : AnyToken, spans : Seq(QueuedSpan)]

TypeInv ==
  /\ scoped \in BOOLEAN /\ debug \in BOOLEAN
  /\ lines \in Seq(Line) /\ Len(lines) <= StackCapacity
  /\ nextEpoch \in 0 .. MaxOpen /\ nextId \in 1 .. MaxId + 1
  /\ guards \in Seq(Guard)
  /\ submitted \in SUBSET SpanSet
  /\ panicked \in {"no", "exhausted", "assertion", "token"}
  /\ made \in [0 .. nextEpoch - 1 -> Scope]

\* A line holds what was recorded in its scope.
LineWith(line, scope) ==
  /\ line.token = scope.token
  /\ Ids(line.queue) = scope.ids
  /\ Len(line.queue) <= QueueCapacity
  /\ \/ line.next = NoParent
     \/ \E j \in DOMAIN line.queue : line.queue[j].id = line.next /\ line.queue[j].kind = "Span"
  /\ ParentPrecedes(line.queue)
  /\ \A k \in DOMAIN line.queue : line.queue[k].tagged => line.queue[k].id \in scope.asked

LinesInv ==
  \A n \in DOMAIN lines :
     /\ lines[n].epoch \in DOMAIN made
     /\ LineWith(lines[n], made[lines[n].epoch])
     /\ \A m \in 1 .. n - 1 : lines[m].epoch < lines[n].epoch

IsSpanGuard(g) == g.kind = "span"

IsScopeGuard(g) == g.kind # "span" /\ g.epoch # NoEpoch

\* As long as its line is there, the handle of a span leads to that span.
Leads(g, line) ==
  /\ g.index \in DOMAIN line.queue
  /\ line.queue[g.index].id = g.id /\ line.queue[g.index].kind = "Span"

GuardWith(g) ==
  /\ IsSpanGuard(g) =>
       /\ g.epoch \in DOMAIN made
       /\ \A n \in DOMAIN lines : lines[n].epoch = g.epoch => Leads(g, lines[n])
  /\ IsScopeGuard(g) =>
       /\ g.epoch \in DOMAIN made
       /\ g.kind = "collector" => made[g.epoch].token = NoToken

GuardsInv == \A i \in DOMAIN guards : GuardWith(guards[i])

\* What was handed over is the whole of a scope that is no longer on the stack.
SubmittedInv ==
  \A s \in submitted :
     /\ s.epoch \in DOMAIN made
     /\ s.token = made[s.epoch].token /\ Ids(s.spans) = made[s.epoch].ids
     /\ ParentPrecedes(s.spans)
     /\ \A n \in DOMAIN lines : lines[n].epoch # s.epoch

AnyOrderInv == TypeInv /\ LinesInv /\ GuardsInv /\ SubmittedInv

-----------------------------------------------------------------------------
(* Sequences. *)

\* What RemoveAt leaves, element by element.
LEMMA RemoveAtElements ==
  ASSUME NEW S, NEW seq \in Seq(S), NEW i \in 1 .. Len(seq)
  PROVE  /\ RemoveAt(seq, i) \in Seq(S)
         /\ Len(RemoveAt(seq, i)) = Len(seq) - 1
         /\ \A j \in 1 .. Len(seq) - 1 :
              RemoveAt(seq, i)[j] = IF j < i THEN seq[j] ELSE seq[j + 1]
PROOF
<1> DEFINE n == Len(seq)
           a == SubSeq(seq, 1, i - 1)
           b == SubSeq(seq, i + 1, n)
<1>1. n \in Nat /\ i \in Int /\ 1 <= i /\ i <= n
  BY LenProperties
<1>2. \A j \in 1 .. n : seq[j] \in S
  BY ElementOfSeq
<1>3. RemoveAt(seq, i) = a \o b
  BY DEF RemoveAt
<1> HIDE DEF n
<1>4. /\ a \in Seq(S)
      /\ Len(a) = IF 1 <= i - 1 THEN i - 1 - 1 + 1 ELSE 0
      /\ \A j \in 1 .. i - 1 - 1 + 1 : a[j] = seq[1 + j - 1]
  <2>1. \A j \in 1 .. i - 1 : seq[j] \in S
    BY <1>1, <1>2
  <2> QED
    BY <1>1, <2>1, SubSeqProperties
<1>5. /\ b \in Seq(S)
      /\ Len(b) = IF i + 1 <= n THEN n - (i + 1) + 1 ELSE 0
      /\ \A j \in 1 .. n - (i + 1) + 1 : b[j] = seq[i + 1 + j - 1]
  <2>1. \A j \in i + 1 .. n : seq[j] \in S
    BY <1>1, <1>2
  <2> QED
    BY <1>1, <2>1, SubSeqProperties
<1> HIDE DEF a, b
<1>6. Len(a) = i - 1 /\ Len(b) = n - i
  BY <1>1, <1>4, <1>5
<1>7. /\ a \o b \in Seq(S) /\ Len(a \o b) = Len(a) + Len(b)
      /\ \A j \in 1 .. Len(a) + Len(b) : (a \o b)[j] = IF j <= Len(a) THEN a[j] ELSE b[j - Len(a)]
  BY <1>4, <1>5, ConcatProperties, Zenon
<1>8. Len(a) + Len(b) = n - 1
  BY <1>1, <1>6
<1>9. ASSUME NEW j \in 1 .. n - 1
      PROVE  (a \o b)[j] = IF j < i THEN seq[j] ELSE seq[j + 1]
  <2>1. CASE j < i
    <3>1. j \in 1 .. i - 1 - 1 + 1 /\ 1 + j - 1 = j /\ j <= Len(a) /\ j \in 1 .. Len(a) + Len(b)
      BY <1>1, <1>6, <1>8, <2>1
    <3> QED
      BY <1>4, <1>7, <2>1, <3>1
  <2>2. CASE ~(j < i)
    <3> DEFINE k == j - Len(a)
    <3>1. k \in 1 .. n - (i + 1) + 1 /\ i + 1 + k - 1 = j + 1 /\ ~(j <= Len(a)) /\ j \in 1 .. Len(a) + Len(b)
      BY <1>1, <1>6, <1>8, <2>2
    <3> QED
      BY <1>5, <1>7, <2>2, <3>1
  <2> QED
    BY <2>1, <2>2
<1> QED
  BY <1>3, <1>7, <1>8, <1>9 DEF n

\* What Front leaves, element by element.
LEMMA FrontElements ==
  ASSUME NEW S, NEW seq \in Seq(S), seq # <<>>
  PROVE  /\ Front(seq) \in Seq(S)
         /\ Len(seq) \in Nat \ {0} /\ Len(Front(seq)) = Len(seq) - 1
         /\ \A j \in 1 .. Len(seq) - 1 : Front(seq)[j] = seq[j]
PROOF
<1> DEFINE n == Len(seq)
<1>1. n \in Nat \ {0}
  BY EmptySeq
<1>2. \A j \in 1 .. n - 1 : seq[j] \in S
  BY <1>1, ElementOfSeq
<1>3. Front(seq) = SubSeq(seq, 1, n - 1)
  BY DEF Front
<1> HIDE DEF n
<1>4. /\ Front(seq) \in Seq(S)
      /\ Len(Front(seq)) = IF 1 <= n - 1 THEN n - 1 - 1 + 1 ELSE 0
      /\ \A j \in 1 .. n - 1 - 1 + 1 : Front(seq)[j] = seq[1 + j - 1]
  BY <1>1, <1>2, <1>3, SubSeqProperties
<1>5. Len(Front(seq)) = n - 1 /\ \A j \in 1 .. n - 1 : Front(seq)[j] = seq[j]
  BY <1>1, <1>4
<1> QED
  BY <1>1, <1>4, <1>5 DEF n

-----------------------------------------------------------------------------
(* Span lines. *)

\* Queues that agree on ids, parents and kinds hold the same spans.
LEMMA SameSpans ==
  ASSUME NEW p \in Seq(QueuedSpan), NEW q \in Seq(QueuedSpan), Len(p) = Len(q),
         \A k \in 1 .. Len(q) : p[k].id = q[k].id /\ p[k].parent = q[k].parent /\ p[k].kind = q[k].kind
  PROVE  /\ Ids(p) = Ids(q)
         /\ ParentPrecedes(q) => ParentPrecedes(p)
PROOF
<1>1. DOMAIN p = 1 .. Len(q) /\ DOMAIN q = 1 .. Len(q) /\ Len(q) \in Nat
  BY LenProperties
<1>2. Ids(p) = Ids(q)
  BY <1>1 DEF Ids
<1>3. ASSUME ParentPrecedes(q), NEW k \in DOMAIN p
      PROVE  p[k].parent = NoParent \/ \E j \in 1 .. k - 1 : p[j].id = p[k].parent /\ p[j].kind = "Span"
  <2>1. q[k].parent = NoParent \/ \E j \in 1 .. k - 1 : q[j].id = q[k].parent /\ q[j].kind = "Span"
    BY <1>1, <1>3 DEF ParentPrecedes
  <2>2. \A j \in 1 .. k - 1 : j \in 1 .. Len(q)
    BY <1>1
  <2> QED
    BY <1>1, <2>1, <2>2
<1> QED
  BY <1>2, <1>3 DEF ParentPrecedes

\* The scope in which one more span was recorded.
WithId(scope, id) == [scope EXCEPT !.ids = @ \cup {id}]

\* A new entry whose parent is the next parent of the line.
LEMMA AppendEntry ==
  ASSUME NEW line \in Line, NEW scope \in Scope, LineWith(line, scope),
         Len(line.queue) < QueueCapacity,
         NEW e \in QueuedSpan, e.parent = line.next, e.tagged = FALSE,
         NEW new \in Line, new.queue = Append(line.queue, e), new.token = line.token,
         new.next = line.next \/ (e.kind = "Span" /\ new.next = e.id)
  PROVE  LineWith(new, WithId(scope, e.id))
PROOF
<1> DEFINE wider == WithId(scope, e.id)
           q == line.queue
           n == Len(line.queue)
<1>1. q \in Seq(QueuedSpan) /\ n \in Nat /\ line.next \in Nat
  BY LenProperties DEF Line
<1>4. /\ new.queue \in Seq(QueuedSpan) /\ Len(new.queue) = n + 1
      /\ \A k \in 1 .. n : new.queue[k] = q[k]
      /\ new.queue[n + 1] = e
  <2>3. new.queue = Append(q, e)
    OBVIOUS
  <2> HIDE DEF q
  <2>1. /\ Append(q, e) \in Seq(QueuedSpan) /\ Len(Append(q, e)) = Len(q) + 1
        /\ \A k \in 1 .. Len(q) : Append(q, e)[k] = q[k]
        /\ Append(q, e)[Len(q) + 1] = e
    BY <1>1, AppendProperties
  <2>2. n = Len(q)
    BY DEF q
  <2> QED
    BY <2>1, <2>2, <2>3, Zenon
<1>5. DOMAIN new.queue = 1 .. n + 1 /\ DOMAIN q = 1 .. n
  BY <1>1, <1>4, LenProperties
<1>8. wider.token = scope.token /\ wider.ids = scope.ids \cup {e.id} /\ wider.asked = scope.asked
  BY DEF WithId, Scope
<1> HIDE DEF q, n, wider
<1>9. Ids(new.queue) = Ids(q) \cup {e.id}
  <2>1. \A k \in 1 .. n + 1 : k \in 1 .. n \/ k = n + 1
    BY <1>1
  <2>2. \A k \in 1 .. n : k \in 1 .. n + 1
    BY <1>1
  <2>3. n + 1 \in 1 .. n + 1
    BY <1>1
  <2> QED
    BY <1>4, <1>5, <2>1, <2>2, <2>3 DEF Ids
<1>10. ParentPrecedes(new.queue)
  <2>1. ParentPrecedes(q)
    BY DEF LineWith, q
  <2>2. ASSUME NEW k \in 1 .. n + 1
        PROVE  \/ new.queue[k].parent = NoParent
               \/ \E j \in 1 .. k - 1 : new.queue[j].id = new.queue[k].parent /\ new.queue[j].kind = "Span"
    <3>1. CASE k \in 1 .. n
      <4>1. q[k].parent = NoParent \/ \E j \in 1 .. k - 1 : q[j].id = q[k].parent /\ q[j].kind = "Span"
        BY <1>5, <2>1, <3>1 DEF ParentPrecedes
      <4>2. \A j \in 1 .. k - 1 : j \in 1 .. n
        BY <1>1, <3>1
      <4> QED
        BY <1>4, <3>1, <4>1, <4>2
    <3>2. CASE k = n + 1
      <4>1. line.next = NoParent \/ \E j \in 1 .. n : q[j].id = line.next /\ q[j].kind = "Span"
        BY <1>5 DEF LineWith, q
      <4>2. 1 .. k - 1 = 1 .. n
        BY <1>1, <3>2
      <4>3. new.queue[k].parent = line.next
        BY <1>4, <3>2
      <4>4. CASE line.next = NoParent
        BY <4>3, <4>4
      <4>5. CASE line.next # NoParent
        <5>1. PICK j \in 1 .. n : q[j].id = line.next /\ q[j].kind = "Span"
          BY <4>1, <4>5
        <5>2. new.queue[j].id = line.next /\ new.queue[j].kind = "Span"
          BY <1>4, <5>1
        <5> QED
          BY <4>2, <4>3, <5>2
      <4> QED
        BY <4>4, <4>5
    <3>3. k \in 1 .. n \/ k = n + 1
      BY <1>1
    <3> QED
      BY <3>1, <3>2, <3>3
  <2> QED
    BY <1>5, <2>2 DEF ParentPrecedes
<1>11. \/ new.next = NoParent
       \/ \E j \in DOMAIN new.queue : new.queue[j].id = new.next /\ new.queue[j].kind = "Span"
  <2>1. CASE new.next = line.next
    <3>1. line.next = NoParent \/ \E j \in 1 .. n : q[j].id = line.next /\ q[j].kind = "Span"
      BY <1>5 DEF LineWith, q
    <3>2. \A j \in 1 .. n : j \in 1 .. n + 1
      BY <1>1
    <3> QED
      BY <1>4, <1>5, <2>1, <3>1, <3>2
  <2>2. CASE e.kind = "Span" /\ new.next = e.id
    <3>1. n + 1 \in 1 .. n + 1
      BY <1>1
    <3> QED
      BY <1>4, <1>5, <2>2, <3>1
  <2> QED
    BY <2>1, <2>2
<1>12. \A k \in DOMAIN new.queue : new.queue[k].tagged => new.queue[k].id \in wider.asked
  <2>1. \A k \in 1 .. n : q[k].tagged => q[k].id \in scope.asked
    BY <1>5 DEF LineWith, q
  <2>2. \A k \in 1 .. n + 1 : k \in 1 .. n \/ k = n + 1
    BY <1>1
  <2> QED
    BY <1>4, <1>5, <1>8, <2>1, <2>2
<1>13. Len(new.queue) <= QueueCapacity
  BY <1>1, <1>4, LocalAssumption DEF n
<1>14. LineWith(new, wider)
  <2>1. line.token = scope.token /\ Ids(q) = scope.ids
    BY DEF LineWith, q
  <2> QED
    BY <1>8, <1>9, <1>10, <1>11, <1>12, <1>13, <2>1 DEF LineWith
<1> QED
  BY <1>14 DEF wider

\* start_span, on a line that holds its scope.
LEMMA StartSpanLine ==
  ASSUME NEW line \in Line, NEW scope \in Scope, LineWith(line, scope),
         Len(line.queue) < QueueCapacity, NEW id \in Nat \ {0},
         NEW new, new = StartSpan(line, id)
  PROVE  /\ new \in Line /\ new.epoch = line.epoch /\ new.next = id /\ LineWith(new, WithId(scope, id))
         /\ Len(line.queue) \in Nat /\ Len(new.queue) = Len(line.queue) + 1
         /\ \A k \in 1 .. Len(line.queue) : new.queue[k] = line.queue[k]
         /\ new.queue[Len(line.queue) + 1] = Entry(id, line.next, "Span")
PROOF
<1> DEFINE e == Entry(id, line.next, "Span")
<1>1. /\ new.queue = Append(line.queue, e) /\ new.next = id
      /\ new.epoch = line.epoch /\ new.token = line.token
  BY DEF StartSpan, Line
<1>2. e \in QueuedSpan /\ e.id = id /\ e.kind = "Span" /\ e.parent = line.next /\ e.tagged = FALSE
  BY DEF Entry, QueuedSpan, Line
<1> HIDE DEF e
<1>3. /\ Append(line.queue, e) \in Seq(QueuedSpan) /\ Len(line.queue) \in Nat
      /\ Len(Append(line.queue, e)) = Len(line.queue) + 1
      /\ \A k \in 1 .. Len(line.queue) : Append(line.queue, e)[k] = line.queue[k]
      /\ Append(line.queue, e)[Len(line.queue) + 1] = e
  BY <1>2, LenProperties, AppendProperties DEF Line
<1>4. new \in Line
  BY <1>1, <1>3 DEF Line, StartSpan
<1>5. new.next = line.next \/ (e.kind = "Span" /\ new.next = e.id)
  BY <1>1, <1>2
<1>6. LineWith(new, WithId(scope, e.id))
  BY <1>1, <1>2, <1>4, <1>5, AppendEntry
<1> QED
  BY <1>1, <1>2, <1>3, <1>4, <1>6 DEF e

\* add_event and add_properties, on a line that holds its scope.
LEMMA AddAttachmentLine ==
  ASSUME NEW line \in Line, NEW scope \in Scope, LineWith(line, scope),
         Len(line.queue) < QueueCapacity, NEW id \in Nat \ {0},
         NEW new, new = AddAttachment(line, id)
  PROVE  /\ new \in Line /\ new.epoch = line.epoch /\ new.next = line.next /\ LineWith(new, WithId(scope, id))
         /\ Len(line.queue) \in Nat /\ Len(new.queue) = Len(line.queue) + 1
         /\ \A k \in 1 .. Len(line.queue) : new.queue[k] = line.queue[k]
         /\ new.queue[Len(line.queue) + 1] = Entry(id, line.next, "Attachment")
PROOF
<1> DEFINE e == Entry(id, line.next, "Attachment")
<1>1. /\ new.queue = Append(line.queue, e) /\ new.next = line.next
      /\ new.epoch = line.epoch /\ new.token = line.token
  BY DEF AddAttachment, Line
<1>2. e \in QueuedSpan /\ e.id = id /\ e.kind = "Attachment" /\ e.parent = line.next /\ e.tagged = FALSE
  BY DEF Entry, QueuedSpan, Line
<1> HIDE DEF e
<1>3. /\ Append(line.queue, e) \in Seq(QueuedSpan) /\ Len(line.queue) \in Nat
      /\ Len(Append(line.queue, e)) = Len(line.queue) + 1
      /\ \A k \in 1 .. Len(line.queue) : Append(line.queue, e)[k] = line.queue[k]
      /\ Append(line.queue, e)[Len(line.queue) + 1] = e
  BY <1>2, LenProperties, AppendProperties DEF Line
<1>4. new \in Line
  BY <1>1, <1>3 DEF Line, AddAttachment
<1>5. new.next = line.next \/ (e.kind = "Span" /\ new.next = e.id)
  BY <1>1, <1>2
<1>6. LineWith(new, WithId(scope, e.id))
  BY <1>1, <1>2, <1>4, <1>5, AppendEntry
<1> QED
  BY <1>1, <1>2, <1>3, <1>4, <1>6 DEF e

\* An entry that changes otherwise than in its id, its parent and its kind.
LEMMA ChangeEntry ==
  ASSUME NEW q \in Seq(QueuedSpan), NEW index \in DOMAIN q, NEW e \in QueuedSpan,
         e.id = q[index].id, e.parent = q[index].parent, e.kind = q[index].kind,
         NEW p, p = [q EXCEPT ![index] = e]
  PROVE  /\ p \in Seq(QueuedSpan) /\ Len(p) = Len(q) /\ DOMAIN p = DOMAIN q
         /\ \A k \in DOMAIN q : p[k] = IF k = index THEN e ELSE q[k]
         /\ \A k \in DOMAIN q : p[k].id = q[k].id /\ p[k].kind = q[k].kind /\ p[k].parent = q[k].parent
         /\ Ids(p) = Ids(q)
         /\ ParentPrecedes(q) => ParentPrecedes(p)
PROOF
<1>1. DOMAIN q = 1 .. Len(q)
  BY LenProperties
<1>2. /\ p \in Seq(QueuedSpan) /\ Len(p) = Len(q)
      /\ \A k \in 1 .. Len(q) : p[k] = IF k = index THEN e ELSE q[k]
  BY <1>1, ExceptSeq
<1>3. \A k \in 1 .. Len(q) : p[k].id = q[k].id /\ p[k].kind = q[k].kind /\ p[k].parent = q[k].parent
  BY <1>2
<1>4. Ids(p) = Ids(q) /\ (ParentPrecedes(q) => ParentPrecedes(p))
  BY <1>2, <1>3, SameSpans
<1>5. DOMAIN p = DOMAIN q
  BY <1>1, <1>2, LenProperties
<1> QED
  BY <1>1, <1>2, <1>3, <1>4, <1>5

\* finish_span, on a line that holds its scope.
LEMMA FinishSpanLine ==
  ASSUME NEW line \in Line, NEW scope \in Scope, LineWith(line, scope),
         NEW index \in DOMAIN line.queue, NEW new, new = FinishSpan(line, index)
  PROVE  /\ new \in Line /\ new.epoch = line.epoch /\ new.next = line.queue[index].parent
         /\ LineWith(new, scope)
         /\ DOMAIN new.queue = DOMAIN line.queue
         /\ \A k \in DOMAIN line.queue :
              /\ new.queue[k].id = line.queue[k].id /\ new.queue[k].kind = line.queue[k].kind
              /\ new.queue[k].parent = line.queue[k].parent
              /\ ~new.queue[k].ended => ~line.queue[k].ended /\ k # index
PROOF
<1> DEFINE q == line.queue
           e == [q[index] EXCEPT !.ended = TRUE]
           p == [q EXCEPT ![index] = e]
<1>1. q \in Seq(QueuedSpan)
  BY DEF Line
<1>2. q[index] \in QueuedSpan
  BY <1>1, LenProperties, ElementOfSeq
<1>3. /\ e \in QueuedSpan /\ e.id = q[index].id /\ e.parent = q[index].parent /\ e.kind = q[index].kind
      /\ e.tagged = q[index].tagged /\ e.ended = TRUE
  BY <1>2 DEF QueuedSpan
<1>4. /\ new = [line EXCEPT !.queue = p, !.next = q[index].parent]
      /\ new.queue = p /\ new.next = q[index].parent /\ new.epoch = line.epoch /\ new.token = line.token
  BY DEF FinishSpan, Line
<1>5. q[index].parent \in Nat
  BY <1>2 DEF QueuedSpan
<1> HIDE DEF e
<1>6. /\ p \in Seq(QueuedSpan) /\ Len(p) = Len(q) /\ DOMAIN p = DOMAIN q
      /\ \A k \in DOMAIN q : p[k] = IF k = index THEN e ELSE q[k]
      /\ \A k \in DOMAIN q : p[k].id = q[k].id /\ p[k].kind = q[k].kind /\ p[k].parent = q[k].parent
      /\ Ids(p) = Ids(q)
      /\ ParentPrecedes(q) => ParentPrecedes(p)
  <2> HIDE DEF q
  <2>1. index \in DOMAIN q
    BY DEF q
  <2> QED
    BY <1>1, <1>3, <2>1, ChangeEntry
<1>7. new \in Line
  BY <1>4, <1>5, <1>6 DEF Line
<1>8. /\ line.token = scope.token /\ Ids(q) = scope.ids /\ Len(q) <= QueueCapacity
      /\ ParentPrecedes(q) /\ \A k \in DOMAIN q : q[k].tagged => q[k].id \in scope.asked
  BY DEF LineWith
<1> HIDE DEF p, q
<1>9. q[index].parent = NoParent \/ \E j \in DOMAIN q : q[j].id = q[index].parent /\ q[j].kind = "Span"
  <2>1. index \in 1 .. Len(q) /\ DOMAIN q = 1 .. Len(q) /\ Len(q) \in Nat
    BY <1>1, LenProperties DEF q
  <2>2. \A j \in 1 .. index - 1 : j \in DOMAIN q
    BY <2>1
  <2> QED
    BY <1>8, <2>1, <2>2 DEF ParentPrecedes
<1>10. new.next = NoParent \/ \E j \in DOMAIN p : p[j].id = new.next /\ p[j].kind = "Span"
  BY <1>4, <1>6, <1>9
<1>11. \A k \in DOMAIN p : p[k].tagged => p[k].id \in scope.asked
  BY <1>3, <1>6, <1>8
<1>12. LineWith(new, scope)
  BY <1>4, <1>6, <1>8, <1>10, <1>11 DEF LineWith
<1>13. \A k \in DOMAIN q : ~p[k].ended => ~q[k].ended /\ k # index
  BY <1>3, <1>6
<1> QED
  BY <1>4, <1>6, <1>7, <1>12, <1>13 DEF q

\* with_properties, on a line that holds its scope.
LEMMA TagLine ==
  ASSUME NEW line \in Line, NEW scope \in Scope, LineWith(line, scope),
         NEW index \in DOMAIN line.queue, NEW new, new = Tag(line, index)
  PROVE  /\ new \in Line /\ new.epoch = line.epoch /\ new.next = line.next
         /\ LineWith(new, [scope EXCEPT !.asked = @ \cup {line.queue[index].id}])
         /\ DOMAIN new.queue = DOMAIN line.queue
         /\ \A k \in DOMAIN line.queue :
              /\ new.queue[k].id = line.queue[k].id /\ new.queue[k].kind = line.queue[k].kind
              /\ new.queue[k].parent = line.queue[k].parent
              /\ new.queue[k].ended = line.queue[k].ended
PROOF
<1> DEFINE q == line.queue
           e == [q[index] EXCEPT !.tagged = TRUE]
           p == [q EXCEPT ![index] = e]
           wider == [scope EXCEPT !.asked = @ \cup {q[index].id}]
<1>1. q \in Seq(QueuedSpan)
  BY DEF Line
<1>2. q[index] \in QueuedSpan
  BY <1>1, LenProperties, ElementOfSeq
<1>3. /\ e \in QueuedSpan /\ e.id = q[index].id /\ e.parent = q[index].parent /\ e.kind = q[index].kind
      /\ e.ended = q[index].ended
  BY <1>2 DEF QueuedSpan
<1>4. /\ new = [line EXCEPT !.queue = p]
      /\ new.queue = p /\ new.next = line.next /\ new.epoch = line.epoch /\ new.token = line.token
  BY DEF Tag, Line
<1> HIDE DEF e
<1>6. /\ p \in Seq(QueuedSpan) /\ Len(p) = Len(q) /\ DOMAIN p = DOMAIN q
      /\ \A k \in DOMAIN q : p[k] = IF k = index THEN e ELSE q[k]
      /\ \A k \in DOMAIN q : p[k].id = q[k].id /\ p[k].kind = q[k].kind /\ p[k].parent = q[k].parent
      /\ Ids(p) = Ids(q)
      /\ ParentPrecedes(q) => ParentPrecedes(p)
  <2> HIDE DEF q
  <2>1. index \in DOMAIN q
    BY DEF q
  <2> QED
    BY <1>1, <1>3, <2>1, ChangeEntry
<1>7. new \in Line
  BY <1>4, <1>6 DEF Line
<1>8. /\ line.token = scope.token /\ Ids(q) = scope.ids /\ Len(q) <= QueueCapacity
      /\ line.next = NoParent \/ \E j \in DOMAIN q : q[j].id = line.next /\ q[j].kind = "Span"
      /\ ParentPrecedes(q) /\ \A k \in DOMAIN q : q[k].tagged => q[k].id \in scope.asked
  BY DEF LineWith
<1>9. wider.token = scope.token /\ wider.ids = scope.ids /\ wider.asked = scope.asked \cup {q[index].id}
  BY DEF Scope
<1> HIDE DEF p, q, wider
<1>10. new.next = NoParent \/ \E j \in DOMAIN p : p[j].id = new.next /\ p[j].kind = "Span"
  BY <1>4, <1>6, <1>8
<1>11. \A k \in DOMAIN p : p[k].tagged => p[k].id \in wider.asked
  BY <1>3, <1>6, <1>8, <1>9
<1>12. LineWith(new, wider)
  BY <1>4, <1>6, <1>8, <1>9, <1>10, <1>11 DEF LineWith
<1>13. \A k \in DOMAIN q : p[k].ended = q[k].ended
  BY <1>3, <1>6
<1> QED
  BY <1>4, <1>6, <1>7, <1>12, <1>13 DEF q, wider

-----------------------------------------------------------------------------
(* Steps. *)

\* The line on top of the stack is the line of its scope, and the only one.
LEMMA CurrentLineFacts ==
  ASSUME TypeInv, LinesInv, HasLine
  PROVE  /\ Len(lines) \in Nat \ {0} /\ DOMAIN lines = 1 .. Len(lines)
         /\ \A n \in DOMAIN lines : lines[n] \in Line
         /\ CurrentLine \in Line /\ CurrentLine.epoch \in DOMAIN made
         /\ made[CurrentLine.epoch] \in Scope
         /\ LineWith(CurrentLine, made[CurrentLine.epoch])
         /\ \A n \in DOMAIN lines : n # Len(lines) => lines[n].epoch < CurrentLine.epoch
PROOF
<1>1. lines \in Seq(Line) /\ lines # <<>> /\ made \in [0 .. nextEpoch - 1 -> Scope]
  BY DEF TypeInv, HasLine
<1>2. Len(lines) \in Nat \ {0} /\ DOMAIN lines = 1 .. Len(lines)
  BY <1>1, EmptySeq, LenProperties
<1>3. \A n \in 1 .. Len(lines) : lines[n] \in Line
  BY <1>1, ElementOfSeq
<1>4. Len(lines) \in 1 .. Len(lines) /\ \A n \in 1 .. Len(lines) : n # Len(lines) => n \in 1 .. Len(lines) - 1
  <2> DEFINE len == Len(lines)
  <2>1. len \in Nat \ {0}
    BY <1>2
  <2> HIDE DEF len
  <2>2. len \in 1 .. len /\ \A n \in 1 .. len : n # len => n \in 1 .. len - 1
    BY <2>1
  <2> QED
    BY <2>2 DEF len
<1>5. /\ CurrentLine.epoch \in DOMAIN made
      /\ LineWith(CurrentLine, made[CurrentLine.epoch])
      /\ \A n \in 1 .. Len(lines) - 1 : lines[n].epoch < CurrentLine.epoch
  BY <1>2, <1>4 DEF LinesInv, CurrentLine
<1>6. CurrentLine \in Line
  BY <1>3, <1>4 DEF CurrentLine
<1>7. made[CurrentLine.epoch] \in Scope
  BY <1>1, <1>5
<1> QED
  BY <1>2, <1>3, <1>4, <1>5, <1>6, <1>7

\* The current line takes another content, with the history of its scope.
LEMMA LineReplaced ==
  ASSUME TypeInv, LinesInv, SubmittedInv, HasLine,
         NEW new \in Line, NEW scope \in Scope, LineWith(new, scope),
         new.epoch = CurrentLine.epoch, scope.token = made[CurrentLine.epoch].token,
         \A k \in DOMAIN CurrentLine.queue :
            /\ k \in DOMAIN new.queue
            /\ new.queue[k].id = CurrentLine.queue[k].id /\ new.queue[k].kind = CurrentLine.queue[k].kind,
         Replace(new), made' = [made EXCEPT ![CurrentLine.epoch] = scope],
         nextEpoch' = nextEpoch, submitted' = submitted
  PROVE  /\ lines' \in Seq(Line) /\ Len(lines') = Len(lines) /\ DOMAIN lines' = DOMAIN lines
         /\ \A n \in DOMAIN lines : lines'[n] = IF n = Len(lines) THEN new ELSE lines[n]
         /\ made' \in [0 .. nextEpoch' - 1 -> Scope] /\ DOMAIN made' = DOMAIN made
         /\ \A e \in DOMAIN made : made'[e].token = made[e].token
         /\ LinesInv' /\ SubmittedInv'
         /\ \A g \in Guard : GuardWith(g) => GuardWith(g)'
PROOF
<1>1. /\ Len(lines) \in Nat \ {0} /\ DOMAIN lines = 1 .. Len(lines)
      /\ \A n \in DOMAIN lines : lines[n] \in Line
      /\ CurrentLine \in Line /\ CurrentLine.epoch \in DOMAIN made
      /\ \A n \in DOMAIN lines : n # Len(lines) => lines[n].epoch < CurrentLine.epoch
  BY CurrentLineFacts
<1>2. lines' = [lines EXCEPT ![Len(lines)] = new]
  BY DEF Replace
<1>3. Len(lines) \in 1 .. Len(lines) /\ lines \in Seq(Line) /\ made \in [0 .. nextEpoch - 1 -> Scope]
  BY <1>1 DEF TypeInv
<1>4. /\ lines' \in Seq(Line) /\ Len(lines') = Len(lines)
      /\ \A n \in DOMAIN lines : lines'[n] = IF n = Len(lines) THEN new ELSE lines[n]
  BY <1>1, <1>2, <1>3, ExceptSeq
<1>5. DOMAIN lines' = DOMAIN lines
  BY <1>2
<1>6. /\ made' \in [0 .. nextEpoch' - 1 -> Scope] /\ DOMAIN made' = DOMAIN made
      /\ \A e \in DOMAIN made : made'[e] = IF e = CurrentLine.epoch THEN scope ELSE made[e]
  BY <1>1, <1>3
<1>7. \A e \in DOMAIN made : made'[e].token = made[e].token
  BY <1>6
<1>8. \A n \in DOMAIN lines : lines'[n].epoch = lines[n].epoch
  BY <1>4 DEF CurrentLine
<1>9. \A n \in DOMAIN lines : lines[n].epoch = CurrentLine.epoch <=> n = Len(lines)
  <2>1. \A n \in DOMAIN lines : lines[n].epoch \in Nat
    BY <1>1 DEF Line
  <2>2. \A n \in DOMAIN lines : n # Len(lines) => lines[n].epoch # CurrentLine.epoch
    BY <1>1, <2>1
  <2> QED
    BY <1>1, <2>2 DEF CurrentLine
<1>10. LinesInv'
  <2>1. ASSUME NEW n \in DOMAIN lines
        PROVE  /\ lines'[n].epoch \in DOMAIN made'
               /\ LineWith(lines'[n], made'[lines'[n].epoch])
               /\ \A m \in 1 .. n - 1 : lines'[m].epoch < lines'[n].epoch
    <3>1. /\ lines[n].epoch \in DOMAIN made /\ LineWith(lines[n], made[lines[n].epoch])
          /\ \A m \in 1 .. n - 1 : lines[m].epoch < lines[n].epoch
      BY DEF LinesInv
    <3>2. \A m \in 1 .. n - 1 : m \in DOMAIN lines
      BY <1>1
    <3>3. LineWith(lines'[n], made'[lines'[n].epoch])
      BY <1>4, <1>6, <1>8, <1>9, <3>1
    <3> QED
      BY <1>6, <1>8, <3>1, <3>2, <3>3
  <2> QED
    BY <1>5, <2>1 DEF LinesInv, LineWith, Ids, ParentPrecedes
<1>11. SubmittedInv'
  <2>1. ASSUME NEW s \in submitted
        PROVE  /\ s.epoch \in DOMAIN made'
               /\ s.token = made'[s.epoch].token /\ Ids(s.spans) = made'[s.epoch].ids
               /\ ParentPrecedes(s.spans)
               /\ \A n \in DOMAIN lines' : lines'[n].epoch # s.epoch
    <3>1. /\ s.epoch \in DOMAIN made
          /\ s.token = made[s.epoch].token /\ Ids(s.spans) = made[s.epoch].ids
          /\ ParentPrecedes(s.spans)
          /\ \A n \in DOMAIN lines : lines[n].epoch # s.epoch
      BY DEF SubmittedInv
    <3>2. s.epoch # CurrentLine.epoch
      BY <1>1, <1>3, <3>1 DEF CurrentLine
    <3> QED
      BY <1>5, <1>6, <1>8, <3>1, <3>2
  <2> QED
    BY <2>1 DEF SubmittedInv, Ids, ParentPrecedes
<1>12. ASSUME NEW g \in Guard, GuardWith(g)
       PROVE  GuardWith(g)'
  <2>1. ASSUME IsSpanGuard(g), NEW n \in DOMAIN lines, lines'[n].epoch = g.epoch
        PROVE  Leads(g, lines'[n])
    <3>1. Leads(g, lines[n])
      BY <1>8, <1>12, <2>1 DEF GuardWith
    <3>2. CASE n = Len(lines)
      BY <1>4, <2>1, <3>1, <3>2 DEF CurrentLine, Leads
    <3>3. CASE n # Len(lines)
      BY <1>4, <2>1, <3>1, <3>3
    <3> QED
      BY <3>2, <3>3
  <2> QED
    BY <1>5, <1>6, <1>7, <1>12, <2>1 DEF GuardWith, IsSpanGuard, IsScopeGuard, Leads
<1> QED
  BY <1>4, <1>5, <1>6, <1>7, <1>10, <1>11, <1>12

\* register_span_line: an empty line with an epoch of its own.
LEMMA LinePushed ==
  ASSUME TypeInv, LinesInv, SubmittedInv, nextEpoch < MaxOpen, NEW token \in AnyToken,
         lines' = Append(lines, SpanLine(nextEpoch, token)), nextEpoch' = nextEpoch + 1,
         made' = [e \in 0 .. nextEpoch |->
                    IF e = nextEpoch THEN [token |-> token, ids |-> {}, asked |-> {}] ELSE made[e]],
         submitted' = submitted
  PROVE  /\ lines' \in Seq(Line) /\ Len(lines) \in Nat /\ Len(lines') = Len(lines) + 1
         /\ DOMAIN lines = 1 .. Len(lines) /\ DOMAIN lines' = 1 .. Len(lines) + 1
         /\ \A n \in DOMAIN lines : lines'[n] = lines[n]
         /\ lines'[Len(lines) + 1] = SpanLine(nextEpoch, token)
         /\ nextEpoch' \in 0 .. MaxOpen /\ nextEpoch \in Nat
         /\ made' \in [0 .. nextEpoch' - 1 -> Scope] /\ DOMAIN made' = DOMAIN made \cup {nextEpoch}
         /\ \A e \in DOMAIN made : made'[e] = made[e] /\ e < nextEpoch
         /\ made'[nextEpoch] = [token |-> token, ids |-> {}, asked |-> {}]
         /\ LinesInv' /\ SubmittedInv'
         /\ \A g \in Guard : GuardWith(g) => GuardWith(g)'
PROOF
<1> DEFINE line == SpanLine(nextEpoch, token)
           scope == [token |-> token, ids |-> {}, asked |-> {}]
           len == Len(lines)
<1>1. /\ lines \in Seq(Line) /\ nextEpoch \in 0 .. MaxOpen /\ nextEpoch \in Nat
      /\ made \in [0 .. nextEpoch - 1 -> Scope] /\ MaxOpen \in Nat
  BY LocalAssumption DEF TypeInv
<1>2. len \in Nat /\ DOMAIN lines = 1 .. len
  BY <1>1, LenProperties
<1>3. line \in Line
  BY <1>1, EmptySeq DEF SpanLine, Line, NoParent
<1>4. /\ line.epoch = nextEpoch /\ line.token = token /\ line.queue = <<>> /\ line.next = NoParent
      /\ scope \in Scope /\ scope.token = token /\ scope.ids = {}
  BY DEF SpanLine, Scope
<1>5. LineWith(line, scope)
  <2>1. <<>> \in Seq(QueuedSpan) /\ Len(<<>>) = 0
    BY EmptySeq
  <2>2. DOMAIN <<>> = {}
    OBVIOUS
  <2> HIDE DEF line, scope
  <2> QED
    BY <1>4, <2>1, <2>2, LocalAssumption DEF LineWith, Ids, ParentPrecedes
<1> HIDE DEF line, scope
<1>6. /\ lines' \in Seq(Line) /\ Len(lines') = Len(lines) + 1
      /\ \A n \in 1 .. Len(lines) : lines'[n] = lines[n]
      /\ lines'[Len(lines) + 1] = line
  <2>1. lines' = Append(lines, line)
    BY DEF line
  <2> QED
    BY <1>1, <1>3, <2>1, AppendProperties
<1> HIDE DEF len
<1>7. DOMAIN lines' = 1 .. len + 1
  BY <1>6, LenProperties DEF len
<1>8. /\ \A e \in 0 .. nextEpoch - 1 : e \in 0 .. nextEpoch /\ e # nextEpoch /\ e < nextEpoch
      /\ \A e \in 0 .. nextEpoch : e # nextEpoch => e \in 0 .. nextEpoch - 1
      /\ nextEpoch \in 0 .. nextEpoch /\ nextEpoch' - 1 = nextEpoch /\ nextEpoch' \in 0 .. MaxOpen
      /\ nextEpoch \notin 0 .. nextEpoch - 1
  BY <1>1
<1>9. /\ DOMAIN made = 0 .. nextEpoch - 1
      /\ made' = [e \in 0 .. nextEpoch |-> IF e = nextEpoch THEN scope ELSE made[e]]
      /\ \A e \in 0 .. nextEpoch - 1 : made[e] \in Scope
  BY <1>1 DEF scope
<1>10. /\ \A e \in DOMAIN made : made'[e] = made[e] /\ e < nextEpoch
       /\ made'[nextEpoch] = scope
       /\ DOMAIN made' = DOMAIN made \cup {nextEpoch}
  BY <1>8, <1>9
<1>11. made' \in [0 .. nextEpoch' - 1 -> Scope]
  BY <1>4, <1>8, <1>9
<1>12. \A n \in 1 .. len : lines[n].epoch \in DOMAIN made /\ lines[n].epoch < nextEpoch
  BY <1>2, <1>10 DEF LinesInv
<1>13. \A n \in 1 .. len + 1 : n \in 1 .. len \/ n = len + 1
  BY <1>2
<1>14. \A n \in 1 .. len + 1 : \A m \in 1 .. n - 1 : m \in 1 .. len
  BY <1>2
<1>15. LinesInv'
  <2>1. ASSUME NEW n \in 1 .. len + 1
        PROVE  /\ lines'[n].epoch \in DOMAIN made'
               /\ LineWith(lines'[n], made'[lines'[n].epoch])
               /\ \A m \in 1 .. n - 1 : lines'[m].epoch < lines'[n].epoch
    <3>1. CASE n \in 1 .. len
      <4>1. /\ LineWith(lines[n], made[lines[n].epoch])
            /\ \A m \in 1 .. n - 1 : lines[m].epoch < lines[n].epoch
        BY <1>2, <3>1 DEF LinesInv
      <4> QED
        BY <1>6, <1>10, <1>12, <1>14, <3>1, <4>1 DEF len
    <3>2. CASE n = len + 1
      <4>1. lines'[n] = line
        BY <1>6, <3>2 DEF len
      <4>2. \A m \in 1 .. n - 1 : lines'[m].epoch < nextEpoch
        BY <1>6, <1>12, <1>14 DEF len
      <4> QED
        BY <1>4, <1>5, <1>10, <4>1, <4>2
    <3> QED
      BY <1>13, <3>1, <3>2
  <2> QED
    BY <1>7, <2>1 DEF LinesInv, LineWith, Ids, ParentPrecedes
<1>16. SubmittedInv'
  <2>1. ASSUME NEW s \in submitted
        PROVE  /\ s.epoch \in DOMAIN made'
               /\ s.token = made'[s.epoch].token /\ Ids(s.spans) = made'[s.epoch].ids
               /\ ParentPrecedes(s.spans)
               /\ \A n \in DOMAIN lines' : lines'[n].epoch # s.epoch
    <3>1. /\ s.epoch \in DOMAIN made
          /\ s.token = made[s.epoch].token /\ Ids(s.spans) = made[s.epoch].ids
          /\ ParentPrecedes(s.spans)
          /\ \A n \in DOMAIN lines : lines[n].epoch # s.epoch
      BY DEF SubmittedInv
    <3>2. s.epoch # nextEpoch
      BY <1>8, <1>9, <3>1
    <3>3. \A n \in 1 .. len + 1 : lines'[n].epoch # s.epoch
      BY <1>2, <1>4, <1>6, <1>13, <3>1, <3>2 DEF len
    <3> QED
      BY <1>7, <1>10, <3>1, <3>3
  <2> QED
    BY <2>1 DEF SubmittedInv, Ids, ParentPrecedes
<1>17. ASSUME NEW g \in Guard, GuardWith(g)
       PROVE  GuardWith(g)'
  <2>1. ASSUME IsSpanGuard(g), NEW n \in 1 .. len + 1, lines'[n].epoch = g.epoch
        PROVE  Leads(g, lines'[n])
    <3>1. g.epoch # nextEpoch
      BY <1>8, <1>9, <1>17, <2>1 DEF GuardWith
    <3>2. n \in 1 .. len
      BY <1>4, <1>6, <1>13, <2>1, <3>1 DEF len
    <3>3. lines'[n] = lines[n]
      BY <1>6, <3>2 DEF len
    <3> QED
      BY <1>2, <1>17, <2>1, <3>2, <3>3 DEF GuardWith
  <2> QED
    BY <1>7, <1>10, <1>17, <2>1 DEF GuardWith, IsSpanGuard, IsScopeGuard, Leads
<1> QED
  BY <1>1, <1>2, <1>6, <1>7, <1>8, <1>10, <1>11, <1>15, <1>16, <1>17 DEF len, line, scope

\* unregister_and_collect: the current line goes, and what it held is handed
\* over or not.
LEMMA LinePopped ==
  ASSUME TypeInv, LinesInv, SubmittedInv, HasLine, NEW epoch,
         lines' = Front(lines), made' = made, nextEpoch' = nextEpoch,
         submitted' \in SUBSET (submitted \cup CollectLine(CurrentLine, epoch))
  PROVE  /\ lines' \in Seq(Line) /\ Len(lines') = Len(lines) - 1
         /\ DOMAIN lines' = 1 .. Len(lines) - 1
         /\ \A n \in 1 .. Len(lines) - 1 : n \in DOMAIN lines /\ lines'[n] = lines[n]
         /\ submitted' \in SUBSET SpanSet
         /\ LinesInv' /\ SubmittedInv'
         /\ \A g \in Guard : GuardWith(g) => GuardWith(g)'
PROOF
<1> DEFINE len == Len(lines)
<1>1. /\ len \in Nat \ {0} /\ DOMAIN lines = 1 .. len
      /\ \A n \in DOMAIN lines : lines[n] \in Line
      /\ CurrentLine \in Line /\ CurrentLine.epoch \in DOMAIN made
      /\ LineWith(CurrentLine, made[CurrentLine.epoch])
      /\ \A n \in DOMAIN lines : n # len => lines[n].epoch < CurrentLine.epoch
  BY CurrentLineFacts
<1>2. lines \in Seq(Line) /\ lines # <<>> /\ submitted \in SUBSET SpanSet
  BY DEF TypeInv, HasLine
<1>3. /\ lines' \in Seq(Line) /\ Len(lines') = len - 1
      /\ \A n \in 1 .. len - 1 : lines'[n] = lines[n]
  BY <1>2, FrontElements
<1>4. DOMAIN lines' = 1 .. len - 1
  BY <1>3, LenProperties
<1> HIDE DEF len
<1>5. \A n \in 1 .. len - 1 : n \in 1 .. len /\ n # len /\ \A m \in 1 .. n - 1 : m \in 1 .. len - 1
  BY <1>1
<1>6. \A s \in submitted' :
         s \in submitted \/ s = [epoch |-> CurrentLine.epoch, token |-> CurrentLine.token, spans |-> CurrentLine.queue]
  BY DEF CollectLine
<1>7. submitted' \in SUBSET SpanSet
  <2>1. [epoch |-> CurrentLine.epoch, token |-> CurrentLine.token, spans |-> CurrentLine.queue] \in SpanSet
    BY <1>1 DEF Line, SpanSet
  <2> QED
    BY <1>2, <1>6, <2>1
<1>8. LinesInv'
  <2>1. ASSUME NEW n \in 1 .. len - 1
        PROVE  /\ lines'[n].epoch \in DOMAIN made
               /\ LineWith(lines'[n], made[lines'[n].epoch])
               /\ \A m \in 1 .. n - 1 : lines'[m].epoch < lines'[n].epoch
    <3>1. /\ lines[n].epoch \in DOMAIN made /\ LineWith(lines[n], made[lines[n].epoch])
          /\ \A m \in 1 .. n - 1 : lines[m].epoch < lines[n].epoch
      BY <1>1, <1>5 DEF LinesInv
    <3> QED
      BY <1>3, <1>5, <3>1
  <2> QED
    BY <1>4, <2>1 DEF LinesInv, LineWith, Ids, ParentPrecedes
<1>9. SubmittedInv'
  <2>1. ASSUME NEW s \in submitted'
        PROVE  /\ s.epoch \in DOMAIN made
               /\ s.token = made[s.epoch].token /\ Ids(s.spans) = made[s.epoch].ids
               /\ ParentPrecedes(s.spans)
               /\ \A n \in DOMAIN lines' : lines'[n].epoch # s.epoch
    <3>1. CASE s \in submitted
      BY <1>1, <1>3, <1>4, <1>5, <3>1 DEF SubmittedInv
    <3>2. CASE s = [epoch |-> CurrentLine.epoch, token |-> CurrentLine.token, spans |-> CurrentLine.queue]
      <4>1. s.epoch = CurrentLine.epoch /\ s.token = CurrentLine.token /\ s.spans = CurrentLine.queue
        BY <3>2
      <4>2. \A n \in 1 .. len - 1 : lines[n].epoch \in Nat /\ lines[n].epoch < CurrentLine.epoch
        BY <1>1, <1>5 DEF Line
      <4>3. CurrentLine.epoch \in Nat
        BY <1>1 DEF Line
      <4>4. \A n \in 1 .. len - 1 : lines[n].epoch # CurrentLine.epoch
        BY <4>2, <4>3
      <4> QED
        BY <1>1, <1>3, <1>4, <4>1, <4>4 DEF LineWith
    <3> QED
      BY <1>6, <3>1, <3>2
  <2> QED
    BY <2>1 DEF SubmittedInv, Ids, ParentPrecedes
<1>10. ASSUME NEW g \in Guard, GuardWith(g)
       PROVE  GuardWith(g)'
  BY <1>1, <1>3, <1>4, <1>5, <1>10 DEF GuardWith, IsSpanGuard, IsScopeGuard, Leads
<1> QED
  BY <1>1, <1>3, <1>4, <1>5, <1>7, <1>8, <1>9, <1>10 DEF len

\* A guard goes.
LEMMA GuardForgotten ==
  ASSUME TypeInv, GuardsInv, NEW i \in DOMAIN guards, Forget(i),
         \A g \in Guard : GuardWith(g) => GuardWith(g)'
  PROVE  /\ Len(guards) \in Nat /\ DOMAIN guards = 1 .. Len(guards)
         /\ guards' \in Seq(Guard) /\ Len(guards') = Len(guards) - 1
         /\ DOMAIN guards' = 1 .. Len(guards) - 1
         /\ \A j \in 1 .. Len(guards) - 1 : guards'[j] = IF j < i THEN guards[j] ELSE guards[j + 1]
         /\ GuardsInv'
PROOF
<1> DEFINE len == Len(guards)
<1>1. guards \in Seq(Guard)
  BY DEF TypeInv
<1>2. len \in Nat /\ DOMAIN guards = 1 .. len /\ \A j \in 1 .. len : guards[j] \in Guard
  BY <1>1, LenProperties, ElementOfSeq
<1>3. /\ guards' \in Seq(Guard) /\ Len(guards') = len - 1
      /\ \A j \in 1 .. len - 1 : guards'[j] = IF j < i THEN guards[j] ELSE guards[j + 1]
  BY <1>1, <1>2, RemoveAtElements DEF Forget
<1>4. DOMAIN guards' = 1 .. len - 1
  BY <1>3, LenProperties
<1> HIDE DEF len
<1>5. ASSUME NEW j \in 1 .. len - 1
      PROVE  \E k \in 1 .. len : guards'[j] = guards[k]
  <2>1. j \in 1 .. len /\ j + 1 \in 1 .. len
    BY <1>2
  <2> QED
    BY <1>3, <2>1
<1>6. ASSUME NEW j \in 1 .. len - 1
      PROVE  GuardWith(guards[j])'
  <2>1. PICK k \in 1 .. len : guards'[j] = guards[k]
    BY <1>5
  <2>2. guards[k] \in Guard /\ GuardWith(guards[k])
    BY <1>2 DEF GuardsInv
  <2> QED
    BY <2>1, <2>2 DEF GuardWith, IsSpanGuard, IsScopeGuard, Leads
<1> QED
  BY <1>2, <1>3, <1>4, <1>6 DEF len, GuardsInv

\* A guard is made.
LEMMA GuardAdded ==
  ASSUME TypeInv, GuardsInv, NEW g \in Guard, guards' = Append(guards, g),
         \A h \in Guard : h = g \/ GuardWith(h) => GuardWith(h)'
  PROVE  /\ Len(guards) \in Nat /\ DOMAIN guards = 1 .. Len(guards)
         /\ guards' \in Seq(Guard) /\ Len(guards') = Len(guards) + 1
         /\ DOMAIN guards' = 1 .. Len(guards) + 1
         /\ \A j \in 1 .. Len(guards) : guards'[j] = guards[j]
         /\ guards'[Len(guards) + 1] = g
         /\ GuardsInv'
PROOF
<1> DEFINE len == Len(guards)
<1>1. guards \in Seq(Guard)
  BY DEF TypeInv
<1>2. len \in Nat /\ DOMAIN guards = 1 .. len /\ \A j \in 1 .. len : guards[j] \in Guard
  BY <1>1, LenProperties, ElementOfSeq
<1>3. /\ guards' \in Seq(Guard) /\ Len(guards') = len + 1
      /\ \A j \in 1 .. len : guards'[j] = guards[j]
      /\ guards'[len + 1] = g
  BY <1>1, AppendProperties
<1>4. DOMAIN guards' = 1 .. len + 1
  BY <1>3, LenProperties
<1> HIDE DEF len
<1>5. \A j \in 1 .. len + 1 : j \in 1 .. len \/ j = len + 1
  BY <1>2
<1>6. \A j \in 1 .. len + 1 : GuardWith(guards[j])'
  <2>1. \A j \in 1 .. len : GuardWith(guards[j])
    BY <1>2 DEF GuardsInv
  <2> QED
    BY <1>2, <1>3, <1>5, <2>1 DEF GuardWith, IsSpanGuard, IsScopeGuard, Leads
<1> QED
  BY <1>2, <1>3, <1>4, <1>6 DEF len, GuardsInv

\* The guards are the same.
LEMMA GuardsKept ==
  ASSUME TypeInv, GuardsInv, guards' = guards,
         \A g \in Guard : GuardWith(g) => GuardWith(g)'
  PROVE  GuardsInv'
PROOF
<1>1. DOMAIN guards = 1 .. Len(guards) /\ \A i \in 1 .. Len(guards) : guards[i] \in Guard
  BY LenProperties, ElementOfSeq DEF TypeInv
<1>2. ASSUME NEW i \in DOMAIN guards
      PROVE  GuardWith(guards[i])'
  <2>1. guards[i] \in Guard /\ GuardWith(guards[i])
    BY <1>1 DEF GuardsInv
  <2> QED
    BY <2>1 DEF GuardWith, IsSpanGuard, IsScopeGuard, Leads
<1> QED
  BY <1>2 DEF GuardsInv

\* Where a handle leads while its line is the current one.
LEMMA HandleLeads ==
  ASSUME AnyOrderInv, NEW i \in DOMAIN guards, guards[i].kind = "span",
         HasLine, CurrentLine.epoch = guards[i].epoch
  PROVE  /\ guards[i] \in SpanGuard
         /\ guards[i].index \in DOMAIN CurrentLine.queue
         /\ CurrentLine.queue[guards[i].index].id = guards[i].id
         /\ CurrentLine.queue[guards[i].index].kind = "Span"
PROOF
<1>1. guards \in Seq(Guard) /\ i \in 1 .. Len(guards)
  BY LenProperties DEF AnyOrderInv, TypeInv
<1>2. guards[i] \in Guard
  BY <1>1, ElementOfSeq
<1>3. guards[i] \in SpanGuard
  BY <1>2 DEF Guard, ScopeGuard
<1>4. Len(lines) \in DOMAIN lines
  BY CurrentLineFacts DEF AnyOrderInv
<1>5. Leads(guards[i], CurrentLine)
  BY <1>4 DEF AnyOrderInv, GuardsInv, GuardWith, IsSpanGuard, CurrentLine
<1> QED
  BY <1>3, <1>5 DEF Leads

\* What a new local span makes of the stack.
LEMMA EnterLocalSpanStep ==
  ASSUME AnyOrderInv, EnterLocalSpan
  PROVE  /\ AnyOrderInv' /\ HasLine /\ Len(lines) \in DOMAIN lines
         /\ CurrentLine \in Line /\ Len(CurrentLine.queue) \in Nat
         /\ DOMAIN lines' = DOMAIN lines
         /\ \A n \in DOMAIN lines : lines'[n].epoch = lines[n].epoch
         /\ \A n \in DOMAIN lines : n # Len(lines) => lines'[n] = lines[n] /\ lines[n].epoch # CurrentLine.epoch
         /\ CurrentLine'.next = nextId /\ nextId \in Nat \ {0}
         /\ DOMAIN CurrentLine.queue = 1 .. Len(CurrentLine.queue)
         /\ DOMAIN CurrentLine'.queue = 1 .. Len(CurrentLine.queue) + 1
         /\ \A k \in DOMAIN CurrentLine.queue : CurrentLine'.queue[k] = CurrentLine.queue[k]
         /\ CurrentLine'.queue[Len(CurrentLine.queue) + 1] = Entry(nextId, CurrentLine.next, "Span")
         /\ CurrentLine' = lines'[Len(lines)]
PROOF
<1> DEFINE line == CurrentLine
           scope == made[CurrentLine.epoch]
           new == StartSpan(CurrentLine, nextId)
           wider == WithId(scope, nextId)
           len == Len(CurrentLine.queue)
           g == [kind |-> "span", epoch |-> CurrentLine.epoch, index |-> Len(CurrentLine.queue) + 1, id |-> nextId]
<1>1. /\ HasLine /\ Len(line.queue) < QueueCapacity /\ nextId <= MaxId
      /\ Replace(new) /\ guards' = Append(guards, g) /\ nextId' = nextId + 1
      /\ made' = [made EXCEPT ![line.epoch] = wider]
      /\ UNCHANGED <<scoped, debug, nextEpoch, submitted, panicked>>
  BY DEF EnterLocalSpan, Recording, Recorded, WithId
<1>2. TypeInv /\ LinesInv /\ GuardsInv /\ SubmittedInv
  BY DEF AnyOrderInv
<1>3. /\ Len(lines) \in DOMAIN lines /\ line \in Line /\ line.epoch \in DOMAIN made
      /\ scope \in Scope /\ LineWith(line, scope)
      /\ \A n \in DOMAIN lines : lines[n] \in Line /\ (n # Len(lines) => lines[n].epoch < line.epoch)
  BY <1>1, <1>2, CurrentLineFacts
<1>4. nextId \in Nat \ {0} /\ nextId' \in 1 .. MaxId + 1 /\ nextId \in Nat
  BY <1>1, <1>2, LocalAssumption DEF TypeInv
<1>6. wider \in Scope /\ wider.token = scope.token
  BY <1>3, <1>4 DEF Scope, WithId
<1>5. new = StartSpan(line, nextId) /\ wider = WithId(scope, nextId)
  OBVIOUS
<1> HIDE DEF new, line, scope, wider
<1>7. /\ new \in Line /\ new.epoch = line.epoch /\ new.next = nextId
      /\ LineWith(new, wider)
      /\ Len(line.queue) \in Nat /\ Len(new.queue) = Len(line.queue) + 1
      /\ \A k \in 1 .. Len(line.queue) : new.queue[k] = line.queue[k]
      /\ new.queue[Len(line.queue) + 1] = Entry(nextId, line.next, "Span")
  BY <1>1, <1>3, <1>4, <1>5, StartSpanLine
<1>8. DOMAIN line.queue = 1 .. Len(line.queue) /\ DOMAIN new.queue = 1 .. Len(line.queue) + 1
  BY <1>3, <1>7, LenProperties DEF Line
<1>9. \A k \in 1 .. Len(line.queue) : k \in 1 .. Len(line.queue) + 1
  BY <1>7
<1>10. /\ lines' \in Seq(Line) /\ Len(lines') = Len(lines) /\ DOMAIN lines' = DOMAIN lines
       /\ \A n \in DOMAIN lines : lines'[n] = IF n = Len(lines) THEN new ELSE lines[n]
       /\ made' \in [0 .. nextEpoch' - 1 -> Scope] /\ DOMAIN made' = DOMAIN made
       /\ LinesInv' /\ SubmittedInv'
       /\ \A h \in Guard : GuardWith(h) => GuardWith(h)'
  BY <1>1, <1>2, <1>3, <1>6, <1>7, <1>8, <1>9, LineReplaced DEF line, scope
<1>11. \A n \in DOMAIN lines : n # Len(lines) => lines[n].epoch # line.epoch
  BY <1>3 DEF Line
<1>12. g \in SpanGuard /\ g.epoch = line.epoch /\ g.index = Len(line.queue) + 1 /\ g.id = nextId /\ g.kind = "span"
  BY <1>3, <1>4, <1>7 DEF SpanGuard, Line, line
<1> HIDE DEF g
<1>13. Leads(g, new)
  <2>1. Len(line.queue) + 1 \in 1 .. Len(line.queue) + 1
    BY <1>7
  <2> QED
    BY <1>7, <1>8, <1>12, <2>1 DEF Leads, Entry
<1>14. ASSUME NEW h \in Guard, h = g
       PROVE  GuardWith(h)'
  <2>1. \A n \in DOMAIN lines : lines'[n].epoch = h.epoch => Leads(h, lines'[n])
    BY <1>10, <1>11, <1>12, <1>13, <1>14
  <2>2. h.kind = "span" /\ h.epoch \in DOMAIN made'
    BY <1>3, <1>10, <1>12, <1>14
  <2> QED
    BY <1>10, <2>1, <2>2 DEF GuardWith, IsSpanGuard, IsScopeGuard, Leads
<1>15. guards' \in Seq(Guard) /\ GuardsInv'
  BY <1>1, <1>2, <1>10, <1>12, <1>14, GuardAdded DEF Guard
<1>16. TypeInv'
  BY <1>1, <1>2, <1>4, <1>10, <1>15 DEF TypeInv
<1>17. CurrentLine' = new /\ CurrentLine' = lines'[Len(lines)]
  BY <1>3, <1>10 DEF CurrentLine
<1>18. \A n \in DOMAIN lines : lines'[n].epoch = lines[n].epoch
  BY <1>7, <1>10 DEF line, CurrentLine
<1> QED
  BY <1>1, <1>3, <1>4, <1>7, <1>8, <1>10, <1>11, <1>15, <1>16, <1>17, <1>18 DEF AnyOrderInv, line

\* The lines are the same but for what a scope order does not depend on.
SameNesting ==
  /\ guards' = guards /\ DOMAIN lines' = DOMAIN lines
  /\ \A n \in DOMAIN lines :
        /\ lines'[n].epoch = lines[n].epoch /\ lines'[n].next = lines[n].next
        /\ \A k \in DOMAIN lines[n].queue :
              /\ k \in DOMAIN lines'[n].queue
              /\ lines'[n].queue[k].parent = lines[n].queue[k].parent
              /\ lines'[n].queue[k].kind = lines[n].queue[k].kind
              /\ lines'[n].queue[k].ended = lines[n].queue[k].ended
        /\ \A k \in DOMAIN lines'[n].queue :
              lines'[n].queue[k].kind = "Span" => k \in DOMAIN lines[n].queue

\* What an event or properties for the local parent make of the stack.
LEMMA AttachStep ==
  ASSUME AnyOrderInv, Attach
  PROVE  AnyOrderInv' /\ SameNesting
PROOF
<1> DEFINE line == CurrentLine
           scope == made[CurrentLine.epoch]
           new == AddAttachment(CurrentLine, nextId)
           wider == WithId(scope, nextId)
<1>1. /\ HasLine /\ Len(line.queue) < QueueCapacity /\ nextId <= MaxId
      /\ Replace(new) /\ nextId' = nextId + 1
      /\ made' = [made EXCEPT ![line.epoch] = wider]
      /\ UNCHANGED <<scoped, debug, nextEpoch, guards, submitted, panicked>>
  BY DEF Attach, Recording, Recorded, WithId
<1>2. TypeInv /\ LinesInv /\ GuardsInv /\ SubmittedInv
  BY DEF AnyOrderInv
<1>3. /\ Len(lines) \in DOMAIN lines /\ line \in Line /\ line.epoch \in DOMAIN made
      /\ scope \in Scope /\ LineWith(line, scope)
  BY <1>1, <1>2, CurrentLineFacts
<1>4. nextId \in Nat \ {0} /\ nextId' \in 1 .. MaxId + 1 /\ nextId \in Nat
  BY <1>1, <1>2, LocalAssumption DEF TypeInv
<1>6. wider \in Scope /\ wider.token = scope.token
  BY <1>3, <1>4 DEF Scope, WithId
<1>5. new = AddAttachment(line, nextId) /\ wider = WithId(scope, nextId)
  OBVIOUS
<1> HIDE DEF new, line, scope, wider
<1>7. /\ new \in Line /\ new.epoch = line.epoch /\ new.next = line.next
      /\ LineWith(new, wider)
      /\ Len(line.queue) \in Nat /\ Len(new.queue) = Len(line.queue) + 1
      /\ \A k \in 1 .. Len(line.queue) : new.queue[k] = line.queue[k]
      /\ new.queue[Len(line.queue) + 1] = Entry(nextId, line.next, "Attachment")
  BY <1>1, <1>3, <1>4, <1>5, AddAttachmentLine
<1>8. DOMAIN line.queue = 1 .. Len(line.queue) /\ DOMAIN new.queue = 1 .. Len(line.queue) + 1
  BY <1>3, <1>7, LenProperties DEF Line
<1>9. /\ \A k \in 1 .. Len(line.queue) : k \in 1 .. Len(line.queue) + 1
      /\ \A k \in 1 .. Len(line.queue) + 1 : k \in 1 .. Len(line.queue) \/ k = Len(line.queue) + 1
  BY <1>7
<1>10. /\ lines' \in Seq(Line) /\ Len(lines') = Len(lines) /\ DOMAIN lines' = DOMAIN lines
       /\ \A n \in DOMAIN lines : lines'[n] = IF n = Len(lines) THEN new ELSE lines[n]
       /\ made' \in [0 .. nextEpoch' - 1 -> Scope] /\ DOMAIN made' = DOMAIN made
       /\ LinesInv' /\ SubmittedInv'
       /\ \A h \in Guard : GuardWith(h) => GuardWith(h)'
  BY <1>1, <1>2, <1>3, <1>6, <1>7, <1>8, <1>9, LineReplaced DEF line, scope
<1>11. TypeInv'
  BY <1>1, <1>2, <1>4, <1>10 DEF TypeInv
<1>12. GuardsInv'
  BY <1>1, <1>2, <1>10, GuardsKept
<1>13. SameNesting
  <2>1. ASSUME NEW n \in DOMAIN lines
        PROVE  /\ lines'[n].epoch = lines[n].epoch /\ lines'[n].next = lines[n].next
               /\ \A k \in DOMAIN lines[n].queue :
                     k \in DOMAIN lines'[n].queue /\ lines'[n].queue[k] = lines[n].queue[k]
               /\ \A k \in DOMAIN lines'[n].queue :
                     lines'[n].queue[k].kind = "Span" => k \in DOMAIN lines[n].queue
    <3>1. CASE n = Len(lines)
      <4>1. lines[n] = line /\ lines'[n] = new
        BY <1>10, <3>1 DEF line, CurrentLine
      <4>2. Entry(nextId, line.next, "Attachment").kind # "Span"
        BY DEF Entry
      <4> QED
        BY <1>7, <1>8, <1>9, <4>1, <4>2
    <3>2. CASE n # Len(lines)
      BY <1>10, <3>2
    <3> QED
      BY <3>1, <3>2
  <2> QED
    BY <1>1, <1>10, <2>1 DEF SameNesting
<1> QED
  BY <1>10, <1>11, <1>12, <1>13 DEF AnyOrderInv

\* What properties for a local span make of the stack.
LEMMA WithPropertiesStep ==
  ASSUME AnyOrderInv, NEW i \in DOMAIN guards, WithProperties(i), panicked' = "no"
  PROVE  AnyOrderInv' /\ SameNesting
PROOF
<1> DEFINE line == CurrentLine
           scope == made[CurrentLine.epoch]
           index == guards[i].index
           new == Tag(CurrentLine, guards[i].index)
           wider == [scope EXCEPT !.asked = @ \cup {line.queue[index].id}]
<1>1. /\ HasLine /\ guards[i].kind = "span" /\ line.epoch = guards[i].epoch
      /\ Replace(new)
      /\ made' = [made EXCEPT ![guards[i].epoch].asked = @ \cup {guards[i].id}]
      /\ UNCHANGED <<scoped, debug, nextEpoch, nextId, guards, submitted, panicked>>
  BY DEF WithProperties, Panic
<1>2. TypeInv /\ LinesInv /\ GuardsInv /\ SubmittedInv
  BY DEF AnyOrderInv
<1>3. /\ Len(lines) \in DOMAIN lines /\ line \in Line /\ line.epoch \in DOMAIN made
      /\ scope \in Scope /\ LineWith(line, scope)
  BY <1>1, <1>2, CurrentLineFacts
<1>4. index \in DOMAIN line.queue /\ line.queue[index].id = guards[i].id /\ guards[i].id \in Nat
  BY <1>1, HandleLeads DEF SpanGuard
<1>5. made' = [made EXCEPT ![line.epoch] = wider]
  BY <1>1, <1>4
<1>6. wider \in Scope /\ wider.token = scope.token
  BY <1>3, <1>4 DEF Scope
<1>7. new = Tag(line, index) /\ wider = [scope EXCEPT !.asked = @ \cup {line.queue[index].id}]
  OBVIOUS
<1> HIDE DEF new, line, scope, wider, index
<1>8. /\ new \in Line /\ new.epoch = line.epoch /\ new.next = line.next
      /\ LineWith(new, wider)
      /\ DOMAIN new.queue = DOMAIN line.queue
      /\ \A k \in DOMAIN line.queue :
           /\ new.queue[k].id = line.queue[k].id /\ new.queue[k].kind = line.queue[k].kind
           /\ new.queue[k].parent = line.queue[k].parent
           /\ new.queue[k].ended = line.queue[k].ended
  BY <1>3, <1>4, <1>7, TagLine
<1>10. /\ lines' \in Seq(Line) /\ Len(lines') = Len(lines) /\ DOMAIN lines' = DOMAIN lines
       /\ \A n \in DOMAIN lines : lines'[n] = IF n = Len(lines) THEN new ELSE lines[n]
       /\ made' \in [0 .. nextEpoch' - 1 -> Scope] /\ DOMAIN made' = DOMAIN made
       /\ LinesInv' /\ SubmittedInv'
       /\ \A h \in Guard : GuardWith(h) => GuardWith(h)'
  BY <1>1, <1>2, <1>3, <1>5, <1>6, <1>8, LineReplaced DEF line, scope
<1>11. TypeInv'
  BY <1>1, <1>2, <1>10 DEF TypeInv
<1>12. GuardsInv'
  BY <1>1, <1>2, <1>10, GuardsKept
<1>13. SameNesting
  <2>1. ASSUME NEW n \in DOMAIN lines
        PROVE  /\ lines'[n].epoch = lines[n].epoch /\ lines'[n].next = lines[n].next
               /\ DOMAIN lines'[n].queue = DOMAIN lines[n].queue
               /\ \A k \in DOMAIN lines[n].queue :
                     /\ lines'[n].queue[k].parent = lines[n].queue[k].parent
                     /\ lines'[n].queue[k].kind = lines[n].queue[k].kind
                     /\ lines'[n].queue[k].ended = lines[n].queue[k].ended
    <3>1. CASE n = Len(lines)
      <4>1. lines[n] = line /\ lines'[n] = new
        BY <1>10, <3>1 DEF line, CurrentLine
      <4> QED
        BY <1>8, <4>1
    <3>2. CASE n # Len(lines)
      BY <1>10, <3>2
    <3> QED
      BY <3>1, <3>2
  <2> QED
    BY <1>1, <1>10, <2>1 DEF SameNesting
<1> QED
  BY <1>10, <1>11, <1>12, <1>13 DEF AnyOrderInv

\* What the end of a local span makes of the stack when its line is the
\* current one.
LEMMA FinishSpanStep ==
  ASSUME AnyOrderInv, NEW i \in DOMAIN guards, guards[i].kind = "span",
         HasLine, CurrentLine.epoch = guards[i].epoch,
         Replace(FinishSpan(CurrentLine, guards[i].index)), Forget(i),
         UNCHANGED <<scoped, debug, nextEpoch, nextId, submitted, made, panicked>>
  PROVE  /\ AnyOrderInv' /\ DOMAIN lines' = DOMAIN lines
         /\ \A n \in DOMAIN lines :
              /\ lines'[n].epoch = lines[n].epoch
              /\ lines[n].epoch # guards[i].epoch => lines'[n] = lines[n]
              /\ lines[n].epoch = guards[i].epoch => lines'[n].next = lines[n].queue[guards[i].index].parent
              /\ DOMAIN lines'[n].queue = DOMAIN lines[n].queue
              /\ \A k \in DOMAIN lines[n].queue :
                   /\ lines'[n].queue[k].parent = lines[n].queue[k].parent
                   /\ lines'[n].queue[k].kind = lines[n].queue[k].kind
                   /\ ~lines'[n].queue[k].ended =>
                        ~lines[n].queue[k].ended /\ (lines[n].epoch = guards[i].epoch => k # guards[i].index)
PROOF
<1> DEFINE line == CurrentLine
           scope == made[CurrentLine.epoch]
           index == guards[i].index
           new == FinishSpan(CurrentLine, guards[i].index)
<1>1. Replace(new)
  OBVIOUS
<1>2. TypeInv /\ LinesInv /\ GuardsInv /\ SubmittedInv
  BY DEF AnyOrderInv
<1>3. /\ Len(lines) \in DOMAIN lines /\ line \in Line /\ line.epoch \in DOMAIN made
      /\ scope \in Scope /\ LineWith(line, scope)
      /\ \A n \in DOMAIN lines : lines[n] \in Line /\ (n # Len(lines) => lines[n].epoch < line.epoch)
  BY <1>2, CurrentLineFacts
<1>4. index \in DOMAIN line.queue
  BY HandleLeads
<1>5. made' = [made EXCEPT ![line.epoch] = scope]
  BY <1>2 DEF TypeInv
<1>6. \A n \in DOMAIN lines : n # Len(lines) => lines[n].epoch # line.epoch
  BY <1>3 DEF Line
<1>7. new = FinishSpan(line, index) /\ line.epoch = guards[i].epoch
  OBVIOUS
<1> HIDE DEF new, line, scope, index
<1>8. /\ new \in Line /\ new.epoch = line.epoch /\ new.next = line.queue[index].parent
      /\ LineWith(new, scope)
      /\ DOMAIN new.queue = DOMAIN line.queue
      /\ \A k \in DOMAIN line.queue :
           /\ new.queue[k].id = line.queue[k].id /\ new.queue[k].kind = line.queue[k].kind
           /\ new.queue[k].parent = line.queue[k].parent
           /\ ~new.queue[k].ended => ~line.queue[k].ended /\ k # index
  BY <1>3, <1>4, <1>7, FinishSpanLine
<1>10. /\ lines' \in Seq(Line) /\ Len(lines') = Len(lines) /\ DOMAIN lines' = DOMAIN lines
       /\ \A n \in DOMAIN lines : lines'[n] = IF n = Len(lines) THEN new ELSE lines[n]
       /\ made' \in [0 .. nextEpoch' - 1 -> Scope] /\ DOMAIN made' = DOMAIN made
       /\ LinesInv' /\ SubmittedInv'
       /\ \A h \in Guard : GuardWith(h) => GuardWith(h)'
  BY <1>1, <1>2, <1>3, <1>5, <1>8, LineReplaced DEF line, scope
<1>12. guards' \in Seq(Guard) /\ GuardsInv'
  BY <1>2, <1>10, GuardForgotten
<1>11. TypeInv'
  BY <1>2, <1>10, <1>12 DEF TypeInv
<1>13. ASSUME NEW n \in DOMAIN lines
       PROVE  /\ lines'[n].epoch = lines[n].epoch
              /\ lines[n].epoch # guards[i].epoch => lines'[n] = lines[n]
              /\ lines[n].epoch = guards[i].epoch => lines'[n].next = lines[n].queue[guards[i].index].parent
              /\ DOMAIN lines'[n].queue = DOMAIN lines[n].queue
              /\ \A k \in DOMAIN lines[n].queue :
                   /\ lines'[n].queue[k].parent = lines[n].queue[k].parent
                   /\ lines'[n].queue[k].kind = lines[n].queue[k].kind
                   /\ ~lines'[n].queue[k].ended =>
                        ~lines[n].queue[k].ended /\ (lines[n].epoch = guards[i].epoch => k # guards[i].index)
  <2>1. CASE n = Len(lines)
    <3>1. lines[n] = line /\ lines'[n] = new
      BY <1>10, <2>1 DEF line, CurrentLine
    <3>2. guards[i].index = index
      BY DEF index
    <3>3. /\ new.epoch = line.epoch /\ new.next = line.queue[index].parent
          /\ DOMAIN new.queue = DOMAIN line.queue /\ line.epoch = guards[i].epoch
      BY <1>7, <1>8
    <3>4. \A k \in DOMAIN line.queue :
           /\ new.queue[k].parent = line.queue[k].parent /\ new.queue[k].kind = line.queue[k].kind
           /\ ~new.queue[k].ended => ~line.queue[k].ended /\ k # index
      BY <1>8
    <3> HIDE DEF index
    <3> QED
      BY <3>1, <3>2, <3>3, <3>4
  <2>2. CASE n # Len(lines)
    <3>1. lines'[n] = lines[n] /\ lines[n].epoch # guards[i].epoch
      BY <1>6, <1>7, <1>10, <2>2
    <3> QED
      BY <3>1
  <2> QED
    BY <2>1, <2>2
<1> QED
  BY <1>10, <1>11, <1>12, <1>13 DEF AnyOrderInv

\* What a new scope makes of the stack.
LEMMA OpenScopeStep ==
  ASSUME AnyOrderInv, NEW kind \in {"parent", "collector"}, NEW token \in AnyToken,
         kind = "collector" => token = NoToken, OpenScope(kind, token)
  PROVE  /\ AnyOrderInv'
         /\ Len(lines) \in Nat /\ DOMAIN lines = 1 .. Len(lines) /\ DOMAIN lines' = 1 .. Len(lines) + 1
         /\ \A n \in DOMAIN lines : lines'[n] = lines[n] /\ lines[n].epoch < nextEpoch
         /\ lines'[Len(lines) + 1] = SpanLine(nextEpoch, token)
         /\ Len(guards) \in Nat /\ DOMAIN guards = 1 .. Len(guards) /\ DOMAIN guards' = 1 .. Len(guards) + 1
         /\ \A j \in 1 .. Len(guards) : guards'[j] = guards[j]
         /\ guards'[Len(guards) + 1] = [kind |-> kind, epoch |-> nextEpoch]
         /\ nextEpoch \in Nat /\ nextEpoch # NoEpoch /\ \A e \in DOMAIN made : e < nextEpoch
         /\ DOMAIN made' = DOMAIN made \cup {nextEpoch}
         /\ \A e \in DOMAIN made : made'[e] = made[e]
PROOF
<1> DEFINE g == [kind |-> kind, epoch |-> nextEpoch]
<1>1. /\ nextEpoch < MaxOpen /\ Len(lines) < StackCapacity
      /\ lines' = Append(lines, SpanLine(nextEpoch, token))
      /\ guards' = Append(guards, g) /\ nextEpoch' = nextEpoch + 1
      /\ made' = [e \in 0 .. nextEpoch |->
                     IF e = nextEpoch THEN [token |-> token, ids |-> {}, asked |-> {}] ELSE made[e]]
      /\ UNCHANGED <<scoped, debug, nextId, submitted, panicked>>
  BY DEF OpenScope
<1>2. TypeInv /\ LinesInv /\ GuardsInv /\ SubmittedInv
  BY DEF AnyOrderInv
<1>3. /\ lines' \in Seq(Line) /\ Len(lines) \in Nat /\ Len(lines') = Len(lines) + 1
      /\ DOMAIN lines = 1 .. Len(lines) /\ DOMAIN lines' = 1 .. Len(lines) + 1
      /\ \A n \in DOMAIN lines : lines'[n] = lines[n]
      /\ lines'[Len(lines) + 1] = SpanLine(nextEpoch, token)
      /\ nextEpoch' \in 0 .. MaxOpen /\ nextEpoch \in Nat
      /\ made' \in [0 .. nextEpoch' - 1 -> Scope] /\ DOMAIN made' = DOMAIN made \cup {nextEpoch}
      /\ \A e \in DOMAIN made : made'[e] = made[e] /\ e < nextEpoch
      /\ made'[nextEpoch] = [token |-> token, ids |-> {}, asked |-> {}]
      /\ LinesInv' /\ SubmittedInv'
      /\ \A h \in Guard : GuardWith(h) => GuardWith(h)'
  BY <1>1, <1>2, LinePushed
<1>4. g \in Guard /\ g.kind = kind /\ g.epoch = nextEpoch /\ kind # "span"
  BY <1>3 DEF Guard, ScopeGuard
<1> HIDE DEF g
<1>5. ASSUME NEW h \in Guard, h = g
      PROVE  GuardWith(h)'
  <2>1. h.kind # "span" /\ h.epoch \in DOMAIN made'
    BY <1>3, <1>4, <1>5
  <2>2. h.kind = "collector" => made'[h.epoch].token = NoToken
    <3>1. made'[nextEpoch].token = token
      BY <1>3
    <3> QED
      BY <1>4, <1>5, <3>1
  <2> QED
    BY <2>1, <2>2 DEF GuardWith, IsSpanGuard, IsScopeGuard
<1>6. /\ Len(guards) \in Nat /\ DOMAIN guards = 1 .. Len(guards) /\ DOMAIN guards' = 1 .. Len(guards) + 1
      /\ guards' \in Seq(Guard)
      /\ \A j \in 1 .. Len(guards) : guards'[j] = guards[j]
      /\ guards'[Len(guards) + 1] = g
      /\ GuardsInv'
  BY <1>1, <1>2, <1>3, <1>4, <1>5, GuardAdded
<1>7. \A n \in DOMAIN lines : lines[n].epoch < nextEpoch
  BY <1>2, <1>3 DEF LinesInv
<1>8. nextEpoch # NoEpoch
  BY <1>1, <1>3, LocalAssumption DEF NoEpoch
<1>9. Len(lines') <= StackCapacity
  BY <1>1, <1>3, LocalAssumption
<1>10. TypeInv'
  BY <1>1, <1>2, <1>3, <1>6, <1>9 DEF TypeInv
<1> QED
  BY <1>3, <1>6, <1>7, <1>8, <1>10 DEF AnyOrderInv, g

\* What the end of a scope makes of the stack when there is a line, whatever
\* line it is.
LEMMA CloseScopeStep ==
  ASSUME AnyOrderInv, NEW i \in DOMAIN guards, HasLine, NEW epoch,
         lines' = Front(lines), Forget(i),
         submitted' \in SUBSET (submitted \cup CollectLine(CurrentLine, epoch)),
         UNCHANGED <<scoped, debug, nextEpoch, nextId, panicked, made>>
  PROVE  /\ AnyOrderInv' /\ Len(lines) \in Nat \ {0}
         /\ DOMAIN lines = 1 .. Len(lines) /\ DOMAIN lines' = 1 .. Len(lines) - 1
         /\ \A n \in 1 .. Len(lines) - 1 : n \in DOMAIN lines /\ lines'[n] = lines[n]
PROOF
<1>1. TypeInv /\ LinesInv /\ GuardsInv /\ SubmittedInv
  BY DEF AnyOrderInv
<1>2. Len(lines) \in Nat \ {0} /\ DOMAIN lines = 1 .. Len(lines)
  BY <1>1, CurrentLineFacts
<1>3. /\ lines' \in Seq(Line) /\ Len(lines') = Len(lines) - 1
      /\ DOMAIN lines' = 1 .. Len(lines) - 1
      /\ \A n \in 1 .. Len(lines) - 1 : n \in DOMAIN lines /\ lines'[n] = lines[n]
      /\ submitted' \in SUBSET SpanSet
      /\ LinesInv' /\ SubmittedInv'
      /\ \A g \in Guard : GuardWith(g) => GuardWith(g)'
  BY <1>1, LinePopped
<1>4. guards' \in Seq(Guard) /\ GuardsInv'
  BY <1>1, <1>3, GuardForgotten
<1>5. Len(lines') <= StackCapacity
  BY <1>1, <1>2, <1>3, LocalAssumption DEF TypeInv
<1>6. TypeInv'
  BY <1>1, <1>3, <1>4, <1>5 DEF TypeInv
<1> QED
  BY <1>2, <1>3, <1>4, <1>6 DEF AnyOrderInv

\* A guard that goes while the lines stay.
LEMMA ForgetStep ==
  ASSUME AnyOrderInv, NEW i \in DOMAIN guards, Forget(i),
         UNCHANGED <<scoped, debug, lines, nextEpoch, nextId, submitted, panicked, made>>
  PROVE  AnyOrderInv'
PROOF
<1>1. TypeInv /\ LinesInv /\ GuardsInv /\ SubmittedInv
  BY DEF AnyOrderInv
<1>2. \A g \in Guard : GuardWith(g) => GuardWith(g)'
  BY DEF GuardWith, IsSpanGuard, IsScopeGuard, Leads
<1>3. guards' \in Seq(Guard) /\ GuardsInv'
  BY <1>1, <1>2, GuardForgotten
<1>4. TypeInv'
  BY <1>1, <1>3 DEF TypeInv
<1>5. LinesInv' /\ SubmittedInv'
  BY <1>1 DEF LinesInv, LineWith, SubmittedInv, Ids, ParentPrecedes
<1> QED
  BY <1>3, <1>4, <1>5 DEF AnyOrderInv

\* A guard that holds nothing.
LEMMA OpenInertStep ==
  ASSUME AnyOrderInv, NEW kind \in {"parent", "collector"}, OpenInert(kind)
  PROVE  /\ AnyOrderInv'
         /\ Len(guards) \in Nat /\ DOMAIN guards = 1 .. Len(guards) /\ DOMAIN guards' = 1 .. Len(guards) + 1
         /\ \A j \in 1 .. Len(guards) : guards'[j] = guards[j]
         /\ ~IsSpanGuard(guards'[Len(guards) + 1]) /\ ~IsScopeGuard(guards'[Len(guards) + 1])
PROOF
<1> DEFINE g == [kind |-> kind, epoch |-> NoEpoch]
<1>1. /\ guards' = Append(guards, g)
      /\ UNCHANGED <<scoped, debug, lines, nextEpoch, nextId, submitted, panicked, made>>
  BY DEF OpenInert
<1>2. TypeInv /\ LinesInv /\ GuardsInv /\ SubmittedInv
  BY DEF AnyOrderInv
<1>3. g \in Guard /\ ~IsSpanGuard(g) /\ ~IsScopeGuard(g)
  BY LocalAssumption DEF Guard, ScopeGuard, NoEpoch, IsSpanGuard, IsScopeGuard
<1> HIDE DEF g
<1>4. ASSUME NEW h \in Guard, h = g \/ GuardWith(h)
      PROVE  GuardWith(h)'
  BY <1>1, <1>3, <1>4 DEF GuardWith, IsSpanGuard, IsScopeGuard, Leads
<1>5. /\ Len(guards) \in Nat /\ DOMAIN guards = 1 .. Len(guards) /\ DOMAIN guards' = 1 .. Len(guards) + 1
      /\ guards' \in Seq(Guard)
      /\ \A j \in 1 .. Len(guards) : guards'[j] = guards[j]
      /\ guards'[Len(guards) + 1] = g
      /\ GuardsInv'
  BY <1>1, <1>2, <1>3, <1>4, GuardAdded
<1>6. TypeInv'
  BY <1>1, <1>2, <1>5 DEF TypeInv
<1>7. LinesInv' /\ SubmittedInv'
  BY <1>1, <1>2 DEF LinesInv, LineWith, SubmittedInv, Ids, ParentPrecedes
<1> QED
  BY <1>3, <1>5, <1>6, <1>7 DEF AnyOrderInv, IsSpanGuard, IsScopeGuard

\* A step that only raises a panic, or does nothing.
LEMMA PanicStep ==
  ASSUME AnyOrderInv, panicked' \in {"no", "exhausted", "assertion", "token"},
         UNCHANGED <<scoped, debug, lines, nextEpoch, nextId, guards, submitted, made>>
  PROVE  AnyOrderInv'
PROOF
<1>1. TypeInv'
  BY DEF AnyOrderInv, TypeInv
<1>2. LinesInv' /\ SubmittedInv'
  BY DEF AnyOrderInv, LinesInv, LineWith, SubmittedInv, Ids, ParentPrecedes
<1>3. GuardsInv'
  BY DEF AnyOrderInv, GuardsInv, GuardWith, IsSpanGuard, IsScopeGuard, Leads
<1> QED
  BY <1>1, <1>2, <1>3 DEF AnyOrderInv

-----------------------------------------------------------------------------
(* Guards dropped in any order. *)

\* At first there is nothing.
LEMMA AnyOrderInit ==
  ASSUME Init
  PROVE  AnyOrderInv
PROOF
<1>1. /\ lines = <<>> /\ guards = <<>> /\ submitted = {} /\ nextEpoch = 0 /\ nextId = 1 /\ panicked = "no"
      /\ scoped \in BOOLEAN /\ debug \in BOOLEAN /\ made = [e \in {} |-> <<>>]
  BY LocalAssumption DEF Init
<1>2. /\ lines \in Seq(Line) /\ guards \in Seq(Guard) /\ Len(lines) = 0
      /\ DOMAIN lines = {} /\ DOMAIN guards = {}
  BY <1>1
<1>3. made \in [0 .. nextEpoch - 1 -> Scope]
  <2>1. 0 .. nextEpoch - 1 = {}
    BY <1>1
  <2> QED
    BY <1>1, <2>1
<1>4. TypeInv
  <2>1. Len(lines) <= StackCapacity /\ nextEpoch \in 0 .. MaxOpen /\ nextId \in 1 .. MaxId + 1
    BY <1>1, <1>2, LocalAssumption
  <2> QED
    BY <1>1, <1>2, <1>3, <2>1 DEF TypeInv
<1> QED
  BY <1>1, <1>2, <1>4 DEF AnyOrderInv, LinesInv, GuardsInv, SubmittedInv

\* The end of a local span does one of three things.
LEMMA DropLocalSpanCases ==
  ASSUME NEW i \in DOMAIN guards, DropLocalSpan(i)
  PROVE  \/ /\ HasLine /\ CurrentLine.epoch = guards[i].epoch
            /\ Replace(FinishSpan(CurrentLine, guards[i].index)) /\ Forget(i)
            /\ UNCHANGED <<scoped, debug, nextEpoch, nextId, submitted, made, panicked>>
         \/ /\ Forget(i)
            /\ ~(HasLine /\ CurrentLine.epoch = guards[i].epoch) /\ (debug => ~HasLine)
            /\ UNCHANGED <<scoped, debug, lines, nextEpoch, nextId, submitted, panicked, made>>
         \/ /\ panicked' = "assertion" /\ debug /\ HasLine
            /\ ~(/\ HasLine /\ CurrentLine.epoch = guards[i].epoch
                 /\ guards[i].index \in DOMAIN CurrentLine.queue
                 /\ CurrentLine.next = CurrentLine.queue[guards[i].index].id)
            /\ UNCHANGED <<scoped, debug, lines, nextEpoch, nextId, guards, submitted, made>>
PROOF
  BY DEF DropLocalSpan

\* The end of a scope does one of three things.
LEMMA CloseScopeCases ==
  ASSUME NEW i \in DOMAIN guards, NEW discard \in BOOLEAN, CloseScope(i, discard)
  PROVE  \/ /\ HasLine /\ lines' = Front(lines) /\ Forget(i)
            /\ debug => CurrentLine.epoch = guards[i].epoch
            /\ submitted' = submitted \cup (IF discard THEN {} ELSE CollectLine(CurrentLine, guards[i].epoch))
            /\ UNCHANGED <<scoped, debug, nextEpoch, nextId, panicked, made>>
         \/ /\ ~HasLine /\ ~debug /\ Forget(i)
            /\ UNCHANGED <<scoped, debug, lines, nextEpoch, nextId, submitted, panicked, made>>
         \/ /\ panicked' = "assertion" /\ debug /\ ~(HasLine /\ CurrentLine.epoch = guards[i].epoch)
            /\ UNCHANGED <<scoped, debug, lines, nextEpoch, nextId, guards, submitted, made>>
PROOF
<1>1. CASE HasLine
  BY <1>1 DEF CloseScope, Panic
<1>2. CASE ~HasLine
  BY <1>2 DEF CloseScope, Panic
<1> QED
  BY <1>1, <1>2

\* Every step keeps the invariant.
LEMMA AnyOrderNext ==
  ASSUME AnyOrderInv, [Next]_vars
  PROVE  AnyOrderInv'
PROOF
<1>1. ASSUME NEW token \in Tokens, OpenScope("parent", token)
      PROVE  AnyOrderInv'
  BY <1>1, OpenScopeStep DEF AnyToken
<1>2. CASE OpenScope("collector", NoToken)
  BY <1>2, OpenScopeStep DEF AnyToken
<1>3. ASSUME NEW kind \in {"parent", "collector"}, OpenInert(kind)
      PROVE  AnyOrderInv'
  BY <1>3, OpenInertStep
<1>4. CASE EnterLocalSpan
  BY <1>4, EnterLocalSpanStep
<1>5. CASE EnterExhausted
  BY <1>5, PanicStep DEF EnterExhausted, Panic
<1>6. CASE Attach
  BY <1>6, AttachStep
<1>7. ASSUME NEW i \in DOMAIN guards, WithProperties(i)
      PROVE  AnyOrderInv'
  <2>1. CASE panicked' = "no"
    BY <1>7, <2>1, WithPropertiesStep
  <2>2. CASE panicked' # "no"
    <3>1. Panic("assertion")
      BY <1>7, <2>2 DEF WithProperties, Running
    <3> QED
      BY <3>1, PanicStep DEF Panic
  <2> QED
    BY <2>1, <2>2
<1>8. ASSUME NEW i \in DOMAIN guards, DropLocalSpan(i)
      PROVE  AnyOrderInv'
  <2>1. guards[i].kind = "span"
    BY <1>8 DEF DropLocalSpan
  <2> QED
    BY <1>8, <2>1, DropLocalSpanCases, FinishSpanStep, ForgetStep, PanicStep
<1>9. ASSUME NEW i \in DOMAIN guards, NEW discard \in BOOLEAN, CloseScope(i, discard)
      PROVE  AnyOrderInv'
  <2>1. submitted \cup (IF discard THEN {} ELSE CollectLine(CurrentLine, guards[i].epoch))
           \in SUBSET (submitted \cup CollectLine(CurrentLine, guards[i].epoch))
    OBVIOUS
  <2> QED
    BY <1>9, <2>1, CloseScopeCases, CloseScopeStep, ForgetStep, PanicStep
<1>10. ASSUME NEW i \in DOMAIN guards, CloseInert(i)
       PROVE  AnyOrderInv'
  BY <1>10, ForgetStep, PanicStep DEF CloseInert, Panic
<1>11. CASE UNCHANGED vars
  <2>1. panicked' \in {"no", "exhausted", "assertion", "token"}
    BY <1>11 DEF AnyOrderInv, TypeInv, vars
  <2> QED
    BY <1>11, <2>1, PanicStep DEF vars
<1> QED
  BY <1>1, <1>2, <1>3, <1>4, <1>5, <1>6, <1>7, <1>8, <1>9, <1>10, <1>11 DEF Next

\* What is on the stack and what was handed over belong to their scopes,
\* whatever was opened and dropped in whatever order.
THEOREM AnyOrder == Spec => []AnyOrderInv
PROOF
<1>1. Init => AnyOrderInv
  BY AnyOrderInit
<1>2. AnyOrderInv /\ [Next]_vars => AnyOrderInv'
  BY AnyOrderNext
<1> QED
  BY <1>1, <1>2, PTL DEF Spec

\* The stack keeps within its capacity, and its lines are those of scopes that
\* were opened, in the order they were opened.
THEOREM StackTypeCorrect == Spec => []TypeOK
PROOF
<1>1. AnyOrderInv => TypeOK
  <2> SUFFICES ASSUME AnyOrderInv
               PROVE  TypeOK
    OBVIOUS
  <2>1. TypeInv /\ LinesInv
    BY DEF AnyOrderInv
  <2>2. DOMAIN made = 0 .. nextEpoch - 1
    BY <2>1 DEF TypeInv
  <2>3. \A n \in DOMAIN lines :
           /\ lines[n].epoch \in DOMAIN made
           /\ lines[n].token = made[lines[n].epoch].token
           /\ Len(lines[n].queue) <= QueueCapacity
           /\ \A m \in 1 .. n - 1 : lines[m].epoch < lines[n].epoch
    BY <2>1 DEF LinesInv, LineWith
  <2> QED
    BY <2>1, <2>2, <2>3 DEF TypeOK, TypeInv
<1> QED
  BY <1>1, AnyOrder, PTL

\* In whatever order guards are dropped, a guard hands over nothing that was
\* recorded in another scope (SpanLine::collect compares the epoch).
THEOREM NoMisattribution == Spec => []NeverMisattributed
PROOF
<1>1. AnyOrderInv => NeverMisattributed
  BY DEF AnyOrderInv, SubmittedInv, NeverMisattributed
<1> QED
  BY <1>1, AnyOrder, PTL

\* In whatever order guards are dropped, the parent of a raw span is a span
\* recorded before it in the same queue.
THEOREM ParentsAreSpans == Spec => []ParentsPrecede
PROOF
<1>1. AnyOrderInv => ParentsPrecede
  BY DEF AnyOrderInv, LinesInv, LineWith, SubmittedInv, ParentsPrecede
<1> QED
  BY <1>1, AnyOrder, PTL

\* In whatever order guards are dropped, properties given to a local span
\* reach that span or none.
THEOREM PropertiesStay == Spec => []PropertiesOnTheirSpan
PROOF
<1>1. AnyOrderInv => PropertiesOnTheirSpan
  BY DEF AnyOrderInv, LinesInv, LineWith, PropertiesOnTheirSpan
<1> QED
  BY <1>1, AnyOrder, PTL

-----------------------------------------------------------------------------
(* No scope is lost in silence. *)

\* In a debug build, a scope with a token has its guard or was handed over.
ScopesAccounted ==
  debug =>
    \A e \in DOMAIN made :
      \/ made[e].token = NoToken
      \/ \E i \in DOMAIN guards : guards[i].kind # "span" /\ guards[i].epoch = e
      \/ \E s \in submitted : s.epoch = e

\* What is recorded in a scope does not change its token.
LEMMA TokensKept ==
  ASSUME TypeInv, NEW e, NEW ids \in SUBSET Nat, NEW asked \in SUBSET Nat,
         made' = [made EXCEPT ![e].ids = ids] \/ made' = [made EXCEPT ![e].asked = asked]
  PROVE  DOMAIN made' = DOMAIN made /\ \A d \in DOMAIN made : made'[d].token = made[d].token
PROOF
  BY DEF TypeInv, Scope

\* Every other guard is still there when one goes.
LEMMA OtherGuardsStay ==
  ASSUME TypeInv, NEW i \in DOMAIN guards, Forget(i), NEW j \in DOMAIN guards, j # i
  PROVE  \E k \in DOMAIN guards' : guards'[k] = guards[j]
PROOF
<1> DEFINE len == Len(guards)
<1>1. guards \in Seq(Guard) /\ DOMAIN guards = 1 .. len /\ len \in Nat
  BY LenProperties DEF TypeInv
<1>2. /\ guards' \in Seq(Guard) /\ Len(guards') = len - 1
      /\ \A k \in 1 .. len - 1 : guards'[k] = IF k < i THEN guards[k] ELSE guards[k + 1]
  BY <1>1, RemoveAtElements DEF Forget
<1>3. DOMAIN guards' = 1 .. len - 1
  BY <1>2, LenProperties
<1> HIDE DEF len
<1>4. CASE j < i
  <2>1. j \in 1 .. len - 1
    BY <1>1, <1>4
  <2> QED
    BY <1>2, <1>3, <1>4, <2>1
<1>5. CASE ~(j < i)
  <2> DEFINE k == j - 1
  <2>1. k \in 1 .. len - 1 /\ ~(k < i) /\ k + 1 = j
    BY <1>1, <1>5
  <2> HIDE DEF k
  <2> QED
    BY <1>2, <1>3, <2>1
<1> QED
  BY <1>4, <1>5

\* Scopes stay accounted for while no guard of a scope goes.
LEMMA AccountedWhileGuarded ==
  ASSUME ScopesAccounted, debug' = debug, submitted \in SUBSET submitted',
         DOMAIN made' = DOMAIN made, \A d \in DOMAIN made : made'[d].token = made[d].token,
         \A j \in DOMAIN guards : guards[j].kind # "span" /\ guards[j].epoch \in DOMAIN made =>
            \/ \E k \in DOMAIN guards' : guards'[k] = guards[j]
            \/ made[guards[j].epoch].token = NoToken
            \/ \E s \in submitted' : s.epoch = guards[j].epoch
  PROVE  ScopesAccounted'
PROOF
<1> SUFFICES ASSUME debug', NEW e \in DOMAIN made', made'[e].token # NoToken
             PROVE  \/ \E i \in DOMAIN guards' : guards'[i].kind # "span" /\ guards'[i].epoch = e
                    \/ \E s \in submitted' : s.epoch = e
  BY DEF ScopesAccounted
<1>1. e \in DOMAIN made /\ made[e].token # NoToken
  OBVIOUS
<1>2. \/ \E i \in DOMAIN guards : guards[i].kind # "span" /\ guards[i].epoch = e
      \/ \E s \in submitted : s.epoch = e
  BY <1>1 DEF ScopesAccounted
<1>3. ASSUME NEW i \in DOMAIN guards, guards[i].kind # "span", guards[i].epoch = e
      PROVE  \/ \E k \in DOMAIN guards' : guards'[k].kind # "span" /\ guards'[k].epoch = e
             \/ \E s \in submitted' : s.epoch = e
  <2>1. \/ \E k \in DOMAIN guards' : guards'[k] = guards[i]
        \/ \E s \in submitted' : s.epoch = guards[i].epoch
    BY <1>1, <1>3
  <2> QED
    BY <1>3, <2>1
<1> QED
  BY <1>2, <1>3

\* Every step keeps the scopes accounted for.
LEMMA ScopesAccountedNext ==
  ASSUME AnyOrderInv, ScopesAccounted, [Next]_vars
  PROVE  ScopesAccounted'
PROOF
<1> USE DEF AnyOrderInv
<1>0. guards \in Seq(Guard) /\ nextId \in Nat /\ \A e \in DOMAIN made : e # NoEpoch
  BY LocalAssumption DEF TypeInv, NoEpoch
<1>1. ASSUME NEW kind \in {"parent", "collector"}, NEW token \in AnyToken,
             kind = "collector" => token = NoToken, OpenScope(kind, token)
      PROVE  ScopesAccounted'
  <2>1. /\ Len(guards) \in Nat /\ DOMAIN guards = 1 .. Len(guards) /\ DOMAIN guards' = 1 .. Len(guards) + 1
        /\ \A j \in 1 .. Len(guards) : guards'[j] = guards[j]
        /\ guards'[Len(guards) + 1] = [kind |-> kind, epoch |-> nextEpoch]
        /\ DOMAIN made' = DOMAIN made \cup {nextEpoch}
        /\ \A e \in DOMAIN made : made'[e] = made[e]
    BY <1>1, OpenScopeStep
  <2>2. /\ \A j \in 1 .. Len(guards) : j \in 1 .. Len(guards) + 1
        /\ Len(guards) + 1 \in 1 .. Len(guards) + 1
    BY <2>1
  <2>3. debug' = debug /\ submitted' = submitted
    BY <1>1 DEF OpenScope
  <2>4. /\ guards'[Len(guards) + 1].kind # "span" /\ guards'[Len(guards) + 1].epoch = nextEpoch
        /\ Len(guards) + 1 \in DOMAIN guards'
    BY <2>1, <2>2
  <2>5. ASSUME debug, NEW e \in DOMAIN made
        PROVE  \/ made'[e].token = NoToken
               \/ \E i \in DOMAIN guards' : guards'[i].kind # "span" /\ guards'[i].epoch = e
               \/ \E s \in submitted : s.epoch = e
    <3>1. CASE \E i \in DOMAIN guards : guards[i].kind # "span" /\ guards[i].epoch = e
      BY <2>1, <2>2, <3>1
    <3> QED
      BY <2>1, <2>5, <3>1 DEF ScopesAccounted
  <2> QED
    BY <2>1, <2>3, <2>4, <2>5 DEF ScopesAccounted
<1>2. ASSUME NEW kind \in {"parent", "collector"}, OpenInert(kind)
      PROVE  ScopesAccounted'
  <2>1. /\ Len(guards) \in Nat /\ DOMAIN guards = 1 .. Len(guards) /\ DOMAIN guards' = 1 .. Len(guards) + 1
        /\ \A j \in 1 .. Len(guards) : guards'[j] = guards[j]
    BY <1>2, OpenInertStep
  <2>2. \A j \in 1 .. Len(guards) : j \in 1 .. Len(guards) + 1
    BY <2>1
  <2>3. debug' = debug /\ submitted' = submitted /\ made' = made
    BY <1>2 DEF OpenInert
  <2> QED
    BY <2>1, <2>2, <2>3, AccountedWhileGuarded
<1>3. CASE EnterLocalSpan
  <2> DEFINE g == [kind |-> "span", epoch |-> CurrentLine.epoch,
                   index |-> Len(CurrentLine.queue) + 1, id |-> nextId]
  <2>1. /\ debug' = debug /\ submitted' = submitted /\ guards' = Append(guards, g)
        /\ made' = [made EXCEPT ![CurrentLine.epoch].ids = made[CurrentLine.epoch].ids \cup {nextId}]
        /\ HasLine
    BY <1>3 DEF EnterLocalSpan, Recorded, Recording
  <2>2. made[CurrentLine.epoch].ids \cup {nextId} \in SUBSET Nat
    BY <1>0, <2>1, CurrentLineFacts DEF Scope
  <2>3. DOMAIN made' = DOMAIN made /\ \A d \in DOMAIN made : made'[d].token = made[d].token
    BY <2>1, <2>2, TokensKept
  <2>4. \A j \in DOMAIN guards : j \in DOMAIN guards' /\ guards'[j] = guards[j]
    <3> HIDE DEF g
    <3>1. DOMAIN guards = 1 .. Len(guards) /\ Len(guards) \in Nat
      BY <1>0, LenProperties
    <3>2. guards \in Seq(Guard \cup {g}) /\ g \in Guard \cup {g}
      BY <1>0, SeqMonotonic
    <3>3. guards' \in Seq(Guard \cup {g}) /\ Len(guards') = Len(guards) + 1
          /\ \A j \in 1 .. Len(guards) : guards'[j] = guards[j]
      BY <2>1, <3>2, AppendProperties
    <3>4. DOMAIN guards' = 1 .. Len(guards) + 1
      BY <3>3, LenProperties
    <3>5. \A j \in 1 .. Len(guards) : j \in 1 .. Len(guards) + 1
      BY <3>1
    <3> QED
      BY <3>1, <3>3, <3>4, <3>5
  <2> QED
    BY <2>1, <2>3, <2>4, AccountedWhileGuarded
<1>4. CASE EnterExhausted
  BY <1>4, AccountedWhileGuarded DEF EnterExhausted, Panic
<1>5. CASE Attach
  <2>1. /\ debug' = debug /\ submitted' = submitted /\ guards' = guards /\ HasLine
        /\ made' = [made EXCEPT ![CurrentLine.epoch].ids = made[CurrentLine.epoch].ids \cup {nextId}]
    BY <1>5 DEF Attach, Recorded, Recording
  <2>2. made[CurrentLine.epoch].ids \cup {nextId} \in SUBSET Nat
    BY <1>0, <2>1, CurrentLineFacts DEF Scope
  <2>3. DOMAIN made' = DOMAIN made /\ \A d \in DOMAIN made : made'[d].token = made[d].token
    BY <2>1, <2>2, TokensKept
  <2> QED
    BY <2>1, <2>3, AccountedWhileGuarded
<1>6. ASSUME NEW i \in DOMAIN guards, WithProperties(i)
      PROVE  ScopesAccounted'
  <2>1. CASE Panic("assertion")
    BY <2>1, AccountedWhileGuarded DEF Panic
  <2>2. CASE ~Panic("assertion")
    <3>1. /\ debug' = debug /\ submitted' = submitted /\ guards' = guards /\ HasLine
          /\ guards[i].kind = "span" /\ CurrentLine.epoch = guards[i].epoch
          /\ made' = [made EXCEPT ![guards[i].epoch].asked = made[guards[i].epoch].asked \cup {guards[i].id}]
      BY <1>6, <2>2 DEF WithProperties
    <3>2. guards[i].id \in Nat
      BY <3>1, HandleLeads DEF SpanGuard
    <3>3. made[guards[i].epoch].asked \cup {guards[i].id} \in SUBSET Nat
      BY <3>1, <3>2, CurrentLineFacts DEF Scope
    <3>4. DOMAIN made' = DOMAIN made /\ \A d \in DOMAIN made : made'[d].token = made[d].token
      BY <3>1, <3>3, TokensKept
    <3> QED
      BY <3>1, <3>4, AccountedWhileGuarded
  <2> QED
    BY <2>1, <2>2
<1>7. ASSUME NEW i \in DOMAIN guards, DropLocalSpan(i)
      PROVE  ScopesAccounted'
  <2>1. debug' = debug /\ submitted' = submitted /\ made' = made /\ guards[i].kind = "span"
    BY <1>7 DEF DropLocalSpan
  <2>2. guards' = guards \/ Forget(i)
    BY <1>7 DEF DropLocalSpan
  <2>3. \A j \in DOMAIN guards : guards[j].kind # "span" => \E k \in DOMAIN guards' : guards'[k] = guards[j]
    BY <2>1, <2>2, OtherGuardsStay
  <2> QED
    BY <2>1, <2>3, AccountedWhileGuarded
<1>8. ASSUME NEW i \in DOMAIN guards, NEW discard \in BOOLEAN, CloseScope(i, discard)
      PROVE  ScopesAccounted'
  <2>1. /\ guards[i].kind # "span" /\ guards[i].epoch # NoEpoch
        /\ discard => guards[i].kind = "collector"
    BY <1>8 DEF CloseScope
  <2>2. discard /\ guards[i].epoch \in DOMAIN made => made[guards[i].epoch].token = NoToken
    BY <2>1 DEF GuardsInv, GuardWith, IsScopeGuard
  <2>3. CASE guards' = guards
    BY <1>8, <2>3, CloseScopeCases, AccountedWhileGuarded
  <2>4. CASE Forget(i) /\ ~debug
    BY <1>8, <2>4, CloseScopeCases DEF ScopesAccounted
  <2>5. CASE Forget(i) /\ debug /\ guards' # guards
    <3>1. /\ HasLine /\ CurrentLine.epoch = guards[i].epoch
          /\ submitted' = submitted \cup (IF discard THEN {} ELSE CollectLine(CurrentLine, guards[i].epoch))
          /\ debug' = debug /\ made' = made
      BY <1>8, <2>5, CloseScopeCases
    <3>2. ~discard => \E s \in submitted' : s.epoch = guards[i].epoch
      <4>1. \A s : s = [epoch |-> guards[i].epoch, token |-> CurrentLine.token, spans |-> CurrentLine.queue]
                      => s.epoch = guards[i].epoch
        OBVIOUS
      <4> QED
        BY <3>1, <4>1 DEF CollectLine
    <3>3. \A j \in DOMAIN guards : j # i => \E k \in DOMAIN guards' : guards'[k] = guards[j]
      BY <2>5, OtherGuardsStay
    <3>4. submitted \in SUBSET submitted'
      BY <3>1
    <3> QED
      BY <2>2, <3>1, <3>2, <3>3, <3>4, AccountedWhileGuarded
  <2> QED
    BY <1>8, <2>3, <2>4, <2>5, CloseScopeCases
<1>9. ASSUME NEW i \in DOMAIN guards, CloseInert(i)
      PROVE  ScopesAccounted'
  <2>1. /\ debug' = debug /\ submitted' = submitted /\ made' = made
        /\ guards' = guards \/ Forget(i)
        /\ guards[i].epoch = NoEpoch
    BY <1>9 DEF CloseInert, Panic
  <2>2. \A j \in DOMAIN guards :
           guards[j].epoch \in DOMAIN made => \E k \in DOMAIN guards' : guards'[k] = guards[j]
    BY <1>0, <2>1, OtherGuardsStay
  <2> QED
    BY <2>1, <2>2, AccountedWhileGuarded
<1>10. CASE UNCHANGED vars
  BY <1>10, AccountedWhileGuarded DEF vars
<1>11. \A token \in Tokens : OpenScope("parent", token) => ScopesAccounted'
  BY <1>1 DEF AnyToken
<1>12. OpenScope("collector", NoToken) => ScopesAccounted'
  BY <1>1 DEF AnyToken
<1> QED
  BY <1>2, <1>3, <1>4, <1>5, <1>6, <1>7, <1>8, <1>9, <1>10, <1>11, <1>12 DEF Next

\* In a debug build no scope is lost in silence: in whatever order guards were
\* dropped, a LocalParentGuard that is gone without a panic has submitted what
\* was recorded in its scope, with its token.
THEOREM NoScopeLost == Spec => []ScopeSubmitted
PROOF
<1>1. Init => ScopesAccounted
  BY DEF Init, ScopesAccounted
<1>2. AnyOrderInv /\ ScopesAccounted /\ [Next]_vars => ScopesAccounted'
  BY ScopesAccountedNext
<1>3. AnyOrderInv /\ ScopesAccounted => ScopeSubmitted
  BY DEF AnyOrderInv, SubmittedInv, ScopesAccounted, ScopeSubmitted
<1> QED
  BY <1>1, <1>2, <1>3, AnyOrder, PTL DEF Spec

-----------------------------------------------------------------------------
(* Guards dropped in scope order: what guards gs say of lines ls. *)

SpanOf(g, epoch) == IsSpanGuard(g) /\ g.epoch = epoch

ScopeOf(g, epoch) == IsScopeGuard(g) /\ g.epoch = epoch

\* The last span guard of a scope before position i is the one with that id;
\* NoParent when there is none.
LastSpan(gs, epoch, i, id) ==
  \/ id = NoParent /\ \A j \in 1 .. i - 1 : ~SpanOf(gs[j], epoch)
  \/ \E j \in 1 .. i - 1 :
        /\ SpanOf(gs[j], epoch) /\ gs[j].id = id
        /\ \A k \in j + 1 .. i - 1 : ~SpanOf(gs[k], epoch)

\* Scopes and lines are the same, in the same order.
ScopesNest(gs, ls) ==
  /\ \A i, j \in DOMAIN gs :
        i < j /\ IsScopeGuard(gs[i]) /\ IsScopeGuard(gs[j]) => gs[i].epoch < gs[j].epoch
  /\ \A n \in DOMAIN ls : \E i \in DOMAIN gs : ScopeOf(gs[i], ls[n].epoch)
  /\ \A i \in DOMAIN gs : IsScopeGuard(gs[i]) => \E n \in DOMAIN ls : ls[n].epoch = gs[i].epoch

\* A span guard belongs to the innermost scope opened before it.
SpansNest(gs) ==
  \A j \in DOMAIN gs : IsSpanGuard(gs[j]) =>
     /\ \E i \in 1 .. j - 1 : ScopeOf(gs[i], gs[j].epoch)
     /\ \A i \in 1 .. j - 1 : IsScopeGuard(gs[i]) => gs[i].epoch <= gs[j].epoch

\* The parents on a line are the spans whose guards enclose it; len guards.
ParentsNest(gs, ls, len) ==
  \A n \in DOMAIN ls :
     /\ LastSpan(gs, ls[n].epoch, len + 1, ls[n].next)
     /\ \A i \in DOMAIN gs :
           SpanOf(gs[i], ls[n].epoch) =>
              LastSpan(gs, ls[n].epoch, i, ls[n].queue[gs[i].index].parent)

\* A span that has not ended has its guard.
OpenHaveGuards(gs, ls) ==
  \A n \in DOMAIN ls : \A k \in DOMAIN ls[n].queue :
     ls[n].queue[k].kind = "Span" /\ ~ls[n].queue[k].ended =>
        \E i \in DOMAIN gs : SpanOf(gs[i], ls[n].epoch) /\ gs[i].index = k

Nested(gs, ls, len) ==
  ScopesNest(gs, ls) /\ SpansNest(gs) /\ ParentsNest(gs, ls, len) /\ OpenHaveGuards(gs, ls)

NestInv ==
  scoped => Nested(guards, lines, Len(guards)) /\ AssertionsHold /\ SpansEnded

\* What is true in any order, and matters here.
Shaped(gs, ls, len) ==
  /\ len \in Nat /\ DOMAIN gs = 1 .. len
  /\ \A i \in DOMAIN gs : gs[i].epoch \in Nat
  /\ \A n \in DOMAIN ls : n \in Nat /\ ls[n].epoch \in Nat
  /\ \A m, n \in DOMAIN ls : m < n => ls[m].epoch < ls[n].epoch
  /\ \A i \in DOMAIN gs : \A n \in DOMAIN ls :
        SpanOf(gs[i], ls[n].epoch) => gs[i].index \in DOMAIN ls[n].queue

\* Only the guards before the position matter.
LEMMA LastSpanPrefix ==
  ASSUME NEW gs, NEW hs, NEW epoch, NEW id, NEW i \in Nat, \A j \in 1 .. i - 1 : hs[j] = gs[j],
         LastSpan(gs, epoch, i, id)
  PROVE  LastSpan(hs, epoch, i, id)
PROOF
<1>1. CASE id = NoParent /\ \A j \in 1 .. i - 1 : ~SpanOf(gs[j], epoch)
  BY <1>1 DEF LastSpan
<1>2. ASSUME NEW j \in 1 .. i - 1, SpanOf(gs[j], epoch), gs[j].id = id,
             \A k \in j + 1 .. i - 1 : ~SpanOf(gs[k], epoch)
      PROVE  LastSpan(hs, epoch, i, id)
  <2>1. \A k \in j + 1 .. i - 1 : k \in 1 .. i - 1
    OBVIOUS
  <2> QED
    BY <1>2, <2>1 DEF LastSpan
<1> QED
  BY <1>1, <1>2 DEF LastSpan

\* A guard that is not a span of the scope makes no difference.
LEMMA LastSpanSkip ==
  ASSUME NEW gs, NEW epoch, NEW id, NEW i \in Nat \ {0}, ~SpanOf(gs[i], epoch)
  PROVE  LastSpan(gs, epoch, i, id) <=> LastSpan(gs, epoch, i + 1, id)
PROOF
<1>1. /\ i + 1 - 1 = i
      /\ \A j \in 1 .. i - 1 : j \in 1 .. i
      /\ \A j \in 1 .. i : j \in 1 .. i - 1 \/ j = i
      /\ \A j \in 1 .. i : (\A k \in j + 1 .. i - 1 : k \in j + 1 .. i) /\ \A k \in j + 1 .. i : k \in j + 1 .. i - 1 \/ k = i
  OBVIOUS
<1>2. ASSUME LastSpan(gs, epoch, i, id)
      PROVE  LastSpan(gs, epoch, i + 1, id)
  <2>1. CASE id = NoParent /\ \A j \in 1 .. i - 1 : ~SpanOf(gs[j], epoch)
    BY <1>1, <2>1 DEF LastSpan
  <2>2. ASSUME NEW j \in 1 .. i - 1, SpanOf(gs[j], epoch), gs[j].id = id,
               \A k \in j + 1 .. i - 1 : ~SpanOf(gs[k], epoch)
        PROVE  LastSpan(gs, epoch, i + 1, id)
    <3>1. \A k \in j + 1 .. i : ~SpanOf(gs[k], epoch)
      BY <1>1, <2>2
    <3> QED
      BY <1>1, <2>2, <3>1 DEF LastSpan
  <2> QED
    BY <1>2, <2>1, <2>2 DEF LastSpan
<1>3. ASSUME LastSpan(gs, epoch, i + 1, id)
      PROVE  LastSpan(gs, epoch, i, id)
  <2>1. CASE id = NoParent /\ \A j \in 1 .. i : ~SpanOf(gs[j], epoch)
    BY <1>1, <2>1 DEF LastSpan
  <2>2. ASSUME NEW j \in 1 .. i, SpanOf(gs[j], epoch), gs[j].id = id,
               \A k \in j + 1 .. i : ~SpanOf(gs[k], epoch)
        PROVE  LastSpan(gs, epoch, i, id)
    <3>1. j \in 1 .. i - 1 /\ \A k \in j + 1 .. i - 1 : ~SpanOf(gs[k], epoch)
      BY <1>1, <2>2
    <3> QED
      BY <2>2, <3>1 DEF LastSpan
  <2> QED
    BY <1>1, <1>3, <2>1, <2>2 DEF LastSpan
<1> QED
  BY <1>2, <1>3

\* A guard that is a span of the scope is the last one.
LEMMA LastSpanNew ==
  ASSUME NEW gs, NEW epoch, NEW i \in Nat \ {0}, SpanOf(gs[i], epoch)
  PROVE  /\ LastSpan(gs, epoch, i + 1, gs[i].id)
         /\ \A id : LastSpan(gs, epoch, i + 1, id) => id = gs[i].id
PROOF
<1>1. i + 1 - 1 = i /\ i \in 1 .. i /\ i + 1 .. i = {}
  OBVIOUS
<1>2. LastSpan(gs, epoch, i + 1, gs[i].id)
  BY <1>1 DEF LastSpan
<1>3. ASSUME NEW id, LastSpan(gs, epoch, i + 1, id)
      PROVE  id = gs[i].id
  <2>1. PICK j \in 1 .. i : gs[j].id = id /\ \A k \in j + 1 .. i : ~SpanOf(gs[k], epoch)
    BY <1>1, <1>3 DEF LastSpan
  <2>2. j = i \/ i \in j + 1 .. i
    OBVIOUS
  <2> QED
    BY <2>1, <2>2
<1> QED
  BY <1>2, <1>3

\* Guard len + 1 comes on top of guards gs.
Extends(hs, gs, len) ==
  /\ len \in Nat /\ DOMAIN gs = 1 .. len /\ DOMAIN hs = 1 .. len + 1
  /\ \A j \in 1 .. len : hs[j] = gs[j]

\* What that says of each guard.
LEMMA ExtendsFacts ==
  ASSUME NEW gs, NEW hs, NEW len, Extends(hs, gs, len)
  PROVE  /\ len + 1 \in DOMAIN hs /\ len + 1 \notin DOMAIN gs
         /\ \A j \in DOMAIN gs : j \in Nat /\ j \in DOMAIN hs /\ hs[j] = gs[j] /\ j < len + 1 /\ j # len + 1
         /\ \A j \in DOMAIN hs : j \in DOMAIN gs \/ j = len + 1
         /\ \A j \in DOMAIN gs : \A i \in 1 .. j - 1 : i \in DOMAIN gs
         /\ \A i \in 1 .. len + 1 - 1 : i \in DOMAIN gs
         /\ 1 .. len + 1 - 1 = DOMAIN gs
         /\ \A epoch, id : \A j \in DOMAIN gs : LastSpan(gs, epoch, j, id) <=> LastSpan(hs, epoch, j, id)
         /\ \A epoch, id : LastSpan(gs, epoch, len + 1, id) <=> LastSpan(hs, epoch, len + 1, id)
         /\ \A epoch, id : ~SpanOf(hs[len + 1], epoch) =>
              (LastSpan(hs, epoch, len + 1, id) <=> LastSpan(hs, epoch, len + 1 + 1, id))
PROOF
<1>1. len \in Nat /\ DOMAIN gs = 1 .. len /\ DOMAIN hs = 1 .. len + 1 /\ \A j \in 1 .. len : hs[j] = gs[j]
  BY DEF Extends
<1>2. /\ len + 1 \in DOMAIN hs /\ len + 1 \notin DOMAIN gs
      /\ \A j \in DOMAIN gs : j \in Nat /\ j \in DOMAIN hs /\ hs[j] = gs[j] /\ j < len + 1 /\ j # len + 1
      /\ \A j \in DOMAIN hs : j \in DOMAIN gs \/ j = len + 1
      /\ \A j \in DOMAIN gs : \A i \in 1 .. j - 1 : i \in DOMAIN gs
      /\ \A i \in 1 .. len + 1 - 1 : i \in DOMAIN gs
      /\ 1 .. len + 1 - 1 = DOMAIN gs
      /\ len + 1 \in Nat \ {0}
  BY <1>1
<1>3. ASSUME NEW epoch, NEW id, NEW j \in DOMAIN gs
      PROVE  LastSpan(gs, epoch, j, id) <=> LastSpan(hs, epoch, j, id)
  <2>1. \A i \in 1 .. j - 1 : hs[i] = gs[i] /\ gs[i] = hs[i]
    BY <1>1, <1>2
  <2> QED
    BY <1>2, <2>1, LastSpanPrefix
<1>4. ASSUME NEW epoch, NEW id
      PROVE  LastSpan(gs, epoch, len + 1, id) <=> LastSpan(hs, epoch, len + 1, id)
  <2> DEFINE top == len + 1
  <2>1. top \in Nat /\ \A i \in 1 .. top - 1 : hs[i] = gs[i] /\ gs[i] = hs[i]
    BY <1>1, <1>2
  <2> HIDE DEF top
  <2>2. LastSpan(gs, epoch, top, id) <=> LastSpan(hs, epoch, top, id)
    BY <2>1, LastSpanPrefix
  <2> QED
    BY <2>2 DEF top
<1>5. ASSUME NEW epoch, NEW id, ~SpanOf(hs[len + 1], epoch)
      PROVE  LastSpan(hs, epoch, len + 1, id) <=> LastSpan(hs, epoch, len + 1 + 1, id)
  BY <1>2, <1>5, LastSpanSkip
<1> QED
  BY <1>2, <1>3, <1>4, <1>5

\* What does not touch parents and ends of spans keeps the nesting.
LEMMA NestedSame ==
  ASSUME NEW gs, NEW ls, NEW ms, NEW len, Nested(gs, ls, len), Shaped(gs, ls, len),
         DOMAIN ms = DOMAIN ls,
         \A n \in DOMAIN ls :
            /\ ms[n].epoch = ls[n].epoch /\ ms[n].next = ls[n].next
            /\ \A k \in DOMAIN ls[n].queue :
                  /\ k \in DOMAIN ms[n].queue
                  /\ ms[n].queue[k].parent = ls[n].queue[k].parent
                  /\ ms[n].queue[k].kind = ls[n].queue[k].kind
                  /\ ms[n].queue[k].ended = ls[n].queue[k].ended
            /\ \A k \in DOMAIN ms[n].queue :
                  ms[n].queue[k].kind = "Span" => k \in DOMAIN ls[n].queue
  PROVE  Nested(gs, ms, len)
PROOF
<1>1. ScopesNest(gs, ms) /\ SpansNest(gs)
  BY DEF Nested, ScopesNest
<1>2. ParentsNest(gs, ms, len)
  BY DEF Nested, ParentsNest, Shaped
<1>3. OpenHaveGuards(gs, ms)
  BY DEF Nested, OpenHaveGuards
<1> QED
  BY <1>1, <1>2, <1>3 DEF Nested

\* A guard that holds nothing makes no difference, whether it comes or goes.
LEMMA NestedInert ==
  ASSUME NEW gs, NEW hs, NEW ls, NEW len, Extends(hs, gs, len),
         ~IsSpanGuard(hs[len + 1]), ~IsScopeGuard(hs[len + 1])
  PROVE  Nested(gs, ls, len) <=> Nested(hs, ls, len + 1)
PROOF
<1> DEFINE Facts == 
           /\ len + 1 \in DOMAIN hs
           /\ \A j \in DOMAIN gs : j \in DOMAIN hs /\ hs[j] = gs[j]
           /\ \A j \in DOMAIN hs : j \in DOMAIN gs \/ j = len + 1
           /\ \A j \in DOMAIN gs : \A i \in 1 .. j - 1 : i \in DOMAIN gs
<1>1. Facts
  BY ExtendsFacts
<1>2. ScopesNest(gs, ls) <=> ScopesNest(hs, ls)
  <2>1. ASSUME ScopesNest(gs, ls) PROVE ScopesNest(hs, ls)
    BY <1>1, <2>1 DEF ScopesNest, ScopeOf
  <2>2. ASSUME ScopesNest(hs, ls) PROVE ScopesNest(gs, ls)
    BY <1>1, <2>2 DEF ScopesNest, ScopeOf
  <2> QED
    BY <2>1, <2>2
<1>3. SpansNest(gs) <=> SpansNest(hs)
  BY <1>1 DEF SpansNest, ScopeOf
<1>4. OpenHaveGuards(gs, ls) <=> OpenHaveGuards(hs, ls)
  BY <1>1 DEF OpenHaveGuards, SpanOf
<1>5. ParentsNest(gs, ls, len) <=> ParentsNest(hs, ls, len + 1)
  <2>1. \A epoch : ~SpanOf(hs[len + 1], epoch)
    BY DEF SpanOf
  <2>2. /\ \A epoch, id : \A j \in DOMAIN gs : LastSpan(gs, epoch, j, id) <=> LastSpan(hs, epoch, j, id)
        /\ \A epoch, id : LastSpan(gs, epoch, len + 1, id) <=> LastSpan(hs, epoch, len + 1 + 1, id)
    BY <2>1, ExtendsFacts
  <2> QED
    BY <1>1, <2>1, <2>2 DEF ParentsNest
<1> QED
  BY <1>2, <1>3, <1>4, <1>5 DEF Nested

\* A new scope on top.
LEMMA NestedOpen ==
  ASSUME NEW gs, NEW hs, NEW ls, NEW ms, NEW len, NEW m, NEW epoch \in Nat,
         Nested(gs, ls, len), Shaped(gs, ls, len), Extends(hs, gs, len), Extends(ms, ls, m),
         ScopeOf(hs[len + 1], epoch), ms[m + 1].epoch = epoch,
         ms[m + 1].queue = <<>>, ms[m + 1].next = NoParent,
         \A n \in DOMAIN ls : ls[n].epoch < epoch,
         \A i \in DOMAIN gs : IsSpanGuard(gs[i]) => gs[i].epoch < epoch
  PROVE  Nested(hs, ms, len + 1)
PROOF
<1>1. /\ len + 1 \in DOMAIN hs
      /\ \A j \in DOMAIN gs : j \in DOMAIN hs /\ hs[j] = gs[j] /\ j < len + 1
      /\ \A j \in DOMAIN hs : j \in DOMAIN gs \/ j = len + 1
      /\ \A j \in DOMAIN gs : \A i \in 1 .. j - 1 : i \in DOMAIN gs
      /\ \A e, id : \A j \in DOMAIN gs : LastSpan(gs, e, j, id) <=> LastSpan(hs, e, j, id)
      /\ \A e, id : LastSpan(gs, e, len + 1, id) <=> LastSpan(hs, e, len + 1, id)
      /\ \A e, id : ~SpanOf(hs[len + 1], e) =>
           (LastSpan(hs, e, len + 1, id) <=> LastSpan(hs, e, len + 1 + 1, id))
  BY ExtendsFacts
<1>2. /\ m + 1 \in DOMAIN ms
      /\ \A j \in DOMAIN ls : j \in DOMAIN ms /\ ms[j] = ls[j]
      /\ \A j \in DOMAIN ms : j \in DOMAIN ls \/ j = m + 1
  BY ExtendsFacts
<1>3. /\ IsScopeGuard(hs[len + 1]) /\ hs[len + 1].epoch = epoch /\ ~IsSpanGuard(hs[len + 1])
      /\ \A e : ~SpanOf(hs[len + 1], e)
  BY DEF ScopeOf, SpanOf, IsScopeGuard, IsSpanGuard
<1>4. \A i \in DOMAIN gs : gs[i].epoch \in Nat
  BY DEF Shaped
<1>5. \A i \in DOMAIN gs : IsScopeGuard(gs[i]) => gs[i].epoch < epoch
  BY DEF Nested, ScopesNest
<1>6. ScopesNest(hs, ms)
  <2>1. \A i, j \in DOMAIN hs :
           i < j /\ IsScopeGuard(hs[i]) /\ IsScopeGuard(hs[j]) => hs[i].epoch < hs[j].epoch
    <3> SUFFICES ASSUME NEW i \in DOMAIN hs, NEW j \in DOMAIN hs, i < j,
                        IsScopeGuard(hs[i]), IsScopeGuard(hs[j])
                 PROVE  hs[i].epoch < hs[j].epoch
      OBVIOUS
    <3>1. CASE j \in DOMAIN gs
      <4>1. i \in DOMAIN gs
        <5>1. ~(len + 1 < j) /\ i \in Nat /\ j \in Nat
          BY <3>1 DEF Extends
        <5> QED
          BY <1>1, <5>1
      <4> QED
        BY <1>1, <3>1, <4>1 DEF Nested, ScopesNest
    <3>2. CASE j = len + 1
      <4>1. i \in DOMAIN gs
        <5>1. i # len + 1
          BY <3>2 DEF Extends
        <5> QED
          BY <1>1, <5>1
      <4> QED
        BY <1>1, <1>3, <1>5, <3>2, <4>1
    <3> QED
      BY <1>1, <3>1, <3>2
  <2>2. \A n \in DOMAIN ms : \E i \in DOMAIN hs : ScopeOf(hs[i], ms[n].epoch)
    BY <1>1, <1>2 DEF Nested, ScopesNest
  <2>3. \A i \in DOMAIN hs : IsScopeGuard(hs[i]) => \E n \in DOMAIN ms : ms[n].epoch = hs[i].epoch
    BY <1>1, <1>2, <1>3 DEF Nested, ScopesNest
  <2> QED
    BY <2>1, <2>2, <2>3 DEF ScopesNest
<1>7. SpansNest(hs)
  BY <1>1, <1>3 DEF Nested, SpansNest
<1>8. ParentsNest(hs, ms, len + 1)
  <2>1. ASSUME NEW n \in DOMAIN ls
        PROVE  /\ LastSpan(hs, ls[n].epoch, len + 1 + 1, ls[n].next)
               /\ \A i \in DOMAIN hs : SpanOf(hs[i], ls[n].epoch) =>
                     LastSpan(hs, ls[n].epoch, i, ls[n].queue[hs[i].index].parent)
    BY <1>1, <1>3 DEF Nested, ParentsNest
  <2>2. \A i \in DOMAIN hs : ~SpanOf(hs[i], epoch)
    <3>1. \A i \in DOMAIN gs : ~SpanOf(gs[i], epoch)
      BY <1>4 DEF SpanOf
    <3> QED
      BY <1>1, <1>3, <3>1
  <2>3. LastSpan(hs, epoch, len + 1 + 1, NoParent)
    <3> DEFINE top == len + 1 + 1
    <3>1. \A i \in 1 .. top - 1 : i \in DOMAIN hs
      BY DEF Extends
    <3> HIDE DEF top
    <3>2. LastSpan(hs, epoch, top, NoParent)
      BY <2>2, <3>1 DEF LastSpan
    <3> QED
      BY <3>2 DEF top
  <2> QED
    BY <1>2, <2>1, <2>2, <2>3 DEF ParentsNest
<1>9. OpenHaveGuards(hs, ms)
  <2>1. DOMAIN ms[m + 1].queue = {}
    OBVIOUS
  <2> QED
    BY <1>1, <1>2, <2>1 DEF Nested, OpenHaveGuards
<1> QED
  BY <1>6, <1>7, <1>8, <1>9 DEF Nested

\* The current line is that of the innermost scope, for its own guard and for
\* those of the spans in it.
LEMMA NestedTop ==
  ASSUME NEW gs, NEW ls, NEW len, Nested(gs, ls, len), Shaped(gs, ls, len),
         NEW i \in DOMAIN gs, IsSpanGuard(gs[i]) \/ IsScopeGuard(gs[i]),
         \A j \in DOMAIN gs : i < j => ~IsScopeGuard(gs[j])
  PROVE  \E n \in DOMAIN ls : ls[n].epoch = gs[i].epoch /\ \A m \in DOMAIN ls : m <= n
PROOF
<1>1. /\ i \in Nat /\ \A j \in DOMAIN gs : j \in Nat /\ gs[j].epoch \in Nat
      /\ \A j \in 1 .. i - 1 : j \in DOMAIN gs /\ j < i
      /\ \A j \in DOMAIN gs : j < i => j \in 1 .. i - 1
  BY DEF Shaped
<1>2. PICK n \in DOMAIN ls : ls[n].epoch = gs[i].epoch
  <2>1. CASE IsScopeGuard(gs[i])
    BY <2>1 DEF Nested, ScopesNest
  <2>2. CASE IsSpanGuard(gs[i])
    <3>1. PICK k \in 1 .. i - 1 : ScopeOf(gs[k], gs[i].epoch)
      BY <2>2 DEF Nested, SpansNest
    <3> QED
      BY <1>1, <3>1 DEF Nested, ScopesNest, ScopeOf
  <2> QED
    BY <2>1, <2>2
<1>3. ASSUME NEW m \in DOMAIN ls
      PROVE  m <= n
  <2>1. PICK k \in DOMAIN gs : IsScopeGuard(gs[k]) /\ gs[k].epoch = ls[m].epoch
    BY DEF Nested, ScopesNest, ScopeOf
  <2>2. k = i \/ k < i
    BY <1>1, <2>1
  <2>3. gs[k].epoch <= gs[i].epoch
    <3>1. CASE k = i
      BY <1>1, <3>1
    <3>2. CASE k < i /\ IsScopeGuard(gs[i])
      <4>1. gs[k].epoch < gs[i].epoch
        BY <2>1, <3>2 DEF Nested, ScopesNest
      <4> QED
        BY <1>1, <4>1
    <3>3. CASE k < i /\ IsSpanGuard(gs[i])
      BY <1>1, <2>1, <3>3 DEF Nested, SpansNest
    <3> QED
      BY <2>2, <3>1, <3>2, <3>3
  <2>4. ~(ls[n].epoch < ls[m].epoch)
    BY <1>1, <1>2, <2>1, <2>3
  <2> QED
    BY <2>4 DEF Shaped
<1> QED
  BY <1>2, <1>3

\* A new span in the innermost scope.
LEMMA NestedEnter ==
  ASSUME NEW gs, NEW hs, NEW ls, NEW ms, NEW len, NEW top \in DOMAIN ls,
         Nested(gs, ls, len), Shaped(gs, ls, len), Extends(hs, gs, len),
         SpanOf(hs[len + 1], ls[top].epoch), \A n \in DOMAIN ls : n <= top,
         DOMAIN ms = DOMAIN ls, ms[top].epoch = ls[top].epoch, ms[top].next = hs[len + 1].id,
         \A n \in DOMAIN ls : n # top => ms[n] = ls[n],
         \A k \in DOMAIN ls[top].queue : k \in DOMAIN ms[top].queue /\ ms[top].queue[k] = ls[top].queue[k],
         \A k \in DOMAIN ms[top].queue : k \in DOMAIN ls[top].queue \/ k = hs[len + 1].index,
         ms[top].queue[hs[len + 1].index].parent = ls[top].next
  PROVE  Nested(hs, ms, len + 1)
PROOF
<1> DEFINE g == hs[len + 1]
           e == ls[top].epoch
<1>1. /\ len + 1 \in DOMAIN hs
      /\ \A j \in DOMAIN gs : j \in DOMAIN hs /\ hs[j] = gs[j] /\ j < len + 1 /\ j # len + 1
      /\ \A j \in DOMAIN hs : j \in DOMAIN gs \/ j = len + 1
      /\ \A j \in DOMAIN gs : \A i \in 1 .. j - 1 : i \in DOMAIN gs
      /\ 1 .. len + 1 - 1 = DOMAIN gs
      /\ \A d, id : \A j \in DOMAIN gs : LastSpan(gs, d, j, id) <=> LastSpan(hs, d, j, id)
      /\ \A d, id : LastSpan(gs, d, len + 1, id) <=> LastSpan(hs, d, len + 1, id)
      /\ \A d, id : ~SpanOf(hs[len + 1], d) =>
           (LastSpan(hs, d, len + 1, id) <=> LastSpan(hs, d, len + 1 + 1, id))
  BY ExtendsFacts
<1>2. IsSpanGuard(g) /\ g.epoch = e /\ ~IsScopeGuard(g) /\ len + 1 \in Nat \ {0}
  BY DEF SpanOf, IsScopeGuard, IsSpanGuard, Shaped
<1>3. \A n \in DOMAIN ls : ls[n].epoch \in Nat /\ ls[n].epoch <= e /\ (n # top => ls[n].epoch # e)
  <2> SUFFICES ASSUME NEW n \in DOMAIN ls
               PROVE  ls[n].epoch \in Nat /\ ls[n].epoch <= e /\ (n # top => ls[n].epoch # e)
    OBVIOUS
  <2>1. n \in Nat /\ top \in Nat /\ ls[n].epoch \in Nat /\ e \in Nat /\ (n < top => ls[n].epoch < e)
    BY DEF Shaped
  <2>2. n = top \/ n < top
    BY <2>1
  <2> HIDE DEF e
  <2>3. n = top => ls[n].epoch = e
    BY DEF e
  <2> QED
    BY <2>1, <2>2, <2>3
<1>4. \A n \in DOMAIN ls : ms[n].epoch = ls[n].epoch
  OBVIOUS
<1>5. ScopesNest(hs, ms)
  <2>1. \A i, j \in DOMAIN hs :
           i < j /\ IsScopeGuard(hs[i]) /\ IsScopeGuard(hs[j]) => hs[i].epoch < hs[j].epoch
    BY <1>1, <1>2 DEF Nested, ScopesNest
  <2>2. \A n \in DOMAIN ms : \E i \in DOMAIN hs : ScopeOf(hs[i], ms[n].epoch)
    BY <1>1, <1>4 DEF Nested, ScopesNest
  <2>3. \A i \in DOMAIN hs : IsScopeGuard(hs[i]) => \E n \in DOMAIN ms : ms[n].epoch = hs[i].epoch
    BY <1>1, <1>2, <1>4 DEF Nested, ScopesNest
  <2> QED
    BY <2>1, <2>2, <2>3 DEF ScopesNest
<1>6. SpansNest(hs)
  <2>1. ASSUME NEW j \in DOMAIN gs, IsSpanGuard(hs[j])
        PROVE  /\ \E i \in 1 .. j - 1 : ScopeOf(hs[i], hs[j].epoch)
               /\ \A i \in 1 .. j - 1 : IsScopeGuard(hs[i]) => hs[i].epoch <= hs[j].epoch
    BY <1>1, <2>1 DEF Nested, SpansNest
  <2>2. \E i \in DOMAIN gs : ScopeOf(hs[i], e)
    BY <1>1 DEF Nested, ScopesNest
  <2>3. \A i \in DOMAIN gs : IsScopeGuard(hs[i]) => hs[i].epoch <= e
    BY <1>1, <1>3 DEF Nested, ScopesNest
  <2> HIDE DEF g, e
  <2>4. hs[len + 1].epoch = e
    BY <1>2 DEF g
  <2>5. \A j \in DOMAIN hs : j \in DOMAIN gs \/ j = len + 1
    BY <1>1
  <2>6. ASSUME NEW j \in DOMAIN hs, IsSpanGuard(hs[j])
        PROVE  /\ \E i \in 1 .. j - 1 : ScopeOf(hs[i], hs[j].epoch)
               /\ \A i \in 1 .. j - 1 : IsScopeGuard(hs[i]) => hs[i].epoch <= hs[j].epoch
    <3>1. CASE j \in DOMAIN gs
      BY <2>1, <2>6, <3>1
    <3>2. CASE j = len + 1
      <4>1. len \in Nat /\ DOMAIN gs = 1 .. len
        BY DEF Extends
      <4>2. j - 1 = len
        BY <3>2, <4>1
      <4>3. hs[j].epoch = e
        BY <2>4, <3>2
      <4> QED
        BY <2>2, <2>3, <4>1, <4>2, <4>3
    <3> QED
      BY <2>5, <3>1, <3>2
  <2> QED
    BY <2>6 DEF SpansNest
<1>7. ParentsNest(hs, ms, len + 1)
  <2>1. LastSpan(hs, e, len + 1 + 1, g.id)
    <3> DEFINE i == len + 1
    <3>1. SpanOf(hs[i], e) /\ i \in Nat \ {0}
      BY <1>2
    <3> HIDE DEF i, e
    <3>2. LastSpan(hs, e, i + 1, hs[i].id)
      BY <3>1, LastSpanNew
    <3> QED
      BY <3>2 DEF i
  <2>2. LastSpan(hs, e, len + 1, ms[top].queue[g.index].parent)
    BY <1>1 DEF Nested, ParentsNest
  <2>3. \A i \in DOMAIN gs : SpanOf(gs[i], e) =>
           LastSpan(hs, e, i, ms[top].queue[gs[i].index].parent)
    BY <1>1 DEF Nested, ParentsNest, Shaped
  <2>4. ASSUME NEW n \in DOMAIN ls, n # top
        PROVE  /\ LastSpan(hs, ms[n].epoch, len + 1 + 1, ms[n].next)
               /\ \A i \in DOMAIN hs : SpanOf(hs[i], ms[n].epoch) =>
                     LastSpan(hs, ms[n].epoch, i, ms[n].queue[hs[i].index].parent)
    <3>1. ms[n] = ls[n] /\ ~SpanOf(hs[len + 1], ls[n].epoch)
      BY <1>2, <1>3, <2>4 DEF SpanOf
    <3>2. /\ LastSpan(gs, ls[n].epoch, len + 1, ls[n].next)
          /\ \A i \in DOMAIN gs : SpanOf(gs[i], ls[n].epoch) =>
                LastSpan(gs, ls[n].epoch, i, ls[n].queue[gs[i].index].parent)
      BY DEF Nested, ParentsNest
    <3> QED
      BY <1>1, <3>1, <3>2
  <2>5. /\ LastSpan(hs, ms[top].epoch, len + 1 + 1, ms[top].next)
        /\ \A i \in DOMAIN hs : SpanOf(hs[i], ms[top].epoch) =>
              LastSpan(hs, ms[top].epoch, i, ms[top].queue[hs[i].index].parent)
    BY <1>1, <2>1, <2>2, <2>3
  <2> QED
    BY <2>4, <2>5 DEF ParentsNest
<1>8. OpenHaveGuards(hs, ms)
  <2>1. ASSUME NEW n \in DOMAIN ls, NEW k \in DOMAIN ms[n].queue, ms[n].queue[k].kind = "Span", ~ms[n].queue[k].ended
        PROVE  \E i \in DOMAIN hs : SpanOf(hs[i], ms[n].epoch) /\ hs[i].index = k
    <3>1. CASE k \in DOMAIN ls[n].queue /\ ms[n].queue[k] = ls[n].queue[k]
      <4>1. PICK i \in DOMAIN gs : SpanOf(gs[i], ls[n].epoch) /\ gs[i].index = k
        BY <2>1, <3>1 DEF Nested, OpenHaveGuards
      <4> QED
        BY <1>1, <1>4, <4>1
    <3>2. CASE n = top /\ k = g.index
      BY <1>1, <3>2
    <3> QED
      BY <2>1, <3>1, <3>2
  <2> QED
    BY <2>1 DEF OpenHaveGuards
<1> QED
  BY <1>5, <1>6, <1>7, <1>8 DEF Nested

\* The last span ends.
LEMMA NestedFinish ==
  ASSUME NEW gs, NEW hs, NEW ls, NEW ms, NEW len,
         Nested(hs, ls, len + 1), Shaped(hs, ls, len + 1), Extends(hs, gs, len),
         IsSpanGuard(hs[len + 1]), DOMAIN ms = DOMAIN ls,
         \A n \in DOMAIN ls :
            /\ ms[n].epoch = ls[n].epoch
            /\ ls[n].epoch # hs[len + 1].epoch => ms[n] = ls[n]
            /\ ls[n].epoch = hs[len + 1].epoch => ms[n].next = ls[n].queue[hs[len + 1].index].parent
            /\ DOMAIN ms[n].queue = DOMAIN ls[n].queue
            /\ \A k \in DOMAIN ls[n].queue :
                 /\ ms[n].queue[k].parent = ls[n].queue[k].parent
                 /\ ms[n].queue[k].kind = ls[n].queue[k].kind
                 /\ ~ms[n].queue[k].ended =>
                      ~ls[n].queue[k].ended /\ (ls[n].epoch = hs[len + 1].epoch => k # hs[len + 1].index)
  PROVE  Nested(gs, ms, len)
PROOF
<1> DEFINE g == hs[len + 1]
<1>1. /\ len + 1 \in DOMAIN hs
      /\ \A j \in DOMAIN gs : j \in DOMAIN hs /\ hs[j] = gs[j] /\ j < len + 1 /\ j # len + 1
      /\ \A j \in DOMAIN hs : j \in DOMAIN gs \/ j = len + 1
      /\ \A j \in DOMAIN gs : \A i \in 1 .. j - 1 : i \in DOMAIN gs
      /\ \A d, id : \A j \in DOMAIN gs : LastSpan(gs, d, j, id) <=> LastSpan(hs, d, j, id)
      /\ \A d, id : LastSpan(gs, d, len + 1, id) <=> LastSpan(hs, d, len + 1, id)
      /\ \A d, id : ~SpanOf(hs[len + 1], d) =>
           (LastSpan(hs, d, len + 1, id) <=> LastSpan(hs, d, len + 1 + 1, id))
  BY ExtendsFacts
<1>2. ~IsScopeGuard(g)
  BY DEF IsScopeGuard, IsSpanGuard
<1>3. ScopesNest(gs, ms)
  <2>1. \A i, j \in DOMAIN gs :
           i < j /\ IsScopeGuard(gs[i]) /\ IsScopeGuard(gs[j]) => gs[i].epoch < gs[j].epoch
    BY <1>1 DEF Nested, ScopesNest
  <2>2. \A n \in DOMAIN ms : \E i \in DOMAIN gs : ScopeOf(gs[i], ms[n].epoch)
    BY <1>1, <1>2 DEF Nested, ScopesNest, ScopeOf
  <2>3. \A i \in DOMAIN gs : IsScopeGuard(gs[i]) => \E n \in DOMAIN ms : ms[n].epoch = gs[i].epoch
    BY <1>1 DEF Nested, ScopesNest
  <2> QED
    BY <2>1, <2>2, <2>3 DEF ScopesNest
<1>4. SpansNest(gs)
  BY <1>1 DEF Nested, SpansNest
<1>5. ParentsNest(gs, ms, len)
  <2>1. ASSUME NEW n \in DOMAIN ls
        PROVE  LastSpan(gs, ms[n].epoch, len + 1, ms[n].next)
    <3>1. CASE ls[n].epoch = g.epoch
      <4>1. SpanOf(hs[len + 1], ls[n].epoch)
        BY <3>1 DEF SpanOf
      <4>2. LastSpan(hs, ls[n].epoch, len + 1, ls[n].queue[g.index].parent)
        BY <1>1, <4>1 DEF Nested, ParentsNest
      <4> QED
        BY <1>1, <3>1, <4>2
    <3>2. CASE ls[n].epoch # g.epoch
      <4>1. ~SpanOf(hs[len + 1], ls[n].epoch) /\ ms[n] = ls[n]
        BY <3>2 DEF SpanOf
      <4>2. LastSpan(hs, ls[n].epoch, len + 1 + 1, ls[n].next)
        BY DEF Nested, ParentsNest
      <4> QED
        BY <1>1, <4>1, <4>2
    <3> QED
      BY <3>1, <3>2
  <2>2. ASSUME NEW n \in DOMAIN ls, NEW i \in DOMAIN gs, SpanOf(gs[i], ms[n].epoch)
        PROVE  LastSpan(gs, ms[n].epoch, i, ms[n].queue[gs[i].index].parent)
    <3>1. SpanOf(hs[i], ls[n].epoch) /\ i \in DOMAIN hs /\ hs[i] = gs[i] /\ ms[n].epoch = ls[n].epoch
      BY <1>1, <2>2
    <3>2. gs[i].index \in DOMAIN ls[n].queue
      BY <3>1 DEF Shaped
    <3>3. LastSpan(hs, ls[n].epoch, i, ls[n].queue[gs[i].index].parent)
      BY <3>1 DEF Nested, ParentsNest
    <3> QED
      BY <1>1, <3>1, <3>2, <3>3
  <2> QED
    BY <2>1, <2>2 DEF ParentsNest
<1>6. OpenHaveGuards(gs, ms)
  <2>1. ASSUME NEW n \in DOMAIN ls, NEW k \in DOMAIN ls[n].queue, ms[n].queue[k].kind = "Span", ~ms[n].queue[k].ended
        PROVE  \E i \in DOMAIN gs : SpanOf(gs[i], ms[n].epoch) /\ gs[i].index = k
    <3>1. ls[n].queue[k].kind = "Span" /\ ~ls[n].queue[k].ended /\ (ls[n].epoch = g.epoch => k # g.index)
      BY <2>1
    <3>2. PICK i \in DOMAIN hs : SpanOf(hs[i], ls[n].epoch) /\ hs[i].index = k
      BY <3>1 DEF Nested, OpenHaveGuards
    <3>3. i # len + 1
      BY <3>1, <3>2 DEF SpanOf
    <3> QED
      BY <1>1, <3>2, <3>3
  <2> QED
    BY <2>1 DEF OpenHaveGuards
<1> QED
  BY <1>3, <1>4, <1>5, <1>6 DEF Nested

\* The innermost scope ends: its spans have ended.
LEMMA NestedClose ==
  ASSUME NEW gs, NEW hs, NEW ls, NEW ms, NEW len, NEW top,
         Nested(hs, ls, len + 1), Shaped(hs, ls, len + 1), Extends(hs, gs, len), Extends(ls, ms, top),
         IsScopeGuard(hs[len + 1]), ls[top + 1].epoch = hs[len + 1].epoch
  PROVE  /\ Nested(gs, ms, len)
         /\ \A k \in DOMAIN ls[top + 1].queue :
              ls[top + 1].queue[k].kind = "Span" => ls[top + 1].queue[k].ended
PROOF
<1> DEFINE g == hs[len + 1]
<1>1. /\ len + 1 \in DOMAIN hs
      /\ \A j \in DOMAIN gs : j \in DOMAIN hs /\ hs[j] = gs[j] /\ j < len + 1 /\ j # len + 1
      /\ \A j \in DOMAIN hs : j \in DOMAIN gs \/ j = len + 1
      /\ \A j \in DOMAIN gs : \A i \in 1 .. j - 1 : i \in DOMAIN gs
      /\ \A i \in 1 .. len + 1 - 1 : i \in DOMAIN gs
      /\ \A d, id : \A j \in DOMAIN gs : LastSpan(gs, d, j, id) <=> LastSpan(hs, d, j, id)
      /\ \A d, id : LastSpan(gs, d, len + 1, id) <=> LastSpan(hs, d, len + 1, id)
      /\ \A d, id : ~SpanOf(hs[len + 1], d) =>
           (LastSpan(hs, d, len + 1, id) <=> LastSpan(hs, d, len + 1 + 1, id))
  BY ExtendsFacts
<1>2. /\ top + 1 \in DOMAIN ls
      /\ \A j \in DOMAIN ms : j \in DOMAIN ls /\ ls[j] = ms[j] /\ j < top + 1
      /\ \A j \in DOMAIN ls : j \in DOMAIN ms \/ j = top + 1
  BY ExtendsFacts
<1>3. ~IsSpanGuard(g) /\ \A d : ~SpanOf(hs[len + 1], d)
  BY DEF IsScopeGuard, IsSpanGuard, SpanOf
<1>4. \A n \in DOMAIN ms : ms[n].epoch # g.epoch
  <2> SUFFICES ASSUME NEW n \in DOMAIN ms
               PROVE  ms[n].epoch # g.epoch
    OBVIOUS
  <2>1. ls[n].epoch < ls[top + 1].epoch /\ ls[n].epoch \in Nat /\ ls[top + 1].epoch \in Nat
    BY <1>2 DEF Shaped
  <2> QED
    BY <1>2, <2>1
<1>5. \A i \in DOMAIN gs : IsScopeGuard(gs[i]) => gs[i].epoch # g.epoch
  <2> SUFFICES ASSUME NEW i \in DOMAIN gs, IsScopeGuard(gs[i])
               PROVE  gs[i].epoch # g.epoch
    OBVIOUS
  <2>1. hs[i].epoch < hs[len + 1].epoch /\ hs[i].epoch \in Nat /\ hs[len + 1].epoch \in Nat
    BY <1>1 DEF Shaped, Nested, ScopesNest
  <2> QED
    BY <1>1, <2>1
<1>6. ScopesNest(gs, ms)
  <2>1. \A i, j \in DOMAIN gs :
           i < j /\ IsScopeGuard(gs[i]) /\ IsScopeGuard(gs[j]) => gs[i].epoch < gs[j].epoch
    BY <1>1 DEF Nested, ScopesNest
  <2>2. \A n \in DOMAIN ms : \E i \in DOMAIN gs : ScopeOf(gs[i], ms[n].epoch)
    BY <1>1, <1>2, <1>4 DEF Nested, ScopesNest, ScopeOf
  <2>3. \A i \in DOMAIN gs : IsScopeGuard(gs[i]) => \E n \in DOMAIN ms : ms[n].epoch = gs[i].epoch
    BY <1>1, <1>2, <1>5 DEF Nested, ScopesNest
  <2> QED
    BY <2>1, <2>2, <2>3 DEF ScopesNest
<1>7. SpansNest(gs)
  BY <1>1 DEF Nested, SpansNest
<1>8. ParentsNest(gs, ms, len)
  BY <1>1, <1>2, <1>3 DEF Nested, ParentsNest
<1>9. OpenHaveGuards(gs, ms)
  BY <1>1, <1>2, <1>3 DEF Nested, OpenHaveGuards
<1>10. ASSUME NEW k \in DOMAIN ls[top + 1].queue, ls[top + 1].queue[k].kind = "Span", ~ls[top + 1].queue[k].ended
       PROVE  FALSE
  <2>1. PICK i \in DOMAIN hs : IsSpanGuard(hs[i]) /\ hs[i].epoch = g.epoch
    BY <1>2, <1>10 DEF Nested, OpenHaveGuards, SpanOf
  <2>2. i \in DOMAIN gs
    BY <1>1, <1>3, <2>1
  <2>3. PICK j \in 1 .. i - 1 : ScopeOf(hs[j], g.epoch)
    BY <2>1 DEF Nested, SpansNest
  <2> QED
    BY <1>1, <1>5, <2>2, <2>3 DEF ScopeOf
<1> QED
  BY <1>6, <1>7, <1>8, <1>9, <1>10 DEF Nested

-----------------------------------------------------------------------------
(* Guards dropped in scope order: steps. *)

\* The state has the shape the lemmas on nesting ask for.
LEMMA ShapedState ==
  ASSUME AnyOrderInv
  PROVE  Shaped(guards, lines, Len(guards))
PROOF
<1>1. guards \in Seq(Guard) /\ lines \in Seq(Line)
  BY DEF AnyOrderInv, TypeInv
<1>2. /\ Len(guards) \in Nat /\ DOMAIN guards = 1 .. Len(guards)
      /\ \A i \in 1 .. Len(guards) : guards[i] \in Guard
      /\ DOMAIN lines = 1 .. Len(lines) /\ \A n \in 1 .. Len(lines) : lines[n] \in Line
  BY <1>1, LenProperties, ElementOfSeq
<1>3. \A i \in DOMAIN guards : guards[i].epoch \in Nat
  BY <1>2 DEF Guard, ScopeGuard, SpanGuard
<1>4. \A n \in DOMAIN lines : n \in Nat /\ lines[n].epoch \in Nat
  BY <1>2 DEF Line
<1>5. \A m, n \in DOMAIN lines : m < n => lines[m].epoch < lines[n].epoch
  <2>1. \A m, n \in DOMAIN lines : m < n => m \in 1 .. n - 1
    BY <1>2
  <2> QED
    BY <2>1 DEF AnyOrderInv, LinesInv
<1>6. \A i \in DOMAIN guards : \A n \in DOMAIN lines :
        SpanOf(guards[i], lines[n].epoch) => guards[i].index \in DOMAIN lines[n].queue
  BY DEF AnyOrderInv, GuardsInv, GuardWith, SpanOf, Leads
<1> QED
  BY <1>2, <1>3, <1>4, <1>5, <1>6 DEF Shaped

\* A guard pushed comes on top.
LEMMA AppendExtends ==
  ASSUME TypeInv, NEW g, guards' = Append(guards, g)
  PROVE  /\ Extends(guards', guards, Len(guards)) /\ guards'[Len(guards) + 1] = g
         /\ Len(guards') = Len(guards) + 1
PROOF
<1>1. guards \in Seq(Guard \cup {g}) /\ g \in Guard \cup {g}
  BY SeqMonotonic DEF TypeInv
<1>2. /\ guards' \in Seq(Guard \cup {g}) /\ Len(guards') = Len(guards) + 1
      /\ \A j \in 1 .. Len(guards) : guards'[j] = guards[j]
      /\ guards'[Len(guards) + 1] = g
  BY <1>1, AppendProperties
<1>3. /\ Len(guards) \in Nat /\ DOMAIN guards = 1 .. Len(guards)
      /\ DOMAIN guards' = 1 .. Len(guards) + 1
  BY <1>1, <1>2, LenProperties
<1> QED
  BY <1>2, <1>3 DEF Extends

\* The guard that goes in scope order was on top.
LEMMA ForgetExtends ==
  ASSUME TypeInv, NEW i \in DOMAIN guards, i = Len(guards), Forget(i)
  PROVE  /\ Extends(guards, guards', Len(guards) - 1)
         /\ Len(guards) - 1 + 1 = Len(guards) /\ Len(guards') = Len(guards) - 1
PROOF
<1> DEFINE len == Len(guards)
<1>1. guards \in Seq(Guard) /\ len \in Nat /\ DOMAIN guards = 1 .. len
  BY LenProperties DEF TypeInv
<1>2. /\ guards' \in Seq(Guard) /\ Len(guards') = len - 1
      /\ \A j \in 1 .. len - 1 : guards'[j] = IF j < i THEN guards[j] ELSE guards[j + 1]
  BY <1>1, RemoveAtElements DEF Forget
<1>3. DOMAIN guards' = 1 .. len - 1
  BY <1>2, LenProperties
<1>4. i = len
  OBVIOUS
<1> HIDE DEF len
<1>5. len - 1 \in Nat /\ len - 1 + 1 = len /\ \A j \in 1 .. len - 1 : j < i
  BY <1>1, <1>4
<1>6. Extends(guards, guards', len - 1)
  BY <1>1, <1>2, <1>3, <1>5 DEF Extends
<1> QED
  BY <1>2, <1>5, <1>6 DEF len

\* In scope order, the line of an innermost guard is the current one.
LEMMA TopMatches ==
  ASSUME AnyOrderInv, Nested(guards, lines, Len(guards)),
         NEW i \in DOMAIN guards, IsSpanGuard(guards[i]) \/ IsScopeGuard(guards[i]),
         \A j \in DOMAIN guards : i < j => ~IsScopeGuard(guards[j])
  PROVE  HasLine /\ CurrentLine.epoch = guards[i].epoch
PROOF
<1>1. PICK n \in DOMAIN lines : lines[n].epoch = guards[i].epoch /\ \A m \in DOMAIN lines : m <= n
  BY ShapedState, NestedTop
<1>2. lines \in Seq(Line) /\ DOMAIN lines = 1 .. Len(lines) /\ Len(lines) \in Nat
  BY LenProperties DEF AnyOrderInv, TypeInv
<1>3. HasLine
  <2>1. DOMAIN <<>> = {}
    OBVIOUS
  <2> QED
    BY <1>1, <2>1 DEF HasLine
<1>4. n = Len(lines)
  <2> DEFINE len == Len(lines)
  <2>1. len \in Nat /\ n \in 1 .. len
    BY <1>1, <1>2
  <2>2. len \in DOMAIN lines
    <3> HIDE DEF len
    <3>1. len \in 1 .. len
      BY <2>1
    <3> QED
      BY <1>2, <3>1 DEF len
  <2>3. len <= n
    BY <1>1, <2>2
  <2> HIDE DEF len
  <2>4. n = len
    BY <2>1, <2>3
  <2> QED
    BY <2>4 DEF len
<1> QED
  BY <1>1, <1>3, <1>4 DEF CurrentLine

\* In scope order, the end of a local span finds its line and its span current.
LEMMA SpanIsCurrent ==
  ASSUME AnyOrderInv, Nested(guards, lines, Len(guards)),
         NEW i \in DOMAIN guards, i = Len(guards), guards[i].kind = "span"
  PROVE  /\ HasLine /\ CurrentLine.epoch = guards[i].epoch
         /\ guards[i].index \in DOMAIN CurrentLine.queue
         /\ CurrentLine.next = CurrentLine.queue[guards[i].index].id
PROOF
<1>1. i \in Nat \ {0} /\ \A j \in DOMAIN guards : ~(i < j)
  <2>1. Len(guards) \in Nat /\ DOMAIN guards = 1 .. Len(guards)
    BY ShapedState DEF Shaped
  <2> QED
    BY <2>1
<1>2. HasLine /\ CurrentLine.epoch = guards[i].epoch
  BY <1>1, TopMatches DEF IsSpanGuard
<1>3. guards[i].index \in DOMAIN CurrentLine.queue /\ CurrentLine.queue[guards[i].index].id = guards[i].id
  BY <1>2, HandleLeads
<1>4. Len(lines) \in DOMAIN lines
  BY <1>2, CurrentLineFacts DEF AnyOrderInv
<1>5. LastSpan(guards, guards[i].epoch, i + 1, CurrentLine.next)
  BY <1>2, <1>4 DEF Nested, ParentsNest, CurrentLine
<1>6. SpanOf(guards[i], guards[i].epoch)
  BY DEF SpanOf, IsSpanGuard
<1>7. CurrentLine.next = guards[i].id
  BY <1>1, <1>5, <1>6, LastSpanNew
<1> QED
  BY <1>2, <1>3, <1>7

\* A step that leaves guards, lines and what was handed over alone keeps the
\* nesting, if it raises no assertion.
LEMMA NestKept ==
  ASSUME NestInv, UNCHANGED <<scoped, guards, lines, submitted>>,
         panicked' = panicked \/ panicked' # "assertion"
  PROVE  NestInv'
PROOF
<1> SUFFICES ASSUME scoped
             PROVE  (Nested(guards, lines, Len(guards)) /\ AssertionsHold /\ SpansEnded)'
  BY DEF NestInv
<1>1. Nested(guards, lines, Len(guards)) /\ AssertionsHold /\ SpansEnded
  BY DEF NestInv
<1>2. Nested(guards, lines, Len(guards))'
  BY <1>1
<1>3. AssertionsHold' /\ SpansEnded'
  BY <1>1 DEF AssertionsHold, SpansEnded
<1> QED
  BY <1>2, <1>3

\* The same when guards and lines nest in the new state too.
LEMMA NestMoved ==
  ASSUME NestInv, scoped' = scoped, submitted' = submitted, panicked' = panicked,
         scoped => Nested(guards', lines', Len(guards'))
  PROVE  NestInv'
PROOF
<1> SUFFICES ASSUME scoped
             PROVE  (Nested(guards, lines, Len(guards)) /\ AssertionsHold /\ SpansEnded)'
  BY DEF NestInv
<1>1. AssertionsHold /\ SpansEnded
  BY DEF NestInv
<1>2. AssertionsHold' /\ SpansEnded'
  BY <1>1 DEF AssertionsHold, SpansEnded
<1> QED
  BY <1>2

\* A new scope nests in what is open.
LEMMA NestOpenScope ==
  ASSUME AnyOrderInv, NestInv, NEW kind \in {"parent", "collector"}, NEW token \in AnyToken,
         kind = "collector" => token = NoToken, OpenScope(kind, token)
  PROVE  NestInv'
PROOF
<1> DEFINE len == Len(guards)
           m == Len(lines)
<1>1. /\ guards' = Append(guards, [kind |-> kind, epoch |-> nextEpoch])
      /\ scoped' = scoped /\ submitted' = submitted /\ panicked' = panicked
  BY DEF OpenScope
<1>2. /\ m \in Nat /\ DOMAIN lines = 1 .. m /\ DOMAIN lines' = 1 .. m + 1
      /\ \A n \in DOMAIN lines : lines'[n] = lines[n] /\ lines[n].epoch < nextEpoch
      /\ lines'[m + 1] = SpanLine(nextEpoch, token)
      /\ nextEpoch \in Nat /\ nextEpoch # NoEpoch /\ \A e \in DOMAIN made : e < nextEpoch
  BY OpenScopeStep
<1>3. /\ Extends(guards', guards, len) /\ guards'[len + 1] = [kind |-> kind, epoch |-> nextEpoch]
      /\ Len(guards') = len + 1
  BY <1>1, AppendExtends DEF AnyOrderInv
<1>4. Extends(lines', lines, m)
  BY <1>2 DEF Extends
<1>5. ScopeOf(guards'[len + 1], nextEpoch)
  BY <1>2, <1>3 DEF ScopeOf, IsScopeGuard
<1>6. lines'[m + 1].epoch = nextEpoch /\ lines'[m + 1].queue = <<>> /\ lines'[m + 1].next = NoParent
  BY <1>2 DEF SpanLine
<1>7. \A i \in DOMAIN guards : IsSpanGuard(guards[i]) => guards[i].epoch < nextEpoch
  BY <1>2 DEF AnyOrderInv, GuardsInv, GuardWith
<1>8. Shaped(guards, lines, len)
  BY ShapedState
<1>9. ASSUME scoped
      PROVE  Nested(guards', lines', Len(guards'))
  <2>1. Nested(guards, lines, len)
    BY <1>9 DEF NestInv
  <2> HIDE DEF len, m
  <2>2. Nested(guards', lines', len + 1)
    BY <1>2, <1>3, <1>4, <1>5, <1>6, <1>7, <1>8, <2>1, NestedOpen
  <2> QED
    BY <1>3, <2>2
<1> QED
  BY <1>1, <1>9, NestMoved

\* A new local span nests in the current scope.
LEMMA NestEnterLocalSpan ==
  ASSUME AnyOrderInv, NestInv, EnterLocalSpan
  PROVE  NestInv'
PROOF
<1> DEFINE len == Len(guards)
           top == Len(lines)
           index == Len(CurrentLine.queue) + 1
<1>1. /\ guards' = Append(guards, [kind |-> "span", epoch |-> CurrentLine.epoch,
                                   index |-> index, id |-> nextId])
      /\ scoped' = scoped /\ submitted' = submitted /\ panicked' = panicked
  BY DEF EnterLocalSpan
<1>2. /\ HasLine /\ top \in DOMAIN lines /\ DOMAIN lines' = DOMAIN lines
      /\ \A n \in DOMAIN lines : lines'[n].epoch = lines[n].epoch
      /\ \A n \in DOMAIN lines : n # top => lines'[n] = lines[n]
      /\ CurrentLine'.next = nextId
      /\ DOMAIN CurrentLine.queue = 1 .. Len(CurrentLine.queue)
      /\ DOMAIN CurrentLine'.queue = 1 .. index
      /\ Len(CurrentLine.queue) \in Nat
      /\ \A k \in DOMAIN CurrentLine.queue : CurrentLine'.queue[k] = CurrentLine.queue[k]
      /\ CurrentLine'.queue[index] = Entry(nextId, CurrentLine.next, "Span")
      /\ CurrentLine' = lines'[top]
  BY EnterLocalSpanStep
<1>3. /\ Extends(guards', guards, len)
      /\ guards'[len + 1] = [kind |-> "span", epoch |-> CurrentLine.epoch, index |-> index, id |-> nextId]
      /\ Len(guards') = len + 1
  BY <1>1, AppendExtends DEF AnyOrderInv
<1>4. CurrentLine = lines[top]
  BY DEF CurrentLine
<1>5. SpanOf(guards'[len + 1], lines[top].epoch)
  BY <1>3, <1>4 DEF SpanOf, IsSpanGuard
<1>6. \A n \in DOMAIN lines : n <= top
  <2>1. Len(lines) \in Nat /\ DOMAIN lines = 1 .. Len(lines)
    BY <1>2, CurrentLineFacts DEF AnyOrderInv
  <2> HIDE DEF top
  <2>2. \A n \in 1 .. top : n <= top
    BY <2>1 DEF top
  <2> QED
    BY <2>1, <2>2 DEF top
<1>7. lines'[top].next = guards'[len + 1].id
  BY <1>2, <1>3
<1>8. \A k \in DOMAIN lines[top].queue : k \in DOMAIN lines'[top].queue /\ lines'[top].queue[k] = lines[top].queue[k]
  <2>1. \A k \in 1 .. Len(CurrentLine.queue) : k \in 1 .. index
    BY <1>2
  <2> QED
    BY <1>2, <1>4, <2>1
<1>9. \A k \in DOMAIN lines'[top].queue : k \in DOMAIN lines[top].queue \/ k = guards'[len + 1].index
  <2>1. \A k \in 1 .. index : k \in 1 .. Len(CurrentLine.queue) \/ k = index
    BY <1>2
  <2> QED
    BY <1>2, <1>3, <1>4, <2>1
<1>10. lines'[top].queue[guards'[len + 1].index].parent = lines[top].next
  BY <1>2, <1>3, <1>4 DEF Entry
<1>11. Shaped(guards, lines, len)
  BY ShapedState
<1>12. ASSUME scoped
       PROVE  Nested(guards', lines', Len(guards'))
  <2>1. Nested(guards, lines, len)
    BY <1>12 DEF NestInv
  <2> HIDE DEF len, top
  <2>2. Nested(guards', lines', len + 1)
    BY <1>2, <1>3, <1>5, <1>6, <1>7, <1>8, <1>9, <1>10, <1>11, <2>1, NestedEnter
  <2> QED
    BY <1>3, <2>2
<1> QED
  BY <1>1, <1>12, NestMoved

\* What SameNesting keeps.
LEMMA NestAsBefore ==
  ASSUME AnyOrderInv, NestInv, SameNesting, UNCHANGED <<scoped, submitted, panicked>>
  PROVE  NestInv'
PROOF
<1>1. ASSUME scoped
      PROVE  Nested(guards', lines', Len(guards'))
  <2>1. Nested(guards, lines, Len(guards)) /\ Shaped(guards, lines, Len(guards))
    BY <1>1, ShapedState DEF NestInv
  <2>2. Nested(guards, lines', Len(guards))
    BY <2>1, NestedSame DEF SameNesting
  <2> QED
    BY <2>2 DEF SameNesting
<1> QED
  BY <1>1, NestMoved

\* A local span used in its own scope is on the current line.
LEMMA NestWithProperties ==
  ASSUME AnyOrderInv, NestInv, NEW i \in DOMAIN guards, WithProperties(i)
  PROVE  NestInv'
PROOF
<1>1. CASE panicked' = "no"
  <2>1. UNCHANGED <<scoped, submitted, panicked>>
    BY <1>1 DEF WithProperties, Panic, Running
  <2> QED
    BY <1>1, <2>1, WithPropertiesStep, NestAsBefore
<1>2. CASE panicked' # "no"
  <2>1. /\ ~(HasLine /\ CurrentLine.epoch = guards[i].epoch) /\ guards[i].kind = "span"
        /\ scoped => \A j \in i + 1 .. Len(guards) : guards[j].kind = "span"
        /\ UNCHANGED <<scoped, guards, lines, submitted>>
    BY <1>2 DEF WithProperties, Panic, Running
  <2>2. ASSUME scoped
        PROVE  FALSE
    <3>1. Len(guards) \in Nat /\ DOMAIN guards = 1 .. Len(guards)
      BY ShapedState DEF Shaped
    <3>2. \A j \in DOMAIN guards : i < j => j \in i + 1 .. Len(guards)
      BY <3>1
    <3>3. \A j \in DOMAIN guards : i < j => ~IsScopeGuard(guards[j])
      BY <2>1, <2>2, <3>2 DEF IsScopeGuard
    <3>4. Nested(guards, lines, Len(guards)) /\ IsSpanGuard(guards[i])
      BY <2>1, <2>2 DEF NestInv, IsSpanGuard
    <3> QED
      BY <2>1, <3>3, <3>4, TopMatches
  <2> QED
    BY <2>1, <2>2 DEF NestInv
<1> QED
  BY <1>1, <1>2

\* The end of the last local span.
LEMMA NestDropLocalSpan ==
  ASSUME AnyOrderInv, NestInv, NEW i \in DOMAIN guards, DropLocalSpan(i)
  PROVE  NestInv'
PROOF
<1> DEFINE len == Len(guards) - 1
<1>1. guards[i].kind = "span" /\ (scoped => i = Len(guards)) /\ scoped' = scoped
  BY DEF DropLocalSpan, MayDrop
<1> SUFFICES ASSUME scoped
             PROVE  NestInv'
  BY <1>1 DEF NestInv
<1>2. Nested(guards, lines, Len(guards)) /\ Shaped(guards, lines, Len(guards)) /\ i = Len(guards)
  BY <1>1, ShapedState DEF NestInv
<1>3. /\ HasLine /\ CurrentLine.epoch = guards[i].epoch
      /\ guards[i].index \in DOMAIN CurrentLine.queue
      /\ CurrentLine.next = CurrentLine.queue[guards[i].index].id
  BY <1>1, <1>2, SpanIsCurrent
<1>4. /\ Replace(FinishSpan(CurrentLine, guards[i].index)) /\ Forget(i)
      /\ UNCHANGED <<scoped, debug, nextEpoch, nextId, submitted, made, panicked>>
  BY <1>3, DropLocalSpanCases
<1>5. /\ DOMAIN lines' = DOMAIN lines
      /\ \A n \in DOMAIN lines :
           /\ lines'[n].epoch = lines[n].epoch
           /\ lines[n].epoch # guards[i].epoch => lines'[n] = lines[n]
           /\ lines[n].epoch = guards[i].epoch => lines'[n].next = lines[n].queue[guards[i].index].parent
           /\ DOMAIN lines'[n].queue = DOMAIN lines[n].queue
           /\ \A k \in DOMAIN lines[n].queue :
                /\ lines'[n].queue[k].parent = lines[n].queue[k].parent
                /\ lines'[n].queue[k].kind = lines[n].queue[k].kind
                /\ ~lines'[n].queue[k].ended =>
                     ~lines[n].queue[k].ended /\ (lines[n].epoch = guards[i].epoch => k # guards[i].index)
  BY <1>1, <1>3, <1>4, FinishSpanStep
<1>6. Extends(guards, guards', len) /\ len + 1 = i /\ Len(guards') = len
  BY <1>2, <1>4, ForgetExtends DEF AnyOrderInv
<1>7. IsSpanGuard(guards[i])
  BY <1>1 DEF IsSpanGuard
<1>8. Nested(guards, lines, i) /\ Shaped(guards, lines, i)
  BY <1>2
<1>9. Nested(guards', lines', len)
  <2> HIDE DEF len
  <2>1. Nested(guards, lines, len + 1) /\ Shaped(guards, lines, len + 1)
    BY <1>6, <1>8
  <2>2. IsSpanGuard(guards[len + 1])
    BY <1>6, <1>7
  <2>3. \A n \in DOMAIN lines :
           /\ lines'[n].epoch = lines[n].epoch
           /\ lines[n].epoch # guards[len + 1].epoch => lines'[n] = lines[n]
           /\ lines[n].epoch = guards[len + 1].epoch => lines'[n].next = lines[n].queue[guards[len + 1].index].parent
           /\ DOMAIN lines'[n].queue = DOMAIN lines[n].queue
           /\ \A k \in DOMAIN lines[n].queue :
                /\ lines'[n].queue[k].parent = lines[n].queue[k].parent
                /\ lines'[n].queue[k].kind = lines[n].queue[k].kind
                /\ ~lines'[n].queue[k].ended =>
                     ~lines[n].queue[k].ended
                     /\ (lines[n].epoch = guards[len + 1].epoch => k # guards[len + 1].index)
    BY <1>5, <1>6
  <2> QED
    BY <1>5, <1>6, <2>1, <2>2, <2>3, NestedFinish
<1>10. Nested(guards', lines', Len(guards'))
  BY <1>6, <1>9
<1> QED
  BY <1>4, <1>10, NestMoved

\* The end of the innermost scope.
LEMMA NestCloseScope ==
  ASSUME AnyOrderInv, NestInv, NEW i \in DOMAIN guards, NEW discard \in BOOLEAN, CloseScope(i, discard)
  PROVE  NestInv'
PROOF
<1> DEFINE len == Len(guards) - 1
           top == Len(lines) - 1
<1>1. IsScopeGuard(guards[i]) /\ (scoped => i = Len(guards)) /\ scoped' = scoped
  BY DEF CloseScope, MayDrop, IsScopeGuard, Panic
<1> SUFFICES ASSUME scoped
             PROVE  NestInv'
  BY <1>1 DEF NestInv
<1>2. /\ Nested(guards, lines, Len(guards)) /\ Shaped(guards, lines, Len(guards)) /\ i = Len(guards)
      /\ AssertionsHold /\ SpansEnded
  BY <1>1, ShapedState DEF NestInv
<1>3. HasLine /\ CurrentLine.epoch = guards[i].epoch
  <2>1. \A j \in DOMAIN guards : ~(i < j)
    BY <1>2 DEF Shaped
  <2> QED
    BY <1>1, <1>2, <2>1, TopMatches
<1>4. /\ lines' = Front(lines) /\ Forget(i)
      /\ submitted' = submitted \cup (IF discard THEN {} ELSE CollectLine(CurrentLine, guards[i].epoch))
      /\ UNCHANGED <<scoped, debug, nextEpoch, nextId, panicked, made>>
  BY <1>3, CloseScopeCases
<1>5. submitted' \in SUBSET (submitted \cup CollectLine(CurrentLine, guards[i].epoch))
  BY <1>4
<1>6. /\ Len(lines) \in Nat \ {0} /\ DOMAIN lines = 1 .. Len(lines) /\ DOMAIN lines' = 1 .. Len(lines) - 1
      /\ \A n \in 1 .. Len(lines) - 1 : n \in DOMAIN lines /\ lines'[n] = lines[n]
  BY <1>3, <1>4, <1>5, CloseScopeStep
<1>7. Extends(guards, guards', len) /\ len + 1 = i /\ Len(guards') = len
  BY <1>2, <1>4, ForgetExtends DEF AnyOrderInv
<1>8. Extends(lines, lines', top) /\ lines[top + 1] = CurrentLine
  <2> DEFINE m == Len(lines)
  <2>1. m \in Nat \ {0} /\ DOMAIN lines = 1 .. m /\ CurrentLine = lines[m]
    BY <1>6 DEF CurrentLine
  <2> HIDE DEF m
  <2>2. m - 1 \in Nat /\ m - 1 + 1 = m
    BY <2>1
  <2> QED
    BY <1>6, <2>1, <2>2 DEF Extends, m
<1>9. /\ Nested(guards', lines', len)
      /\ \A k \in DOMAIN CurrentLine.queue : CurrentLine.queue[k].kind = "Span" => CurrentLine.queue[k].ended
  <2> HIDE DEF len, top
  <2>1. Nested(guards, lines, len + 1) /\ Shaped(guards, lines, len + 1)
    BY <1>2, <1>7
  <2>2. IsScopeGuard(guards[len + 1]) /\ lines[top + 1].epoch = guards[len + 1].epoch
    BY <1>1, <1>3, <1>7, <1>8
  <2>3. /\ Nested(guards', lines', len)
        /\ \A k \in DOMAIN lines[top + 1].queue :
             lines[top + 1].queue[k].kind = "Span" => lines[top + 1].queue[k].ended
    BY <1>7, <1>8, <2>1, <2>2, NestedClose
  <2> QED
    BY <1>8, <2>3
<1>10. SpansEnded'
  <2>1. \A s \in CollectLine(CurrentLine, guards[i].epoch) : s.spans = CurrentLine.queue
    BY DEF CollectLine
  <2>2. \A s \in submitted' : s \in submitted \/ s.spans = CurrentLine.queue
    BY <1>4, <2>1
  <2> QED
    BY <1>2, <1>9, <2>2 DEF SpansEnded
<1>11. AssertionsHold'
  BY <1>2, <1>4 DEF AssertionsHold
<1>12. Nested(guards', lines', Len(guards'))
  BY <1>7, <1>9
<1> QED
  BY <1>10, <1>11, <1>12 DEF NestInv

\* A guard that holds nothing comes.
LEMMA NestOpenInert ==
  ASSUME AnyOrderInv, NestInv, NEW kind \in {"parent", "collector"}, OpenInert(kind)
  PROVE  NestInv'
PROOF
<1>1. /\ guards' = Append(guards, [kind |-> kind, epoch |-> NoEpoch])
      /\ UNCHANGED <<scoped, lines, submitted, panicked>>
  BY DEF OpenInert
<1>2. Extends(guards', guards, Len(guards)) /\ Len(guards') = Len(guards) + 1
  BY <1>1, AppendExtends DEF AnyOrderInv
<1>3. ~IsSpanGuard(guards'[Len(guards) + 1]) /\ ~IsScopeGuard(guards'[Len(guards) + 1])
  BY OpenInertStep
<1>4. ASSUME scoped
      PROVE  Nested(guards', lines', Len(guards'))
  <2>1. Nested(guards, lines, Len(guards))
    BY <1>4 DEF NestInv
  <2>2. Nested(guards', lines, Len(guards) + 1)
    BY <1>2, <1>3, <2>1, NestedInert
  <2> QED
    BY <1>1, <1>2, <2>2
<1> QED
  BY <1>1, <1>4, NestMoved

\* A guard that holds nothing goes, or its token is missed.
LEMMA NestCloseInert ==
  ASSUME AnyOrderInv, NestInv, NEW i \in DOMAIN guards, CloseInert(i)
  PROVE  NestInv'
PROOF
<1>1. CASE panicked' = "token" /\ UNCHANGED <<scoped, guards, lines, submitted>>
  BY <1>1, NestKept
<1>2. CASE Forget(i) /\ UNCHANGED <<scoped, lines, submitted, panicked>>
  <2>1. guards[i].kind # "span" /\ guards[i].epoch = NoEpoch /\ (scoped => i = Len(guards))
    BY DEF CloseInert, MayDrop
  <2>2. ASSUME scoped
        PROVE  Nested(guards', lines', Len(guards'))
    <3> DEFINE len == Len(guards) - 1
    <3>1. Nested(guards, lines, Len(guards)) /\ i = Len(guards)
      BY <2>1, <2>2 DEF NestInv
    <3>2. Extends(guards, guards', len) /\ len + 1 = Len(guards) /\ Len(guards') = len
      BY <1>2, <3>1, ForgetExtends DEF AnyOrderInv
    <3> HIDE DEF len
    <3>3. ~IsSpanGuard(guards[len + 1]) /\ ~IsScopeGuard(guards[len + 1])
      BY <2>1, <3>1, <3>2 DEF IsSpanGuard, IsScopeGuard
    <3>4. Nested(guards, lines, len + 1)
      BY <3>1, <3>2
    <3>5. Nested(guards', lines, len)
      BY <3>2, <3>3, <3>4, NestedInert
    <3> QED
      BY <1>2, <3>2, <3>5
  <2> QED
    BY <1>2, <2>2, NestMoved
<1> QED
  BY <1>1, <1>2 DEF CloseInert, Panic

\* Every step keeps the nesting.
LEMMA NestNext ==
  ASSUME AnyOrderInv, NestInv, [Next]_vars
  PROVE  NestInv'
PROOF
<1>1. ASSUME NEW token \in Tokens, OpenScope("parent", token)
      PROVE  NestInv'
  BY <1>1, NestOpenScope DEF AnyToken
<1>2. CASE OpenScope("collector", NoToken)
  BY <1>2, NestOpenScope DEF AnyToken
<1>3. ASSUME NEW kind \in {"parent", "collector"}, OpenInert(kind)
      PROVE  NestInv'
  BY <1>3, NestOpenInert
<1>4. CASE EnterLocalSpan
  BY <1>4, NestEnterLocalSpan
<1>5. CASE EnterExhausted
  BY <1>5, NestKept DEF EnterExhausted, Panic
<1>6. CASE Attach
  BY <1>6, AttachStep, NestAsBefore DEF Attach
<1>7. ASSUME NEW i \in DOMAIN guards, WithProperties(i)
      PROVE  NestInv'
  BY <1>7, NestWithProperties
<1>8. ASSUME NEW i \in DOMAIN guards, DropLocalSpan(i)
      PROVE  NestInv'
  BY <1>8, NestDropLocalSpan
<1>9. ASSUME NEW i \in DOMAIN guards, NEW discard \in BOOLEAN, CloseScope(i, discard)
      PROVE  NestInv'
  BY <1>9, NestCloseScope
<1>10. ASSUME NEW i \in DOMAIN guards, CloseInert(i)
       PROVE  NestInv'
  BY <1>10, NestCloseInert
<1>11. CASE UNCHANGED vars
  BY <1>11, NestKept DEF vars
<1> QED
  BY <1>1, <1>2, <1>3, <1>4, <1>5, <1>6, <1>7, <1>8, <1>9, <1>10, <1>11 DEF Next

-----------------------------------------------------------------------------
(* What the nesting gives. *)

\* With guards dropped in scope order, guards and lines nest.
THEOREM Nesting == Spec => []NestInv
PROOF
<1>1. Init => NestInv
  <2> SUFFICES ASSUME Init
               PROVE  NestInv
    OBVIOUS
  <2>1. lines = <<>> /\ guards = <<>> /\ submitted = {} /\ panicked = "no"
    BY DEF Init
  <2>2. DOMAIN lines = {} /\ DOMAIN guards = {}
    BY <2>1
  <2>3. Nested(guards, lines, Len(guards))
    BY <2>2 DEF Nested, ScopesNest, SpansNest, ParentsNest, OpenHaveGuards
  <2> QED
    BY <2>1, <2>3 DEF NestInv, AssertionsHold, SpansEnded
<1>2. AnyOrderInv /\ NestInv /\ [Next]_vars => NestInv'
  BY NestNext
<1> QED
  BY <1>1, <1>2, AnyOrder, PTL DEF Spec

\* No debug_assert of the span stack, of a span line or of the span queue
\* fires while guards are dropped in scope order.
THEOREM NoAssertionFires == Spec => []AssertionsHold
PROOF
<1>1. NestInv => AssertionsHold
  BY DEF NestInv, AssertionsHold
<1> QED
  BY <1>1, Nesting, PTL

\* Each scope is handed over, whole and, in scope order, with all its spans
\* ended.
THEOREM ScopesHandedOverWhole == Spec => []ScopesWhole
PROOF
<1>1. NestInv => SpansEnded
  BY DEF NestInv, SpansEnded
<1>2. ScopeSubmitted /\ SpansEnded => ScopesWhole
  BY DEF ScopesWhole
<1> QED
  BY <1>1, <1>2, Nesting, NoScopeLost, PTL

\* The guards that opened a scope that has not ended.
OpenScopes == {i \in DOMAIN guards : guards[i].kind # "span" /\ guards[i].epoch # NoEpoch}

SpansSince(s) == {i \in DOMAIN guards : i > s /\ guards[i].kind = "span"}

\* Max gives the greatest element when there is one.
LEMMA MaxIs ==
  ASSUME NEW S, NEW x \in S, x \in Nat, \A y \in S : y \in Nat /\ y <= x
  PROVE  Max(S) = x
PROOF
<1>1. x \in S /\ \A y \in S : x >= y
  OBVIOUS
<1>2. Max(S) \in S /\ \A y \in S : Max(S) >= y
  BY <1>1 DEF Max
<1>3. Max(S) \in Nat /\ Max(S) <= x /\ Max(S) >= x
  BY <1>2
<1> QED
  BY <1>3

\* The current line is that of the last scope opened.
LEMMA CurrentScope ==
  ASSUME AnyOrderInv, Nested(guards, lines, Len(guards)), OpenScopes # {}
  PROVE  /\ HasLine /\ Max(OpenScopes) \in OpenScopes
         /\ CurrentLine.epoch = guards[Max(OpenScopes)].epoch
         /\ \A i \in OpenScopes : i \in Nat /\ i <= Max(OpenScopes)
PROOF
<1>1. /\ \A i \in DOMAIN guards : i \in Nat /\ guards[i].epoch \in Nat
      /\ \A i \in DOMAIN guards : i \in OpenScopes <=> IsScopeGuard(guards[i])
  BY ShapedState DEF Shaped, OpenScopes, IsScopeGuard
<1>2. HasLine
  <2>1. PICK i \in DOMAIN guards : IsScopeGuard(guards[i])
    BY <1>1 DEF OpenScopes
  <2>2. DOMAIN lines # {}
    BY <2>1 DEF Nested, ScopesNest
  <2>3. DOMAIN <<>> = {}
    OBVIOUS
  <2> QED
    BY <2>2, <2>3 DEF HasLine
<1>3. /\ Len(lines) \in DOMAIN lines /\ CurrentLine = lines[Len(lines)]
      /\ \A n \in DOMAIN lines : n = Len(lines) \/ lines[n].epoch < CurrentLine.epoch
  BY <1>2, CurrentLineFacts DEF AnyOrderInv, CurrentLine
<1>4. PICK s \in DOMAIN guards : IsScopeGuard(guards[s]) /\ guards[s].epoch = CurrentLine.epoch
  BY <1>3 DEF Nested, ScopesNest, ScopeOf
<1>5. ASSUME NEW i \in OpenScopes
      PROVE  i \in Nat /\ i <= s
  <2>1. i \in DOMAIN guards /\ IsScopeGuard(guards[i])
    BY <1>1 DEF OpenScopes
  <2>2. PICK n \in DOMAIN lines : lines[n].epoch = guards[i].epoch
    BY <2>1 DEF Nested, ScopesNest
  <2>3. guards[i].epoch = guards[s].epoch \/ guards[i].epoch < guards[s].epoch
    BY <1>3, <1>4, <2>2
  <2>4. s < i => guards[s].epoch < guards[i].epoch
    BY <1>4, <2>1 DEF Nested, ScopesNest
  <2> QED
    BY <1>1, <2>1, <2>3, <2>4
<1>6. s \in OpenScopes
  BY <1>1, <1>4
<1>7. Max(OpenScopes) = s
  BY <1>1, <1>5, <1>6, MaxIs
<1> QED
  BY <1>2, <1>4, <1>5, <1>6, <1>7

\* The spans opened since are those of the current line.
LEMMA CurrentSpans ==
  ASSUME AnyOrderInv, Nested(guards, lines, Len(guards)), OpenScopes # {}, NEW j \in DOMAIN guards
  PROVE  j \in SpansSince(Max(OpenScopes)) <=> SpanOf(guards[j], CurrentLine.epoch)
PROOF
<1> DEFINE s == Max(OpenScopes)
<1>1. /\ s \in OpenScopes /\ CurrentLine.epoch = guards[s].epoch
      /\ \A i \in OpenScopes : i \in Nat /\ i <= s
  BY CurrentScope
<1>2. /\ \A i \in DOMAIN guards : i \in Nat /\ guards[i].epoch \in Nat
      /\ \A i \in DOMAIN guards : i \in OpenScopes <=> IsScopeGuard(guards[i])
      /\ \A i \in 1 .. j - 1 : i \in DOMAIN guards /\ i < j
      /\ \A i \in DOMAIN guards : i < j => i \in 1 .. j - 1
  BY ShapedState DEF Shaped, OpenScopes, IsScopeGuard
<1>3. s \in DOMAIN guards /\ IsScopeGuard(guards[s])
  BY <1>1, <1>2 DEF OpenScopes
<1> HIDE DEF s
<1>4. ASSUME IsSpanGuard(guards[j])
      PROVE  s < j <=> guards[j].epoch = guards[s].epoch
  <2>1. PICK i \in 1 .. j - 1 : IsScopeGuard(guards[i]) /\ guards[i].epoch = guards[j].epoch
    BY <1>4 DEF Nested, SpansNest, ScopeOf
  <2>2. i \in DOMAIN guards /\ i < j /\ i <= s /\ i \in Nat /\ s \in Nat /\ j \in Nat
    BY <1>1, <1>2, <1>3, <2>1
  <2>3. i < s => guards[i].epoch < guards[s].epoch
    BY <1>3, <2>1, <2>2 DEF Nested, ScopesNest
  <2>4. s < j => guards[s].epoch <= guards[j].epoch
    BY <1>2, <1>3, <1>4 DEF Nested, SpansNest
  <2>5. guards[i].epoch \in Nat /\ guards[s].epoch \in Nat
    BY <1>2, <1>3, <2>2
  <2>6. i = s \/ i < s
    BY <2>2
  <2>7. CASE i = s
    BY <2>1, <2>2, <2>7
  <2>8. CASE i < s
    <3>1. guards[i].epoch < guards[s].epoch
      BY <2>3, <2>8
    <3>2. ~(s < j)
      BY <2>1, <2>4, <2>5, <3>1
    <3> QED
      BY <2>1, <2>5, <3>1, <3>2
  <2> QED
    BY <2>6, <2>7, <2>8
<1>5. j \in Nat /\ s \in Nat
  BY <1>2, <1>3
<1>6. j > s <=> s < j
  BY <1>5
<1> QED
  BY <1>1, <1>4, <1>6 DEF SpansSince, SpanOf, IsSpanGuard, s

\* The parent of what follows is the last local span of the current line.
LEMMA CurrentParent ==
  ASSUME AnyOrderInv, Nested(guards, lines, Len(guards)), OpenScopes # {}
  PROVE  LET local == SpansSince(Max(OpenScopes))
         IN  IF local = {} THEN CurrentLine.next = NoParent
             ELSE CurrentLine.next = guards[Max(local)].id /\ CurrentLine.next # NoParent
PROOF
<1> DEFINE local == SpansSince(Max(OpenScopes))
           e == CurrentLine.epoch
           len == Len(guards)
<1>1. \A j \in DOMAIN guards : j \in local <=> SpanOf(guards[j], e)
  BY CurrentSpans
<1>2. local \subseteq DOMAIN guards
  BY DEF SpansSince
<1>3. len \in Nat /\ DOMAIN guards = 1 .. len
  BY ShapedState DEF Shaped
<1>4. LastSpan(guards, e, len + 1, CurrentLine.next)
  <2>1. HasLine
    BY CurrentScope
  <2>2. Len(lines) \in DOMAIN lines /\ CurrentLine = lines[Len(lines)]
    BY <2>1, CurrentLineFacts DEF AnyOrderInv, CurrentLine
  <2> QED
    BY <2>2 DEF Nested, ParentsNest
<1> HIDE DEF local, e, len
<1>5. 1 .. len + 1 - 1 = DOMAIN guards
  BY <1>3
<1>6. CASE CurrentLine.next = NoParent /\ \A j \in DOMAIN guards : ~SpanOf(guards[j], e)
  <2>1. local = {}
    BY <1>1, <1>2, <1>6
  <2> QED
    BY <1>6, <2>1 DEF local
<1>7. ASSUME NEW j \in DOMAIN guards, SpanOf(guards[j], e), guards[j].id = CurrentLine.next,
             \A k \in j + 1 .. len : ~SpanOf(guards[k], e)
      PROVE  CurrentLine.next = guards[Max(local)].id /\ CurrentLine.next # NoParent /\ local # {}
  <2>1. j \in local /\ j \in Nat
    BY <1>1, <1>3, <1>7
  <2>2. \A k \in local : k \in Nat /\ k <= j
    <3>1. \A k \in 1 .. len : k \in Nat /\ (k <= j \/ k \in j + 1 .. len)
      BY <1>3, <2>1
    <3> QED
      BY <1>1, <1>2, <1>3, <1>7, <3>1
  <2>3. Max(local) = j
    BY <2>1, <2>2, MaxIs
  <2>4. guards[j].id \in Nat \ {0}
    <3>1. guards[j] \in Guard
      BY <1>3, ElementOfSeq DEF AnyOrderInv, TypeInv, len
    <3> QED
      BY <1>7, <3>1 DEF Guard, ScopeGuard, SpanGuard, SpanOf, IsSpanGuard
  <2> QED
    BY <1>7, <2>1, <2>3, <2>4 DEF NoParent
<1>8. \/ CurrentLine.next = NoParent /\ \A j \in DOMAIN guards : ~SpanOf(guards[j], e)
      \/ \E j \in DOMAIN guards :
            /\ SpanOf(guards[j], e) /\ guards[j].id = CurrentLine.next
            /\ \A k \in j + 1 .. len : ~SpanOf(guards[k], e)
  <2>1. len + 1 - 1 = len
    BY <1>3
  <2> QED
    BY <1>3, <1>4, <2>1 DEF LastSpan
<1> QED
  BY <1>6, <1>7, <1>8 DEF local

\* With guards dropped in scope order, the token a new Span gets from the stack
\* names the innermost local span alive in the innermost scope alive, and the
\* scope's own span when there is none (current_collect_token).
THEOREM TokenIsInnermost == Spec => []TokenNamesInnermost
PROOF
<1>1. AnyOrderInv /\ NestInv => TokenNamesInnermost
  <2> SUFFICES ASSUME AnyOrderInv, NestInv, scoped
               PROVE  CurrentCollectToken = Innermost
    BY DEF TokenNamesInnermost
  <2>1. Nested(guards, lines, Len(guards))
    BY DEF NestInv
  <2>2. CASE OpenScopes = {}
    <3>1. lines \in Seq(Line) /\ DOMAIN lines = {}
      <4>1. \A i \in DOMAIN guards : ~IsScopeGuard(guards[i])
        BY <2>2 DEF OpenScopes, IsScopeGuard
      <4> QED
        BY <2>1, <4>1 DEF Nested, ScopesNest, ScopeOf, AnyOrderInv, TypeInv
    <3>2. ~HasLine
      BY <3>1, CurrentLineFacts DEF AnyOrderInv
    <3> QED
      BY <2>2, <3>2 DEF CurrentCollectToken, Innermost, OpenScopes
  <2>3. CASE OpenScopes # {}
    <3> DEFINE s == Max(OpenScopes)
               local == SpansSince(s)
               token == CurrentLine.token
    <3>1. HasLine /\ CurrentLine.epoch = guards[s].epoch
      BY <2>1, <2>3, CurrentScope
    <3>2. CurrentLine \in Line /\ token = made[guards[s].epoch].token
      BY <3>1, CurrentLineFacts DEF AnyOrderInv, LineWith
    <3>3. IF local = {} THEN CurrentLine.next = NoParent
          ELSE CurrentLine.next = guards[Max(local)].id /\ CurrentLine.next # NoParent
      BY <2>1, <2>3, CurrentParent
    <3>4. Innermost = IF token = NoToken \/ local = {} THEN token
                      ELSE [k \in DOMAIN token |-> [token[k] EXCEPT !.parent = guards[Max(local)].id]]
      BY <2>3, <3>2 DEF Innermost, OpenScopes, SpansSince
    <3>5. CASE token = NoToken
      BY <3>4, <3>5 DEF CurrentCollectToken
    <3>6. CASE token # NoToken /\ local = {}
      <4>1. token \in Seq([collect : Nat, parent : Nat])
        BY <3>2, <3>6, LocalAssumption DEF Line, AnyToken
      <4>2. \A k \in DOMAIN token : [token[k] EXCEPT !.parent = token[k].parent] = token[k]
        <5>1. \A k \in DOMAIN token : token[k] \in [collect : Nat, parent : Nat]
          BY <4>1, ElementOfSeq, LenProperties
        <5>2. ASSUME NEW r \in [collect : Nat, parent : Nat]
              PROVE  [r EXCEPT !.parent = r.parent] = r
          OBVIOUS
        <5> QED
          BY <5>1, <5>2
      <4>3. token = [k \in DOMAIN token |-> token[k]]
        BY <4>1
      <4>4. CurrentCollectToken = [k \in DOMAIN token |-> [token[k] EXCEPT !.parent = token[k].parent]]
        BY <3>1, <3>3, <3>6 DEF CurrentCollectToken
      <4>5. CurrentCollectToken = token
        BY <4>2, <4>3, <4>4
      <4> QED
        BY <3>4, <3>6, <4>5
    <3>7. CASE token # NoToken /\ local # {}
      <4>1. CurrentLine.next = guards[Max(local)].id /\ CurrentLine.next # NoParent
        BY <3>3, <3>7
      <4>2. CurrentCollectToken = [k \in DOMAIN token |-> [token[k] EXCEPT !.parent = CurrentLine.next]]
        BY <3>1, <3>7, <4>1 DEF CurrentCollectToken
      <4> QED
        BY <3>4, <3>7, <4>1, <4>2
    <3> QED
      BY <3>5, <3>6, <3>7
  <2> QED
    BY <2>2, <2>3
<1> QED
  BY <1>1, AnyOrder, Nesting, PTL
=============================================================================
