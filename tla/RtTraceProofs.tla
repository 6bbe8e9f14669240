--------------------------- MODULE RtTraceProofs ----------------------------
(***************************************************************************)
(* rt-trace, proved for any number of threads, shards, spans and flushes.  *)
(*                                                                         *)
(* First the values.  The command buffer, for every capacity and whatever  *)
(* its elements: push_overwrite loses the oldest element and no other, and *)
(* drain gives back the newest in the order they came                      *)
(* (rt-trace/src/utils/ring_buffer.rs, as consumer.rs uses it).  And what  *)
(* consume writes for a batch, whatever the pooled vector held before: the *)
(* new descriptors, each once, then the two packets of every span of the   *)
(* batch (rt-trace/src/backend/perfetto.rs).                               *)
(*                                                                         *)
(* Then flush: nothing recorded before it is missing when it returns,      *)
(* nothing is written twice or in pieces, and no span without its thread's *)
(* descriptor.  The proof goes in layers, each an inductive invariant on   *)
(* top of those before it: FlowInv (types, locks and who collects),        *)
(* SourceInv (the pool and the descriptors), PlaceInv (where every span    *)
(* is), AskedInv (how far a flush has come), OutputInv (what is written).  *)
(***************************************************************************)
EXTENDS RtTrace, DataInduction

\* A buffer of elements of S.
Buffer(S) == [inner : Seq(S), head : Nat]

-----------------------------------------------------------------------------
(* The buffer as a value. *)

\* The head goes round.
LEMMA NextHead ==
  ASSUME NEW n \in Nat \ {0}, NEW h \in 0 .. n - 1
  PROVE  (h + 1) % n = IF h + 1 = n THEN 0 ELSE h + 1
PROOF
<1>1. CASE h + 1 = n
  BY <1>1
<1>2. CASE h + 1 < n
  BY <1>2
<1> QED
  BY <1>1, <1>2

\* What drain gives back, element by element.
LEMMA DrainedElements ==
  ASSUME NEW S, NEW buf \in Buffer(S), buf.head <= Len(buf.inner)
  PROVE  /\ Drained(buf) \in Seq(S)
         /\ Len(Drained(buf)) = Len(buf.inner)
         /\ \A i \in 1 .. Len(buf.inner) :
              Drained(buf)[i] = IF i <= Len(buf.inner) - buf.head
                                THEN buf.inner[buf.head + i]
                                ELSE buf.inner[i - (Len(buf.inner) - buf.head)]
PROOF
<1> DEFINE n == Len(buf.inner)
           h == buf.head
           a == SubSeq(buf.inner, h + 1, n)
           b == SubSeq(buf.inner, 1, h)
<1>1. buf.inner \in Seq(S) /\ n \in Nat /\ h \in Nat /\ h <= n
  BY DEF Buffer
<1>2. \A i \in 1 .. n : buf.inner[i] \in S
  BY <1>1, ElementOfSeq
<1>3. a \in Seq(S) /\ Len(a) = n - h /\ \A i \in 1 .. n - h : a[i] = buf.inner[h + i]
  <2>1. \A i \in h + 1 .. n : buf.inner[i] \in S
    BY <1>1, <1>2
  <2>2. /\ a \in Seq(S)
        /\ Len(a) = IF h + 1 <= n THEN n - (h + 1) + 1 ELSE 0
        /\ \A i \in 1 .. n - (h + 1) + 1 : a[i] = buf.inner[h + 1 + i - 1]
    <3> HIDE DEF n, h
    <3> QED
      BY <1>1, <2>1, SubSeqProperties
  <2> HIDE DEF n, h, a
  <2> QED
    BY <1>1, <2>2
<1>4. b \in Seq(S) /\ Len(b) = h /\ \A i \in 1 .. h : b[i] = buf.inner[i]
  <2>1. \A i \in 1 .. h : buf.inner[i] \in S
    BY <1>1, <1>2
  <2>2. /\ b \in Seq(S)
        /\ Len(b) = IF 1 <= h THEN h - 1 + 1 ELSE 0
        /\ \A i \in 1 .. h - 1 + 1 : b[i] = buf.inner[1 + i - 1]
    <3> HIDE DEF n, h
    <3> QED
      BY <1>1, <2>1, SubSeqProperties
  <2> HIDE DEF n, h, b
  <2> QED
    BY <1>1, <2>2
<1>5. Drained(buf) = a \o b
  BY DEF Drained
<1> HIDE DEF n, h, a, b
<1>6. /\ a \o b \in Seq(S) /\ Len(a \o b) = Len(a) + Len(b)
      /\ \A i \in 1 .. Len(a) + Len(b) :
           (a \o b)[i] = IF i <= Len(a) THEN a[i] ELSE b[i - Len(a)]
  <2>1. a \in Seq(S) /\ b \in Seq(S)
    BY <1>3, <1>4
  <2> QED
    BY <2>1, ConcatProperties, Zenon
<1>7. /\ Len(a \o b) = n
      /\ \A i \in 1 .. n : (a \o b)[i] = IF i <= n - h THEN buf.inner[h + i] ELSE buf.inner[i - (n - h)]
  BY <1>1, <1>3, <1>4, <1>6
<1> QED
  BY <1>5, <1>6, <1>7 DEF n, h

\* The newest elements, element by element.
LEMMA NewestElements ==
  ASSUME NEW S, NEW seq \in Seq(S), NEW c \in Nat
  PROVE  /\ Newest(seq, c) \in Seq(S)
         /\ Len(Newest(seq, c)) = IF Len(seq) <= c THEN Len(seq) ELSE c
         /\ \A i \in 1 .. Len(Newest(seq, c)) :
              Newest(seq, c)[i] = IF Len(seq) <= c THEN seq[i] ELSE seq[Len(seq) - c + i]
PROOF
<1>1. CASE Len(seq) <= c
  BY <1>1 DEF Newest
<1>2. CASE ~(Len(seq) <= c)
  <2> DEFINE m == Len(seq) - c + 1
  <2>1. Newest(seq, c) = SubSeq(seq, m, Len(seq))
    BY <1>2 DEF Newest
  <2>2. m \in Int /\ Len(seq) \in Int /\ m >= 1 /\ m <= Len(seq) + 1
    BY <1>2
  <2>3. \A i \in m .. Len(seq) : seq[i] \in S
    BY <2>2, ElementOfSeq
  <2>4. /\ SubSeq(seq, m, Len(seq)) \in Seq(S)
        /\ Len(SubSeq(seq, m, Len(seq))) = IF m <= Len(seq) THEN Len(seq) - m + 1 ELSE 0
        /\ \A i \in 1 .. Len(seq) - m + 1 : SubSeq(seq, m, Len(seq))[i] = seq[m + i - 1]
    <3> HIDE DEF m
    <3> QED
      BY <2>2, <2>3, SubSeqProperties
  <2>5. Len(SubSeq(seq, m, Len(seq))) = c
    BY <1>2, <2>2, <2>4
  <2>6. \A i \in 1 .. c : SubSeq(seq, m, Len(seq))[i] = seq[Len(seq) - c + i]
    <3>1. Len(seq) - m + 1 = c /\ \A i \in 1 .. c : m + i - 1 = Len(seq) - c + i
      BY <2>2
    <3> HIDE DEF m
    <3> QED
      BY <2>4, <3>1
  <2> QED
    BY <1>2, <2>1, <2>4, <2>5, <2>6
<1> QED
  BY <1>1, <1>2

\* Nothing but the newest is needed to know what is newest next.
LEMMA NewestAppend ==
  ASSUME NEW S, NEW seq \in Seq(S), NEW x \in S, NEW c \in Nat \ {0}
  PROVE  Newest(Append(Newest(seq, c), x), c) = Newest(Append(seq, x), c)
PROOF
<1> DEFINE old == Newest(seq, c)
           lhs == Newest(Append(old, x), c)
           rhs == Newest(Append(seq, x), c)
<1>1. /\ old \in Seq(S) /\ Len(old) = IF Len(seq) <= c THEN Len(seq) ELSE c
      /\ \A i \in 1 .. Len(old) : old[i] = IF Len(seq) <= c THEN seq[i] ELSE seq[Len(seq) - c + i]
  BY NewestElements
<1> HIDE DEF old
<1>2. /\ Append(old, x) \in Seq(S) /\ Len(Append(old, x)) = Len(old) + 1
      /\ \A i \in 1 .. Len(old) : Append(old, x)[i] = old[i]
      /\ Append(old, x)[Len(old) + 1] = x
  BY <1>1, AppendProperties
<1>3. /\ Append(seq, x) \in Seq(S) /\ Len(Append(seq, x)) = Len(seq) + 1
      /\ \A i \in 1 .. Len(seq) : Append(seq, x)[i] = seq[i]
      /\ Append(seq, x)[Len(seq) + 1] = x
  BY AppendProperties
<1>4. /\ lhs \in Seq(S)
      /\ Len(lhs) = IF Len(old) + 1 <= c THEN Len(old) + 1 ELSE c
      /\ \A i \in 1 .. Len(lhs) :
           lhs[i] = IF Len(old) + 1 <= c THEN Append(old, x)[i] ELSE Append(old, x)[Len(old) + 1 - c + i]
  <2>1. Append(old, x) \in Seq(S) /\ c \in Nat
    BY <1>2
  <2>2. /\ lhs \in Seq(S)
        /\ Len(lhs) = IF Len(Append(old, x)) <= c THEN Len(Append(old, x)) ELSE c
        /\ \A i \in 1 .. Len(lhs) :
             lhs[i] = IF Len(Append(old, x)) <= c THEN Append(old, x)[i]
                      ELSE Append(old, x)[Len(Append(old, x)) - c + i]
    BY <2>1, NewestElements, Zenon
  <2> HIDE DEF lhs
  <2> QED
    BY <1>1, <1>2, <2>1, <2>2
<1>5. /\ rhs \in Seq(S)
      /\ Len(rhs) = IF Len(seq) + 1 <= c THEN Len(seq) + 1 ELSE c
      /\ \A i \in 1 .. Len(rhs) :
           rhs[i] = IF Len(seq) + 1 <= c THEN Append(seq, x)[i] ELSE Append(seq, x)[Len(seq) + 1 - c + i]
  <2>1. Append(seq, x) \in Seq(S) /\ c \in Nat /\ Len(Append(seq, x)) = Len(seq) + 1
    BY <1>3
  <2>2. /\ rhs \in Seq(S)
        /\ Len(rhs) = IF Len(Append(seq, x)) <= c THEN Len(Append(seq, x)) ELSE c
        /\ \A i \in 1 .. Len(rhs) :
             rhs[i] = IF Len(Append(seq, x)) <= c THEN Append(seq, x)[i]
                      ELSE Append(seq, x)[Len(Append(seq, x)) - c + i]
    BY <2>1, NewestElements, Zenon
  <2> HIDE DEF rhs
  <2> QED
    BY <2>1, <2>2
<1> HIDE DEF lhs, rhs
<1>6. Len(seq) \in Nat
  OBVIOUS
<1>7. Len(lhs) = Len(rhs)
  BY <1>1, <1>4, <1>5, <1>6
<1>8. ASSUME NEW i \in 1 .. Len(lhs)
      PROVE  lhs[i] = rhs[i]
  <2>1. CASE Len(seq) + 1 <= c
    BY <1>1, <1>2, <1>3, <1>4, <1>5, <1>6, <2>1
  <2>2. CASE Len(seq) = c
    BY <1>1, <1>2, <1>3, <1>4, <1>5, <1>6, <2>2
  <2>3. CASE Len(seq) > c
    <3>1. Len(lhs) = c /\ Len(old) = c
      BY <1>1, <1>4, <1>6, <2>3
    <3>2. i \in 1 .. Len(rhs) /\ ~(Len(old) + 1 <= c) /\ ~(Len(seq) + 1 <= c)
      BY <1>6, <1>7, <2>3, <3>1
    <3>3. lhs[i] = Append(old, x)[Len(old) + 1 - c + i] /\ Len(old) + 1 - c + i = i + 1
      BY <1>4, <3>1, <3>2
    <3>4. rhs[i] = Append(seq, x)[Len(seq) + 1 - c + i]
      BY <1>5, <3>2
    <3>5. CASE i = c
      BY <1>2, <1>3, <1>6, <3>1, <3>3, <3>4, <3>5
    <3>6. CASE i < c
      <4>1. i + 1 \in 1 .. Len(old) /\ Len(seq) + 1 - c + i \in 1 .. Len(seq)
        BY <1>6, <2>3, <3>1, <3>6
      <4>2. Append(old, x)[i + 1] = old[i + 1] /\ old[i + 1] = seq[Len(seq) - c + (i + 1)]
        BY <1>1, <1>2, <2>3, <4>1
      <4>3. Append(seq, x)[Len(seq) + 1 - c + i] = seq[Len(seq) + 1 - c + i]
        BY <1>3, <4>1
      <4>4. Len(seq) - c + (i + 1) = Len(seq) + 1 - c + i
        BY <1>6
      <4> QED
        BY <3>3, <3>4, <4>2, <4>3, <4>4
    <3> QED
      BY <3>1, <3>5, <3>6
  <2> QED
    BY <1>6, <2>1, <2>2, <2>3
<1> QED
  <2>1. lhs = rhs
    BY <1>4, <1>5, <1>7, <1>8, SeqEqual, Zenon
  <2> QED
    BY <2>1 DEF lhs, rhs, old

\* A push loses the oldest element and no other.
LEMMA PushDrained ==
  ASSUME NEW S, NEW buf \in Buffer(S), NEW c \in Nat \ {0}, NEW x \in S,
         WellFormed(buf, c)
  PROVE  LET new == PushOverwrite(buf, x, c)
         IN  /\ new \in Buffer(S) /\ WellFormed(new, c)
             /\ Drained(new) = Newest(Append(Drained(buf), x), c)
PROOF
<1> DEFINE new == PushOverwrite(buf, x, c)
           n == Len(buf.inner)
           h == buf.head
           old == Drained(buf)
           app == Append(old, x)
           rhs == Newest(app, c)
<1>1. /\ buf.inner \in Seq(S) /\ n \in Nat /\ n <= c
      /\ h \in Nat /\ h < c /\ h <= n /\ (n < c => h = 0)
  BY DEF Buffer, WellFormed
<1>2. /\ old \in Seq(S) /\ Len(old) = n
      /\ \A i \in 1 .. n : old[i] = IF i <= n - h THEN buf.inner[h + i] ELSE buf.inner[i - (n - h)]
  BY <1>1, DrainedElements
<1>3. /\ app \in Seq(S) /\ Len(app) = n + 1
      /\ \A i \in 1 .. n : app[i] = old[i]
      /\ app[n + 1] = x
  <2>1. /\ app \in Seq(S) /\ Len(app) = Len(old) + 1
        /\ \A i \in 1 .. Len(old) : app[i] = old[i]
        /\ app[Len(old) + 1] = x
    <3> HIDE DEF old
    <3> QED
      BY <1>2, AppendProperties
  <2> HIDE DEF old, app, n
  <2> QED
    BY <1>2, <2>1
<1>4. /\ rhs \in Seq(S) /\ Len(rhs) = IF n + 1 <= c THEN n + 1 ELSE c
      /\ \A i \in 1 .. Len(rhs) : rhs[i] = IF n + 1 <= c THEN app[i] ELSE app[n + 1 - c + i]
  <2>1. c \in Nat
    OBVIOUS
  <2>2. /\ rhs \in Seq(S)
        /\ Len(rhs) = IF Len(app) <= c THEN Len(app) ELSE c
        /\ \A i \in 1 .. Len(rhs) : rhs[i] = IF Len(app) <= c THEN app[i] ELSE app[Len(app) - c + i]
    <3>1. app \in Seq(S)
      BY <1>3
    <3> HIDE DEF app
    <3> QED
      BY <2>1, <3>1, NewestElements, Zenon
  <2> HIDE DEF rhs, app
  <2> QED
    BY <1>1, <1>3, <2>2
<1>5. CASE n < c
  <2>1. new \in [inner : Seq(S), head : Nat] /\ new.inner = Append(buf.inner, x) /\ new.head = h
    <3>1. new = [buf EXCEPT !.inner = Append(buf.inner, x)]
      BY <1>5 DEF PushOverwrite
    <3>2. Append(buf.inner, x) \in Seq(S)
      BY <1>1, AppendProperties
    <3> HIDE DEF new
    <3> QED
      BY <3>1, <3>2 DEF Buffer
  <2>2. /\ Append(buf.inner, x) \in Seq(S) /\ Len(Append(buf.inner, x)) = n + 1
        /\ \A i \in 1 .. n : Append(buf.inner, x)[i] = buf.inner[i]
        /\ Append(buf.inner, x)[n + 1] = x
    BY <1>1, AppendProperties
  <2>3. new \in Buffer(S) /\ WellFormed(new, c)
    <3>1. new.inner = Append(buf.inner, x) /\ new.head = 0
      BY <1>1, <1>5, <2>1
    <3>2. new \in Buffer(S)
      BY <2>1 DEF Buffer
    <3>3. Len(new.inner) = n + 1 /\ n + 1 <= c
      BY <1>1, <1>5, <2>2, <3>1
    <3> HIDE DEF new, n
    <3> QED
      BY <3>1, <3>2, <3>3 DEF WellFormed
  <2>4. /\ Drained(new) \in Seq(S) /\ Len(Drained(new)) = n + 1
        /\ \A i \in 1 .. n + 1 : Drained(new)[i] = Append(buf.inner, x)[i]
    <3>1. new.inner = Append(buf.inner, x) /\ new.head = 0 /\ Len(new.inner) = n + 1
      BY <1>1, <1>5, <2>1, <2>2
    <3>2. new.head <= Len(new.inner)
      BY <1>1, <3>1
    <3> HIDE DEF new, n
    <3>3. /\ Drained(new) \in Seq(S) /\ Len(Drained(new)) = Len(new.inner)
          /\ \A i \in 1 .. Len(new.inner) :
               Drained(new)[i] = IF i <= Len(new.inner) - new.head
                                 THEN new.inner[new.head + i]
                                 ELSE new.inner[i - (Len(new.inner) - new.head)]
      BY <2>3, <3>2, DrainedElements
    <3>4. ASSUME NEW i \in 1 .. n + 1
          PROVE  Drained(new)[i] = new.inner[i]
      BY <1>1, <3>1, <3>3
    <3> QED
      BY <3>1, <3>3, <3>4
  <2>5. Len(rhs) = n + 1 /\ \A i \in 1 .. n + 1 : rhs[i] = app[i]
    <3> HIDE DEF n, rhs, app
    <3> QED
      BY <1>1, <1>4, <1>5
  <2>6. \A i \in 1 .. n + 1 : Drained(new)[i] = rhs[i]
    <3> HIDE DEF new, n, h, old, app, rhs
    <3>1. \A i \in 1 .. n : old[i] = buf.inner[i]
      BY <1>1, <1>2, <1>5
    <3> QED
      BY <1>1, <1>3, <2>2, <2>4, <2>5, <3>1
  <2>7. Drained(new) = rhs
    <3> HIDE DEF new, n, rhs
    <3> QED
      BY <1>4, <2>4, <2>5, <2>6, SeqEqual, Zenon
  <2> QED
    BY <2>3, <2>7
<1>6. CASE n = c
  <2> DEFINE k == (h + 1) % c
             ins == [buf.inner EXCEPT ![h + 1] = x]
  <2>1. k = (IF h + 1 = c THEN 0 ELSE h + 1) /\ k \in Nat /\ k < c
    <3>1. h \in 0 .. c - 1
      BY <1>1
    <3> HIDE DEF h
    <3>2. (h + 1) % c = IF h + 1 = c THEN 0 ELSE h + 1
      BY <3>1, NextHead
    <3> QED
      BY <3>1, <3>2
  <2>2. /\ ins \in Seq(S) /\ Len(ins) = n
        /\ \A i \in 1 .. n : ins[i] = IF i = h + 1 THEN x ELSE buf.inner[i]
    <3>1. h + 1 \in 1 .. n
      BY <1>1, <1>6
    <3>2. ins \in Seq(S) /\ Len(ins) = n
      BY <1>1, <3>1, ExceptSeq
    <3>3. DOMAIN buf.inner = 1 .. n
      BY <1>1
    <3> QED
      BY <3>2, <3>3
  <2>3. new \in [inner : Seq(S), head : Nat] /\ new.inner = ins /\ new.head = k
    <3>1. new = [buf EXCEPT !.inner = ins, !.head = k]
      BY <1>6 DEF PushOverwrite, Buffer
    <3> HIDE DEF new, k, ins
    <3> QED
      BY <2>1, <2>2, <3>1 DEF Buffer
  <2>4. new \in Buffer(S) /\ WellFormed(new, c)
    <3>1. new.inner = ins /\ new.head = k
      BY <2>3
    <3> HIDE DEF k, ins
    <3>2. new \in Buffer(S)
      BY <2>3 DEF Buffer
    <3> HIDE DEF new, n
    <3> QED
      BY <1>1, <1>6, <2>1, <2>2, <3>1, <3>2 DEF WellFormed
  <2> HIDE DEF k, ins
  <2>5. /\ Drained(new) \in Seq(S) /\ Len(Drained(new)) = n
        /\ \A i \in 1 .. n : Drained(new)[i] = IF i <= n - k THEN ins[k + i] ELSE ins[i - (n - k)]
    <3>1. new.inner = ins /\ new.head = k
      BY <2>3
    <3> HIDE DEF new
    <3>2. new.head <= Len(new.inner)
      BY <1>1, <1>6, <2>1, <2>2, <3>1
    <3>3. /\ Drained(new) \in Seq(S) /\ Len(Drained(new)) = Len(new.inner)
          /\ \A i \in 1 .. Len(new.inner) :
               Drained(new)[i] = IF i <= Len(new.inner) - new.head
                                 THEN new.inner[new.head + i]
                                 ELSE new.inner[i - (Len(new.inner) - new.head)]
      BY <2>4, <3>2, DrainedElements
    <3> QED
      BY <2>2, <3>1, <3>3
  <2> HIDE DEF new, n, h, old, app, rhs
  <2>6. Len(rhs) = n /\ \A i \in 1 .. n : rhs[i] = app[i + 1]
    <3>1. n + 1 - c = 1 /\ ~(n + 1 <= c)
      BY <1>1, <1>6
    <3> QED
      BY <1>1, <1>4, <1>6, <3>1
  <2>7. ASSUME NEW i \in 1 .. n
        PROVE  Drained(new)[i] = rhs[i]
    <3>1. CASE i = n
      <4>1. rhs[i] = x
        BY <1>1, <1>3, <2>6, <3>1
      <4>2. Drained(new)[i] = ins[h + 1]
        BY <1>1, <1>6, <2>1, <2>5, <3>1
      <4>3. ins[h + 1] = x
        BY <1>1, <1>6, <2>2
      <4> QED
        BY <3>1, <4>1, <4>2, <4>3
    <3>2. CASE i < n
      <4>1. rhs[i] = old[i + 1]
        BY <1>1, <1>3, <2>6, <3>2
      <4>2. /\ i + 1 <= n - h => old[i + 1] = buf.inner[h + i + 1]
            /\ i + 1 > n - h => old[i + 1] = buf.inner[i + 1 - (n - h)]
        <5>1. PICK j \in 1 .. n : j = i + 1
          BY <1>1, <3>2
        <5>2. old[j] = IF j <= n - h THEN buf.inner[h + j] ELSE buf.inner[j - (n - h)]
          BY <1>2
        <5>3. CASE i + 1 <= n - h
          <6>1. j <= n - h /\ h + j = h + i + 1 /\ ~(i + 1 > n - h)
            BY <1>1, <5>1, <5>3
          <6>2. old[j] = buf.inner[h + j]
            BY <5>2, <6>1
          <6> QED
            BY <5>1, <6>1, <6>2, Zenon
        <5>4. CASE i + 1 > n - h
          <6>1. ~(j <= n - h) /\ ~(i + 1 <= n - h)
            BY <1>1, <5>1, <5>4
          <6>2. old[j] = buf.inner[j - (n - h)]
            BY <5>2, <6>1
          <6>3. old[i + 1] = buf.inner[i + 1 - (n - h)]
            BY <1>1, <5>1, <6>2
          <6> QED
            BY <6>1, <6>3, Zenon
        <5> QED
          BY <1>1, <5>3, <5>4
      <4>3. CASE h + 1 = c
        <5>1. Drained(new)[i] = ins[i] /\ i # h + 1
          BY <1>1, <1>6, <2>1, <2>5, <3>2, <4>3
        <5>2. ins[i] = buf.inner[i]
          BY <2>2, <5>1
        <5>3. old[i + 1] = buf.inner[i]
          <6>1. i + 1 > n - h /\ i + 1 - (n - h) = i
            BY <1>1, <1>6, <3>2, <4>3
          <6> QED
            BY <4>2, <6>1
        <5> QED
          BY <4>1, <5>1, <5>2, <5>3
      <4>4. CASE h + 1 # c /\ i <= n - k
        <5>1. Drained(new)[i] = ins[h + 1 + i] /\ h + 1 + i \in 1 .. n
          BY <1>1, <1>6, <2>1, <2>5, <4>4
        <5>2. ins[h + 1 + i] = buf.inner[h + 1 + i]
          BY <1>1, <2>2, <5>1
        <5>3. old[i + 1] = buf.inner[h + 1 + i]
          <6>1. i + 1 <= n - h
            BY <1>1, <1>6, <2>1, <4>4
          <6>2. old[i + 1] = buf.inner[h + i + 1]
            BY <4>2, <6>1
          <6>3. h + i + 1 = h + 1 + i
            BY <1>1
          <6> QED
            BY <6>2, <6>3, Zenon
        <5> QED
          BY <4>1, <5>1, <5>2, <5>3
      <4>5. CASE h + 1 # c /\ i > n - k
        <5>1. Drained(new)[i] = ins[i - (n - k)] /\ i - (n - k) \in 1 .. n
          BY <1>1, <1>6, <2>1, <2>5, <4>5
        <5>2. i - (n - k) = i + 1 - (n - h) /\ i - (n - k) # h + 1
          BY <1>1, <1>6, <2>1, <3>2, <4>5
        <5>3. ins[i - (n - k)] = buf.inner[i - (n - k)]
          BY <2>2, <5>1, <5>2
        <5>4. old[i + 1] = buf.inner[i + 1 - (n - h)]
          <6>1. i + 1 > n - h
            BY <1>1, <2>1, <4>5
          <6> QED
            BY <4>2, <6>1
        <5> QED
          BY <4>1, <5>1, <5>2, <5>3, <5>4
      <4> QED
        BY <1>1, <2>1, <4>3, <4>4, <4>5
    <3> QED
      BY <1>1, <3>1, <3>2
  <2>8. Drained(new) = rhs
    BY <1>4, <2>5, <2>6, <2>7, SeqEqual, Zenon
  <2> QED
    BY <2>4, <2>8 DEF new, rhs, app, old
<1> QED
  BY <1>1, <1>5, <1>6

-----------------------------------------------------------------------------
(* The buffer of the consumer. *)

\* KeepsNewest with what it needs: elements of some set, a head that fits.
BufferInv ==
  /\ "arrived" \in DOMAIN seen
  /\ \E S : buffer \in Buffer(S) /\ seen.arrived \in Seq(S)
  /\ WellFormed(buffer, BufferCapacity)
  /\ KeepsNewest

\* Steps that leave the buffer and what has arrived alone.
Untouched ==
  /\ buffer' = buffer
  /\ "arrived" \in DOMAIN seen'
  /\ seen'.arrived = seen.arrived

LEMMA CapacityPositive == BufferCapacity \in Nat \ {0}
PROOF
  BY RtAssumption DEF BufferCapacity

\* An empty buffer with nothing arrived is right.
LEMMA EmptyBuffer ==
  /\ NewBuffer \in Buffer({}) /\ <<>> \in Seq({})
  /\ WellFormed(NewBuffer, BufferCapacity)
  /\ Drained(NewBuffer) = Newest(<<>>, BufferCapacity)
PROOF
<1>1. NewBuffer.inner = <<>> /\ NewBuffer.head = 0 /\ <<>> \in Seq({}) /\ Len(<<>>) = 0
  BY DEF NewBuffer
<1>2. NewBuffer \in Buffer({})
  BY DEF NewBuffer, Buffer
<1>3. WellFormed(NewBuffer, BufferCapacity)
  BY <1>1, CapacityPositive DEF WellFormed
<1>4. Drained(NewBuffer) \in Seq({}) /\ Len(Drained(NewBuffer)) = 0
  <2>1. NewBuffer.head <= Len(NewBuffer.inner)
    BY <1>1
  <2>2. Drained(NewBuffer) \in Seq({}) /\ Len(Drained(NewBuffer)) = Len(NewBuffer.inner)
    BY <1>2, <2>1, DrainedElements, Zenon
  <2> QED
    BY <1>1, <2>2
<1>5. Drained(NewBuffer) = <<>>
  BY <1>4
<1>6. Newest(<<>>, BufferCapacity) = <<>>
  BY <1>1, CapacityPositive DEF Newest
<1> QED
  BY <1>1, <1>2, <1>3, <1>5, <1>6

LEMMA InitBuffer == Init => BufferInv
PROOF
<1> SUFFICES ASSUME Init
             PROVE  BufferInv
  OBVIOUS
<1>1. buffer = NewBuffer /\ "arrived" \in DOMAIN seen /\ seen.arrived = <<>>
  BY DEF Init
<1> QED
  BY <1>1, EmptyBuffer, Zenon DEF BufferInv, KeepsNewest

LEMMA UntouchedBuffer ==
  ASSUME BufferInv, Untouched
  PROVE  BufferInv'
PROOF
  BY Zenon DEF BufferInv, Untouched, KeepsNewest, BufferCapacity

\* A command received: the buffer takes it, at the cost of the oldest.
LEMMA RecvCommandBuffer ==
  ASSUME BufferInv, RecvCommand
  PROVE  BufferInv'
PROOF
<1> DEFINE batch == Head(chan[Current].ring)
<1>1. /\ buffer' = PushOverwrite(buffer, batch, BufferCapacity)
      /\ "arrived" \in DOMAIN seen'
      /\ seen'.arrived = Append(seen.arrived, batch)
  BY DEF RecvCommand, BufferInv
<1> HIDE DEF batch
<1>2. PICK S : buffer \in Buffer(S) /\ seen.arrived \in Seq(S)
  BY DEF BufferInv
<1> DEFINE T == S \cup {batch}
<1>3. buffer \in Buffer(T) /\ seen.arrived \in Seq(T) /\ batch \in T
  <2>1. buffer.inner \in Seq(T) /\ seen.arrived \in Seq(T)
    BY <1>2 DEF Buffer
  <2> QED
    BY <1>2, <2>1 DEF Buffer
<1> HIDE DEF T
<1>4. WellFormed(buffer, BufferCapacity) /\ Drained(buffer) = Newest(seen.arrived, BufferCapacity)
  BY DEF BufferInv, KeepsNewest
<1> DEFINE new == PushOverwrite(buffer, batch, BufferCapacity)
<1>5. /\ new \in Buffer(T) /\ WellFormed(new, BufferCapacity)
      /\ Drained(new) = Newest(Append(Drained(buffer), batch), BufferCapacity)
  BY <1>3, <1>4, CapacityPositive, PushDrained, Zenon
<1>6. Drained(new) = Newest(Append(seen.arrived, batch), BufferCapacity)
  BY <1>3, <1>4, <1>5, CapacityPositive, NewestAppend, Zenon
<1>7. Append(seen.arrived, batch) \in Seq(T)
  BY <1>3, AppendProperties, Zenon
<1>8. BufferCapacity' = BufferCapacity
  BY DEF BufferCapacity
<1> QED
  BY <1>1, <1>5, <1>6, <1>7, <1>8, Zenon DEF BufferInv, KeepsNewest

\* A flush drains the buffer.
LEMMA WriteBeginBuffer ==
  ASSUME BufferInv, WriteBegin
  PROVE  BufferInv'
PROOF
<1>1. buffer' = NewBuffer /\ "arrived" \in DOMAIN seen' /\ seen'.arrived = <<>>
  BY DEF WriteBegin, BufferInv
<1>2. BufferCapacity' = BufferCapacity
  BY DEF BufferCapacity
<1> QED
  BY <1>1, <1>2, EmptyBuffer, Zenon DEF BufferInv, KeepsNewest

\* Nothing else touches it.
LEMMA ThreadUntouched ==
  ASSUME BufferInv, NEW t \in Thread,
         \/ Spawn(t) \/ Exit(t) \/ Start(t) \/ Stop(t)
         \/ NewSpan(t) \/ NewSpanPanics(t) \/ Flush(t) \/ CallStep(t)
         \/ \E s \in Span : DropSpan(t, s)
  PROVE  Untouched
PROOF
<1> USE DEF BufferInv, Untouched, bufVars
<1>1. CASE Spawn(t) \/ Exit(t) \/ NewSpan(t) \/ NewSpanPanics(t)
  BY <1>1 DEF Spawn, Exit, NewSpan, NewSpanPanics
<1>2. CASE Start(t) \/ Stop(t)
  BY <1>2 DEF Start, Stop
<1>3. CASE Flush(t)
  BY <1>3 DEF Flush
<1>4. CASE PushSpan(t)
  BY <1>4 DEF PushSpan
<1>5. CASE Send(t)
  BY <1>5 DEF Send, RegisterReceiver, SendBatch, LoseBatch
<1>6. CASE FlushShard(t) \/ FlushStart(t) \/ FlushBegin(t)
  BY <1>6 DEF FlushShard, FlushStart, FlushBegin, Begin
<1>7. CASE \E s \in Span : DropSpan(t, s)
  BY <1>7 DEF DropSpan
<1> QED
  BY <1>1, <1>2, <1>3, <1>4, <1>5, <1>6, <1>7 DEF CallStep

LEMMA ConsumerUntouched ==
  ASSUME BufferInv,
         LoopBegin \/ RecvNone \/ LoopDone \/ ConsumeBatch \/ WriteDone
  PROVE  Untouched
PROOF
<1> USE DEF BufferInv, Untouched, bufVars
<1>1. CASE LoopBegin
  BY <1>1 DEF LoopBegin, Begin
<1>2. CASE RecvNone \/ LoopDone
  BY <1>2 DEF RecvNone, LoopDone
<1>3. CASE ConsumeBatch
  BY <1>3 DEF ConsumeBatch
<1>4. CASE WriteDone
  BY <1>4 DEF WriteDone
<1> QED
  BY <1>1, <1>2, <1>3, <1>4

LEMMA StepBuffer == BufferInv /\ [Next]_vars => BufferInv'
PROOF
<1> SUFFICES ASSUME BufferInv, [Next]_vars
             PROVE  BufferInv'
  OBVIOUS
<1>1. CASE \E t \in Thread :
             \/ Spawn(t) \/ Exit(t) \/ Start(t) \/ Stop(t)
             \/ NewSpan(t) \/ NewSpanPanics(t) \/ Flush(t) \/ CallStep(t)
             \/ \E s \in Span : DropSpan(t, s)
  BY <1>1, ThreadUntouched, UntouchedBuffer, Zenon
<1>2. CASE RecvCommand
  BY <1>2, RecvCommandBuffer
<1>3. CASE WriteBegin
  BY <1>3, WriteBeginBuffer
<1>4. CASE LoopBegin \/ RecvNone \/ LoopDone \/ ConsumeBatch \/ WriteDone
  BY <1>4, ConsumerUntouched, UntouchedBuffer, Zenon
<1>5. CASE UNCHANGED vars
  <2>1. Untouched
    BY <1>5 DEF BufferInv, Untouched, vars
  <2> QED
    BY <2>1, UntouchedBuffer
<1> QED
  BY <1>1, <1>2, <1>3, <1>4, <1>5, Zenon DEF Next, Collect

\* Whatever the threads and the flushes do, what the consumer has overwritten
\* is always the oldest, and what a flush drains is in the order of arrival.
THEOREM NewestKept == Spec => []KeepsNewest
PROOF
<1>1. BufferInv => KeepsNewest
  BY DEF BufferInv
<1> QED
  BY InitBuffer, StepBuffer, <1>1, PTL DEF Spec

-----------------------------------------------------------------------------
(* The Perfetto backend: what consume writes. *)

DataSet == [kind : {"none", "process", "thread", "begin", "end"}, of : Nat]

PacketSet == [data : DataSet, time : DataSet]

Vector == [1 .. BufSize -> PacketSet]

Trace == [packets : Vector, num : Nat]

Event(kind, span) == [data |-> Data(kind, span), time |-> Data(kind, span)]

\* The size of a vector of packets.
LEMMA BufSizeType == BufSize \in Nat \ {0} /\ 1 \in 1 .. BufSize
PROOF
  BY BatchSizeAssumption DEF BufSize

\* One descriptor comes to the front, and what was there goes behind.
LEMMA DescriptorPut ==
  ASSUME NEW trace \in Trace, NEW d \in DataSet, trace.num < BufSize
  PROVE  LET new == PutDescriptor(trace, d)
             n == trace.num + 1
         IN  /\ new \in Trace /\ new.num = n
             /\ new.packets[1].data = d
             /\ n # 1 => new.packets[n] = trace.packets[1]
             /\ \A i \in 1 .. BufSize : i # 1 /\ i # n => new.packets[i] = trace.packets[i]
PROOF
<1> DEFINE n == trace.num + 1
           old == trace.packets
           set == [old EXCEPT ![n].data = d]
           swapped == Swap(set, 1, n)
<1>1. n \in 1 .. BufSize /\ 1 \in 1 .. BufSize /\ old \in Vector
  BY BufSizeType DEF Trace
<1>2. PutDescriptor(trace, d) = [packets |-> swapped, num |-> n]
  BY DEF PutDescriptor
<1> HIDE DEF n, old
<1>3. set \in Vector /\ set[n].data = d /\ \A i \in 1 .. BufSize : i # n => set[i] = old[i]
  BY <1>1 DEF Vector, PacketSet
<1> HIDE DEF set
<1>4. /\ swapped \in Vector /\ swapped[1].data = d /\ (n # 1 => swapped[n] = set[1])
      /\ \A i \in 1 .. BufSize : i # 1 /\ i # n => swapped[i] = set[i]
  BY <1>1, <1>3 DEF Vector, Swap
<1> HIDE DEF swapped
<1>5. n \in Nat
  BY <1>1
<1> QED
  BY <1>1, <1>2, <1>3, <1>4, <1>5 DEF Trace, n, old

\* One span is two packets behind what there is.
LEMMA SpanPut ==
  ASSUME NEW trace \in Trace, NEW s \in Nat
  PROVE  LET new == PutSpan(trace, s)
             n == trace.num
         IN  /\ new \in Trace /\ new.num = n + 2
             /\ n + 2 <= BufSize =>
                  /\ new.packets[n + 1] = Event("begin", s) /\ new.packets[n + 2] = Event("end", s)
                  /\ \A i \in 1 .. n : new.packets[i] = trace.packets[i]
PROOF
<1> DEFINE n == trace.num
           old == trace.packets
           put == [old EXCEPT ![n + 1] = Event("begin", s), ![n + 2] = Event("end", s)]
<1>1. n \in Nat /\ old \in Vector /\ n + 1 + 1 = n + 2
  BY DEF Trace
<1>2. PutSpan(trace, s) = [packets |-> put, num |-> n + 2]
  BY <1>1 DEF PutSpan, Event
<1>3. Event("begin", s) \in PacketSet /\ Event("end", s) \in PacketSet
  BY DEF Event, PacketSet, DataSet, Data
<1> HIDE DEF n, old, Event
<1>4. put \in Vector
  BY <1>1, <1>3 DEF Vector
<1>5. n + 2 <= BufSize =>
        /\ put[n + 1] = Event("begin", s) /\ put[n + 2] = Event("end", s)
        /\ \A i \in 1 .. n : put[i] = old[i]
  BY <1>1, BufSizeType DEF Vector
<1> HIDE DEF put
<1> QED
  BY <1>1, <1>2, <1>4, <1>5 DEF Trace, n, old

\* The fold over the descriptors goes through them one by one.
LEMMA DescriptorsUnroll ==
  ASSUME NEW base \in Trace, NEW seq \in Seq(DataSet), base.num + Len(seq) <= BufSize
  PROVE  \E h : /\ h[0] = base
                /\ \A k \in 1 .. Len(seq) : h[k] = PutDescriptor(h[k - 1], seq[k])
                /\ FoldLeft(PutDescriptor, base, seq) = h[Len(seq)]
PROOF
<1> DEFINE n == Len(seq)
           X == [k \in 0 .. n |-> {x \in Trace : x.num <= base.num + k}]
           step == [p \in Trace \X DataSet |-> PutDescriptor(p[1], p[2])]
           Rule(iter) == iter = [s \in SUBSET DOMAIN seq |->
                                   IF s = {} THEN base
                                   ELSE PutDescriptor(iter[s \ {Max(s)}], seq[Max(s)])]
<1>1. n \in Nat /\ DOMAIN seq = 1 .. n /\ \A k \in 1 .. n : seq[k] \in DataSet
  BY LenProperties, ElementOfSeq
<1>2. base.num \in Nat /\ base \in X[0]
  BY <1>1 DEF Trace
<1>3. \A x \in Trace : \A e \in DataSet : step[<<x, e>>] = PutDescriptor(x, e)
  OBVIOUS
<1>4. \A k \in 0 .. n - 1 :
         /\ \A x \in X[k] : x \in X[k + 1]
         /\ \A x \in X[k] : \A e \in DataSet : step[<<x, e>>] \in X[k + 1]
  <2> SUFFICES ASSUME NEW k \in 0 .. n - 1, NEW x \in X[k]
               PROVE  x \in X[k + 1] /\ \A e \in DataSet : step[<<x, e>>] \in X[k + 1]
    OBVIOUS
  <2>1. k \in 0 .. n /\ k + 1 \in 0 .. n
    BY <1>1
  <2>2. x \in Trace /\ x.num \in Nat /\ x.num <= base.num + k
    BY <2>1 DEF Trace
  <2>3. x.num <= base.num + (k + 1) /\ x.num + 1 <= base.num + (k + 1) /\ x.num < BufSize
    BY <1>1, <1>2, <2>2, BufSizeType
  <2>4. \A y \in Trace : y.num <= base.num + (k + 1) => y \in X[k + 1]
    BY <2>1
  <2>5. ASSUME NEW e \in DataSet
        PROVE  step[<<x, e>>] \in X[k + 1]
    <3>1. PutDescriptor(x, e) \in Trace /\ PutDescriptor(x, e).num = x.num + 1
      BY <2>2, <2>3, DescriptorPut
    <3> HIDE DEF X, step
    <3> QED
      BY <1>3, <2>2, <2>3, <2>4, <3>1
  <2> QED
    BY <2>2, <2>3, <2>4, <2>5
<1>5. \A k \in 0 .. n : X[k] \subseteq Trace
  OBVIOUS
<1> HIDE DEF n, X, step
<1>6. PICK iter : /\ DOMAIN iter = SUBSET DOMAIN seq
                  /\ iter = [s \in DOMAIN iter |-> iter[s]]
                  /\ \A s \in SUBSET DOMAIN seq : FoldsTo(iter, X, step, base, seq, s, n)
  BY <1>2, <1>4, FoldExists DEF n
<1>7. Rule(iter)
  <2>1. ASSUME NEW s \in SUBSET DOMAIN seq
        PROVE  iter[s] = IF s = {} THEN base ELSE PutDescriptor(iter[s \ {Max(s)}], seq[Max(s)])
    <3>1. CASE s = {}
      BY <1>6, <3>1 DEF FoldsTo
    <3>2. CASE s # {}
      <4>1. /\ Max(s) \in s /\ iter[s \ {Max(s)}] \in X[n - 1]
            /\ iter[s] = step[<<iter[s \ {Max(s)}], seq[Max(s)]>>]
        BY <1>6, <3>2 DEF FoldsTo
      <4>2. n - 1 \in 0 .. n
        <5>1. Max(s) \in 1 .. n
          BY <1>1, <4>1
        <5> QED
          BY <1>1, <5>1
      <4>3. iter[s \ {Max(s)}] \in Trace /\ seq[Max(s)] \in DataSet
        BY <1>1, <1>5, <4>1, <4>2
      <4> QED
        BY <1>3, <3>2, <4>1, <4>3
    <3> QED
      BY <3>1, <3>2
  <2> QED
    BY <1>6, <2>1
<1> DEFINE it == CHOOSE i : Rule(i)
<1>8. Rule(it)
  BY <1>7
<1>9. FoldLeft(PutDescriptor, base, seq) = it[DOMAIN seq]
  BY DEF FoldLeft, MapThenFoldSet
<1> HIDE DEF it
<1> DEFINE h == [k \in 0 .. n |-> it[1 .. k]]
<1>10. h[0] = base
  <2>1. 1 .. 0 = {} /\ 0 \in 0 .. n
    BY <1>1
  <2> QED
    BY <1>8, <2>1
<1>11. \A k \in 1 .. n : h[k] = PutDescriptor(h[k - 1], seq[k])
  <2> SUFFICES ASSUME NEW k \in 1 .. n
               PROVE  h[k] = PutDescriptor(h[k - 1], seq[k])
    OBVIOUS
  <2>1. Max(1 .. k) = k /\ (1 .. k) \ {k} = 1 .. k - 1 /\ 1 .. k # {} /\ 1 .. k \in SUBSET DOMAIN seq
    BY <1>1, MaxOfPrefix
  <2>2. k \in 0 .. n /\ k - 1 \in 0 .. n
    BY <1>1
  <2>3. it[1 .. k] = PutDescriptor(it[1 .. k - 1], seq[k])
    BY <1>8, <2>1
  <2> QED
    BY <2>2, <2>3
<1>12. FoldLeft(PutDescriptor, base, seq) = h[n]
  BY <1>1, <1>9
<1> HIDE DEF h
<1> QED
  BY <1>10, <1>11, <1>12 DEF n

\* The descriptors come first, the last one before the others.
LEMMA DescriptorsPut ==
  ASSUME NEW base \in Trace, base.num = 0, NEW seq \in Seq(DataSet), Len(seq) <= BufSize
  PROVE  LET new == FoldLeft(PutDescriptor, base, seq)
             n == Len(seq)
         IN  /\ new \in Trace /\ new.num = n
             /\ \A j \in 1 .. n : new.packets[j].data = IF j = 1 THEN seq[n] ELSE seq[j - 1]
PROOF
<1> DEFINE n == Len(seq)
<1>1. n \in Nat /\ n <= BufSize /\ \A k \in 1 .. n : seq[k] \in DataSet
  BY LenProperties, ElementOfSeq
<1>2. PICK h : /\ h[0] = base
               /\ \A k \in 1 .. n : h[k] = PutDescriptor(h[k - 1], seq[k])
               /\ FoldLeft(PutDescriptor, base, seq) = h[n]
  <2>1. base.num + Len(seq) <= BufSize
    BY <1>1
  <2> QED
    BY <2>1, DescriptorsUnroll
<1> DEFINE Done(k) == /\ h[k] \in Trace /\ h[k].num = k
                      /\ \A j \in 1 .. k : h[k].packets[j].data = IF j = 1 THEN seq[k] ELSE seq[j - 1]
           P == {k \in 0 .. n : Done(k)}
<1> HIDE DEF n
<1>3. 0 \in P
  BY <1>1, <1>2
<1>4. ASSUME NEW k \in 0 .. n - 1, k \in P
      PROVE  k + 1 \in P
  <2> DEFINE m == k + 1
  <2>1. m \in 1 .. n /\ m - 1 = k /\ k \in Nat /\ k < BufSize /\ m \in Nat
    BY <1>1, BufSizeType
  <2>2. Done(k)
    BY <1>4
  <2> HIDE DEF m, P
  <2>3. h[m] = PutDescriptor(h[k], seq[m]) /\ seq[m] \in DataSet
    BY <1>1, <1>2, <2>1
  <2>4. /\ h[m] \in Trace /\ h[m].num = m
        /\ h[m].packets[1].data = seq[m]
        /\ m # 1 => h[m].packets[m] = h[k].packets[1]
        /\ \A i \in 1 .. BufSize : i # 1 /\ i # m => h[m].packets[i] = h[k].packets[i]
    <3>1. h[k] \in Trace /\ h[k].num = k /\ h[k].num < BufSize /\ h[k].num + 1 = m
      BY <2>1, <2>2 DEF m
    <3> QED
      BY <2>3, <3>1, DescriptorPut
  <2>5. ASSUME NEW j \in 1 .. m
        PROVE  h[m].packets[j].data = IF j = 1 THEN seq[m] ELSE seq[j - 1]
    <3>1. CASE j = 1
      BY <2>4, <3>1
    <3>2. CASE j # 1 /\ j = m
      <4>1. 1 \in 1 .. k
        BY <2>1, <3>2
      <4> QED
        BY <2>1, <2>2, <2>4, <3>2, <4>1
    <3>3. CASE j # 1 /\ j # m
      <4>1. j \in 1 .. k /\ j \in 1 .. BufSize
        BY <2>1, <3>3, BufSizeType DEF m
      <4> QED
        BY <2>2, <2>4, <3>3, <4>1
    <3> QED
      BY <3>1, <3>2, <3>3
  <2>6. m \in P
    BY <2>1, <2>4, <2>5 DEF P
  <2> QED
    BY <2>6 DEF m
<1> HIDE DEF P
<1>5. \A k \in 0 .. n : k \in P
  BY <1>1, <1>3, <1>4, UpToInduction
<1>6. n \in P
  BY <1>1, <1>5
<1> QED
  BY <1>2, <1>6 DEF P, n

\* The fold over the spans goes through them one by one.
LEMMA SpansUnroll ==
  ASSUME NEW base \in Trace, NEW seq \in Seq(Nat)
  PROVE  \E h : /\ h[0] = base
                /\ \A k \in 1 .. Len(seq) : h[k] = PutSpan(h[k - 1], seq[k])
                /\ FoldLeft(PutSpan, base, seq) = h[Len(seq)]
PROOF
<1> DEFINE n == Len(seq)
           X == [k \in 0 .. n |-> Trace]
           step == [p \in Trace \X Nat |-> PutSpan(p[1], p[2])]
           Rule(iter) == iter = [s \in SUBSET DOMAIN seq |->
                                   IF s = {} THEN base
                                   ELSE PutSpan(iter[s \ {Max(s)}], seq[Max(s)])]
<1>1. n \in Nat /\ DOMAIN seq = 1 .. n /\ \A k \in 1 .. n : seq[k] \in Nat
  BY LenProperties, ElementOfSeq
<1>2. base \in X[0]
  BY <1>1
<1>3. \A x \in Trace : \A e \in Nat : step[<<x, e>>] = PutSpan(x, e) /\ step[<<x, e>>] \in Trace
  <2>1. \A x \in Trace : \A e \in Nat : PutSpan(x, e) \in Trace
    BY SpanPut
  <2> QED
    BY <2>1
<1>4. \A k \in 0 .. n - 1 :
         /\ \A x \in X[k] : x \in X[k + 1]
         /\ \A x \in X[k] : \A e \in Nat : step[<<x, e>>] \in X[k + 1]
  <2>1. \A k \in 0 .. n - 1 : k \in 0 .. n /\ k + 1 \in 0 .. n
    BY <1>1
  <2> HIDE DEF n, step
  <2> QED
    BY <1>3, <2>1
<1>5. \A k \in 0 .. n : X[k] = Trace
  OBVIOUS
<1> HIDE DEF n, X, step
<1>6. PICK iter : /\ DOMAIN iter = SUBSET DOMAIN seq
                  /\ iter = [s \in DOMAIN iter |-> iter[s]]
                  /\ \A s \in SUBSET DOMAIN seq : FoldsTo(iter, X, step, base, seq, s, n)
  BY <1>2, <1>4, FoldExists DEF n
<1>7. Rule(iter)
  <2>1. ASSUME NEW s \in SUBSET DOMAIN seq
        PROVE  iter[s] = IF s = {} THEN base ELSE PutSpan(iter[s \ {Max(s)}], seq[Max(s)])
    <3>1. CASE s = {}
      BY <1>6, <3>1 DEF FoldsTo
    <3>2. CASE s # {}
      <4>1. /\ Max(s) \in s /\ iter[s \ {Max(s)}] \in X[n - 1]
            /\ iter[s] = step[<<iter[s \ {Max(s)}], seq[Max(s)]>>]
        BY <1>6, <3>2 DEF FoldsTo
      <4>2. n - 1 \in 0 .. n
        <5>1. Max(s) \in 1 .. n
          BY <1>1, <4>1
        <5> QED
          BY <1>1, <5>1
      <4>3. iter[s \ {Max(s)}] \in Trace /\ seq[Max(s)] \in Nat
        BY <1>1, <1>5, <4>1, <4>2
      <4> QED
        BY <1>3, <3>2, <4>1, <4>3
    <3> QED
      BY <3>1, <3>2
  <2> QED
    BY <1>6, <2>1
<1> DEFINE it == CHOOSE i : Rule(i)
<1>8. Rule(it)
  BY <1>7
<1>9. FoldLeft(PutSpan, base, seq) = it[DOMAIN seq]
  BY DEF FoldLeft, MapThenFoldSet
<1> HIDE DEF it
<1> DEFINE h == [k \in 0 .. n |-> it[1 .. k]]
<1>10. h[0] = base
  <2>1. 1 .. 0 = {} /\ 0 \in 0 .. n
    BY <1>1
  <2> QED
    BY <1>8, <2>1
<1>11. \A k \in 1 .. n : h[k] = PutSpan(h[k - 1], seq[k])
  <2> SUFFICES ASSUME NEW k \in 1 .. n
               PROVE  h[k] = PutSpan(h[k - 1], seq[k])
    OBVIOUS
  <2>1. Max(1 .. k) = k /\ (1 .. k) \ {k} = 1 .. k - 1 /\ 1 .. k # {} /\ 1 .. k \in SUBSET DOMAIN seq
    BY <1>1, MaxOfPrefix
  <2>2. k \in 0 .. n /\ k - 1 \in 0 .. n
    BY <1>1
  <2>3. it[1 .. k] = PutSpan(it[1 .. k - 1], seq[k])
    BY <1>8, <2>1
  <2> QED
    BY <2>2, <2>3
<1>12. FoldLeft(PutSpan, base, seq) = h[n]
  BY <1>1, <1>9
<1> HIDE DEF h
<1> QED
  BY <1>10, <1>11, <1>12 DEF n

\* Each span is a begin and an end, in order, behind what there is.
LEMMA SpansPut ==
  ASSUME NEW base \in Trace, NEW seq \in Seq(Nat), base.num + 2 * Len(seq) <= BufSize
  PROVE  LET new == FoldLeft(PutSpan, base, seq)
             n == Len(seq)
             c == base.num
         IN  /\ new \in Trace /\ new.num = c + 2 * n
             /\ \A i \in 1 .. c : new.packets[i] = base.packets[i]
             /\ \A j \in 1 .. n : /\ new.packets[c + 2 * j - 1] = Event("begin", seq[j])
                                  /\ new.packets[c + 2 * j] = Event("end", seq[j])
PROOF
<1> DEFINE n == Len(seq)
           c == base.num
<1>1. n \in Nat /\ c \in Nat /\ c + 2 * n <= BufSize /\ \A k \in 1 .. n : seq[k] \in Nat
  BY LenProperties, ElementOfSeq DEF Trace
<1>2. PICK h : /\ h[0] = base
               /\ \A k \in 1 .. n : h[k] = PutSpan(h[k - 1], seq[k])
               /\ FoldLeft(PutSpan, base, seq) = h[n]
  BY SpansUnroll
<1> DEFINE Done(k) == /\ h[k] \in Trace /\ h[k].num = c + 2 * k
                      /\ \A i \in 1 .. c : h[k].packets[i] = base.packets[i]
                      /\ \A j \in 1 .. k : /\ h[k].packets[c + 2 * j - 1] = Event("begin", seq[j])
                                           /\ h[k].packets[c + 2 * j] = Event("end", seq[j])
           P == {k \in 0 .. n : Done(k)}
<1>3. base \in Trace
  OBVIOUS
<1> HIDE DEF n
<1>4. 0 \in P
  BY <1>1, <1>2
<1>5. ASSUME NEW k \in 0 .. n - 1, k \in P
      PROVE  k + 1 \in P
  <2> DEFINE m == k + 1
             b == c + 2 * k
  <2>1. /\ m \in 1 .. n /\ m - 1 = k /\ k \in Nat /\ m \in Nat /\ b \in Nat
        /\ b + 2 <= BufSize /\ b + 2 = c + 2 * m /\ b + 1 = c + 2 * m - 1
    BY <1>1, BufSizeType
  <2>2. Done(k)
    BY <1>5
  <2>3. h[m] = PutSpan(h[k], seq[m]) /\ seq[m] \in Nat
    BY <1>1, <1>2, <2>1
  <2>4. h[k] \in Trace /\ h[k].num = b
    BY <2>2
  <2>5. /\ h[m] \in Trace /\ h[m].num = b + 2
        /\ h[m].packets[b + 1] = Event("begin", seq[m]) /\ h[m].packets[b + 2] = Event("end", seq[m])
        /\ \A i \in 1 .. b : h[m].packets[i] = h[k].packets[i]
    <3> HIDE DEF m, b
    <3>1. LET new == PutSpan(h[k], seq[m])
              l == h[k].num
          IN  /\ new \in Trace /\ new.num = l + 2
              /\ l + 2 <= BufSize =>
                   /\ new.packets[l + 1] = Event("begin", seq[m]) /\ new.packets[l + 2] = Event("end", seq[m])
                   /\ \A i \in 1 .. l : new.packets[i] = h[k].packets[i]
      BY <2>3, <2>4, SpanPut
    <3> QED
      BY <2>1, <2>3, <2>4, <3>1
  <2>6. \A i \in 1 .. c : i \in 1 .. b /\ h[m].packets[i] = base.packets[i]
    <3>1. \A i \in 1 .. c : i \in 1 .. b
      BY <1>1, <2>1
    <3> QED
      BY <2>2, <2>5, <3>1
  <2>7. ASSUME NEW j \in 1 .. m
        PROVE  /\ h[m].packets[c + 2 * j - 1] = Event("begin", seq[j])
               /\ h[m].packets[c + 2 * j] = Event("end", seq[j])
    <3>1. CASE j = m
      BY <2>1, <2>5, <3>1
    <3>2. CASE j # m
      <4>1. j \in 1 .. k /\ c + 2 * j - 1 \in 1 .. b /\ c + 2 * j \in 1 .. b
        <5>1. j \in Nat /\ 1 <= j /\ j <= k
          BY <1>1, <2>1, <3>2
        <5> HIDE DEF c
        <5> QED
          BY <1>1, <2>1, <5>1
      <4> QED
        BY <2>2, <2>5, <4>1
    <3> QED
      BY <3>1, <3>2
  <2>8. Done(m)
    <3>1. h[m] \in Trace /\ h[m].num = c + 2 * m
      BY <2>1, <2>5
    <3> QED
      BY <2>6, <2>7, <3>1
  <2> QED
    BY <2>1, <2>8
<1> HIDE DEF P
<1>6. \A k \in 0 .. n : k \in P
  BY <1>1, <1>4, <1>5, UpToInduction
<1>7. n \in P
  BY <1>1, <1>6
<1> QED
  BY <1>2, <1>7 DEF P, n

PoolType == [objects : Seq(Vector), puller : [Thread -> Seq(Vector)]]

\* Between two calls of consume.
Rested(p) ==
  /\ p \in PoolType
  /\ \A t \in Thread : p.puller[t] = <<>>
  /\ Len(p.objects) \in {0, 2}

\* A vector that the pool makes is one of default packets.
LEMMA NewVectorType == NewVector \in Vector
PROOF
<1>1. Packet \in PacketSet
  BY DEF Packet, Data, PacketSet, DataSet
<1> QED
  BY <1>1 DEF NewVector, Vector

\* What a puller gives when it holds something.
LEMMA PullHeld ==
  ASSUME NEW p \in PoolType, NEW t \in Thread, p.puller[t] # <<>>
  PROVE  LET got == Pull(p, t, 2, NewVector)
         IN  /\ got.object \in Vector /\ got.pool \in PoolType
             /\ got.pool.objects = p.objects
             /\ Len(got.pool.puller[t]) = Len(p.puller[t]) - 1
             /\ \A u \in Thread : u # t => got.pool.puller[u] = p.puller[u]
PROOF
<1> DEFINE s == p.puller[t]
           n == Len(s)
           rest == SubSeq(s, 1, n - 1)
<1>1. s \in Seq(Vector) /\ s # <<>> /\ p.puller \in [Thread -> Seq(Vector)] /\ p.objects \in Seq(Vector)
  BY DEF PoolType
<1>2. n \in Nat \ {0} /\ s[n] \in Vector /\ \A i \in 1 .. n - 1 : s[i] \in Vector
  <2>1. n \in Nat \ {0} /\ \A i \in 1 .. n : s[i] \in Vector
    BY <1>1, EmptySeq, LenProperties, ElementOfSeq
  <2> HIDE DEF n, s
  <2>2. n \in 1 .. n /\ \A i \in 1 .. n - 1 : i \in 1 .. n
    BY <2>1
  <2> QED
    BY <2>1, <2>2
<1>3. rest \in Seq(Vector) /\ Len(rest) = n - 1
  <2> HIDE DEF n, s
  <2>1. /\ rest \in Seq(Vector)
        /\ Len(rest) = IF 1 <= n - 1 THEN n - 1 - 1 + 1 ELSE 0
    BY <1>1, <1>2, SubSeqProperties
  <2> HIDE DEF rest
  <2> QED
    BY <1>2, <2>1
<1>4. Pull(p, t, 2, NewVector) = [object |-> s[n], pool |-> [p EXCEPT !.puller[t] = rest]]
  BY <1>1 DEF Pull, Last, Front
<1> HIDE DEF rest, n, s
<1>5. [p EXCEPT !.puller[t] = rest] \in PoolType
  BY <1>1, <1>3 DEF PoolType
<1>6. /\ [p EXCEPT !.puller[t] = rest].objects = p.objects
      /\ [p EXCEPT !.puller[t] = rest].puller[t] = rest
      /\ \A u \in Thread : u # t => [p EXCEPT !.puller[t] = rest].puller[u] = p.puller[u]
  BY <1>1 DEF PoolType
<1>7. Len(rest) = Len(p.puller[t]) - 1
  BY <1>3 DEF n, s
<1> DEFINE after == [p EXCEPT !.puller[t] = rest]
           got == Pull(p, t, 2, NewVector)
<1>8. got.object = s[n] /\ got.pool = after
  BY <1>4
<1> HIDE DEF after, got
<1>9. /\ got.object \in Vector /\ got.pool \in PoolType
      /\ got.pool.objects = p.objects
      /\ Len(got.pool.puller[t]) = Len(p.puller[t]) - 1
      /\ \A u \in Thread : u # t => got.pool.puller[u] = p.puller[u]
  BY <1>2, <1>5, <1>6, <1>7, <1>8 DEF after
<1> QED
  BY <1>9 DEF got

\* What it gives when it has to fill up from the pool: it takes all there is.
LEMMA PullFilled ==
  ASSUME NEW p, Rested(p), NEW t \in Thread
  PROVE  LET got == Pull(p, t, 2, NewVector)
         IN  /\ got.object \in Vector /\ got.pool \in PoolType
             /\ got.pool.objects = <<>>
             /\ Len(got.pool.puller[t]) = 1
             /\ \A u \in Thread : u # t => got.pool.puller[u] = <<>>
PROOF
<1> DEFINE len == Len(p.objects)
           old == SubSeq(p.objects, 0 + 1, len)
           new == [i \in 1 .. 2 - (len - 0) |-> NewVector]
           two == old \o new
           filled == BatchPull(p, t, 2, NewVector)
<1>1. p.objects \in Seq(Vector) /\ len \in {0, 2} /\ p.puller \in [Thread -> Seq(Vector)]
  BY DEF Rested, PoolType
<1>2. two \in Seq(Vector) /\ Len(two) = 2
  <2>1. old \in Seq(Vector) /\ Len(old) = len
    <3>1. \A i \in 1 .. len : p.objects[i] \in Vector
      BY <1>1, ElementOfSeq
    <3>2. old = SubSeq(p.objects, 1, len)
      OBVIOUS
    <3> HIDE DEF len
    <3>3. /\ SubSeq(p.objects, 1, len) \in Seq(Vector)
          /\ Len(SubSeq(p.objects, 1, len)) = IF 1 <= len THEN len - 1 + 1 ELSE 0
      BY <1>1, <3>1, SubSeqProperties DEF len
    <3> QED
      BY <1>1, <3>2, <3>3
  <2>2. new \in Seq(Vector) /\ Len(new) = 2 - len
    <3> HIDE DEF len
    <3>1. 2 - (len - 0) = 2 - len /\ 2 - len \in Nat
      <4>1. CASE len = 0
        BY <4>1
      <4>2. CASE len = 2
        BY <4>2
      <4> QED
        BY <1>1, <4>1, <4>2
    <3> QED
      BY <3>1, NewVectorType
  <2> HIDE DEF old, new, len
  <2>3. Len(old) + Len(new) = 2
    <3>1. CASE len = 0
      BY <2>1, <2>2, <3>1
    <3>2. CASE len = 2
      BY <2>1, <2>2, <3>2
    <3> QED
      BY <1>1, <3>1, <3>2
  <2> QED
    BY <2>1, <2>2, <2>3, ConcatProperties
<1>3. filled = [objects |-> SubSeq(p.objects, 1, 0), puller |-> [p.puller EXCEPT ![t] = two]]
  <2> DEFINE kept == IF len > 2 THEN len - 2 ELSE 0
  <2>1. kept = 0
    <3> HIDE DEF len
    <3>1. ~(len > 2)
      BY <1>1
    <3> QED
      BY <3>1
  <2>2. filled = [objects |-> SubSeq(p.objects, 1, kept),
                  puller |-> [p.puller EXCEPT
                                ![t] = SubSeq(p.objects, kept + 1, len)
                                         \o [i \in 1 .. 2 - (len - kept) |-> NewVector]]]
    BY DEF BatchPull
  <2> HIDE DEF kept
  <2> QED
    BY <2>1, <2>2
<1>4. SubSeq(p.objects, 1, 0) = <<>>
  BY <1>1, SubSeqProperties
<1> HIDE DEF two, filled, len, old, new
<1>5. /\ filled \in PoolType /\ filled.objects = <<>> /\ filled.puller[t] = two
      /\ \A u \in Thread : u # t => filled.puller[u] = p.puller[u]
  <2>1. <<>> \in Seq(Vector)
    OBVIOUS
  <2> QED
    BY <1>1, <1>2, <1>3, <1>4, <2>1 DEF PoolType
<1>6. two # <<>>
  BY <1>2
<1>7. Pull(p, t, 2, NewVector) = Pull(filled, t, 2, NewVector)
  BY <1>5, <1>6 DEF Pull, Rested, filled
<1> DEFINE got == Pull(filled, t, 2, NewVector)
<1>8. LET g == Pull(filled, t, 2, NewVector)
      IN  /\ g.object \in Vector /\ g.pool \in PoolType
          /\ g.pool.objects = filled.objects
          /\ Len(g.pool.puller[t]) = Len(filled.puller[t]) - 1
          /\ \A u \in Thread : u # t => g.pool.puller[u] = filled.puller[u]
  BY <1>5, <1>6, PullHeld
<1>9. /\ got.object \in Vector /\ got.pool \in PoolType
      /\ got.pool.objects = filled.objects
      /\ Len(got.pool.puller[t]) = Len(filled.puller[t]) - 1
      /\ \A u \in Thread : u # t => got.pool.puller[u] = filled.puller[u]
  BY <1>8
<1> HIDE DEF got
<1>10. /\ got.object \in Vector /\ got.pool \in PoolType
       /\ got.pool.objects = <<>>
       /\ Len(got.pool.puller[t]) = 1
       /\ \A u \in Thread : u # t => got.pool.puller[u] = <<>>
  BY <1>2, <1>5, <1>9 DEF Rested
<1> QED
  BY <1>7, <1>10 DEF got

\* Two objects recycled one after the other.
LEMMA PairAppended ==
  ASSUME NEW S, NEW x \in S, NEW y \in S
  PROVE  Append(<<x>>, y) = <<x, y>>
PROOF
<1> DEFINE o == <<x>>
           a == Append(o, y)
           b == <<x, y>>
<1>1. o \in Seq(S) /\ Len(o) = 1 /\ o[1] = x
  OBVIOUS
<1>2. b \in Seq(S) /\ Len(b) = 2 /\ b[1] = x /\ b[2] = y
  OBVIOUS
<1> HIDE DEF o, b
<1>3. /\ a \in Seq(S) /\ Len(a) = Len(o) + 1
      /\ \A i \in 1 .. Len(o) : a[i] = o[i]
      /\ a[Len(o) + 1] = y
  <2>1. o \in Seq(S)
    BY <1>1
  <2> QED
    BY <2>1, AppendProperties
<1> HIDE DEF a
<1>4. Len(a) = 2 /\ a[1] = x /\ a[2] = y
  BY <1>1, <1>3
<1>5. \A i \in 1 .. 2 : a[i] = b[i]
  <2>1. \A i \in 1 .. 2 : i = 1 \/ i = 2
    OBVIOUS
  <2> QED
    BY <1>2, <1>4, <2>1
<1>6. a = b
  BY <1>2, <1>3, <1>4, <1>5, SeqEqual
<1> QED
  BY <1>6 DEF a, b, o

\* What a call of consume writes and what it leaves in the pool.
LEMMA ConsumeWrites ==
  ASSUME NEW p, Rested(p), NEW t \in Thread, NEW order \in Seq(DataSet), NEW spans \in Seq(Nat),
         Len(order) + 2 * Len(spans) <= BufSize
  PROVE  LET result == Consume(p, t, order, spans)
             k == Len(order)
             m == Len(spans)
         IN  /\ Rested(result.pool) /\ Len(result.pool.objects) = 2
             /\ result.written \in Seq(PacketSet) /\ Len(result.written) = k + 2 * m
             /\ \A j \in 1 .. k : result.written[j].data = IF j = 1 THEN order[k] ELSE order[j - 1]
             /\ \A j \in 1 .. m : /\ result.written[k + 2 * j - 1] = Event("begin", spans[j])
                                  /\ result.written[k + 2 * j] = Event("end", spans[j])
PROOF
<1> DEFINE k == Len(order)
           m == Len(spans)
           got == Pull(p, t, 2, NewVector)
           blank == [packets |-> got.object, num |-> 0]
           described == FoldLeft(PutDescriptor, blank, order)
           trace == FoldLeft(PutSpan, described, spans)
           next == Pull(got.pool, t, 2, NewVector)
           written == SubSeq(trace.packets, 1, trace.num)
           left == Recycle(Recycle(next.pool, next.object), Restored(trace))
<1>1. Consume(p, t, order, spans) = [written |-> written, pool |-> left]
  BY DEF Consume
<1>2. k \in Nat /\ m \in Nat /\ k + 2 * m <= BufSize /\ BufSize \in Nat
  BY LenProperties, BufSizeType
<1>3. /\ got.object \in Vector /\ got.pool \in PoolType /\ got.pool.objects = <<>>
      /\ Len(got.pool.puller[t]) = 1
      /\ \A u \in Thread : u # t => got.pool.puller[u] = <<>>
  BY PullFilled
<1> HIDE DEF got
<1>4. blank \in Trace /\ blank.num = 0
  BY <1>3 DEF Trace
<1> HIDE DEF blank
<1>5. /\ described \in Trace /\ described.num = k
      /\ \A j \in 1 .. k : described.packets[j].data = IF j = 1 THEN order[k] ELSE order[j - 1]
  <2>1. k <= BufSize
    BY <1>2
  <2> QED
    BY <1>4, <2>1, DescriptorsPut
<1> HIDE DEF described
<1>6. /\ trace \in Trace /\ trace.num = k + 2 * m
      /\ \A i \in 1 .. k : trace.packets[i] = described.packets[i]
      /\ \A j \in 1 .. m : /\ trace.packets[k + 2 * j - 1] = Event("begin", spans[j])
                           /\ trace.packets[k + 2 * j] = Event("end", spans[j])
  <2>1. described.num + 2 * m <= BufSize
    BY <1>2, <1>5
  <2>2. LET new == FoldLeft(PutSpan, described, spans)
            c == described.num
        IN  /\ new \in Trace /\ new.num = c + 2 * m
            /\ \A i \in 1 .. c : new.packets[i] = described.packets[i]
            /\ \A j \in 1 .. m : /\ new.packets[c + 2 * j - 1] = Event("begin", spans[j])
                                 /\ new.packets[c + 2 * j] = Event("end", spans[j])
    BY <1>5, <2>1, SpansPut
  <2> QED
    BY <1>5, <2>2
<1> HIDE DEF trace
<1>7. trace.packets \in Vector
  BY <1>6 DEF Trace
<1>8. /\ written \in Seq(PacketSet) /\ Len(written) = k + 2 * m
      /\ \A i \in 1 .. k + 2 * m : written[i] = trace.packets[i]
  <2> DEFINE n == k + 2 * m
  <2>1. n \in Nat /\ n <= BufSize /\ trace.num = n
    BY <1>2, <1>6
  <2> HIDE DEF n
  <2>2. /\ trace.packets \in Seq(PacketSet)
        /\ \A i \in 1 .. n : trace.packets[i] \in PacketSet
    BY <1>2, <1>7, <2>1 DEF Vector
  <2>3. /\ SubSeq(trace.packets, 1, n) \in Seq(PacketSet)
        /\ Len(SubSeq(trace.packets, 1, n)) = IF 1 <= n THEN n - 1 + 1 ELSE 0
        /\ \A i \in 1 .. n - 1 + 1 : SubSeq(trace.packets, 1, n)[i] = trace.packets[1 + i - 1]
    BY <2>1, <2>2, SubSeqProperties
  <2>4. n - 1 + 1 = n /\ (~(1 <= n) => n = 0) /\ \A i \in 1 .. n : 1 + i - 1 = i
    BY <2>1
  <2> QED
    BY <2>1, <2>3, <2>4 DEF n
<1> HIDE DEF written
<1>9. \A j \in 1 .. k : written[j].data = IF j = 1 THEN order[k] ELSE order[j - 1]
  <2>1. \A j \in 1 .. k : j \in 1 .. k + 2 * m
    BY <1>2
  <2> QED
    BY <1>5, <1>6, <1>8, <2>1
<1>10. \A j \in 1 .. m : /\ written[k + 2 * j - 1] = Event("begin", spans[j])
                         /\ written[k + 2 * j] = Event("end", spans[j])
  <2>1. \A j \in 1 .. m : k + 2 * j - 1 \in 1 .. k + 2 * m /\ k + 2 * j \in 1 .. k + 2 * m
    BY <1>2
  <2> QED
    BY <1>6, <1>8, <2>1
<1>11. Rested(left) /\ Len(left.objects) = 2
  <2>1. got.pool.puller[t] # <<>>
    <3>1. SUFFICES ASSUME got.pool.puller[t] = <<>> PROVE FALSE
      OBVIOUS
    <3>2. Len(got.pool.puller[t]) = 1
      BY <1>3
    <3> QED
      BY <3>1, <3>2
  <2>2. /\ next.object \in Vector /\ next.pool \in PoolType
        /\ next.pool.objects = <<>>
        /\ Len(next.pool.puller[t]) = 0
        /\ \A u \in Thread : u # t => next.pool.puller[u] = <<>>
    <3>1. LET g == Pull(got.pool, t, 2, NewVector)
          IN  /\ g.object \in Vector /\ g.pool \in PoolType
              /\ g.pool.objects = got.pool.objects
              /\ Len(g.pool.puller[t]) = Len(got.pool.puller[t]) - 1
              /\ \A u \in Thread : u # t => g.pool.puller[u] = got.pool.puller[u]
      BY <1>3, <2>1, PullHeld
    <3> QED
      BY <1>3, <3>1
  <2> HIDE DEF next
  <2>3. next.pool.puller[t] = <<>>
    BY <2>2, EmptySeq DEF PoolType
  <2>4. left = [next.pool EXCEPT !.objects = <<next.object, trace.packets>>]
    <3> DEFINE one == Recycle(next.pool, next.object)
    <3>1. Append(next.pool.objects, next.object) = <<next.object>>
      BY <2>2
    <3>2. one = [next.pool EXCEPT !.objects = <<next.object>>]
      BY <3>1 DEF Recycle
    <3>3. one.objects = <<next.object>>
      BY <2>2, <3>2 DEF PoolType
    <3>4. left = [one EXCEPT !.objects = Append(one.objects, trace.packets)]
      BY DEF Recycle, Restored
    <3> HIDE DEF one
    <3>5. Append(one.objects, trace.packets) = <<next.object, trace.packets>>
      BY <1>7, <2>2, <3>3, PairAppended
    <3>6. left = [one EXCEPT !.objects = <<next.object, trace.packets>>]
      BY <3>4, <3>5
    <3> QED
      BY <2>2, <3>2, <3>6 DEF PoolType
  <2>5. <<next.object, trace.packets>> \in Seq(Vector) /\ Len(<<next.object, trace.packets>>) = 2
    BY <1>7, <2>2
  <2>6. /\ left \in PoolType /\ left.puller = next.pool.puller
        /\ left.objects = <<next.object, trace.packets>>
    BY <2>2, <2>4, <2>5 DEF PoolType
  <2> HIDE DEF left
  <2> QED
    BY <2>2, <2>3, <2>5, <2>6 DEF Rested
<1> QED
  BY <1>1, <1>8, <1>9, <1>10, <1>11

-----------------------------------------------------------------------------
(* Types, locks and who collects. *)

Shard == 0 .. Shards - 1

Batch == {b \in Seq(Span) : Len(b) <= BatchSize}

Seen == [recorded : SUBSET Span, lost : SUBSET Span, arrived : Seq(Batch), stopped : BOOLEAN,
         asked : [Thread -> SUBSET Span], due : SUBSET Span, flushes : Nat]

ThreadType ==
  /\ enabled \in BOOLEAN
  /\ tid \in [Thread -> ThreadId]
  /\ thread \in [Thread -> ThreadState]
  /\ live \in [Thread -> SUBSET Span]
  /\ owner \in Seq(Thread) /\ Len(owner) <= MaxSpan
  /\ initialized \in [Thread -> BOOLEAN]
  /\ seen \in Seen

QueueType ==
  /\ queue \in [Shard -> Seq(Span)]
  /\ \A s \in Shard : Len(queue[s]) < BatchSize
  /\ holder \in [Shard -> Thread \cup {NoThread}]
  /\ dropping \in [Thread -> 0 .. MaxSpan]
  /\ sending \in [Thread -> Seq(Batch)]
  /\ \A t \in Thread : Len(sending[t]) <= 1
  /\ shardAt \in [Thread -> 0 .. Shards]
  /\ chan \in [Thread -> Channels(Batch)]
  /\ \A t \in Thread : Len(chan[t].ring) <= Capacity /\ chan[t].pending = <<>>

ConsumerType ==
  /\ rxs \in Seq(Thread) /\ IsInjective(rxs)
  /\ consumer \in Thread \cup {NoThread, Loop}
  /\ at \in 0 .. Len(rxs) + 1
  /\ buffer \in Buffer(Batch) /\ WellFormed(buffer, BufferCapacity)
  /\ writing \in Seq(Batch)
  /\ flushedOnce \in BOOLEAN

\* A shard's lock is held over a send and no longer.
LockInv ==
  /\ \A s \in Shard : holder[s] # NoThread =>
        sending[holder[s]] # <<>> /\ thread[holder[s]] \in {"send", "flush"}
  /\ \A t \in Thread : sending[t] # <<>> => \E s \in Shard : holder[s] = t
  /\ \A t \in Thread : thread[t] = "flush" /\ sending[t] # <<>> => shardAt[t] < Shards
  /\ \A t \in Thread : thread[t] \in {"wait", "write"} => shardAt[t] = Shards
  /\ \A t \in Thread : thread[t] = "push" => dropping[t] # 0

\* Who collects holds the list of receivers; a flush that writes, only the consumer.
ConsumerInv ==
  /\ consumer = NoThread => at = 0
  /\ consumer = Loop => at # 0
  /\ consumer \in Thread => thread[consumer] = IF at = 0 THEN "write" ELSE "wait"
  /\ \A t \in Thread : thread[t] = "write" => consumer = t
  /\ writing # <<>> => consumer \in Thread /\ at = 0
  /\ \A t \in Thread : chan[t].ring # <<>> => t \in ToSet(rxs)

FlowInv ==
  ThreadType /\ QueueType /\ ConsumerType /\ LockInv /\ ConsumerInv /\ TracingComesBack

-----------------------------------------------------------------------------
(* The pool and the descriptors. *)

ThreadDescriptors == {ThreadDescriptor(t) : t \in Thread}

SourceInv ==
  /\ Rested(pool)
  /\ output \in Seq(PacketSet)
  /\ descriptors \in [DOMAIN descriptors -> BOOLEAN]
  /\ \A d \in DOMAIN descriptors :
        d \in ThreadDescriptors \/ (flushedOnce /\ d.kind = "process" /\ d \in DataSet)
  /\ \A d, e \in DOMAIN descriptors : d.kind = "process" /\ e.kind = "process" => d = e
  /\ \A t \in Thread : initialized[t] => ThreadDescriptor(t) \in DOMAIN descriptors
  /\ \A x \in 1 .. Len(owner) : initialized[owner[x]]
  /\ \A d \in DOMAIN descriptors : descriptors[d] <=> d \in Datas
  /\ \A d \in Datas : d.kind \in {"process", "thread"} => d \in DOMAIN descriptors

-----------------------------------------------------------------------------
(* Where a span is. *)

Inside(x, kind, of) ==
  \/ kind = "live" /\ of \in Thread /\ x \in live[of]
  \/ kind = "drop" /\ of \in Thread /\ x = dropping[of] /\ x # 0
  \/ kind = "queue" /\ of \in Shard /\ x \in ToSet(queue[of])
  \/ kind = "send" /\ of \in Thread /\ x \in SpansOf(sending[of])
  \/ kind = "ring" /\ of \in Thread /\ x \in SpansOf(chan[of].ring)
  \/ kind = "buffer" /\ of = 0 /\ x \in SpansOf(Drained(buffer))
  \/ kind = "writing" /\ of = 0 /\ x \in SpansOf(writing)
  \/ kind = "output" /\ of = 0 /\ x \in WrittenSpans

\* No span twice in a batch, and in a sequence of batches.
NoneTwice(batch) == \A i, j \in DOMAIN batch : batch[i] = batch[j] => i = j

Disjoint(batches) ==
  /\ \A i \in DOMAIN batches : NoneTwice(batches[i])
  /\ \A i, j \in DOMAIN batches : i # j => ToSet(batches[i]) \cap ToSet(batches[j]) = {}

OncePerPlace ==
  /\ \A s \in Shard : NoneTwice(queue[s])
  /\ \A t \in Thread : Disjoint(sending[t]) /\ Disjoint(chan[t].ring)
  /\ Disjoint(Drained(buffer)) /\ Disjoint(writing)

\* A span is in one place at a time; it has been created, and it is recorded
\* when it leaves the hands of its thread.
OnePlace ==
  \A x, k, l, o, p : Inside(x, k, o) /\ Inside(x, l, p) => k = l /\ o = p

Created ==
  /\ \A x, k, o : Inside(x, k, o) => x \in 1 .. Len(owner)
  /\ \A x, o : Inside(x, "live", o) \/ Inside(x, "drop", o) => x \notin seen.recorded
  /\ seen.recorded \subseteq 1 .. Len(owner)

\* What is recorded is somewhere.
Accounted == \A x \in seen.recorded : x \in seen.lost \/ \E k, o : Inside(x, k, o)

PlaceInv == OncePerPlace /\ OnePlace /\ Created /\ Accounted

-----------------------------------------------------------------------------
(* How far a flush has come. *)

\* The flush of t has taken shard s.
Taken(t, s) ==
  /\ thread[t] \in {"flush", "wait", "write"}
  /\ s < shardAt[t] \/ (s = shardAt[t] /\ sending[t] # <<>>)

\* A flush in progress asks for what was recorded when it was called.
AskedEarly ==
  /\ \A t \in Thread : seen.asked[t] \subseteq seen.recorded
  /\ \A t \in Thread : seen.asked[t] # {} => thread[t] \in {"flush", "wait", "write"}

\* None of it is left in a shard the flush has taken, nor on the way from there
\* in the hands of another thread.
AskedTaken ==
  \A t \in Thread : \A s \in Shard : Taken(t, s) =>
     /\ ToSet(queue[s]) \cap seen.asked[t] = {}
     /\ holder[s] \notin {t, NoThread} => SpansOf(sending[holder[s]]) \cap seen.asked[t] = {}

\* Nor in a channel the flush has drained.
AskedDrained ==
  consumer \in Thread /\ at # 0 =>
     \A i \in 1 .. at - 1 : SpansOf(chan[rxs[i]].ring) \cap seen.asked[consumer] = {}

\* When the flush writes, it has all of it that is not written or lost.
AskedWritten ==
  consumer \in Thread /\ at = 0 =>
     seen.asked[consumer] \subseteq SpansOf(writing) \cup WrittenSpans \cup seen.lost

AskedInv == AskedEarly /\ AskedTaken /\ AskedDrained /\ AskedWritten /\ FlushComplete

-----------------------------------------------------------------------------
(* What is written. *)

OutputInv == WrittenOnce /\ EventsPaired /\ DescribedFirst

-----------------------------------------------------------------------------
(* Batches and channels of them. *)

\* What the constants are, and the numbers of shards and spans.
LEMMA Numbers ==
  /\ Shards \in Nat \ {0} /\ MaxSpan \in Nat /\ BatchSize \in Nat \ {0}
  /\ Span \subseteq Nat \ {0} /\ Shard \subseteq Nat
  /\ NoThread \notin Thread /\ Loop \notin Thread /\ Loop # NoThread
PROOF
  BY RtAssumption, BatchSizeAssumption DEF Span, Shard

\* A thread has one of the shards.
LEMMA ShardType ==
  ASSUME tid \in [Thread -> ThreadId], NEW t \in Thread
  PROVE  ShardOf(t) \in Shard
PROOF
<1>1. tid[t] \in Nat /\ Shards \in Nat \ {0}
  BY RtAssumption
<1> DEFINE n == tid[t]
<1> HIDE DEF n
<1>2. n \in Nat => n % Shards \in 0 .. Shards - 1
  BY <1>1
<1> QED
  BY <1>1, <1>2 DEF ShardOf, Shard, n

\* The spans of a batch, and of batches.
LEMMA SpansType ==
  /\ \A b \in Batch : ToSet(b) \subseteq Span
  /\ \A bs \in Seq(Batch) : SpansOf(bs) \subseteq Span
PROOF
<1>1. ASSUME NEW b \in Batch
      PROVE  ToSet(b) \subseteq Span
  BY LenProperties, ElementOfSeq DEF Batch, ToSet
<1>2. ASSUME NEW bs \in Seq(Batch)
      PROVE  SpansOf(bs) \subseteq Span
  <2>1. DOMAIN bs = 1 .. Len(bs) /\ \A i \in 1 .. Len(bs) : bs[i] \in Batch
    BY LenProperties, ElementOfSeq
  <2> QED
    BY <1>1, <2>1 DEF SpansOf
<1> QED
  BY <1>1, <1>2

\* What the updates of a channel do to it.
LEMMA ChannelUpdates ==
  ASSUME NEW ch \in Channels(Batch), ch.pending = <<>>
  PROVE  /\ Abandon(ch) \in Channels(Batch) /\ Abandon(ch).ring = ch.ring
         /\ Abandon(ch).pending = <<>>
         /\ \A b \in Batch : /\ Push(ch, b) \in Channels(Batch)
                             /\ Push(ch, b).ring = Append(ch.ring, b)
                             /\ Len(Push(ch, b).ring) = Len(ch.ring) + 1
                             /\ Push(ch, b).pending = <<>>
         /\ ch.ring # <<>> => /\ Pop(ch) \in Channels(Batch) /\ Pop(ch).ring = Tail(ch.ring)
                              /\ Len(Pop(ch).ring) = Len(ch.ring) - 1
                              /\ Pop(ch).pending = <<>>
PROOF
<1>1. ch.ring \in Seq(Batch)
  BY DEF Channels
<1>2. \A b \in Batch : Append(ch.ring, b) \in Seq(Batch) /\ Len(Append(ch.ring, b)) = Len(ch.ring) + 1
  BY <1>1, AppendProperties
<1>3. ch.ring # <<>> => Tail(ch.ring) \in Seq(Batch) /\ Len(Tail(ch.ring)) = Len(ch.ring) - 1
  BY <1>1, HeadTailProperties
<1>4. /\ Abandon(ch) \in Channels(Batch) /\ Abandon(ch).ring = ch.ring
      /\ Abandon(ch).pending = <<>>
  BY DEF Abandon, Channels
<1>5. ASSUME NEW b \in Batch
      PROVE  /\ Push(ch, b) \in Channels(Batch)
             /\ Push(ch, b).ring = Append(ch.ring, b)
             /\ Push(ch, b).pending = <<>>
  BY <1>2 DEF Push, Channels
<1>6. ASSUME ch.ring # <<>>
      PROVE  /\ Pop(ch) \in Channels(Batch) /\ Pop(ch).ring = Tail(ch.ring)
             /\ Pop(ch).pending = <<>>
  BY <1>3, <1>6 DEF Pop, Channels
<1> QED
  BY <1>2, <1>3, <1>4, <1>5, <1>6

\* A thread is registered once.
LEMMA Registered ==
  ASSUME NEW r \in Seq(Thread), IsInjective(r), NEW t \in Thread, t \notin ToSet(r)
  PROVE  /\ Append(r, t) \in Seq(Thread) /\ IsInjective(Append(r, t))
         /\ Len(Append(r, t)) = Len(r) + 1
         /\ ToSet(Append(r, t)) = ToSet(r) \cup {t}
PROOF
<1> DEFINE n == Len(r)
           a == Append(r, t)
<1>1. n \in Nat /\ DOMAIN r = 1 .. n
  BY LenProperties
<1>2. /\ a \in Seq(Thread) /\ Len(a) = n + 1
      /\ \A i \in 1 .. n : a[i] = r[i]
      /\ a[n + 1] = t
  BY AppendProperties
<1>3. DOMAIN a = 1 .. n + 1
  BY <1>2, LenProperties
<1> HIDE DEF n, a
<1>4. \A i \in 1 .. n + 1 : i \in 1 .. n \/ i = n + 1
  BY <1>1
<1>5. 1 .. n \subseteq 1 .. n + 1 /\ n + 1 \in 1 .. n + 1
  BY <1>1
<1>6. ToSet(a) = ToSet(r) \cup {t}
  BY <1>1, <1>2, <1>3, <1>4, <1>5, Zenon DEF ToSet
<1>7. \A i \in 1 .. n : r[i] # t
  BY <1>1 DEF ToSet
<1>8. ASSUME NEW i \in 1 .. n + 1, NEW j \in 1 .. n + 1, a[i] = a[j]
      PROVE  i = j
  <2>1. CASE i \in 1 .. n /\ j \in 1 .. n
    BY <1>1, <1>2, <1>8, <2>1 DEF IsInjective
  <2>2. CASE i \in 1 .. n /\ j = n + 1
    BY <1>2, <1>7, <1>8, <2>2
  <2>3. CASE i = n + 1 /\ j \in 1 .. n
    BY <1>2, <1>7, <1>8, <2>3
  <2> QED
    BY <1>4, <2>1, <2>2, <2>3
<1>9. IsInjective(a)
  BY <1>3, <1>8 DEF IsInjective
<1> QED
  BY <1>2, <1>6, <1>9 DEF a, n

\* A buffer drained is a sequence of batches; a new one is right.
LEMMA BufferTypes ==
  ASSUME NEW buf \in Buffer(Batch), WellFormed(buf, BufferCapacity)
  PROVE  /\ Drained(buf) \in Seq(Batch) /\ Len(Drained(buf)) = Len(buf.inner)
         /\ Overwritten(buf, BufferCapacity) \in Seq(Batch)
         /\ \A b \in Batch : /\ PushOverwrite(buf, b, BufferCapacity) \in Buffer(Batch)
                             /\ WellFormed(PushOverwrite(buf, b, BufferCapacity), BufferCapacity)
PROOF
<1> DEFINE c == BufferCapacity
           n == Len(buf.inner)
<1>1. c \in Nat \ {0} /\ buf.inner \in Seq(Batch) /\ buf.head \in Nat /\ n \in Nat
  BY CapacityPositive, LenProperties DEF Buffer
<1>2. n <= c /\ buf.head < c /\ (n < c => buf.head = 0)
  BY <1>1 DEF WellFormed
<1> HIDE DEF c
<1>3. buf.head <= n
  BY <1>1, <1>2
<1>4. Drained(buf) \in Seq(Batch) /\ Len(Drained(buf)) = n
  BY <1>3, DrainedElements
<1>5. Overwritten(buf, c) \in Seq(Batch)
  <2>1. CASE n < c
    BY <2>1 DEF Overwritten
  <2>2. CASE ~(n < c)
    <3>1. buf.head + 1 \in 1 .. n
      <4> HIDE DEF n
      <4> QED
        BY <1>1, <1>2, <2>2
    <3>2. buf.inner[buf.head + 1] \in Batch
      BY <1>1, <3>1, ElementOfSeq
    <3> QED
      BY <2>2, <3>2 DEF Overwritten
  <2> QED
    BY <2>1, <2>2
<1>6. ASSUME NEW b \in Batch
      PROVE  PushOverwrite(buf, b, c) \in Buffer(Batch) /\ WellFormed(PushOverwrite(buf, b, c), c)
  <2>1. WellFormed(buf, c)
    BY DEF c
  <2>2. LET new == PushOverwrite(buf, b, c)
        IN  /\ new \in Buffer(Batch) /\ WellFormed(new, c)
            /\ Drained(new) = Newest(Append(Drained(buf), b), c)
    BY <1>1, <2>1, PushDrained
  <2> QED
    BY <2>2
<1> QED
  BY <1>4, <1>5, <1>6 DEF c, n

\* A new buffer is a buffer of batches.
LEMMA NewBufferType ==
  NewBuffer \in Buffer(Batch) /\ WellFormed(NewBuffer, BufferCapacity)
PROOF
<1>1. NewBuffer.inner = <<>> /\ NewBuffer.head = 0 /\ <<>> \in Seq(Batch) /\ Len(<<>>) = 0
  BY DEF NewBuffer
<1>2. NewBuffer \in Buffer(Batch)
  BY DEF NewBuffer, Buffer
<1> QED
  BY <1>1, <1>2, CapacityPositive DEF WellFormed

-----------------------------------------------------------------------------
(* FlowInv: one lemma for each action. *)

\* What the program starts with.
LEMMA FlowInit == Init => FlowInv
PROOF
<1> SUFFICES ASSUME Init
             PROVE  FlowInv
  OBVIOUS
<1> USE DEF Init
<1>1. Len(<<>>) = 0 /\ <<>> \in Seq(Thread) /\ <<>> \in Seq(Span) /\ <<>> \in Seq(Batch)
  OBVIOUS
<1>2. ThreadType
  <2>1. seen \in Seen
    BY <1>1, Numbers DEF Seen
  <2>2. thread \in [Thread -> ThreadState] /\ live \in [Thread -> SUBSET Span]
        /\ initialized \in [Thread -> BOOLEAN] /\ tid \in [Thread -> ThreadId]
    BY DEF ThreadState
  <2>3. owner \in Seq(Thread) /\ Len(owner) <= MaxSpan
    BY <1>1, Numbers
  <2> QED
    BY <2>1, <2>2, <2>3 DEF ThreadType
<1>3. QueueType
  <2>1. NewChannel \in Channels(Batch) /\ NewChannel.ring = <<>> /\ NewChannel.pending = <<>>
    BY DEF NewChannel, Channels
  <2> QED
    BY <1>1, <2>1, Numbers, CapacityAssumption DEF QueueType, Shard
<1>4. ConsumerType
  <2>1. IsInjective(<<>>)
    BY DEF IsInjective
  <2>2. at \in 0 .. Len(rxs) + 1
    BY <1>1
  <2>3. buffer \in Buffer(Batch) /\ WellFormed(buffer, BufferCapacity)
    BY NewBufferType
  <2> QED
    BY <1>1, <2>1, <2>2, <2>3 DEF ConsumerType
<1>5. LockInv
  BY Numbers DEF LockInv, Shard
<1>6. ConsumerInv
  <2>1. NewChannel.ring = <<>>
    BY DEF NewChannel
  <2> QED
    BY <2>1, Numbers DEF ConsumerInv
<1>7. TracingComesBack
  BY DEF TracingComesBack
<1> QED
  BY <1>2, <1>3, <1>4, <1>5, <1>6, <1>7 DEF FlowInv

\* Nothing happens.
LEMMA FlowStutter == ASSUME FlowInv, UNCHANGED vars PROVE FlowInv'
PROOF
  BY DEF FlowInv, ThreadType, QueueType, ConsumerType, LockInv, ConsumerInv, TracingComesBack,
         vars, BufferCapacity

\* A thread starts.
LEMMA FlowSpawn ==
  ASSUME FlowInv, NEW t \in Thread, Spawn(t)
  PROVE  FlowInv'
PROOF
<1> USE DEF FlowInv, spanVars, queueVars, bufVars, writeVars
<1>1. ThreadType'
  BY RtAssumption DEF Spawn, ThreadType, Seen, ThreadState, LockInv, ConsumerInv
<1>2. QueueType'
  BY RtAssumption DEF Spawn, QueueType, Channels, LockInv, ConsumerInv
<1>3. ConsumerType'
  BY RtAssumption DEF Spawn, ConsumerType, LockInv, ConsumerInv
<1>4. LockInv'
  BY RtAssumption DEF Spawn, LockInv, ThreadState, ThreadType, QueueType, ConsumerType
<1>5. ConsumerInv'
  BY RtAssumption DEF Spawn, ConsumerInv, ThreadState, ThreadType, QueueType, ConsumerType
<1>6. TracingComesBack'
  BY RtAssumption DEF Spawn, TracingComesBack, ThreadType, ConsumerType, ConsumerInv, Seen,
     ThreadState
<1> QED
  BY <1>1, <1>2, <1>3, <1>4, <1>5, <1>6

\* A thread ends.
LEMMA FlowExit ==
  ASSUME FlowInv, NEW t \in Thread, Exit(t)
  PROVE  FlowInv'
PROOF
<1> USE DEF FlowInv, spanVars, queueVars, bufVars, writeVars
<1>1. ThreadType'
  BY RtAssumption DEF Exit, Abandon, Channels, ThreadType, Seen, ThreadState, LockInv, ConsumerInv
<1>2. QueueType'
  <2>1. Abandon(chan[t]) \in Channels(Batch) /\ Abandon(chan[t]).ring = chan[t].ring
        /\ Abandon(chan[t]).pending = <<>>
    BY ChannelUpdates DEF QueueType
  <2> QED
    BY <2>1 DEF Exit, QueueType
<1>3. ConsumerType'
  BY RtAssumption DEF Exit, Abandon, Channels, ConsumerType, LockInv, ConsumerInv
<1>4. LockInv'
  BY RtAssumption DEF Exit, Abandon, Channels, LockInv, ThreadState, ThreadType, QueueType,
     ConsumerType
<1>5. ConsumerInv'
  BY RtAssumption, SMTT(30) DEF Exit, Abandon, Channels, ConsumerInv, ThreadState, ThreadType, QueueType,
     ConsumerType
<1>6. TracingComesBack'
  BY RtAssumption DEF Exit, Abandon, Channels, TracingComesBack, ThreadType, ConsumerType,
     ConsumerInv, Seen, ThreadState
<1> QED
  BY <1>1, <1>2, <1>3, <1>4, <1>5, <1>6

\* Tracing is turned on.
LEMMA FlowStart ==
  ASSUME FlowInv, NEW t \in Thread, Start(t)
  PROVE  FlowInv'
PROOF
<1> USE DEF FlowInv, spanVars, queueVars, bufVars, writeVars
<1>1. ThreadType'
  BY RtAssumption DEF Start, ThreadType, Seen, ThreadState, LockInv, ConsumerInv
<1>2. QueueType'
  BY RtAssumption DEF Start, QueueType, Channels, LockInv, ConsumerInv
<1>3. ConsumerType'
  BY RtAssumption DEF Start, ConsumerType, LockInv, ConsumerInv
<1>4. LockInv'
  BY RtAssumption DEF Start, LockInv, ThreadState, ThreadType, QueueType, ConsumerType
<1>5. ConsumerInv'
  BY RtAssumption DEF Start, ConsumerInv, ThreadState, ThreadType, QueueType, ConsumerType
<1>6. TracingComesBack'
  BY RtAssumption DEF Start, TracingComesBack, ThreadType, ConsumerType, ConsumerInv, Seen,
     ThreadState
<1> QED
  BY <1>1, <1>2, <1>3, <1>4, <1>5, <1>6

\* Tracing is turned off.
LEMMA FlowStop ==
  ASSUME FlowInv, NEW t \in Thread, Stop(t)
  PROVE  FlowInv'
PROOF
<1> USE DEF FlowInv, spanVars, queueVars, bufVars, writeVars
<1>1. ThreadType'
  BY RtAssumption DEF Stop, ThreadType, Seen, ThreadState, LockInv, ConsumerInv
<1>2. QueueType'
  BY RtAssumption DEF Stop, QueueType, Channels, LockInv, ConsumerInv
<1>3. ConsumerType'
  BY RtAssumption DEF Stop, ConsumerType, LockInv, ConsumerInv
<1>4. LockInv'
  BY RtAssumption DEF Stop, LockInv, ThreadState, ThreadType, QueueType, ConsumerType
<1>5. ConsumerInv'
  BY RtAssumption DEF Stop, ConsumerInv, ThreadState, ThreadType, QueueType, ConsumerType
<1>6. TracingComesBack'
  BY RtAssumption DEF Stop, TracingComesBack, ThreadType, ConsumerType, ConsumerInv, Seen,
     ThreadState
<1> QED
  BY <1>1, <1>2, <1>3, <1>4, <1>5, <1>6

\* A span is created.
LEMMA FlowNewSpan ==
  ASSUME FlowInv, NEW t \in Thread, NewSpan(t)
  PROVE  FlowInv'
PROOF
<1> USE DEF FlowInv, spanVars, queueVars, bufVars, writeVars
<1>1. ThreadType'
  <2>1. NextSpan \in Span /\ Len(owner) \in Nat
    BY Numbers, LenProperties DEF NewSpan, NextSpan, ThreadType, Span
  <2>2. owner' \in Seq(Thread) /\ Len(owner') <= MaxSpan
    <3>1. owner \in Seq(Thread) /\ owner' = Append(owner, t) /\ NextSpan <= MaxSpan
      BY DEF NewSpan, ThreadType
    <3> QED
      BY <3>1, AppendProperties DEF NextSpan
  <2> QED
    BY <2>1, <2>2 DEF NewSpan, ThreadType, Seen
<1>2. QueueType'
  BY RtAssumption DEF NewSpan, QueueType, Channels, LockInv, ConsumerInv
<1>3. ConsumerType'
  BY RtAssumption DEF NewSpan, ConsumerType, LockInv, ConsumerInv
<1>4. LockInv'
  BY RtAssumption DEF NewSpan, LockInv, ThreadState, ThreadType, QueueType, ConsumerType
<1>5. ConsumerInv'
  BY RtAssumption DEF NewSpan, ConsumerInv, ThreadState, ThreadType, QueueType, ConsumerType
<1>6. TracingComesBack'
  BY RtAssumption DEF NewSpan, TracingComesBack, ThreadType, ConsumerType, ConsumerInv, Seen,
     ThreadState
<1> QED
  BY <1>1, <1>2, <1>3, <1>4, <1>5, <1>6

\* A thread dies of the descriptor of another.
LEMMA FlowNewSpanPanics ==
  ASSUME FlowInv, NEW t \in Thread, NewSpanPanics(t)
  PROVE  FlowInv'
PROOF
<1> USE DEF FlowInv, spanVars, queueVars, bufVars, writeVars
<1>1. ThreadType'
  BY RtAssumption DEF NewSpanPanics, Abandon, Channels, ThreadType, Seen, ThreadState, LockInv,
     ConsumerInv
<1>2. QueueType'
  <2>1. Abandon(chan[t]) \in Channels(Batch) /\ Abandon(chan[t]).ring = chan[t].ring
        /\ Abandon(chan[t]).pending = <<>>
    BY ChannelUpdates DEF QueueType
  <2> QED
    BY <2>1 DEF NewSpanPanics, QueueType
<1>3. ConsumerType'
  BY RtAssumption DEF NewSpanPanics, Abandon, Channels, ConsumerType, LockInv, ConsumerInv
<1>4. LockInv'
  BY RtAssumption DEF NewSpanPanics, Abandon, Channels, LockInv, ThreadState, ThreadType,
     QueueType, ConsumerType
<1>5. ConsumerInv'
  <2>1. Abandon(chan[t]).ring = chan[t].ring
    BY ChannelUpdates DEF QueueType
  <2>2. \A u \in Thread : chan'[u].ring = chan[u].ring
    BY <2>1 DEF NewSpanPanics, QueueType
  <2> QED
    BY <2>2, Numbers DEF NewSpanPanics, ConsumerInv, ConsumerType, ThreadType
<1>6. TracingComesBack'
  BY RtAssumption DEF NewSpanPanics, Abandon, Channels, TracingComesBack, ThreadType,
     ConsumerType, ConsumerInv, Seen, ThreadState
<1> QED
  BY <1>1, <1>2, <1>3, <1>4, <1>5, <1>6

\* A span is dropped.
LEMMA FlowDropSpan ==
  ASSUME FlowInv, NEW t \in Thread, NEW s \in Span, DropSpan(t, s)
  PROVE  FlowInv'
PROOF
<1> USE DEF FlowInv, spanVars, queueVars, bufVars, writeVars
<1>1. ThreadType'
  BY RtAssumption DEF DropSpan, ThreadType, Seen, ThreadState, LockInv, ConsumerInv
<1>2. QueueType'
  <2>1. dropping' \in [Thread -> 0 .. MaxSpan]
    BY Numbers DEF DropSpan, QueueType, Span
  <2> QED
    BY <2>1 DEF DropSpan, QueueType
<1>3. ConsumerType'
  BY RtAssumption DEF DropSpan, ConsumerType, LockInv, ConsumerInv
<1>4. LockInv'
  <2>1. s # 0 /\ thread[t] = "idle" /\ holder' = holder /\ sending' = sending /\ shardAt' = shardAt
    BY Numbers DEF DropSpan
  <2>2. /\ thread' \in [Thread -> {"push", "idle"} \cup ThreadState]
        /\ thread'[t] \in {"push", "idle"} /\ (thread'[t] = "push" => dropping'[t] = s)
        /\ \A u \in Thread : u # t => thread'[u] = thread[u] /\ dropping'[u] = dropping[u]
    BY DEF DropSpan, ThreadType, QueueType
  <2> QED
    BY <2>1, <2>2, ZenonT(30) DEF LockInv, QueueType
<1>5. ConsumerInv'
  BY RtAssumption DEF DropSpan, ConsumerInv, ThreadState, ThreadType, QueueType, ConsumerType
<1>6. TracingComesBack'
  BY RtAssumption DEF DropSpan, TracingComesBack, ThreadType, ConsumerType, ConsumerInv, Seen,
     ThreadState
<1> QED
  BY <1>1, <1>2, <1>3, <1>4, <1>5, <1>6

\* A span is pushed to its shard.
LEMMA FlowPushSpan ==
  ASSUME FlowInv, NEW t \in Thread, PushSpan(t)
  PROVE  FlowInv'
PROOF
<1> USE DEF FlowInv, spanVars, queueVars, bufVars, writeVars
<1>1. ThreadType'
  <2>1. dropping[t] \in Span
    BY Numbers DEF PushSpan, LockInv, QueueType, Span
  <2>2. thread' \in [Thread -> ThreadState]
    BY DEF PushSpan, ThreadType, ThreadState
  <2>3. seen' \in Seen
    BY <2>1 DEF PushSpan, ThreadType, Seen
  <2> QED
    BY <2>2, <2>3 DEF PushSpan, ThreadType
<1>2. QueueType'
  <2> DEFINE s == ShardOf(t)
             spans == Append(queue[s], dropping[t])
  <2>1. s \in Shard
    BY ShardType DEF ThreadType
  <2>2. dropping[t] \in Span
    BY Numbers DEF PushSpan, LockInv, QueueType, Span
  <2>3. spans \in Seq(Span) /\ Len(spans) = Len(queue[s]) + 1 /\ Len(queue[s]) < BatchSize
        /\ Len(queue[s]) \in Nat
    BY <2>1, <2>2, AppendProperties, LenProperties DEF QueueType
  <2>4. spans \in Batch
    BY <2>3, Numbers DEF Batch
  <2>5. <<spans>> \in Seq(Batch) /\ Len(<<spans>>) = 1
    BY <2>4
  <2>6. Len(<<>>) = 0 /\ <<>> \in Seq(Span)
    OBVIOUS
  <2>7. \/ Len(spans) < BatchSize /\ queue' = [queue EXCEPT ![s] = spans]
           /\ sending' = sending /\ holder' = holder
        \/ /\ queue' = [queue EXCEPT ![s] = <<>>] /\ sending' = [sending EXCEPT ![t] = <<spans>>]
           /\ holder' = [holder EXCEPT ![s] = t]
    BY DEF PushSpan, TakeBatch
  <2>8. dropping' = [dropping EXCEPT ![t] = 0] /\ shardAt' = shardAt /\ chan' = chan
    BY DEF PushSpan
  <2> HIDE DEF s, spans
  <2>9. CASE queue' = [queue EXCEPT ![s] = spans] /\ Len(spans) < BatchSize
             /\ sending' = sending /\ holder' = holder
    <3>1. queue' \in [Shard -> Seq(Span)] /\ \A z \in Shard : Len(queue'[z]) < BatchSize
      BY <2>1, <2>3, <2>9 DEF QueueType
    <3>2. dropping' \in [Thread -> 0 .. MaxSpan]
      BY <2>8, Numbers DEF QueueType
    <3> QED
      BY <2>8, <2>9, <3>1, <3>2 DEF QueueType
  <2>10. CASE /\ queue' = [queue EXCEPT ![s] = <<>>] /\ sending' = [sending EXCEPT ![t] = <<spans>>]
              /\ holder' = [holder EXCEPT ![s] = t]
    <3>1. queue' \in [Shard -> Seq(Span)] /\ \A z \in Shard : Len(queue'[z]) < BatchSize
      BY <2>1, <2>6, <2>10, Numbers DEF QueueType
    <3>2. dropping' \in [Thread -> 0 .. MaxSpan]
      BY <2>8, Numbers DEF QueueType
    <3>3. sending' \in [Thread -> Seq(Batch)] /\ \A u \in Thread : Len(sending'[u]) <= 1
      BY <2>5, <2>10 DEF QueueType
    <3>4. holder' \in [Shard -> Thread \cup {NoThread}]
      BY <2>1, <2>10 DEF QueueType
    <3> QED
      BY <2>8, <3>1, <3>2, <3>3, <3>4 DEF QueueType
  <2> QED
    BY <2>7, <2>9, <2>10
<1>3. ConsumerType'
  BY RtAssumption DEF PushSpan, TakeBatch, Locked, ShardOf, Batch, Shard, ConsumerType, LockInv,
     ConsumerInv
<1>4. LockInv'
  <2> DEFINE s == ShardOf(t)
             spans == Append(queue[s], dropping[t])
  <2>1. s \in Shard /\ holder[s] = NoThread /\ thread[t] = "push"
    BY ShardType DEF ThreadType, PushSpan, Locked
  <2>2. \A z \in Shard : holder[z] # t
    BY <2>1, Numbers DEF LockInv
  <2>3. \/ /\ sending' = sending /\ holder' = holder /\ thread' = [thread EXCEPT ![t] = "idle"]
        \/ /\ sending' = [sending EXCEPT ![t] = <<spans>>] /\ holder' = [holder EXCEPT ![s] = t]
           /\ thread' = [thread EXCEPT ![t] = "send"]
    BY DEF PushSpan, TakeBatch
  <2>4. dropping' = [dropping EXCEPT ![t] = 0] /\ shardAt' = shardAt
    BY DEF PushSpan
  <2>5. <<spans>> # <<>>
    OBVIOUS
  <2> HIDE DEF s, spans
  <2>6. \A u \in Thread : u # t => /\ thread'[u] = thread[u] /\ dropping'[u] = dropping[u]
                                   /\ sending'[u] = sending[u]
    BY <2>3, <2>4 DEF ThreadType, QueueType
  <2>7. CASE sending' = sending /\ holder' = holder /\ thread' = [thread EXCEPT ![t] = "idle"]
    BY <2>2, <2>4, <2>6, <2>7 DEF LockInv, ThreadType, QueueType
  <2>8. CASE /\ sending' = [sending EXCEPT ![t] = <<spans>>] /\ holder' = [holder EXCEPT ![s] = t]
             /\ thread' = [thread EXCEPT ![t] = "send"]
    <3>1. thread'[t] = "send" /\ sending'[t] = <<spans>> /\ holder'[s] = t
          /\ \A z \in Shard : z # s => holder'[z] = holder[z]
      BY <2>1, <2>8 DEF ThreadType, QueueType
    <3>2. ASSUME NEW z \in Shard, holder'[z] # NoThread
          PROVE  sending'[holder'[z]] # <<>> /\ thread'[holder'[z]] \in {"send", "flush"}
      <4>1. CASE z = s
        BY <2>5, <3>1, <4>1
      <4>2. CASE z # s
        <5>1. holder'[z] = holder[z] /\ holder[z] \in Thread /\ holder[z] # t
          BY <2>2, <3>1, <3>2, <4>2 DEF QueueType
        <5> QED
          BY <2>6, <5>1, Numbers DEF LockInv
      <4> QED
        BY <4>1, <4>2
    <3>3. ASSUME NEW u \in Thread, sending'[u] # <<>>
          PROVE  \E z \in Shard : holder'[z] = u
      <4>1. CASE u = t
        BY <2>1, <3>1, <4>1
      <4>2. CASE u # t
        <5>1. PICK z \in Shard : holder[z] = u
          BY <2>6, <3>3, <4>2 DEF LockInv
        <5>2. z # s
          BY <2>1, <5>1, Numbers
        <5> QED
          BY <3>1, <5>1, <5>2
      <4> QED
        BY <4>1, <4>2
    <3> QED
      BY <2>4, <2>6, <3>1, <3>2, <3>3 DEF LockInv
  <2> QED
    BY <2>3, <2>7, <2>8
<1>5. ConsumerInv'
  BY RtAssumption DEF PushSpan, TakeBatch, Locked, ShardOf, Batch, Shard, ConsumerInv,
     ThreadState, ThreadType, QueueType, ConsumerType
<1>6. TracingComesBack'
  BY RtAssumption DEF PushSpan, TakeBatch, Locked, ShardOf, Batch, Shard, TracingComesBack,
     ThreadType, ConsumerType, ConsumerInv, Seen, ThreadState
<1> QED
  BY <1>1, <1>2, <1>3, <1>4, <1>5, <1>6

\* A receiver is registered.
LEMMA FlowRegisterReceiver ==
  ASSUME FlowInv, NEW t \in Thread, RegisterReceiver(t)
  PROVE  FlowInv'
PROOF
<1> USE DEF FlowInv, spanVars, queueVars, bufVars, writeVars
<1>1. ThreadType'
  BY RtAssumption DEF RegisterReceiver, RxsLocked, ThreadType, Seen, ThreadState, LockInv,
     ConsumerInv
<1>2. QueueType'
  BY RtAssumption DEF RegisterReceiver, RxsLocked, QueueType, Channels, LockInv, ConsumerInv
<1>3. ConsumerType'
  <2>1. rxs' = Append(rxs, t) /\ t \notin ToSet(rxs) /\ at = 0
    BY DEF RegisterReceiver, RxsLocked
  <2>2. rxs' \in Seq(Thread) /\ IsInjective(rxs') /\ Len(rxs') \in Nat
    BY <2>1, Registered, LenProperties DEF ConsumerType
  <2> QED
    BY <2>1, <2>2 DEF RegisterReceiver, ConsumerType
<1>4. LockInv'
  BY RtAssumption DEF RegisterReceiver, RxsLocked, LockInv, ThreadState, ThreadType, QueueType,
     ConsumerType
<1>5. ConsumerInv'
  <2>1. ToSet(rxs') = ToSet(rxs) \cup {t}
    BY Registered DEF RegisterReceiver, ConsumerType
  <2> QED
    BY <2>1 DEF RegisterReceiver, ConsumerInv
<1>6. TracingComesBack'
  BY RtAssumption DEF RegisterReceiver, RxsLocked, TracingComesBack, ThreadType, ConsumerType,
     ConsumerInv, Seen, ThreadState
<1> QED
  BY <1>1, <1>2, <1>3, <1>4, <1>5, <1>6

\* The lock released: common to a batch sent and a batch lost.
LEMMA SentTypes ==
  ASSUME FlowInv, NEW t \in Thread, Sent(t), sending[t] # <<>>
  PROVE  /\ thread' \in [Thread -> ThreadState]
         /\ sending' \in [Thread -> Seq(Batch)] /\ \A u \in Thread : Len(sending'[u]) <= 1
         /\ holder' \in [Shard -> Thread \cup {NoThread}]
         /\ shardAt' \in [Thread -> 0 .. Shards]
PROOF
<1>1. thread[t] = "flush" => shardAt[t] < Shards
  BY DEF FlowInv, LockInv
<1>2. thread' \in [Thread -> ThreadState]
  BY DEF FlowInv, ThreadType, ThreadState, Sent
<1>3. sending' \in [Thread -> Seq(Batch)] /\ \A u \in Thread : Len(sending'[u]) <= 1
  <2>1. <<>> \in Seq(Batch) /\ Len(<<>>) = 0
    OBVIOUS
  <2> QED
    BY <2>1 DEF FlowInv, QueueType, Sent
<1>4. holder' \in [Shard -> Thread \cup {NoThread}]
  BY DEF FlowInv, QueueType, Sent
<1>5. shardAt' \in [Thread -> 0 .. Shards]
  BY <1>1, Numbers DEF FlowInv, QueueType, Sent
<1> QED
  BY <1>2, <1>3, <1>4, <1>5

\* A batch is sent.
LEMMA FlowSendBatch ==
  ASSUME FlowInv, NEW t \in Thread, SendBatch(t)
  PROVE  FlowInv'
PROOF
<1> USE DEF FlowInv, spanVars, queueVars, bufVars, writeVars
<1>1. ThreadType'
  BY RtAssumption DEF SendBatch, Sent, CanSend, HasRoom, Push, Channels, Shard, ThreadType, Seen,
     ThreadState, LockInv, ConsumerInv
<1>2. QueueType'
  <2>1. sending[t][1] \in Batch
    BY LenProperties, ElementOfSeq DEF QueueType, SendBatch, CanSend
  <2>2. /\ Push(chan[t], sending[t][1]) \in Channels(Batch)
        /\ Len(Push(chan[t], sending[t][1]).ring) = Len(chan[t].ring) + 1
        /\ Push(chan[t], sending[t][1]).pending = <<>>
    BY <2>1, ChannelUpdates DEF QueueType
  <2>3. Len(chan[t].ring) \in Nat /\ Len(chan[t].ring) < Capacity /\ Capacity \in Nat
    BY LenProperties, CapacityAssumption DEF QueueType, Channels, SendBatch, HasRoom
  <2>4. chan' \in [Thread -> Channels(Batch)]
        /\ \A u \in Thread : Len(chan'[u].ring) <= Capacity /\ chan'[u].pending = <<>>
    BY <2>2, <2>3 DEF QueueType, SendBatch
  <2>5. Sent(t) /\ sending[t] # <<>> /\ queue' = queue /\ dropping' = dropping
    BY DEF SendBatch, CanSend
  <2> QED
    BY <2>4, <2>5, SentTypes DEF QueueType
<1>3. ConsumerType'
  BY RtAssumption DEF SendBatch, Sent, CanSend, HasRoom, Push, Channels, Shard, ConsumerType,
     LockInv, ConsumerInv
<1>4. LockInv'
  BY RtAssumption, ZenonT(30) DEF SendBatch, Sent, CanSend, HasRoom, Push, Channels, Shard, LockInv,
     ThreadState, ThreadType, QueueType, ConsumerType
<1>5. ConsumerInv'
  BY RtAssumption DEF SendBatch, Sent, CanSend, HasRoom, Push, Channels, Shard, ConsumerInv,
     ThreadState, ThreadType, QueueType, ConsumerType
<1>6. TracingComesBack'
  BY RtAssumption DEF SendBatch, Sent, CanSend, HasRoom, Push, Channels, Shard, TracingComesBack,
     ThreadType, ConsumerType, ConsumerInv, Seen, ThreadState
<1> QED
  BY <1>1, <1>2, <1>3, <1>4, <1>5, <1>6

\* A batch is refused.
LEMMA FlowLoseBatch ==
  ASSUME FlowInv, NEW t \in Thread, LoseBatch(t)
  PROVE  FlowInv'
PROOF
<1> USE DEF FlowInv, spanVars, queueVars, bufVars, writeVars
<1>1. ThreadType'
  <2>1. sending[t][1] \in Batch
    BY LenProperties, ElementOfSeq DEF QueueType, LoseBatch, CanSend
  <2>2. ToSet(sending[t][1]) \subseteq Span
    BY <2>1, SpansType
  <2>3. seen' \in Seen
    BY <2>2 DEF LoseBatch, ThreadType, Seen
  <2>4. thread' \in [Thread -> ThreadState]
    BY SentTypes DEF LoseBatch, CanSend
  <2> QED
    BY <2>3, <2>4 DEF LoseBatch, ThreadType
<1>2. QueueType'
  <2>1. Sent(t) /\ sending[t] # <<>> /\ queue' = queue /\ dropping' = dropping /\ chan' = chan
    BY DEF LoseBatch, CanSend
  <2> QED
    BY <2>1, SentTypes DEF QueueType
<1>3. ConsumerType'
  BY RtAssumption DEF LoseBatch, Sent, CanSend, HasRoom, Push, Channels, Shard, ConsumerType,
     LockInv, ConsumerInv
<1>4. LockInv'
  BY RtAssumption, ZenonT(30) DEF LoseBatch, Sent, CanSend, HasRoom, Push, Channels, Shard, LockInv,
     ThreadState, ThreadType, QueueType, ConsumerType
<1>5. ConsumerInv'
  BY RtAssumption DEF LoseBatch, Sent, CanSend, HasRoom, Push, Channels, Shard, ConsumerInv,
     ThreadState, ThreadType, QueueType, ConsumerType
<1>6. TracingComesBack'
  BY RtAssumption DEF LoseBatch, Sent, CanSend, HasRoom, Push, Channels, Shard, TracingComesBack,
     ThreadType, ConsumerType, ConsumerInv, Seen, ThreadState
<1> QED
  BY <1>1, <1>2, <1>3, <1>4, <1>5, <1>6

\* A flush begins.
LEMMA FlowFlush ==
  ASSUME FlowInv, NEW t \in Thread, Flush(t)
  PROVE  FlowInv'
PROOF
<1> USE DEF FlowInv, spanVars, queueVars, bufVars, writeVars
<1>1. ThreadType'
  <2>1. seen' = [seen EXCEPT !.flushes = @ + 1, !.asked = [seen.asked EXCEPT ![t] = seen.recorded]]
    BY DEF Flush, ThreadType, Seen
  <2>2. seen' \in Seen
    <3>1. /\ seen.flushes + 1 \in Nat
          /\ [seen.asked EXCEPT ![t] = seen.recorded] \in [Thread -> SUBSET Span]
      BY DEF ThreadType, Seen
    <3> QED
      BY <2>1, <3>1 DEF ThreadType, Seen
  <2>3. thread' \in [Thread -> ThreadState]
    BY DEF Flush, ThreadType, ThreadState
  <2> QED
    BY <2>2, <2>3 DEF Flush, ThreadType
<1>2. QueueType'
  BY RtAssumption, SMTT(30) DEF Flush, QueueType, Channels, LockInv, ConsumerInv
<1>3. ConsumerType'
  BY RtAssumption DEF Flush, ConsumerType, LockInv, ConsumerInv
<1>4. LockInv'
  <2>1. thread[t] = "idle" /\ holder' = holder /\ sending' = sending /\ dropping' = dropping
    BY DEF Flush
  <2>2. thread'[t] = "flush" /\ shardAt'[t] = 0
        /\ \A u \in Thread : u # t => thread'[u] = thread[u] /\ shardAt'[u] = shardAt[u]
    BY DEF Flush, ThreadType, QueueType
  <2>3. 0 < Shards
    BY Numbers
  <2>4. \A z \in Shard : holder[z] # t
    BY <2>1, Numbers DEF LockInv
  <2>5. \A z \in Shard : holder[z] # NoThread => holder[z] \in Thread \ {t}
    BY <2>4 DEF QueueType
  <2>6. \A z \in Shard : holder'[z] # NoThread =>
          sending'[holder'[z]] # <<>> /\ thread'[holder'[z]] \in {"send", "flush"}
    BY <2>1, <2>2, <2>5 DEF LockInv
  <2>7. \A u \in Thread : sending'[u] # <<>> => \E z \in Shard : holder'[z] = u
    BY <2>1 DEF LockInv
  <2>8. \A u \in Thread : thread'[u] = "flush" /\ sending'[u] # <<>> => shardAt'[u] < Shards
    BY <2>1, <2>2, <2>3 DEF LockInv
  <2>9. \A u \in Thread : thread'[u] \in {"wait", "write"} => shardAt'[u] = Shards
    BY <2>2 DEF LockInv
  <2>10. \A u \in Thread : thread'[u] = "push" => dropping'[u] # 0
    BY <2>1, <2>2 DEF LockInv
  <2> QED
    BY <2>6, <2>7, <2>8, <2>9, <2>10 DEF LockInv
<1>5. ConsumerInv'
  BY RtAssumption DEF Flush, ConsumerInv, ThreadState, ThreadType, QueueType, ConsumerType
<1>6. TracingComesBack'
  BY RtAssumption DEF Flush, TracingComesBack, ThreadType, ConsumerType, ConsumerInv, Seen,
     ThreadState
<1> QED
  BY <1>1, <1>2, <1>3, <1>4, <1>5, <1>6

\* A flush takes a shard.
LEMMA FlowFlushShard ==
  ASSUME FlowInv, NEW t \in Thread, FlushShard(t)
  PROVE  FlowInv'
PROOF
<1> USE DEF FlowInv, spanVars, queueVars, bufVars, writeVars
<1>1. ThreadType'
  BY RtAssumption DEF FlushShard, TakeBatch, Locked, ShardOf, Batch, Shard, ThreadType, Seen,
     ThreadState, LockInv, ConsumerInv
<1>2. QueueType'
  <2> DEFINE s == shardAt[t]
  <2>1. s \in Shard
    BY Numbers DEF FlushShard, QueueType, Shard
  <2>2. queue[s] \in Batch
    <3>1. queue[s] \in Seq(Span) /\ Len(queue[s]) \in Nat /\ Len(queue[s]) < BatchSize
      BY <2>1, LenProperties DEF QueueType
    <3> QED
      BY <3>1, Numbers DEF Batch
  <2>3. <<queue[s]>> \in Seq(Batch) /\ Len(<<queue[s]>>) = 1
    BY <2>2
  <2>4. Len(<<>>) = 0 /\ <<>> \in Seq(Span)
    OBVIOUS
  <2>5. /\ queue' = [queue EXCEPT ![s] = <<>>] /\ sending' = [sending EXCEPT ![t] = <<queue[s]>>]
        /\ holder' = [holder EXCEPT ![s] = t]
        /\ dropping' = dropping /\ shardAt' = shardAt /\ chan' = chan
    BY DEF FlushShard, TakeBatch
  <2> HIDE DEF s
  <2>6. queue' \in [Shard -> Seq(Span)] /\ \A z \in Shard : Len(queue'[z]) < BatchSize
    BY <2>1, <2>4, <2>5, Numbers DEF QueueType
  <2>7. sending' \in [Thread -> Seq(Batch)] /\ \A u \in Thread : Len(sending'[u]) <= 1
    BY <2>3, <2>5 DEF QueueType
  <2> QED
    BY <2>1, <2>5, <2>6, <2>7 DEF QueueType
<1>3. ConsumerType'
  BY RtAssumption DEF FlushShard, TakeBatch, Locked, ShardOf, Batch, Shard, ConsumerType, LockInv,
     ConsumerInv
<1>4. LockInv'
  BY RtAssumption, SMTT(30) DEF FlushShard, TakeBatch, Locked, ShardOf, Batch, Shard, LockInv, ThreadState,
     ThreadType, QueueType, ConsumerType
<1>5. ConsumerInv'
  BY RtAssumption DEF FlushShard, TakeBatch, Locked, ShardOf, Batch, Shard, ConsumerInv,
     ThreadState, ThreadType, QueueType, ConsumerType
<1>6. TracingComesBack'
  BY RtAssumption DEF FlushShard, TakeBatch, Locked, ShardOf, Batch, Shard, TracingComesBack,
     ThreadType, ConsumerType, ConsumerInv, Seen, ThreadState
<1> QED
  BY <1>1, <1>2, <1>3, <1>4, <1>5, <1>6

\* A flush turns tracing on again.
LEMMA FlowFlushStart ==
  ASSUME FlowInv, NEW t \in Thread, FlushStart(t)
  PROVE  FlowInv'
PROOF
<1> USE DEF FlowInv, spanVars, queueVars, bufVars, writeVars
<1>1. ThreadType'
  BY RtAssumption DEF FlushStart, ThreadType, Seen, ThreadState, LockInv, ConsumerInv
<1>2. QueueType'
  BY RtAssumption DEF FlushStart, QueueType, Channels, LockInv, ConsumerInv
<1>3. ConsumerType'
  BY RtAssumption DEF FlushStart, ConsumerType, LockInv, ConsumerInv
<1>4. LockInv'
  BY RtAssumption DEF FlushStart, LockInv, ThreadState, ThreadType, QueueType, ConsumerType
<1>5. ConsumerInv'
  BY RtAssumption DEF FlushStart, ConsumerInv, ThreadState, ThreadType, QueueType, ConsumerType
<1>6. TracingComesBack'
  BY RtAssumption DEF FlushStart, TracingComesBack, ThreadType, ConsumerType, ConsumerInv, Seen,
     ThreadState
<1> QED
  BY <1>1, <1>2, <1>3, <1>4, <1>5, <1>6

\* The loop collects.
LEMMA FlowLoopBegin ==
  ASSUME FlowInv, LoopBegin
  PROVE  FlowInv'
PROOF
<1> USE DEF FlowInv, spanVars, queueVars, bufVars, writeVars
<1>1. ThreadType'
  BY RtAssumption DEF LoopBegin, Begin, ThreadType, Seen, ThreadState, LockInv, ConsumerInv
<1>2. QueueType'
  BY RtAssumption DEF LoopBegin, Begin, QueueType, Channels, LockInv, ConsumerInv
<1>3. ConsumerType'
  BY RtAssumption DEF LoopBegin, Begin, ConsumerType, LockInv, ConsumerInv
<1>4. LockInv'
  BY RtAssumption DEF LoopBegin, Begin, LockInv, ThreadState, ThreadType, QueueType, ConsumerType
<1>5. ConsumerInv'
  BY RtAssumption DEF LoopBegin, Begin, ConsumerInv, ThreadState, ThreadType, QueueType,
     ConsumerType
<1>6. TracingComesBack'
  BY RtAssumption DEF LoopBegin, Begin, TracingComesBack, ThreadType, ConsumerType, ConsumerInv,
     Seen, ThreadState
<1> QED
  BY <1>1, <1>2, <1>3, <1>4, <1>5, <1>6

\* A flush collects.
LEMMA FlowFlushBegin ==
  ASSUME FlowInv, NEW t \in Thread, FlushBegin(t)
  PROVE  FlowInv'
PROOF
<1> USE DEF FlowInv, spanVars, queueVars, bufVars, writeVars
<1>1. ThreadType'
  BY RtAssumption DEF FlushBegin, Begin, ThreadType, Seen, ThreadState, LockInv, ConsumerInv
<1>2. QueueType'
  BY RtAssumption DEF FlushBegin, Begin, QueueType, Channels, LockInv, ConsumerInv
<1>3. ConsumerType'
  BY RtAssumption DEF FlushBegin, Begin, ConsumerType, LockInv, ConsumerInv
<1>4. LockInv'
  BY RtAssumption DEF FlushBegin, Begin, LockInv, ThreadState, ThreadType, QueueType, ConsumerType
<1>5. ConsumerInv'
  BY RtAssumption DEF FlushBegin, Begin, ConsumerInv, ThreadState, ThreadType, QueueType,
     ConsumerType
<1>6. TracingComesBack'
  BY RtAssumption DEF FlushBegin, Begin, TracingComesBack, ThreadType, ConsumerType, ConsumerInv,
     Seen, ThreadState
<1> QED
  BY <1>1, <1>2, <1>3, <1>4, <1>5, <1>6

\* A batch goes to the buffer.
LEMMA FlowRecvCommand ==
  ASSUME FlowInv, RecvCommand
  PROVE  FlowInv'
PROOF
<1> USE DEF FlowInv, spanVars, queueVars, bufVars, writeVars
<1>1. ThreadType'
  <2> DEFINE who == Current
             ring == chan[who].ring
             batch == Head(ring)
  <2>1. who \in Thread
    BY LenProperties, ElementOfSeq DEF RecvCommand, AtReceiver, Current, ConsumerType
  <2>2. ring \in Seq(Batch) /\ ring # <<>>
    BY <2>1 DEF RecvCommand, QueueType, Channels
  <2>3. batch \in Batch
    BY <2>2, HeadTailProperties
  <2>4. /\ seen.arrived \in Seq(Batch)
        /\ Append(seen.arrived, batch) \in Seq(Batch)
    <3>1. seen.arrived \in Seq(Batch)
      BY DEF ThreadType, Seen
    <3> HIDE DEF batch
    <3> QED
      BY <2>3, <3>1, AppendProperties
  <2>5. SpansOf(Overwritten(buffer, BufferCapacity)) \subseteq Span
    BY BufferTypes, SpansType DEF ConsumerType
  <2>6. seen' = [seen EXCEPT !.arrived = Append(seen.arrived, batch),
                             !.lost = seen.lost \cup SpansOf(Overwritten(buffer, BufferCapacity))]
    BY DEF RecvCommand, ThreadType, Seen
  <2> HIDE DEF batch, ring, who
  <2>7. seen' \in Seen
    BY <2>4, <2>5, <2>6 DEF ThreadType, Seen
  <2> QED
    BY <2>7 DEF RecvCommand, ThreadType
<1>2. QueueType'
  <2> DEFINE who == Current
             ring == chan[who].ring
             batch == Head(ring)
  <2>1. who \in Thread
    BY LenProperties, ElementOfSeq DEF RecvCommand, AtReceiver, Current, ConsumerType
  <2>2. ring \in Seq(Batch) /\ ring # <<>>
    BY <2>1 DEF RecvCommand, QueueType, Channels
  <2>3. batch \in Batch
    BY <2>2, HeadTailProperties
  <2>4. /\ Pop(chan[who]) \in Channels(Batch)
        /\ Len(Pop(chan[who]).ring) = Len(ring) - 1
        /\ Pop(chan[who]).pending = <<>>
    BY <2>1, <2>2, ChannelUpdates DEF QueueType
  <2>5. chan' = [chan EXCEPT ![who] = Pop(chan[who])]
    BY DEF RecvCommand, QueueType
  <2>6. Len(ring) \in Nat /\ Len(ring) <= Capacity /\ Capacity \in Nat
    BY <2>1, <2>2, LenProperties, CapacityAssumption DEF QueueType
  <2> HIDE DEF batch, ring, who
  <2>7. chan' \in [Thread -> Channels(Batch)]
        /\ \A u \in Thread : Len(chan'[u].ring) <= Capacity /\ chan'[u].pending = <<>>
    BY <2>1, <2>4, <2>5, <2>6 DEF QueueType
  <2> QED
    BY <2>7 DEF RecvCommand, QueueType
<1>3. ConsumerType'
  <2> DEFINE who == Current
             ring == chan[who].ring
             batch == Head(ring)
  <2>1. who \in Thread
    BY LenProperties, ElementOfSeq DEF RecvCommand, AtReceiver, Current, ConsumerType
  <2>2. ring \in Seq(Batch) /\ ring # <<>>
    BY <2>1 DEF RecvCommand, QueueType, Channels
  <2>3. batch \in Batch
    BY <2>2, HeadTailProperties
  <2>4. buffer' = PushOverwrite(buffer, batch, BufferCapacity) /\ BufferCapacity' = BufferCapacity
    BY DEF RecvCommand, BufferCapacity
  <2> HIDE DEF batch
  <2>5. buffer' \in Buffer(Batch) /\ WellFormed(buffer', BufferCapacity)
    BY <2>3, <2>4, BufferTypes DEF ConsumerType
  <2> QED
    BY <2>4, <2>5 DEF RecvCommand, ConsumerType
<1>4. LockInv'
  BY RtAssumption DEF RecvCommand, AtReceiver, Current, Pop, Channels, LockInv, ThreadState,
     ThreadType, QueueType, ConsumerType
<1>5. ConsumerInv'
  BY RtAssumption DEF RecvCommand, AtReceiver, Current, Pop, Channels, ConsumerInv, ThreadState,
     ThreadType, QueueType, ConsumerType
<1>6. TracingComesBack'
  BY RtAssumption DEF RecvCommand, AtReceiver, Current, Pop, Channels, TracingComesBack,
     ThreadType, ConsumerType, ConsumerInv, Seen, ThreadState
<1> QED
  BY <1>1, <1>2, <1>3, <1>4, <1>5, <1>6

\* The next receiver.
LEMMA FlowRecvNone ==
  ASSUME FlowInv, RecvNone
  PROVE  FlowInv'
PROOF
<1> USE DEF FlowInv, spanVars, queueVars, bufVars, writeVars
<1>1. ThreadType'
  BY RtAssumption DEF RecvNone, AtReceiver, Current, ThreadType, Seen, ThreadState, LockInv,
     ConsumerInv
<1>2. QueueType'
  BY RtAssumption DEF RecvNone, AtReceiver, Current, QueueType, Channels, LockInv, ConsumerInv
<1>3. ConsumerType'
  BY RtAssumption DEF RecvNone, AtReceiver, Current, ConsumerType, LockInv, ConsumerInv
<1>4. LockInv'
  BY RtAssumption DEF RecvNone, AtReceiver, Current, LockInv, ThreadState, ThreadType, QueueType,
     ConsumerType
<1>5. ConsumerInv'
  <2>1. at' # 0 /\ at # 0
    BY DEF RecvNone, AtReceiver, ConsumerType
  <2> QED
    BY <2>1 DEF RecvNone, ConsumerInv, ConsumerType, ThreadType
<1>6. TracingComesBack'
  BY RtAssumption DEF RecvNone, AtReceiver, Current, TracingComesBack, ThreadType, ConsumerType,
     ConsumerInv, Seen, ThreadState
<1> QED
  BY <1>1, <1>2, <1>3, <1>4, <1>5, <1>6

\* The loop is done.
LEMMA FlowLoopDone ==
  ASSUME FlowInv, LoopDone
  PROVE  FlowInv'
PROOF
<1> USE DEF FlowInv, spanVars, queueVars, bufVars, writeVars
<1>1. ThreadType'
  BY RtAssumption DEF LoopDone, ThreadType, Seen, ThreadState, LockInv, ConsumerInv
<1>2. QueueType'
  BY RtAssumption DEF LoopDone, QueueType, Channels, LockInv, ConsumerInv
<1>3. ConsumerType'
  BY RtAssumption DEF LoopDone, ConsumerType, LockInv, ConsumerInv
<1>4. LockInv'
  BY RtAssumption DEF LoopDone, LockInv, ThreadState, ThreadType, QueueType, ConsumerType
<1>5. ConsumerInv'
  BY RtAssumption DEF LoopDone, ConsumerInv, ThreadState, ThreadType, QueueType, ConsumerType
<1>6. TracingComesBack'
  BY RtAssumption DEF LoopDone, TracingComesBack, ThreadType, ConsumerType, ConsumerInv, Seen,
     ThreadState
<1> QED
  BY <1>1, <1>2, <1>3, <1>4, <1>5, <1>6

\* A flush drains the buffer.
LEMMA FlowWriteBegin ==
  ASSUME FlowInv, WriteBegin
  PROVE  FlowInv'
PROOF
<1> USE DEF FlowInv, spanVars, queueVars, bufVars, writeVars
<1>1. ThreadType'
  <2>1. consumer \in Thread
    BY Numbers, LenProperties DEF WriteBegin, ConsumerInv, ConsumerType
  <2>2. seen' \in Seen
    <3>1. <<>> \in Seq(Batch)
      OBVIOUS
    <3> QED
      BY <3>1 DEF WriteBegin, ThreadType, Seen
  <2>3. thread' \in [Thread -> ThreadState]
    BY <2>1 DEF WriteBegin, ThreadType, ThreadState
  <2> QED
    BY <2>2, <2>3 DEF WriteBegin, ThreadType
<1>2. QueueType'
  BY RtAssumption DEF WriteBegin, QueueType, Channels, LockInv, ConsumerInv
<1>3. ConsumerType'
  <2>1. writing' \in Seq(Batch)
    BY BufferTypes DEF WriteBegin, ConsumerType
  <2>2. buffer' = NewBuffer /\ BufferCapacity' = BufferCapacity
    BY DEF WriteBegin, BufferCapacity
  <2>3. at' = 0 /\ Len(rxs) \in Nat /\ rxs' = rxs
    BY LenProperties DEF WriteBegin, ConsumerType
  <2>4. buffer' \in Buffer(Batch) /\ WellFormed(buffer', BufferCapacity')
    BY <2>2, NewBufferType
  <2> QED
    BY <2>1, <2>3, <2>4 DEF WriteBegin, ConsumerType
<1>4. LockInv'
  <2>1. consumer \in Thread /\ at # 0
    BY Numbers, LenProperties DEF WriteBegin, ConsumerInv, ConsumerType
  <2>2. thread[consumer] = "wait"
    BY <2>1 DEF ConsumerInv
  <2>3. thread'[consumer] = "write" /\ \A u \in Thread : u # consumer => thread'[u] = thread[u]
    BY <2>1 DEF WriteBegin, ThreadType
  <2>4. holder' = holder /\ sending' = sending /\ shardAt' = shardAt /\ dropping' = dropping
    BY DEF WriteBegin
  <2>5. \A z \in Shard : holder[z] # consumer
    BY <2>1, <2>2, Numbers DEF LockInv
  <2> QED
    BY <2>1, <2>2, <2>3, <2>4, <2>5 DEF LockInv, QueueType
<1>5. ConsumerInv'
  BY RtAssumption DEF WriteBegin, ConsumerInv, ThreadState, ThreadType, QueueType, ConsumerType
<1>6. TracingComesBack'
  BY RtAssumption DEF WriteBegin, TracingComesBack, ThreadType, ConsumerType, ConsumerInv, Seen,
     ThreadState
<1> QED
  BY <1>1, <1>2, <1>3, <1>4, <1>5, <1>6

\* A batch is written.
LEMMA FlowConsumeBatch ==
  ASSUME FlowInv, ConsumeBatch
  PROVE  FlowInv'
PROOF
<1> USE DEF FlowInv, spanVars, queueVars, bufVars, writeVars
<1>1. ThreadType'
  BY RtAssumption DEF ConsumeBatch, ThreadType, Seen, ThreadState, LockInv, ConsumerInv
<1>2. QueueType'
  BY RtAssumption DEF ConsumeBatch, QueueType, Channels, LockInv, ConsumerInv
<1>3. ConsumerType'
  BY RtAssumption DEF ConsumeBatch, ConsumerType, LockInv, ConsumerInv
<1>4. LockInv'
  BY RtAssumption DEF ConsumeBatch, LockInv, ThreadState, ThreadType, QueueType, ConsumerType
<1>5. ConsumerInv'
  BY RtAssumption DEF ConsumeBatch, ConsumerInv, ThreadState, ThreadType, QueueType, ConsumerType
<1>6. TracingComesBack'
  BY RtAssumption DEF ConsumeBatch, TracingComesBack, ThreadType, ConsumerType, ConsumerInv, Seen,
     ThreadState
<1> QED
  BY <1>1, <1>2, <1>3, <1>4, <1>5, <1>6

\* A flush returns.
LEMMA FlowWriteDone ==
  ASSUME FlowInv, WriteDone
  PROVE  FlowInv'
PROOF
<1> USE DEF FlowInv, spanVars, queueVars, bufVars, writeVars
<1>1. ThreadType'
  BY RtAssumption DEF WriteDone, Writing, ThreadType, Seen, ThreadState, LockInv, ConsumerInv
<1>2. QueueType'
  BY RtAssumption DEF WriteDone, Writing, QueueType, Channels, LockInv, ConsumerInv
<1>3. ConsumerType'
  BY RtAssumption DEF WriteDone, Writing, ConsumerType, LockInv, ConsumerInv
<1>4. LockInv'
  <2>1. consumer \in Thread /\ at = 0
    BY DEF WriteDone, Writing
  <2>2. thread[consumer] = "write"
    BY <2>1 DEF ConsumerInv
  <2>3. thread'[consumer] = "idle" /\ \A u \in Thread : u # consumer => thread'[u] = thread[u]
    BY <2>1 DEF WriteDone, ThreadType
  <2>4. holder' = holder /\ sending' = sending /\ shardAt' = shardAt /\ dropping' = dropping
    BY DEF WriteDone
  <2>5. \A z \in Shard : holder[z] # consumer
    BY <2>1, <2>2, Numbers DEF LockInv
  <2> QED
    BY <2>1, <2>2, <2>3, <2>4, <2>5, ZenonT(30) DEF LockInv, QueueType
<1>5. ConsumerInv'
  BY RtAssumption DEF WriteDone, Writing, ConsumerInv, ThreadState, ThreadType, QueueType,
     ConsumerType
<1>6. TracingComesBack'
  BY RtAssumption DEF WriteDone, Writing, TracingComesBack, ThreadType, ConsumerType, ConsumerInv,
     Seen, ThreadState
<1> QED
  BY <1>1, <1>2, <1>3, <1>4, <1>5, <1>6

\* FlowInv is inductive.
LEMMA FlowStep == FlowInv /\ [Next]_vars => FlowInv'
PROOF
<1> SUFFICES ASSUME FlowInv, [Next]_vars
             PROVE  FlowInv'
  OBVIOUS
<1>1. ASSUME NEW t \in Thread,
             \/ Spawn(t) \/ Exit(t) \/ Start(t) \/ Stop(t)
             \/ NewSpan(t) \/ NewSpanPanics(t) \/ Flush(t) \/ CallStep(t)
      PROVE  FlowInv'
  BY <1>1, FlowSpawn, FlowExit, FlowStart, FlowStop, FlowNewSpan, FlowNewSpanPanics, FlowFlush,
     FlowPushSpan, FlowRegisterReceiver, FlowSendBatch, FlowLoseBatch, FlowFlushShard,
     FlowFlushStart, FlowFlushBegin, Zenon DEF CallStep, Send
<1>2. ASSUME NEW t \in Thread, NEW s \in Span, DropSpan(t, s)
      PROVE  FlowInv'
  BY <1>2, FlowDropSpan
<1>3. CASE Collect
  BY <1>3, FlowLoopBegin, FlowRecvCommand, FlowRecvNone, FlowLoopDone, FlowWriteBegin,
     FlowConsumeBatch, FlowWriteDone, Zenon DEF Collect
<1> QED
  BY <1>1, <1>2, <1>3, FlowStutter, Zenon DEF Next

\* FlowInv holds throughout.
LEMMA Flow == Spec => []FlowInv
PROOF
  BY FlowInit, FlowStep, PTL DEF Spec

\* Every variable has its type; a thread has a batch in hand exactly while it
\* holds the lock of a shard.
THEOREM RtTypeCorrect == Spec => []TypeOK
PROOF
<1>1. ASSUME FlowInv
      PROVE  TypeOK
  <2>1. DOMAIN holder = Shard /\ DOMAIN queue = Shard
    BY <1>1 DEF FlowInv, QueueType
  <2>2. ASSUME NEW t \in Thread
        PROVE  sending[t] # <<>> <=> \E s \in Shard : holder[s] = t
    BY <1>1, Numbers DEF FlowInv, LockInv
  <2> QED
    BY <1>1, <2>1, <2>2 DEF FlowInv, TypeOK, ThreadType, QueueType, ConsumerType
<1> QED
  BY <1>1, Flow, PTL

\* Whatever flushes, starts and stops do, tracing is off only inside a flush or
\* because the program stopped it.
THEOREM TracingNotLost == Spec => []TracingComesBack
PROOF
<1>1. FlowInv => TracingComesBack
  BY DEF FlowInv
<1> QED
  BY <1>1, Flow, PTL

-----------------------------------------------------------------------------
(* What a batch adds to the output. *)

\* w holds the descriptors of order and then the events of spans.
Chunk(w, order, spans) ==
  LET k == Len(order)
      m == Len(spans)
  IN  /\ Len(w) = k + 2 * m
      /\ \A j \in 1 .. k : w[j].data = IF j = 1 THEN order[k] ELSE order[j - 1]
      /\ \A j \in 1 .. m : /\ w[k + 2 * j - 1] = Event("begin", spans[j])
                           /\ w[k + 2 * j] = Event("end", spans[j])

EventsOf(spans) == {Data("begin", x) : x \in ToSet(spans)} \cup {Data("end", x) : x \in ToSet(spans)}

\* The events of a span.
LEMMA EventFacts ==
  \A a : /\ Event("begin", a).data = Data("begin", a) /\ Event("begin", a).time = Data("begin", a)
         /\ Event("end", a).data = Data("end", a) /\ Event("end", a).time = Data("end", a)
         /\ Data("begin", a).kind = "begin" /\ Data("end", a).kind = "end"
         /\ Data("begin", a).of = a /\ Data("end", a).of = a
PROOF
  BY DEF Event, Data

\* Which place of a chunk is what.
LEMMA ChunkPlaces ==
  ASSUME NEW k \in Nat, NEW m \in Nat
  PROVE  \A i \in 1 .. k + 2 * m : \/ i \in 1 .. k
                                   \/ \E j \in 1 .. m : i = k + 2 * j - 1
                                   \/ \E j \in 1 .. m : i = k + 2 * j
PROOF
<1> SUFFICES ASSUME NEW i \in 1 .. k + 2 * m
             PROVE  \/ i \in 1 .. k
                    \/ \E j \in 1 .. m : i = k + 2 * j - 1
                    \/ \E j \in 1 .. m : i = k + 2 * j
  OBVIOUS
<1>1. CASE i <= k
  BY <1>1
<1>2. CASE i > k
  <2> DEFINE n == i - k
             h == n \div 2
  <2>1. n \in Nat /\ i = k + n /\ 1 <= n /\ n <= 2 * m
    BY <1>2
  <2> HIDE DEF n
  <2>2. h \in Nat /\ (n = 2 * h \/ n = 2 * h + 1)
    BY <2>1
  <2> HIDE DEF h
  <2>3. CASE n = 2 * h
    <3>1. h \in 1 .. m /\ i = k + 2 * h
      BY <2>1, <2>2, <2>3
    <3> QED
      BY <3>1
  <2>4. CASE n = 2 * h + 1
    <3>1. h + 1 \in 1 .. m /\ i = k + 2 * (h + 1) - 1
      BY <2>1, <2>2, <2>4
    <3> QED
      BY <3>1
  <2> QED
    BY <2>2, <2>3, <2>4
<1> QED
  BY <1>1, <1>2

\* And the other way round.
LEMMA ChunkIndices ==
  ASSUME NEW k \in Nat, NEW m \in Nat
  PROVE  /\ \A i \in 1 .. k : i \in 1 .. k + 2 * m
         /\ \A j \in 1 .. m : /\ k + 2 * j - 1 \in 1 .. k + 2 * m /\ k + 2 * j \in 1 .. k + 2 * m
                              /\ k + 2 * j - 1 > k /\ k + 2 * j > k /\ k + 2 * j - 1 + 1 = k + 2 * j
PROOF
  OBVIOUS

\* What a chunk holds.
LEMMA ChunkDatas ==
  ASSUME NEW w \in Seq(PacketSet), NEW order \in Seq(DataSet), NEW spans \in Seq(Nat),
         Chunk(w, order, spans)
  PROVE  {w[i].data : i \in DOMAIN w} = ToSet(order) \cup EventsOf(spans)
PROOF
<1> DEFINE k == Len(order)
           m == Len(spans)
<1>1. /\ k \in Nat /\ m \in Nat /\ DOMAIN order = 1 .. k /\ DOMAIN spans = 1 .. m
      /\ DOMAIN w = 1 .. k + 2 * m
  BY LenProperties DEF Chunk
<1>2. /\ \A j \in 1 .. k : w[j].data = IF j = 1 THEN order[k] ELSE order[j - 1]
      /\ \A j \in 1 .. m : /\ w[k + 2 * j - 1].data = Data("begin", spans[j])
                           /\ w[k + 2 * j].data = Data("end", spans[j])
  <2>1. /\ \A j \in 1 .. k : w[j].data = IF j = 1 THEN order[k] ELSE order[j - 1]
        /\ \A j \in 1 .. m : /\ w[k + 2 * j - 1] = Event("begin", spans[j])
                             /\ w[k + 2 * j] = Event("end", spans[j])
    BY DEF Chunk
  <2> HIDE DEF k, m
  <2> QED
    BY <2>1, EventFacts
<1> HIDE DEF k, m
<1>3. ASSUME NEW i \in 1 .. k + 2 * m
      PROVE  w[i].data \in ToSet(order) \cup EventsOf(spans)
  <2>1. CASE i \in 1 .. k
    <3>1. k \in 1 .. k /\ (i # 1 => i - 1 \in 1 .. k)
      BY <1>1, <2>1
    <3> QED
      BY <1>1, <1>2, <2>1, <3>1 DEF ToSet
  <2>2. CASE \E j \in 1 .. m : i = k + 2 * j - 1
    <3>1. PICK j \in 1 .. m : i = k + 2 * j - 1
      BY <2>2
    <3>2. w[i].data = Data("begin", spans[j]) /\ spans[j] \in ToSet(spans)
      BY <1>1, <1>2, <3>1 DEF ToSet
    <3> QED
      BY <3>2 DEF EventsOf
  <2>3. CASE \E j \in 1 .. m : i = k + 2 * j
    <3>1. PICK j \in 1 .. m : i = k + 2 * j
      BY <2>3
    <3>2. w[i].data = Data("end", spans[j]) /\ spans[j] \in ToSet(spans)
      BY <1>1, <1>2, <3>1 DEF ToSet
    <3> QED
      BY <3>2 DEF EventsOf
  <2> QED
    BY <1>1, <2>1, <2>2, <2>3, ChunkPlaces
<1>4. ASSUME NEW j \in 1 .. k
      PROVE  \E i \in 1 .. k + 2 * m : w[i].data = order[j]
  <2>1. CASE j = k
    <3>1. 1 \in 1 .. k /\ 1 \in 1 .. k + 2 * m
      BY <1>1
    <3> QED
      BY <1>2, <2>1, <3>1
  <2>2. CASE j # k
    <3>1. j + 1 \in 1 .. k /\ j + 1 # 1 /\ j + 1 - 1 = j /\ j + 1 \in 1 .. k + 2 * m
      BY <1>1, <2>2
    <3> QED
      BY <1>2, <3>1
  <2> QED
    BY <2>1, <2>2
<1>5. ASSUME NEW j \in 1 .. m
      PROVE  /\ \E i \in 1 .. k + 2 * m : w[i].data = Data("begin", spans[j])
             /\ \E i \in 1 .. k + 2 * m : w[i].data = Data("end", spans[j])
  BY <1>1, <1>2, ChunkIndices
<1> DEFINE all == {w[i].data : i \in 1 .. k + 2 * m}
<1>6. all \subseteq ToSet(order) \cup EventsOf(spans)
  BY <1>3
<1>7. ToSet(order) \subseteq all
  BY <1>1, <1>4 DEF ToSet
<1>8. EventsOf(spans) \subseteq all
  BY <1>1, <1>5 DEF ToSet, EventsOf
<1> QED
  BY <1>1, <1>6, <1>7, <1>8

\* Nothing is twice in a chunk.
LEMMA ChunkOnce ==
  ASSUME NEW w \in Seq(PacketSet), NEW order \in Seq(DataSet), NEW spans \in Seq(Nat),
         Chunk(w, order, spans), NoneTwice(order), NoneTwice(spans),
         \A d \in ToSet(order) : d.kind \notin {"begin", "end"}
  PROVE  \A i, j \in DOMAIN w : w[i].data = w[j].data => i = j
PROOF
<1> DEFINE k == Len(order)
           m == Len(spans)
<1>1. /\ k \in Nat /\ m \in Nat /\ DOMAIN order = 1 .. k /\ DOMAIN spans = 1 .. m
      /\ DOMAIN w = 1 .. k + 2 * m
  BY LenProperties DEF Chunk
<1>2. /\ \A j \in 1 .. k : w[j].data = IF j = 1 THEN order[k] ELSE order[j - 1]
      /\ \A j \in 1 .. m : /\ w[k + 2 * j - 1].data = Data("begin", spans[j])
                           /\ w[k + 2 * j].data = Data("end", spans[j])
  <2>1. /\ \A j \in 1 .. k : w[j].data = IF j = 1 THEN order[k] ELSE order[j - 1]
        /\ \A j \in 1 .. m : /\ w[k + 2 * j - 1] = Event("begin", spans[j])
                             /\ w[k + 2 * j] = Event("end", spans[j])
    BY DEF Chunk
  <2> HIDE DEF k, m
  <2> QED
    BY <2>1, EventFacts
<1> HIDE DEF k, m
<1>3. /\ \A i, j \in 1 .. k : order[i] = order[j] => i = j
      /\ \A i, j \in 1 .. m : spans[i] = spans[j] => i = j
      /\ \A i \in 1 .. k : order[i].kind \notin {"begin", "end"}
  BY <1>1 DEF NoneTwice, ToSet
<1>4. \A i \in 1 .. k : k \in 1 .. k /\ (i # 1 => i - 1 \in 1 .. k /\ i - 1 # k)
  BY <1>1
<1>5. \A i \in 1 .. k : w[i].data.kind \notin {"begin", "end"}
  BY <1>2, <1>3, <1>4
<1>6. ASSUME NEW i \in 1 .. k, NEW j \in 1 .. k, w[i].data = w[j].data
      PROVE  i = j
  <2>1. CASE i = 1 /\ j # 1
    <3>1. w[i].data = order[k] /\ w[j].data = order[j - 1]
      BY <1>2, <2>1
    <3>2. k \in 1 .. k /\ j - 1 \in 1 .. k /\ j - 1 # k
      BY <1>4, <2>1
    <3> QED
      BY <1>3, <1>6, <3>1, <3>2
  <2>2. CASE i # 1 /\ j = 1
    <3>1. w[j].data = order[k] /\ w[i].data = order[i - 1]
      BY <1>2, <2>2
    <3>2. k \in 1 .. k /\ i - 1 \in 1 .. k /\ i - 1 # k
      BY <1>4, <2>2
    <3> QED
      BY <1>3, <1>6, <3>1, <3>2
  <2>3. CASE i # 1 /\ j # 1
    <3>1. i - 1 = j - 1
      BY <1>2, <1>3, <1>4, <1>6, <2>3
    <3> QED
      BY <1>1, <3>1
  <2> QED
    BY <2>1, <2>2, <2>3
<1>7. /\ \A a, b : Data("begin", a) # Data("end", b)
      /\ \A a, b : Data("begin", a) = Data("begin", b) => a = b
      /\ \A a, b : Data("end", a) = Data("end", b) => a = b
      /\ \A a : Data("begin", a).kind = "begin" /\ Data("end", a).kind = "end"
  BY DEF Data
<1>8. ASSUME NEW i \in 1 .. k + 2 * m, NEW j \in 1 .. k + 2 * m, w[i].data = w[j].data
      PROVE  i = j
  <2> DEFINE Begins(z, g) == g \in 1 .. m /\ z = k + 2 * g - 1
             Ends(z, g) == g \in 1 .. m /\ z = k + 2 * g
  <2>1. \A z, g : Begins(z, g) => w[z].data = Data("begin", spans[g]) /\ w[z].data.kind = "begin"
    BY <1>2, <1>7
  <2>2. \A z, g : Ends(z, g) => w[z].data = Data("end", spans[g]) /\ w[z].data.kind = "end"
    BY <1>2, <1>7
  <2>3. \A z, y, g : (Begins(z, g) /\ Begins(y, g)) \/ (Ends(z, g) /\ Ends(y, g)) => z = y
    OBVIOUS
  <2>4. \A z, g : Begins(z, g) \/ Ends(z, g) => g \in 1 .. m
    OBVIOUS
  <2>5. ASSUME NEW z \in 1 .. k + 2 * m
        PROVE  z \in 1 .. k \/ \E g : Begins(z, g) \/ Ends(z, g)
    <3>1. \/ z \in 1 .. k
          \/ \E g \in 1 .. m : z = k + 2 * g - 1
          \/ \E g \in 1 .. m : z = k + 2 * g
      BY <1>1, ChunkPlaces, Zenon
    <3> QED
      BY <3>1, Zenon
  <2> HIDE DEF Begins, Ends
  <2>6. CASE i \in 1 .. k
    <3>1. w[j].data.kind \notin {"begin", "end"}
      BY <1>5, <1>8, <2>6
    <3>2. j \in 1 .. k
      BY <2>1, <2>2, <2>5, <3>1
    <3> QED
      BY <1>6, <1>8, <2>6, <3>2
  <2>7. ASSUME NEW g, Begins(i, g)
        PROVE  i = j
    <3>1. w[i].data = Data("begin", spans[g]) /\ w[j].data.kind = "begin"
      BY <1>8, <2>1, <2>7
    <3>2. PICK h : Begins(j, h)
      BY <1>5, <2>2, <2>5, <3>1
    <3>3. w[j].data = Data("begin", spans[h])
      BY <2>1, <3>2
    <3>4. Data("begin", spans[g]) = Data("begin", spans[h])
      BY <1>8, <3>1, <3>3
    <3>5. spans[g] = spans[h]
      BY <1>7, <3>4
    <3>6. g \in 1 .. m /\ h \in 1 .. m
      BY <2>4, <2>7, <3>2
    <3>7. g = h
      BY <1>3, <3>5, <3>6
    <3> QED
      BY <2>3, <2>7, <3>2, <3>7
  <2>8. ASSUME NEW g, Ends(i, g)
        PROVE  i = j
    <3>1. w[i].data = Data("end", spans[g]) /\ w[j].data.kind = "end"
      BY <1>8, <2>2, <2>8
    <3>2. PICK h : Ends(j, h)
      BY <1>5, <2>1, <2>5, <3>1
    <3>3. w[j].data = Data("end", spans[h])
      BY <2>2, <3>2
    <3>4. Data("end", spans[g]) = Data("end", spans[h])
      BY <1>8, <3>1, <3>3
    <3>5. spans[g] = spans[h]
      BY <1>7, <3>4
    <3>6. g \in 1 .. m /\ h \in 1 .. m
      BY <2>4, <2>8, <3>2
    <3>7. g = h
      BY <1>3, <3>5, <3>6
    <3> QED
      BY <2>3, <2>8, <3>2, <3>7
  <2> QED
    BY <2>5, <2>6, <2>7, <2>8
<1> QED
  BY <1>1, <1>8

\* The events of a span stand together in a chunk, behind all its descriptors.
LEMMA ChunkPaired ==
  ASSUME NEW w \in Seq(PacketSet), NEW order \in Seq(DataSet), NEW spans \in Seq(Nat),
         Chunk(w, order, spans), \A d \in ToSet(order) : d.kind \notin {"begin", "end"},
         NEW i \in DOMAIN w, w[i].data.kind \in {"begin", "end"}
  PROVE  /\ w[i].time = w[i].data
         /\ w[i].data.kind = "begin" =>
              /\ i + 1 \in DOMAIN w /\ w[i + 1].data = Data("end", w[i].data.of)
              /\ w[i].data.of \in ToSet(spans)
              /\ \A d \in ToSet(order) : \E j \in 1 .. i - 1 : w[j].data = d
PROOF
<1> DEFINE k == Len(order)
           m == Len(spans)
<1>1. /\ k \in Nat /\ m \in Nat /\ DOMAIN order = 1 .. k /\ DOMAIN spans = 1 .. m
      /\ DOMAIN w = 1 .. k + 2 * m
  BY LenProperties DEF Chunk
<1>2. /\ \A j \in 1 .. k : w[j].data = IF j = 1 THEN order[k] ELSE order[j - 1]
      /\ \A j \in 1 .. m : /\ w[k + 2 * j - 1] = Event("begin", spans[j])
                           /\ w[k + 2 * j] = Event("end", spans[j])
  BY DEF Chunk
<1> HIDE DEF k, m
<1>3. i \notin 1 .. k
  <2>1. \A j \in 1 .. k : k \in 1 .. k /\ (j # 1 => j - 1 \in 1 .. k)
    BY <1>1
  <2>2. \A j \in 1 .. k : order[j] \in ToSet(order)
    BY <1>1 DEF ToSet
  <2>3. \A j \in 1 .. k : w[j].data \in ToSet(order)
    BY <1>2, <2>1, <2>2
  <2> QED
    BY <2>3
<1>4. ASSUME NEW d \in ToSet(order)
      PROVE  \E j \in 1 .. k : w[j].data = d
  <2>1. PICK j \in 1 .. k : order[j] = d
    BY <1>1 DEF ToSet
  <2>2. CASE j = k
    <3>1. 1 \in 1 .. k
      BY <1>1
    <3> QED
      BY <1>2, <2>1, <2>2, <3>1
  <2>3. CASE j # k
    <3>1. j + 1 \in 1 .. k /\ j + 1 # 1 /\ j + 1 - 1 = j
      BY <1>1, <2>3
    <3> QED
      BY <1>2, <2>1, <3>1
  <2> QED
    BY <2>2, <2>3
<1>5. CASE \E j \in 1 .. m : i = k + 2 * j - 1
  <2>1. PICK j \in 1 .. m : i = k + 2 * j - 1
    BY <1>5
  <2>2. w[i] = Event("begin", spans[j]) /\ spans[j] \in ToSet(spans)
    BY <1>1, <1>2, <2>1 DEF ToSet
  <2>3. i + 1 = k + 2 * j /\ i + 1 \in 1 .. k + 2 * m /\ 1 .. k \subseteq 1 .. i - 1
    BY <1>1, <2>1
  <2>4. w[i + 1] = Event("end", spans[j])
    BY <1>2, <2>3
  <2>5. w[i].time = w[i].data /\ w[i].data.of = spans[j]
    BY EventFacts, <2>2
  <2>6. w[i + 1].data = Data("end", w[i].data.of)
    BY EventFacts, <2>4, <2>5
  <2>7. \A d \in ToSet(order) : \E h \in 1 .. i - 1 : w[h].data = d
    BY <1>4, <2>3
  <2> QED
    BY <1>1, <2>2, <2>3, <2>5, <2>6, <2>7
<1>6. CASE \E j \in 1 .. m : i = k + 2 * j
  <2>1. PICK j \in 1 .. m : w[i] = Event("end", spans[j])
    BY <1>2, <1>6
  <2>2. w[i].data = w[i].time /\ w[i].data.kind # "begin"
    BY EventFacts, <2>1
  <2> QED
    BY <2>2
<1>7. \/ i \in 1 .. k
      \/ \E j \in 1 .. m : i = k + 2 * j - 1
      \/ \E j \in 1 .. m : i = k + 2 * j
  BY <1>1, ChunkPlaces, ZenonT(30)
<1> QED
  BY <1>3, <1>5, <1>6, <1>7, Zenon

-----------------------------------------------------------------------------
(* SourceInv. *)

\* The descriptor of a thread is one of a thread.
LEMMA ThreadDescriptorType ==
  ASSUME tid \in [Thread -> ThreadId]
  PROVE  /\ ThreadDescriptors \subseteq DataSet
         /\ \A d \in ThreadDescriptors : d.kind = "thread"
         /\ \A t \in Thread : ThreadDescriptor(t) \in ThreadDescriptors
         /\ \A t \in Thread : ProcessDescriptor(t) \in DataSet /\ ProcessDescriptor(t).kind = "process"
PROOF
<1>1. \A t \in Thread : tid[t] \in Nat
  BY RtAssumption
<1> QED
  BY <1>1 DEF ThreadDescriptors, ThreadDescriptor, ProcessDescriptor, Data, DataSet

\* There are no more descriptors than threads, and one.
LEMMA DescriptorsFew ==
  ASSUME FlowInv, SourceInv
  PROVE  /\ IsFiniteSet(DOMAIN descriptors)
         /\ Cardinality(DOMAIN descriptors) <= Cardinality(Thread) + 1
         /\ Cardinality(Thread) \in Nat
PROOF
<1> DEFINE f == [t \in Thread |-> ThreadDescriptor(t)]
           D == DOMAIN descriptors
<1>1. IsFiniteSet(Thread) /\ Cardinality(Thread) \in Nat
  BY RtAssumption, FS_CardinalityType
<1>2. f \in Surjection(Thread, ThreadDescriptors)
  BY DEF Surjection, ThreadDescriptors
<1>3. IsFiniteSet(ThreadDescriptors) /\ Cardinality(ThreadDescriptors) <= Cardinality(Thread)
  BY <1>1, <1>2, FS_Surjection
<1>4. Cardinality(ThreadDescriptors) \in Nat
  BY <1>3, FS_CardinalityType
<1>5. CASE \E p \in D : p.kind = "process"
  <2>1. PICK p \in D : p.kind = "process"
    BY <1>5
  <2>2. D \in SUBSET (ThreadDescriptors \cup {p})
    BY <2>1 DEF SourceInv
  <2>3. /\ IsFiniteSet(ThreadDescriptors \cup {p})
        /\ Cardinality(ThreadDescriptors \cup {p}) <= Cardinality(ThreadDescriptors) + 1
    <3>1. /\ IsFiniteSet(ThreadDescriptors \cup {p})
          /\ Cardinality(ThreadDescriptors \cup {p}) =
               IF p \in ThreadDescriptors THEN Cardinality(ThreadDescriptors)
               ELSE Cardinality(ThreadDescriptors) + 1
      BY <1>3, FS_AddElement
    <3> QED
      BY <1>4, <3>1
  <2>4. IsFiniteSet(D) /\ Cardinality(D) <= Cardinality(ThreadDescriptors \cup {p})
    BY <2>2, <2>3, FS_Subset
  <2>5. Cardinality(D) \in Nat /\ Cardinality(ThreadDescriptors \cup {p}) \in Nat
    BY <2>3, <2>4, FS_CardinalityType
  <2> HIDE DEF D
  <2> QED
    BY <1>1, <1>3, <1>4, <2>3, <2>4, <2>5 DEF D
<1>6. CASE ~(\E p \in D : p.kind = "process")
  <2>1. D \in SUBSET ThreadDescriptors
    BY <1>6 DEF SourceInv
  <2>2. IsFiniteSet(D) /\ Cardinality(D) <= Cardinality(ThreadDescriptors)
    BY <1>3, <2>1, FS_Subset
  <2>3. Cardinality(D) \in Nat
    BY <2>2, FS_CardinalityType
  <2> HIDE DEF D
  <2> QED
    BY <1>1, <1>3, <1>4, <2>2, <2>3 DEF D
<1> QED
  BY <1>5, <1>6

\* drain_descriptors gives each of them once.
LEMMA Enumerated ==
  ASSUME NEW U, IsFiniteSet(U), U \subseteq DataSet, NEW order \in SetToSeqs(U)
  PROVE  /\ order \in Seq(DataSet) /\ Len(order) = Cardinality(U)
         /\ NoneTwice(order) /\ ToSet(order) = U
PROOF
<1> DEFINE n == Cardinality(U)
<1>1. n \in Nat
  BY FS_CardinalityType
<1>2. order \in [1 .. n -> U] /\ \A i, j \in 1 .. n : i # j => order[i] # order[j]
  BY DEF SetToSeqs
<1>3. Cardinality(1 .. n) = n
  <2> HIDE DEF n
  <2>1. Cardinality(1 .. n) = IF 1 > n THEN 0 ELSE n - 1 + 1
    BY <1>1, FS_Interval
  <2> QED
    BY <1>1, <2>1
<1>4. order \in Injection(1 .. n, U)
  BY <1>2 DEF Injection, IsInjective
<1>5. order \in Surjection(1 .. n, U)
  BY <1>3, <1>4, FS_Injection
<1> HIDE DEF n
<1>6. order \in [1 .. n -> DataSet]
  BY <1>2
<1>7. order \in Seq(DataSet) /\ Len(order) = n
  BY <1>1, <1>6
<1>8. DOMAIN order = 1 .. n
  BY <1>2
<1>9. NoneTwice(order)
  BY <1>2, <1>8 DEF NoneTwice
<1>10. ToSet(order) = U
  BY <1>2, <1>5, <1>8 DEF ToSet, Surjection
<1> QED
  BY <1>7, <1>9, <1>10 DEF n

\* What a step that writes a batch adds to the output.
LEMMA BatchWritten ==
  ASSUME FlowInv, SourceInv, ConsumeBatch
  PROVE  \E order \in Seq(DataSet), w \in Seq(PacketSet) :
            /\ output' = output \o w /\ Chunk(w, order, Head(writing))
            /\ NoneTwice(order) /\ ToSet(order) = Unflushed
            /\ Rested(pool')
PROOF
<1>1. PICK order \in SetToSeqs(Unflushed) :
        /\ output' = output \o Consume(pool, consumer, order, Head(writing)).written
        /\ pool' = Consume(pool, consumer, order, Head(writing)).pool
  BY DEF ConsumeBatch
<1>2. DOMAIN descriptors \subseteq DataSet
  BY ThreadDescriptorType DEF SourceInv, FlowInv, ThreadType
<1>3. Unflushed \in SUBSET DOMAIN descriptors
  BY DEF Unflushed
<1>4. /\ IsFiniteSet(Unflushed) /\ Cardinality(Unflushed) <= Cardinality(DOMAIN descriptors)
      /\ Cardinality(DOMAIN descriptors) <= Cardinality(Thread) + 1
      /\ Cardinality(Thread) \in Nat
  BY <1>3, DescriptorsFew, FS_Subset
<1>5. /\ order \in Seq(DataSet) /\ Len(order) = Cardinality(Unflushed)
      /\ NoneTwice(order) /\ ToSet(order) = Unflushed
  BY <1>1, <1>2, <1>3, <1>4, Enumerated
<1> DEFINE spans == Head(writing)
           k == Len(order)
           m == Len(spans)
           result == Consume(pool, consumer, order, spans)
<1>6. consumer \in Thread /\ writing # <<>> /\ writing \in Seq(Batch)
  BY DEF ConsumeBatch, Writing, FlowInv, ConsumerType
<1>7. spans \in Batch
  BY <1>6, HeadTailProperties
<1>8. spans \in Seq(Nat) /\ m <= BatchSize /\ m \in Nat
  <2>1. spans \in Seq(Span) /\ m <= BatchSize
    BY <1>7 DEF Batch
  <2>2. Span \subseteq Nat
    BY Numbers
  <2> HIDE DEF spans
  <2> QED
    BY <2>1, <2>2, SeqMonotonic, LenProperties
<1>9. k + 2 * m <= BufSize
  <2>1. k \in Nat /\ k <= Cardinality(Thread) + 1 /\ Cardinality(Thread) + 1 <= 2 * BatchSize
    <3>1. Cardinality(DOMAIN descriptors) \in Nat /\ k \in Nat
      BY <1>5, DescriptorsFew, FS_CardinalityType, LenProperties
    <3> HIDE DEF k
    <3> QED
      BY <1>4, <1>5, <3>1, RtAssumption DEF k
  <2>2. BatchSize \in Nat /\ BufSize = BatchSize * 4
    BY Numbers DEF BufSize
  <2> HIDE DEF k, m
  <2> QED
    BY <1>4, <1>8, <2>1, <2>2
<1>10. Rested(pool)
  BY DEF SourceInv
<1> HIDE DEF spans
<1>11. LET r == Consume(pool, consumer, order, spans)
       IN  /\ Rested(r.pool) /\ Len(r.pool.objects) = 2
           /\ r.written \in Seq(PacketSet) /\ Len(r.written) = Len(order) + 2 * Len(spans)
           /\ \A j \in 1 .. Len(order) :
                r.written[j].data = IF j = 1 THEN order[Len(order)] ELSE order[j - 1]
           /\ \A j \in 1 .. Len(spans) :
                /\ r.written[Len(order) + 2 * j - 1] = Event("begin", spans[j])
                /\ r.written[Len(order) + 2 * j] = Event("end", spans[j])
  <2>1. Rested(pool) /\ consumer \in Thread /\ order \in Seq(DataSet) /\ spans \in Seq(Nat)
        /\ Len(order) + 2 * Len(spans) <= BufSize
    BY <1>5, <1>6, <1>8, <1>9, <1>10
  <2>2. LET r == Consume(pool, consumer, order, spans)
            n == Len(order)
            l == Len(spans)
        IN  /\ Rested(r.pool) /\ Len(r.pool.objects) = 2
            /\ r.written \in Seq(PacketSet) /\ Len(r.written) = n + 2 * l
            /\ \A j \in 1 .. n : r.written[j].data = IF j = 1 THEN order[n] ELSE order[j - 1]
            /\ \A j \in 1 .. l : /\ r.written[n + 2 * j - 1] = Event("begin", spans[j])
                                 /\ r.written[n + 2 * j] = Event("end", spans[j])
    BY <2>1, ConsumeWrites
  <2> QED
    BY <2>2
<1>12. /\ Rested(result.pool) /\ result.written \in Seq(PacketSet)
       /\ Chunk(result.written, order, spans)
  <2> HIDE DEF result
  <2> QED
    BY <1>11 DEF Chunk, result
<1> QED
  BY <1>1, <1>5, <1>12 DEF spans

\* What is in a longer output.
LEMMA OutputGrows ==
  ASSUME NEW a \in Seq(PacketSet), NEW w \in Seq(PacketSet)
  PROVE  /\ a \o w \in Seq(PacketSet) /\ DOMAIN a = 1 .. Len(a) /\ DOMAIN w = 1 .. Len(w)
         /\ Len(a) \in Nat /\ Len(w) \in Nat
         /\ DOMAIN (a \o w) = 1 .. Len(a) + Len(w)
         /\ \A i \in 1 .. Len(a) : i \in 1 .. Len(a) + Len(w) /\ (a \o w)[i] = a[i]
         /\ \A i \in 1 .. Len(w) : /\ Len(a) + i \in 1 .. Len(a) + Len(w)
                                   /\ (a \o w)[Len(a) + i] = w[i]
         /\ \A i \in 1 .. Len(a) + Len(w) :
              i \in 1 .. Len(a) \/ \E j \in 1 .. Len(w) : i = Len(a) + j
         /\ {(a \o w)[i].data : i \in DOMAIN (a \o w)} =
              {a[i].data : i \in DOMAIN a} \cup {w[i].data : i \in DOMAIN w}
PROOF
<1> DEFINE n == Len(a)
           m == Len(w)
           all == a \o w
<1>1. n \in Nat /\ m \in Nat /\ DOMAIN a = 1 .. n /\ DOMAIN w = 1 .. m
  BY LenProperties
<1>2. /\ all \in Seq(PacketSet) /\ Len(all) = n + m
      /\ \A i \in 1 .. n + m : all[i] = IF i <= n THEN a[i] ELSE w[i - n]
  BY ConcatProperties
<1>3. DOMAIN all = 1 .. n + m
  BY <1>2, LenProperties
<1> HIDE DEF n, m, all
<1>4. \A i \in 1 .. n : i \in 1 .. n + m /\ all[i] = a[i]
  BY <1>1, <1>2
<1>5. ASSUME NEW i \in 1 .. m
      PROVE  n + i \in 1 .. n + m /\ all[n + i] = w[i]
  <2>1. n + i \in 1 .. n + m /\ ~(n + i <= n) /\ n + i - n = i
    BY <1>1
  <2>2. ASSUME NEW j \in 1 .. n + m, j = n + i
        PROVE  all[j] = w[i]
    <3>1. all[j] = IF j <= n THEN a[j] ELSE w[j - n]
      BY <1>2
    <3>2. ~(j <= n) /\ j - n = i
      BY <1>1, <2>2
    <3> QED
      BY <3>1, <3>2
  <2> QED
    BY <2>1, <2>2
<1>6. \A i \in 1 .. n + m : i \in 1 .. n \/ \E j \in 1 .. m : i = n + j
  <2>1. ASSUME NEW i \in 1 .. n + m, i \notin 1 .. n
        PROVE  i - n \in 1 .. m /\ i = n + (i - n)
    BY <1>1, <2>1
  <2> QED
    BY <2>1
<1>7. {all[i].data : i \in 1 .. n + m} = {a[i].data : i \in 1 .. n} \cup {w[i].data : i \in 1 .. m}
  <2>1. ASSUME NEW i \in 1 .. n + m
        PROVE  all[i].data \in {a[j].data : j \in 1 .. n} \cup {w[j].data : j \in 1 .. m}
    BY <1>4, <1>5, <1>6
  <2>2. \A i \in 1 .. n : a[i].data \in {all[j].data : j \in 1 .. n + m}
    BY <1>4
  <2>3. \A i \in 1 .. m : w[i].data \in {all[j].data : j \in 1 .. n + m}
    BY <1>5
  <2>4. {all[i].data : i \in 1 .. n + m} \subseteq
          {a[i].data : i \in 1 .. n} \cup {w[i].data : i \in 1 .. m}
    BY <2>1, Zenon
  <2>5. {a[i].data : i \in 1 .. n} \subseteq {all[j].data : j \in 1 .. n + m}
    BY <2>2, Zenon
  <2>6. {w[i].data : i \in 1 .. m} \subseteq {all[j].data : j \in 1 .. n + m}
    BY <2>3, Zenon
  <2> QED
    BY <2>4, <2>5, <2>6, Zenon
<1> QED
  BY <1>1, <1>2, <1>3, <1>4, <1>5, <1>6, <1>7 DEF n, m, all

\* What is written are numbers of spans.
LEMMA WritingSpans ==
  ASSUME FlowInv, writing # <<>>
  PROVE  /\ Head(writing) \in Batch /\ Head(writing) \in Seq(Nat) /\ Head(writing) \in Seq(Span)
         /\ Tail(writing) \in Seq(Batch)
PROOF
<1>1. writing \in Seq(Batch)
  BY DEF FlowInv, ConsumerType
<1>2. Head(writing) \in Batch /\ Tail(writing) \in Seq(Batch)
  BY <1>1, HeadTailProperties
<1>3. Head(writing) \in Seq(Span) /\ Span \subseteq Nat
  BY <1>2, Numbers DEF Batch
<1> DEFINE h == Head(writing)
<1> HIDE DEF h
<1>4. h \in Seq(Span) /\ Span \subseteq Nat => h \in Seq(Nat)
  BY SeqMonotonic
<1> QED
  BY <1>2, <1>3, <1>4 DEF h

\* What a step that writes a batch adds to what is written.
LEMMA BatchDatas ==
  ASSUME FlowInv, SourceInv, ConsumeBatch
  PROVE  /\ output' \in Seq(PacketSet)
         /\ Datas' = Datas \cup Unflushed \cup EventsOf(Head(writing))
PROOF
<1>1. PICK order \in Seq(DataSet), w \in Seq(PacketSet) :
            /\ output' = output \o w /\ Chunk(w, order, Head(writing))
            /\ ToSet(order) = Unflushed
  BY BatchWritten
<1>2. Head(writing) \in Seq(Nat)
  BY WritingSpans DEF ConsumeBatch
<1>3. {w[i].data : i \in DOMAIN w} = ToSet(order) \cup EventsOf(Head(writing))
  BY <1>1, <1>2, ChunkDatas
<1>4. output \in Seq(PacketSet)
  BY DEF SourceInv
<1>5. /\ output \o w \in Seq(PacketSet)
      /\ {(output \o w)[i].data : i \in DOMAIN (output \o w)} =
              {output[i].data : i \in DOMAIN output} \cup {w[i].data : i \in DOMAIN w}
  BY <1>4, OutputGrows
<1> QED
  BY <1>1, <1>3, <1>5 DEF Datas

\* The variables SourceInv is about.
sourceVars == <<pool, output, descriptors, initialized, owner, flushedOnce, tid>>

LEMMA SourceSame ==
  ASSUME SourceInv, UNCHANGED sourceVars
  PROVE  SourceInv'
PROOF
  BY DEF SourceInv, sourceVars, Datas, ThreadDescriptors, ThreadDescriptor

\* A puller that is empty between two calls is dropped without a trace.
LEMMA PullerDropped ==
  ASSUME Rested(pool), NEW t \in Thread
  PROVE  DropPuller(pool, t) = pool
PROOF
<1>1. pool \in PoolType /\ pool.puller[t] = <<>>
  BY DEF Rested
<1> QED
  BY <1>1 DEF PoolType, DropPuller

LEMMA SourceThread ==
  ASSUME FlowInv, SourceInv, NEW t \in Thread,
         \/ Spawn(t) \/ Exit(t) \/ Start(t) \/ Stop(t) \/ NewSpanPanics(t) \/ Flush(t) \/ CallStep(t)
         \/ \E s \in Span : DropSpan(t, s)
  PROVE  SourceInv'
PROOF
<1> USE DEF sourceVars, spanVars, writeVars
<1>1. CASE Spawn(t) \/ Start(t) \/ Stop(t) \/ Flush(t)
  <2>1. UNCHANGED sourceVars
    BY <1>1 DEF Spawn, Start, Stop, Flush
  <2> QED
    BY <2>1, SourceSame
<1>2. CASE Exit(t) \/ NewSpanPanics(t)
  <2>1. DropPuller(pool, t) = pool
    BY PullerDropped DEF SourceInv
  <2>2. UNCHANGED sourceVars
    BY <1>2, <2>1 DEF Exit, NewSpanPanics
  <2> QED
    BY <2>2, SourceSame
<1>3. CASE CallStep(t)
  <2>1. UNCHANGED sourceVars
    BY <1>3 DEF CallStep, PushSpan, Send, RegisterReceiver, SendBatch, LoseBatch, FlushShard,
                FlushStart, FlushBegin, Begin
  <2> QED
    BY <2>1, SourceSame
<1>4. CASE \E s \in Span : DropSpan(t, s)
  <2>1. UNCHANGED sourceVars
    BY <1>4 DEF DropSpan
  <2> QED
    BY <2>1, SourceSame
<1> QED
  BY <1>1, <1>2, <1>3, <1>4

\* A descriptor entered that was not there.
LEMMA Entered ==
  ASSUME NEW d, d \notin DOMAIN descriptors,
         descriptors \in [DOMAIN descriptors -> BOOLEAN]
  PROVE  /\ DOMAIN AddDescriptor(d) = DOMAIN descriptors \cup {d} /\ AddDescriptor(d)[d] = FALSE
         /\ AddDescriptor(d) \in [DOMAIN AddDescriptor(d) -> BOOLEAN]
         /\ \A e \in DOMAIN descriptors : AddDescriptor(d)[e] = descriptors[e]
PROOF
<1> DEFINE g == AddDescriptor(d)
           D == DOMAIN descriptors
<1>1. g = [e \in D \cup {d} |-> IF e = d THEN FALSE ELSE descriptors[e]]
  BY DEF AddDescriptor
<1>2. \A e \in D : descriptors[e] \in BOOLEAN
  OBVIOUS
<1> HIDE DEF g, D
<1>3. g \in [D \cup {d} -> BOOLEAN] /\ DOMAIN g = D \cup {d} /\ g[d] = FALSE
  BY <1>1, <1>2
<1>4. \A e \in D : g[e] = descriptors[e]
  BY <1>1 DEF D
<1> QED
  BY <1>3, <1>4 DEF g, D

\* The first span of a thread enters its descriptor.
LEMMA SourceNewSpan ==
  ASSUME FlowInv, SourceInv, NEW t \in Thread, NewSpan(t)
  PROVE  SourceInv'
PROOF
<1> DEFINE td == ThreadDescriptor(t)
           D == DOMAIN descriptors
<1>1. tid' = tid /\ pool' = pool /\ output' = output /\ flushedOnce' = flushedOnce
  BY DEF NewSpan, writeVars
<1>2. Datas' = Datas /\ ThreadDescriptors' = ThreadDescriptors
      /\ \A u \in Thread : ThreadDescriptor(u)' = ThreadDescriptor(u)
  BY <1>1 DEF Datas, ThreadDescriptors, ThreadDescriptor
<1>3. td \in ThreadDescriptors /\ td.kind = "thread"
  BY ThreadDescriptorType DEF FlowInv, ThreadType
<1>4. initialized' = [initialized EXCEPT ![t] = TRUE] /\ initialized \in [Thread -> BOOLEAN]
  BY DEF NewSpan, FlowInv, ThreadType
<1>5. \A x \in 1 .. Len(owner') : initialized'[owner'[x]]
  <2>1. owner \in Seq(Thread) /\ owner' = Append(owner, t)
    BY DEF NewSpan, FlowInv, ThreadType
  <2>2. /\ Len(owner') = Len(owner) + 1 /\ Len(owner) \in Nat
        /\ \A x \in 1 .. Len(owner) : owner'[x] = owner[x] /\ owner[x] \in Thread
        /\ owner'[Len(owner) + 1] = t
    BY <2>1, AppendProperties, LenProperties, ElementOfSeq
  <2>3. \A x \in 1 .. Len(owner') : x \in 1 .. Len(owner) \/ x = Len(owner) + 1
    BY <2>2
  <2>4. \A x \in 1 .. Len(owner) : initialized[owner[x]]
    BY DEF SourceInv
  <2> QED
    BY <1>4, <2>2, <2>3, <2>4
<1>6. CASE initialized[t]
  <2>1. descriptors' = descriptors /\ initialized' = initialized
    BY <1>4, <1>6 DEF NewSpan
  <2> QED
    BY <1>1, <1>2, <1>5, <2>1 DEF SourceInv
<1>7. CASE ~initialized[t]
  <2>1. td \notin D /\ descriptors' = AddDescriptor(td)
    BY <1>7 DEF NewSpan
  <2>2. /\ DOMAIN descriptors' = D \cup {td} /\ descriptors'[td] = FALSE
        /\ descriptors' \in [DOMAIN descriptors' -> BOOLEAN]
        /\ \A d \in D : descriptors'[d] = descriptors[d]
    BY <2>1, Entered, ZenonT(30) DEF SourceInv
  <2>3. td \notin Datas
    BY <1>3, <2>1 DEF SourceInv
  <2>4. \A u \in Thread : initialized'[u] => u = t \/ initialized[u]
    BY <1>4
  <2> HIDE DEF td, D
  <2>5. \A u \in Thread : initialized'[u] => ThreadDescriptor(u)' \in DOMAIN descriptors'
    BY <1>2, <2>2, <2>4 DEF SourceInv, td, D
  <2>6. \A d \in DOMAIN descriptors' :
          d \in ThreadDescriptors \/ (flushedOnce /\ d.kind = "process" /\ d \in DataSet)
    BY <1>3, <2>2 DEF SourceInv, D
  <2>7. \A d, e \in DOMAIN descriptors' : d.kind = "process" /\ e.kind = "process" => d = e
    BY <1>3, <2>2 DEF SourceInv, D
  <2>8. \A d \in DOMAIN descriptors' : descriptors'[d] <=> d \in Datas
    BY <2>2, <2>3 DEF SourceInv, D
  <2>9. \A d \in Datas : d.kind \in {"process", "thread"} => d \in DOMAIN descriptors'
    BY <2>2 DEF SourceInv, D
  <2> QED
    BY <1>1, <1>2, <1>5, <2>2, <2>5, <2>6, <2>7, <2>8, <2>9 DEF SourceInv
<1> QED
  BY <1>6, <1>7

\* The first flush enters the descriptor of the process.
LEMMA SourceWriteBegin ==
  ASSUME FlowInv, SourceInv, WriteBegin
  PROVE  SourceInv'
PROOF
<1> DEFINE pd == ProcessDescriptor(consumer)
           D == DOMAIN descriptors
<1>1. /\ tid' = tid /\ pool' = pool /\ output' = output /\ owner' = owner
      /\ initialized' = initialized /\ flushedOnce' = TRUE
  BY DEF WriteBegin, spanVars
<1>2. Datas' = Datas /\ ThreadDescriptors' = ThreadDescriptors
      /\ \A u \in Thread : ThreadDescriptor(u)' = ThreadDescriptor(u)
  BY <1>1 DEF Datas, ThreadDescriptors, ThreadDescriptor
<1>3. consumer \in Thread
  BY Numbers, LenProperties DEF FlowInv, WriteBegin, ConsumerInv, ConsumerType
<1>4. pd \in DataSet /\ pd.kind = "process" /\ \A d \in ThreadDescriptors : d.kind = "thread"
  BY <1>3, ThreadDescriptorType DEF FlowInv, ThreadType
<1>5. CASE flushedOnce
  <2>1. descriptors' = descriptors
    BY <1>5 DEF WriteBegin
  <2> QED
    BY <1>1, <1>2, <1>5, <2>1 DEF SourceInv
<1>6. CASE ~flushedOnce
  <2>1. descriptors' = AddDescriptor(pd)
    BY <1>6 DEF WriteBegin
  <2>2. \A d \in D : d \in ThreadDescriptors
    BY <1>6 DEF SourceInv
  <2>3. pd \notin D
    BY <1>4, <2>2
  <2>4. /\ DOMAIN descriptors' = D \cup {pd} /\ descriptors'[pd] = FALSE
        /\ descriptors' \in [DOMAIN descriptors' -> BOOLEAN]
        /\ \A d \in D : descriptors'[d] = descriptors[d]
    BY <2>1, <2>3, Entered, ZenonT(30) DEF SourceInv
  <2>5. pd \notin Datas
    BY <1>4, <2>3 DEF SourceInv
  <2> HIDE DEF pd, D
  <2>6. \A d \in DOMAIN descriptors' :
          d \in ThreadDescriptors \/ (flushedOnce' /\ d.kind = "process" /\ d \in DataSet)
    BY <1>1, <1>4, <2>2, <2>4
  <2>7. \A d, e \in DOMAIN descriptors' : d.kind = "process" /\ e.kind = "process" => d = e
    BY <1>4, <2>2, <2>4
  <2>8. \A d \in DOMAIN descriptors' : descriptors'[d] <=> d \in Datas
    BY <2>4, <2>5 DEF SourceInv, D
  <2>9. \A d \in Datas : d.kind \in {"process", "thread"} => d \in DOMAIN descriptors'
    BY <2>4 DEF SourceInv, D
  <2>10. \A u \in Thread : initialized[u] => ThreadDescriptor(u) \in DOMAIN descriptors'
    BY <2>4 DEF SourceInv, D
  <2> QED
    BY <1>1, <1>2, <2>4, <2>6, <2>7, <2>8, <2>9, <2>10 DEF SourceInv
<1> QED
  BY <1>5, <1>6

\* What is flushed is written, and what is written is flushed.
LEMMA SourceConsumeBatch ==
  ASSUME FlowInv, SourceInv, ConsumeBatch
  PROVE  SourceInv'
PROOF
<1>1. /\ tid' = tid /\ owner' = owner /\ initialized' = initialized /\ flushedOnce' = flushedOnce
      /\ descriptors' = [d \in DOMAIN descriptors |-> TRUE]
  BY DEF ConsumeBatch, spanVars
<1>2. ThreadDescriptors' = ThreadDescriptors
      /\ \A u \in Thread : ThreadDescriptor(u)' = ThreadDescriptor(u)
  BY <1>1 DEF ThreadDescriptors, ThreadDescriptor
<1>3. output' \in Seq(PacketSet) /\ Datas' = Datas \cup Unflushed \cup EventsOf(Head(writing))
  BY BatchDatas
<1>4. Rested(pool')
  BY BatchWritten
<1>5. \A d \in DOMAIN descriptors : d \in Datas'
  BY <1>3 DEF SourceInv, Unflushed
<1>6. \A d \in EventsOf(Head(writing)) : d.kind \in {"begin", "end"}
  BY EventFacts DEF EventsOf
<1>7. \A d \in Datas' : d.kind \in {"process", "thread"} => d \in DOMAIN descriptors
  BY <1>3, <1>6 DEF SourceInv, Unflushed
<1>8. /\ DOMAIN descriptors' = DOMAIN descriptors
      /\ \A d \in DOMAIN descriptors : descriptors'[d] = TRUE
      /\ descriptors' \in [DOMAIN descriptors' -> BOOLEAN]
  BY <1>1
<1>9. Rested(pool)'
  BY <1>4 DEF Rested
<1> QED
  BY <1>1, <1>2, <1>3, <1>5, <1>7, <1>8, <1>9 DEF SourceInv

\* Before anything is written.
LEMMA SourceInit == Init => SourceInv
PROOF
<1> SUFFICES ASSUME Init
             PROVE  SourceInv
  OBVIOUS
<1>1. output = <<>> /\ owner = <<>> /\ DOMAIN descriptors = {} /\ pool = NewPool(Thread)
      /\ descriptors \in [DOMAIN descriptors -> BOOLEAN]
      /\ \A t \in Thread : ~initialized[t]
  BY DEF Init
<1>2. Rested(pool)
  <2>1. <<>> \in Seq(Vector) /\ Len(<<>>) = 0
    OBVIOUS
  <2> QED
    BY <1>1, <2>1 DEF Rested, NewPool, PoolType
<1>3. Datas = {} /\ output \in Seq(PacketSet) /\ 1 .. Len(owner) = {}
  BY <1>1 DEF Datas
<1> QED
  BY <1>1, <1>2, <1>3 DEF SourceInv

\* SourceInv is inductive, given FlowInv.
LEMMA SourceStep == FlowInv /\ SourceInv /\ [Next]_vars => SourceInv'
PROOF
<1> SUFFICES ASSUME FlowInv, SourceInv, [Next]_vars
             PROVE  SourceInv'
  OBVIOUS
<1>1. ASSUME NEW t \in Thread,
             \/ Spawn(t) \/ Exit(t) \/ Start(t) \/ Stop(t)
             \/ NewSpan(t) \/ NewSpanPanics(t) \/ Flush(t) \/ CallStep(t)
             \/ \E s \in Span : DropSpan(t, s)
      PROVE  SourceInv'
  BY <1>1, SourceThread, SourceNewSpan, Zenon
<1>2. CASE LoopBegin \/ RecvCommand \/ RecvNone \/ LoopDone \/ WriteDone \/ UNCHANGED vars
  <2>1. UNCHANGED sourceVars
    BY <1>2 DEF LoopBegin, Begin, RecvCommand, RecvNone, LoopDone, WriteDone, vars, sourceVars,
                spanVars, writeVars
  <2> QED
    BY <2>1, SourceSame
<1>3. CASE WriteBegin \/ ConsumeBatch
  BY <1>3, SourceWriteBegin, SourceConsumeBatch
<1> QED
  BY <1>1, <1>2, <1>3, Zenon DEF Next, Collect

\* SourceInv holds throughout.
LEMMA Source == Spec => []SourceInv
PROOF
  BY SourceInit, SourceStep, Flow, PTL DEF Spec

\* However many flushes there are and from whatever threads, the pool holds no
\* vector or the same number of whole ones.
THEOREM PoolKept == Spec => []PoolStable
PROOF
<1>1. ASSUME SourceInv
      PROVE  PoolStable
  <2>1. pool \in PoolType /\ (\A t \in Thread : pool.puller[t] = <<>>) /\ Len(pool.objects) \in {0, 2}
    BY <1>1 DEF SourceInv, Rested
  <2>2. ASSUME NEW i \in DOMAIN pool.objects
        PROVE  Len(pool.objects[i]) = BufSize
    <3>1. pool.objects \in Seq(Vector)
      BY <2>1 DEF PoolType
    <3>2. pool.objects[i] \in [1 .. BufSize -> PacketSet]
      BY <3>1, LenProperties, ElementOfSeq DEF Vector
    <3> QED
      BY <3>2, BufSizeType
  <2> QED
    BY <2>1, <2>2 DEF PoolStable
<1> QED
  BY <1>1, Source, PTL
-----------------------------------------------------------------------------
(* Sequences of batches that hold no span twice. *)

\* Nothing is in nothing.
LEMMA EmptyBatches ==
  /\ ToSet(<<>>) = {} /\ SpansOf(<<>>) = {} /\ NoneTwice(<<>>) /\ Disjoint(<<>>)
PROOF
<1>1. DOMAIN <<>> = {}
  OBVIOUS
<1> QED
  BY <1>1 DEF ToSet, SpansOf, NoneTwice, Disjoint

\* One batch.
LEMMA OneBatch ==
  ASSUME NEW b
  PROVE  SpansOf(<<b>>) = ToSet(b) /\ (NoneTwice(b) => Disjoint(<<b>>)) /\ <<b>> # <<>>
PROOF
<1> DEFINE one == <<b>>
<1>1. DOMAIN one = {1} /\ one[1] = b /\ one # <<>>
  OBVIOUS
<1> HIDE DEF one
<1>2. SpansOf(one) = ToSet(b)
  BY <1>1 DEF SpansOf
<1>3. NoneTwice(b) => Disjoint(one)
  BY <1>1 DEF Disjoint
<1> QED
  BY <1>1, <1>2, <1>3 DEF one

\* One more span.
LEMMA MoreSpans ==
  ASSUME NEW q \in Seq(Span), NEW x \in Span
  PROVE  /\ ToSet(Append(q, x)) = ToSet(q) \cup {x}
         /\ NoneTwice(q) /\ x \notin ToSet(q) => NoneTwice(Append(q, x))
PROOF
<1> DEFINE n == Len(q)
           a == Append(q, x)
<1>1. n \in Nat /\ DOMAIN q = 1 .. n
  BY LenProperties
<1>2. /\ a \in Seq(Span) /\ Len(a) = n + 1
      /\ \A i \in 1 .. n : a[i] = q[i]
      /\ a[n + 1] = x
  BY AppendProperties
<1>3. DOMAIN a = 1 .. n + 1
  BY <1>2, LenProperties
<1> HIDE DEF n, a
<1>4. \A i \in 1 .. n + 1 : i \in 1 .. n \/ i = n + 1
  BY <1>1
<1>5. 1 .. n \subseteq 1 .. n + 1 /\ n + 1 \in 1 .. n + 1
  BY <1>1
<1>6. ToSet(a) = ToSet(q) \cup {x}
  BY <1>1, <1>2, <1>3, <1>4, <1>5, Zenon DEF ToSet
<1>7. ASSUME NoneTwice(q), x \notin ToSet(q)
      PROVE  NoneTwice(a)
  <2>1. \A i \in 1 .. n : q[i] # x
    BY <1>1, <1>7 DEF ToSet
  <2>2. \A i, j \in 1 .. n : q[i] = q[j] => i = j
    BY <1>1, <1>7 DEF NoneTwice
  <2>3. \A i, j \in 1 .. n + 1 : a[i] = a[j] => i = j
    BY <1>2, <1>4, <2>1, <2>2
  <2> QED
    BY <1>3, <2>3 DEF NoneTwice
<1> QED
  BY <1>6, <1>7 DEF a

\* One more batch.
LEMMA MoreBatches ==
  ASSUME NEW bs \in Seq(Batch), NEW b \in Batch
  PROVE  /\ SpansOf(Append(bs, b)) = SpansOf(bs) \cup ToSet(b)
         /\ Disjoint(bs) /\ NoneTwice(b) /\ ToSet(b) \cap SpansOf(bs) = {}
              => Disjoint(Append(bs, b))
PROOF
<1> DEFINE n == Len(bs)
           a == Append(bs, b)
<1>1. n \in Nat /\ DOMAIN bs = 1 .. n
  BY LenProperties
<1>2. /\ a \in Seq(Batch) /\ Len(a) = n + 1
      /\ \A i \in 1 .. n : a[i] = bs[i]
      /\ a[n + 1] = b
  BY AppendProperties
<1>3. DOMAIN a = 1 .. n + 1
  BY <1>2, LenProperties
<1> HIDE DEF n, a
<1>4. \A i \in 1 .. n + 1 : i \in 1 .. n \/ i = n + 1
  BY <1>1
<1>5. 1 .. n \subseteq 1 .. n + 1 /\ n + 1 \in 1 .. n + 1
  BY <1>1
<1>6. SpansOf(a) = SpansOf(bs) \cup ToSet(b)
  <2>1. \A x : x \in SpansOf(a) <=> \E i \in 1 .. n + 1 : x \in ToSet(a[i])
    BY <1>3 DEF SpansOf
  <2>2. \A x : x \in SpansOf(bs) <=> \E i \in 1 .. n : x \in ToSet(bs[i])
    BY <1>1 DEF SpansOf
  <2>3. \A x : x \in SpansOf(a) <=> x \in SpansOf(bs) \/ x \in ToSet(b)
    BY <1>2, <1>4, <1>5, <2>1, <2>2, Zenon
  <2> QED
    BY <2>3
<1>7. ASSUME Disjoint(bs), NoneTwice(b), ToSet(b) \cap SpansOf(bs) = {}
      PROVE  Disjoint(a)
  <2>1. \A i \in 1 .. n : NoneTwice(bs[i]) /\ ToSet(bs[i]) \cap ToSet(b) = {}
    BY <1>1, <1>7 DEF Disjoint, SpansOf
  <2>2. \A i, j \in 1 .. n : i # j => ToSet(bs[i]) \cap ToSet(bs[j]) = {}
    BY <1>1, <1>7 DEF Disjoint
  <2>3. \A i \in 1 .. n + 1 : NoneTwice(a[i])
    BY <1>2, <1>4, <1>7, <2>1
  <2>4. ASSUME NEW i \in 1 .. n + 1, NEW j \in 1 .. n + 1, i # j
        PROVE  ToSet(a[i]) \cap ToSet(a[j]) = {}
    <3>1. CASE i \in 1 .. n /\ j \in 1 .. n
      <4>1. a[i] = bs[i] /\ a[j] = bs[j]
        BY <1>2, <3>1
      <4> QED
        BY <2>2, <2>4, <3>1, <4>1
    <3>2. CASE i \in 1 .. n /\ j = n + 1
      <4>1. a[i] = bs[i] /\ a[j] = b
        BY <1>2, <3>2
      <4> QED
        BY <2>1, <3>2, <4>1
    <3>3. CASE i = n + 1 /\ j \in 1 .. n
      <4>1. a[i] = b /\ a[j] = bs[j]
        BY <1>2, <3>3
      <4> QED
        BY <2>1, <3>3, <4>1
    <3> QED
      BY <1>4, <2>4, <3>1, <3>2, <3>3
  <2> QED
    BY <1>3, <2>3, <2>4 DEF Disjoint
<1> QED
  BY <1>6, <1>7 DEF a

\* One batch fewer.
LEMMA FewerBatches ==
  ASSUME NEW bs \in Seq(Batch), bs # <<>>
  PROVE  /\ SpansOf(bs) = ToSet(Head(bs)) \cup SpansOf(Tail(bs))
         /\ Disjoint(bs) => /\ NoneTwice(Head(bs)) /\ Disjoint(Tail(bs))
                            /\ ToSet(Head(bs)) \cap SpansOf(Tail(bs)) = {}
PROOF
<1> DEFINE n == Len(bs)
           a == Tail(bs)
<1>1. n \in Nat /\ DOMAIN bs = 1 .. n
  BY LenProperties
<1>2. /\ a \in Seq(Batch) /\ Len(a) = n - 1 /\ n # 0
      /\ \A i \in 1 .. n - 1 : a[i] = bs[i + 1]
      /\ Head(bs) = bs[1]
  BY HeadTailProperties, EmptySeq
<1>3. DOMAIN a = 1 .. n - 1
  BY <1>2, LenProperties
<1> HIDE DEF n, a
<1>4. /\ \A i \in 1 .. n : i = 1 \/ \E j \in 1 .. n - 1 : i = j + 1
      /\ \A j \in 1 .. n - 1 : j + 1 \in 1 .. n /\ j + 1 # 1
      /\ 1 \in 1 .. n
  <2>1. ASSUME NEW i \in 1 .. n, i # 1
        PROVE  i - 1 \in 1 .. n - 1 /\ i = (i - 1) + 1
    BY <1>1, <2>1
  <2> QED
    BY <1>1, <1>2, <2>1
<1>5. SpansOf(bs) = ToSet(bs[1]) \cup SpansOf(a)
  <2>1. \A x : x \in SpansOf(a) <=> \E i \in 1 .. n - 1 : x \in ToSet(bs[i + 1])
    BY <1>2, <1>3 DEF SpansOf
  <2>2. \A x : x \in SpansOf(bs) <=> \E i \in 1 .. n : x \in ToSet(bs[i])
    BY <1>1 DEF SpansOf
  <2>3. \A x : x \in SpansOf(bs) <=> x \in SpansOf(a) \/ x \in ToSet(bs[1])
    BY <1>4, <2>1, <2>2, Zenon
  <2> QED
    BY <2>3
<1>6. ASSUME Disjoint(bs)
      PROVE  NoneTwice(bs[1]) /\ Disjoint(a) /\ ToSet(bs[1]) \cap SpansOf(a) = {}
  <2>1. \A i \in 1 .. n : NoneTwice(bs[i])
    BY <1>1, <1>6 DEF Disjoint
  <2>2. \A i, j \in 1 .. n : i # j => ToSet(bs[i]) \cap ToSet(bs[j]) = {}
    BY <1>1, <1>6 DEF Disjoint
  <2>3. \A i \in 1 .. n - 1 : NoneTwice(a[i]) /\ ToSet(bs[1]) \cap ToSet(a[i]) = {}
    BY <1>2, <1>4, <2>1, <2>2
  <2>4. ASSUME NEW i \in 1 .. n - 1, NEW j \in 1 .. n - 1, i # j
        PROVE  ToSet(a[i]) \cap ToSet(a[j]) = {}
    <3>1. i + 1 \in 1 .. n /\ j + 1 \in 1 .. n /\ i + 1 # j + 1
      BY <1>1, <2>4
    <3>2. a[i] = bs[i + 1] /\ a[j] = bs[j + 1]
      BY <1>2
    <3> QED
      BY <2>2, <3>1, <3>2
  <2>5. ToSet(bs[1]) \cap SpansOf(a) = {}
    BY <1>3, <2>3 DEF SpansOf
  <2> QED
    BY <1>3, <1>4, <2>1, <2>3, <2>4, <2>5 DEF Disjoint
<1> QED
  BY <1>2, <1>5, <1>6 DEF a

\* The buffer takes a batch: at the cost of its oldest, when it is full.
LEMMA BufferTakes ==
  ASSUME NEW buf \in Buffer(Batch), WellFormed(buf, BufferCapacity), NEW b \in Batch
  PROVE  \E kept \in Seq(Batch) :
           /\ Drained(PushOverwrite(buf, b, BufferCapacity)) = Append(kept, b)
           /\ SpansOf(Drained(buf)) = SpansOf(kept) \cup SpansOf(Overwritten(buf, BufferCapacity))
           /\ Disjoint(Drained(buf)) => Disjoint(kept)
PROOF
<1> DEFINE c == BufferCapacity
           old == Drained(buf)
           n == Len(buf.inner)
           more == Append(old, b)
<1>1. c \in Nat \ {0} /\ buf.inner \in Seq(Batch) /\ buf.head \in Nat /\ n \in Nat
  BY CapacityPositive, LenProperties DEF Buffer
<1>2. n <= c /\ buf.head < c /\ (n < c => buf.head = 0)
  BY <1>1 DEF WellFormed
<1>3. WellFormed(buf, c)
  BY DEF c
<1> HIDE DEF c
<1>4. buf.head <= n
  BY <1>1, <1>2
<1>5. old \in Seq(Batch) /\ Len(old) = n
  BY <1>4, DrainedElements
<1>6. Drained(PushOverwrite(buf, b, c)) = Newest(more, c)
  <2>1. LET new == PushOverwrite(buf, b, c)
        IN  /\ new \in Buffer(Batch) /\ WellFormed(new, c)
            /\ Drained(new) = Newest(Append(Drained(buf), b), c)
    BY <1>1, <1>3, PushDrained
  <2> QED
    BY <2>1
<1>7. more \in Seq(Batch) /\ Len(more) = n + 1
  BY <1>5, AppendProperties
<1>8. CASE n < c
  <2>1. Newest(more, c) = more /\ Overwritten(buf, c) = <<>>
    <3> HIDE DEF more, n
    <3>1. Len(more) <= c
      BY <1>1, <1>7, <1>8
    <3>2. Newest(more, c) = more
      BY <3>1 DEF Newest
    <3> QED
      BY <1>8, <3>2 DEF Overwritten, n
  <2>2. SpansOf(old) = SpansOf(old) \cup SpansOf(<<>>)
    BY EmptyBatches
  <2> QED
    BY <1>5, <1>6, <2>1, <2>2 DEF c
<1>9. CASE ~(n < c)
  <2>1. n = c /\ n # 0 /\ buf.head + 1 \in 1 .. n
    <3> HIDE DEF n
    <3> QED
      BY <1>1, <1>2, <1>9
  <2>2. old # <<>>
    BY <1>5, <2>1, EmptySeq
  <2>3. Head(old) = buf.inner[buf.head + 1]
    <3>1. Head(old) = old[1]
      BY <1>5, <2>2, HeadTailProperties
    <3>2. \A i \in 1 .. n : old[i] = IF i <= n - buf.head THEN buf.inner[buf.head + i]
                                     ELSE buf.inner[i - (n - buf.head)]
      BY <1>4, DrainedElements
    <3>3. 1 \in 1 .. n /\ 1 <= n - buf.head
      <4> HIDE DEF n
      <4> QED
        BY <1>1, <1>2, <2>1
    <3> QED
      BY <3>1, <3>2, <3>3
  <2>4. Overwritten(buf, c) = <<Head(old)>>
    BY <1>9, <2>3 DEF Overwritten
  <2>5. Tail(old) \in Seq(Batch) /\ Len(Tail(old)) = n - 1 /\ \A i \in 1 .. n - 1 : Tail(old)[i] = old[i + 1]
    BY <1>5, <2>2, HeadTailProperties
  <2>6. Newest(more, c) = Append(Tail(old), b)
    <3> DEFINE new == Append(Tail(old), b)
               short == Newest(more, c)
    <3>1. /\ new \in Seq(Batch) /\ Len(new) = Len(Tail(old)) + 1
          /\ \A i \in 1 .. Len(Tail(old)) : new[i] = Tail(old)[i]
          /\ new[Len(Tail(old)) + 1] = b
      BY <2>5, AppendProperties
    <3>2. /\ \A i \in 1 .. n : more[i] = old[i]
          /\ more[n + 1] = b
      BY <1>5, AppendProperties
    <3>3. /\ short \in Seq(Batch)
          /\ Len(short) = IF Len(more) <= c THEN Len(more) ELSE c
          /\ \A i \in 1 .. Len(short) :
               short[i] = IF Len(more) <= c THEN more[i] ELSE more[Len(more) - c + i]
      BY <1>1, <1>7, NewestElements
    <3> HIDE DEF new, short, more, n
    <3>4. Len(short) = n /\ Len(new) = n
      BY <1>1, <1>7, <2>1, <2>5, <3>1, <3>3
    <3>5. \A i \in 1 .. n : short[i] = more[i + 1]
      <4>1. ASSUME NEW i \in 1 .. n, NEW j, j = Len(more) - c + i
            PROVE  short[i] = more[j] /\ j = i + 1
        <5>1. ~(Len(more) <= c)
          BY <1>1, <1>7, <2>1
        <5>2. j = i + 1
          BY <1>1, <1>7, <2>1, <4>1
        <5> QED
          BY <3>3, <3>4, <4>1, <5>1, <5>2
      <4> QED
        BY <4>1
    <3>6. ASSUME NEW i \in 1 .. n
          PROVE  short[i] = new[i]
      <4>1. CASE i = n
        <5>1. more[i + 1] = b
          BY <3>2, <4>1
        <5>2. new[i] = b
          BY <1>1, <2>5, <3>1, <4>1
        <5> QED
          BY <3>5, <5>1, <5>2
      <4>2. CASE i # n
        <5>1. i \in 1 .. n - 1 /\ i + 1 \in 1 .. n
          BY <1>1, <4>2
        <5>2. new[i] = old[i + 1]
          BY <2>5, <3>1, <5>1
        <5>3. more[i + 1] = old[i + 1]
          BY <3>2, <5>1
        <5> QED
          BY <3>5, <5>2, <5>3
      <4> QED
        BY <4>1, <4>2
    <3>7. Len(short) = Len(new) /\ \A i \in 1 .. Len(short) : short[i] = new[i]
      BY <3>4, <3>6
    <3>8. short = new
      BY <3>1, <3>3, <3>7, SeqEqual, Zenon
    <3> QED
      BY <3>8 DEF short, new
  <2>7. SpansOf(old) = SpansOf(Tail(old)) \cup SpansOf(<<Head(old)>>)
    BY <1>5, <2>2, FewerBatches, OneBatch
  <2>8. Disjoint(old) => Disjoint(Tail(old))
    BY <1>5, <2>2, FewerBatches
  <2> QED
    BY <1>6, <2>4, <2>5, <2>6, <2>7, <2>8 DEF c
<1> QED
  BY <1>8, <1>9
-----------------------------------------------------------------------------
(* PlaceInv. *)

\* Nothing comes anywhere but the spans M, to one place and out of all others.
Into(M, kind, of) ==
  \A x, k, o : Inside(x, k, o)' =>
     IF k = kind /\ o = of THEN Inside(x, k, o) \/ x \in M ELSE Inside(x, k, o) /\ x \notin M

\* What is recorded stays somewhere or is lost.
Kept == \A x \in seen.recorded : \A k, o :
           Inside(x, k, o) => x \in seen'.lost \/ \E l, p : Inside(x, l, p)'

\* Spans that move to one place are in no other.
LEMMA OnePlaceMoved ==
  ASSUME OnePlace, NEW M, NEW kind, NEW of, Into(M, kind, of)
  PROVE  OnePlace'
PROOF
<1>1. ASSUME NEW x, NEW k, NEW l, NEW o, NEW p, Inside(x, k, o)', Inside(x, l, p)'
      PROVE  k = l /\ o = p
  <2>1. CASE x \in M
    <3>1. k = kind /\ o = of
      BY <1>1, <2>1 DEF Into
    <3>2. l = kind /\ p = of
      BY <1>1, <2>1 DEF Into
    <3> QED
      BY <3>1, <3>2
  <2>2. CASE x \notin M
    <3>1. Inside(x, k, o)
      BY <1>1, <2>2 DEF Into
    <3>2. Inside(x, l, p)
      BY <1>1, <2>2 DEF Into
    <3> QED
      BY <3>1, <3>2 DEF OnePlace
  <2> QED
    BY <2>1, <2>2
<1> QED
  BY <1>1 DEF OnePlace

\* A step that moves spans to one place, and records no other.
LEMMA PlaceStep ==
  ASSUME PlaceInv, NEW M, NEW kind, NEW of, Into(M, kind, of), OncePerPlace',
         Len(owner) \in Nat, Len(owner') \in Nat, Len(owner) <= Len(owner'),
         M \subseteq 1 .. Len(owner'),
         Kept, \A x \in M : Inside(x, kind, of)',
         seen.lost \subseteq seen'.lost, seen.recorded \subseteq seen'.recorded,
         seen'.recorded \subseteq seen.recorded \cup M,
         kind \in {"live", "drop"} => M \cap seen'.recorded = {}
  PROVE  PlaceInv'
PROOF
<1>1. OnePlace'
  BY OnePlaceMoved DEF PlaceInv
<1>2. 1 .. Len(owner) \subseteq 1 .. Len(owner')
  OBVIOUS
<1>3. Created'
  <2>1. ASSUME NEW x, NEW k, NEW o, Inside(x, k, o)'
        PROVE  x \in 1 .. Len(owner')
    <3>1. Inside(x, k, o) \/ x \in M
      BY <2>1 DEF Into
    <3> QED
      BY <1>2, <3>1 DEF PlaceInv, Created
  <2>2. ASSUME NEW x, NEW o, NEW k \in {"live", "drop"}, Inside(x, k, o)'
        PROVE  x \notin seen'.recorded
    <3>1. CASE x \in M
      <4>1. k = kind
        BY <2>2, <3>1 DEF Into
      <4> QED
        BY <2>2, <3>1, <4>1
    <3>2. CASE x \notin M
      <4>1. Inside(x, k, o)
        BY <2>2, <3>2 DEF Into
      <4>2. x \notin seen.recorded
        BY <2>2, <4>1 DEF PlaceInv, Created
      <4> QED
        BY <3>2, <4>2
    <3> QED
      BY <3>1, <3>2
  <2>3. seen'.recorded \subseteq 1 .. Len(owner')
    BY <1>2 DEF PlaceInv, Created
  <2> QED
    BY <2>1, <2>2, <2>3 DEF Created
<1>4. Accounted'
  <2>1. ASSUME NEW x \in seen'.recorded
        PROVE  x \in seen'.lost \/ \E k, o : Inside(x, k, o)'
    <3>1. CASE x \in M
      BY <3>1
    <3>2. CASE x \notin M
      <4>1. x \in seen.recorded
        BY <3>2
      <4>2. x \in seen.lost \/ \E k, o : Inside(x, k, o)
        BY <4>1 DEF PlaceInv, Accounted
      <4> QED
        BY <4>1, <4>2 DEF Kept
    <3> QED
      BY <3>1, <3>2
  <2> QED
    BY <2>1 DEF Accounted
<1> QED
  BY <1>1, <1>3, <1>4 DEF PlaceInv

\* What spans are in where nothing changes.
LEMMA PlaceStill ==
  ASSUME FlowInv, PlaceInv,
         UNCHANGED <<live, dropping, queue, sending, buffer, writing, output, owner>>,
         \A t \in Thread : chan'[t].ring = chan[t].ring,
         seen'.recorded = seen.recorded, seen'.lost = seen.lost
  PROVE  PlaceInv'
PROOF
<1>1. WrittenSpans' = WrittenSpans
  BY DEF WrittenSpans, Datas
<1>2. \A x, k, o : Inside(x, k, o)' <=> Inside(x, k, o)
  BY <1>1 DEF Inside
<1>3. OncePerPlace'
  BY DEF PlaceInv, OncePerPlace
<1>4. OnePlace'
  BY <1>2 DEF PlaceInv, OnePlace
<1>5. Created'
  BY <1>2 DEF PlaceInv, Created
<1>6. Accounted'
  BY <1>2 DEF PlaceInv, Accounted
<1> QED
  BY <1>3, <1>4, <1>5, <1>6 DEF PlaceInv

\* A span is created, in the hands of its thread.
LEMMA PlaceNewSpan ==
  ASSUME FlowInv, PlaceInv, NEW t \in Thread, NewSpan(t)
  PROVE  PlaceInv'
PROOF
<1> DEFINE n == Len(owner)
<1>1. /\ live' = [live EXCEPT ![t] = @ \cup {n + 1}] /\ owner' = Append(owner, t)
      /\ UNCHANGED <<dropping, queue, sending, chan, buffer, writing, output, seen>>
  BY DEF NewSpan, NextSpan, queueVars, bufVars, writeVars
<1>2. owner \in Seq(Thread) /\ live \in [Thread -> SUBSET Span]
  BY DEF FlowInv, ThreadType
<1>3. n \in Nat /\ Len(owner') = n + 1
  BY <1>1, <1>2, AppendProperties, LenProperties
<1>4. WrittenSpans' = WrittenSpans
  BY <1>1 DEF WrittenSpans, Datas
<1>5. \A u \in Thread : live'[u] = IF u = t THEN live[u] \cup {n + 1} ELSE live[u]
  BY <1>1, <1>2
<1> HIDE DEF n
<1>6. \A k, o : ~Inside(n + 1, k, o)
  BY <1>3 DEF PlaceInv, Created, n
<1>7. ASSUME NEW M, M = {n + 1}
      PROVE  PlaceInv'
  <2>1. Into(M, "live", t)
    <3>1. \A x, k, o : Inside(x, k, o)' => Inside(x, k, o) \/ (k = "live" /\ o = t /\ x = n + 1)
      BY <1>1, <1>4, <1>5 DEF Inside
    <3> QED
      BY <1>6, <1>7, <3>1 DEF Into
  <2>2. \A x, k, o : Inside(x, k, o) => Inside(x, k, o)'
    BY <1>1, <1>4, <1>5 DEF Inside
  <2>3. \A x \in M : Inside(x, "live", t)'
    BY <1>5, <1>7 DEF Inside
  <2>4. OncePerPlace'
    BY <1>1 DEF PlaceInv, OncePerPlace
  <2>5. Kept
    BY <2>2 DEF Kept
  <2>6. n \in Nat /\ Len(owner') \in Nat /\ n <= Len(owner') /\ M \subseteq 1 .. Len(owner')
    BY <1>3, <1>7
  <2>7. seen' = seen /\ M \cap seen.recorded = {}
    BY <1>1, <1>3, <1>7 DEF PlaceInv, Created, n
  <2> QED
    BY <2>1, <2>3, <2>4, <2>5, <2>6, <2>7, PlaceStep DEF n
<1> QED
  BY <1>7

\* A span is dropped: to be recorded, or for good.
LEMMA PlaceDropSpan ==
  ASSUME FlowInv, PlaceInv, NEW t \in Thread, NEW s \in Span, DropSpan(t, s)
  PROVE  PlaceInv'
PROOF
<1>1. /\ live' = [live EXCEPT ![t] = @ \ {s}] /\ s \in live[t]
      /\ dropping' = [dropping EXCEPT ![t] = IF enabled THEN s ELSE 0]
      /\ UNCHANGED <<owner, queue, sending, chan, buffer, writing, output, seen>>
  BY DEF DropSpan, bufVars, writeVars
<1>2. live \in [Thread -> SUBSET Span] /\ dropping \in [Thread -> 0 .. MaxSpan]
  BY DEF FlowInv, ThreadType, QueueType
<1>3. WrittenSpans' = WrittenSpans
  BY <1>1 DEF WrittenSpans, Datas
<1>4. \A u \in Thread : /\ live'[u] = IF u = t THEN live[u] \ {s} ELSE live[u]
                        /\ u # t => dropping'[u] = dropping[u]
  BY <1>1, <1>2
<1>5. dropping'[t] = IF enabled THEN s ELSE 0
  BY <1>1, <1>2
<1>6. Inside(s, "live", t) /\ s # 0
  BY <1>1, Numbers DEF Inside
<1>7. \A k, o : Inside(s, k, o) => k = "live" /\ o = t
  BY <1>6 DEF PlaceInv, OnePlace
<1>8. ASSUME NEW M, M = IF enabled THEN {s} ELSE {}
      PROVE  PlaceInv'
  <2>1. Into(M, "drop", t)
    <3>1. \A x, k, o : Inside(x, k, o)' =>
             \/ k = "drop" /\ o = t /\ x \in M
             \/ Inside(x, k, o) /\ ~(x = s /\ k = "live" /\ o = t)
      BY <1>1, <1>3, <1>4, <1>5, <1>8 DEF Inside
    <3>2. \A x, k, o : Inside(x, k, o) /\ ~(x = s /\ k = "live" /\ o = t) => x # s
      BY <1>7
    <3> QED
      BY <1>8, <3>1, <3>2 DEF Into
  <2>2. ASSUME NEW x \in seen.recorded, NEW k, NEW o, Inside(x, k, o)
        PROVE  Inside(x, k, o)'
    <3>1. x # s
      BY <1>6 DEF PlaceInv, Created
    <3>2. ~(k = "drop" /\ o = t)
      BY <2>2 DEF PlaceInv, Created
    <3> QED
      BY <1>1, <1>3, <1>4, <2>2, <3>1, <3>2 DEF Inside
  <2>3. \A x \in M : Inside(x, "drop", t)'
    BY <1>5, <1>6, <1>8 DEF Inside
  <2>4. OncePerPlace'
    BY <1>1 DEF PlaceInv, OncePerPlace
  <2>5. Kept
    BY <2>2 DEF Kept
  <2>6. /\ Len(owner) \in Nat /\ Len(owner') \in Nat /\ Len(owner) <= Len(owner')
        /\ M \subseteq 1 .. Len(owner')
    BY <1>1, <1>6, <1>8, LenProperties DEF FlowInv, ThreadType, PlaceInv, Created
  <2>7. seen' = seen /\ M \cap seen.recorded = {}
    BY <1>1, <1>6, <1>8 DEF PlaceInv, Created
  <2> QED
    BY <2>1, <2>3, <2>4, <2>5, <2>6, <2>7, PlaceStep
<1> QED
  BY <1>8
\* A step that moves spans there are, and makes none.
LEMMA PlaceMove ==
  ASSUME FlowInv, PlaceInv, NEW M, NEW kind, NEW of, Into(M, kind, of), OncePerPlace',
         kind \notin {"live", "drop"}, owner' = owner, \A x \in M : \E k, o : Inside(x, k, o),
         Kept, \A x \in M : Inside(x, kind, of)',
         seen.lost \subseteq seen'.lost, seen.recorded \subseteq seen'.recorded,
         seen'.recorded \subseteq seen.recorded \cup M
  PROVE  PlaceInv'
PROOF
<1>1. /\ Len(owner) \in Nat /\ Len(owner') \in Nat /\ Len(owner) <= Len(owner')
  BY LenProperties DEF FlowInv, ThreadType
<1>2. M \subseteq 1 .. Len(owner')
  BY DEF PlaceInv, Created
<1> QED
  BY <1>1, <1>2, PlaceStep

\* A span is recorded: it stays in the queue or leaves it in a batch.
LEMMA PlacePushSpan ==
  ASSUME FlowInv, PlaceInv, NEW t \in Thread, PushSpan(t)
  PROVE  PlaceInv'
PROOF
<1> SUFFICES ASSUME NEW s, s = ShardOf(t)
             PROVE  PlaceInv'
  OBVIOUS
<1> DEFINE x0 == dropping[t]
           spans == Append(queue[s], x0)
<1>1. /\ dropping' = [dropping EXCEPT ![t] = 0]
      /\ seen' = [seen EXCEPT !.recorded = @ \cup {x0}]
      /\ UNCHANGED <<live, owner, chan, buffer, writing, output>>
      /\ thread[t] = "push"
  BY DEF PushSpan, spanVars, bufVars, writeVars
<1>2. \/ queue' = [queue EXCEPT ![s] = spans] /\ sending' = sending
      \/ queue' = [queue EXCEPT ![s] = <<>>] /\ sending' = [sending EXCEPT ![t] = <<spans>>]
  BY DEF PushSpan, TakeBatch
<1>3. s \in Shard
  BY ShardType DEF FlowInv, ThreadType
<1>4. x0 \in Span /\ x0 # 0 /\ sending[t] = <<>>
  <2>1. x0 \in Span /\ x0 # 0
    BY <1>1, Numbers DEF FlowInv, LockInv, QueueType, Span
  <2>2. sending[t] = <<>>
    BY <1>1, Numbers DEF FlowInv, LockInv
  <2> QED
    BY <2>1, <2>2
<1>5. /\ \A u \in Thread : dropping'[u] = IF u = t THEN 0 ELSE dropping[u]
      /\ queue \in [Shard -> Seq(Span)] /\ sending \in [Thread -> Seq(Batch)]
  BY <1>1 DEF FlowInv, QueueType
<1>6. WrittenSpans' = WrittenSpans
  BY <1>1 DEF WrittenSpans, Datas
<1>7. seen'.lost = seen.lost /\ seen'.recorded = seen.recorded \cup {x0}
  BY <1>1 DEF FlowInv, ThreadType, Seen
<1>8. Inside(x0, "drop", t) /\ x0 \notin seen.recorded
  <2>1. Inside(x0, "drop", t)
    BY <1>4 DEF Inside
  <2> QED
    BY <2>1 DEF PlaceInv, Created
<1>9. \A k, o : Inside(x0, k, o) => k = "drop" /\ o = t
  BY <1>8 DEF PlaceInv, OnePlace
<1>10. \A x, o : Inside(x, "drop", o) => x \notin seen.recorded
  BY DEF PlaceInv, Created
<1>11. x0 \notin ToSet(queue[s]) /\ NoneTwice(queue[s])
  <2>1. ~Inside(x0, "queue", s)
    BY <1>9
  <2> QED
    BY <1>3, <2>1 DEF Inside, PlaceInv, OncePerPlace
<1>12. ToSet(spans) = ToSet(queue[s]) \cup {x0} /\ NoneTwice(spans)
  <2>1. queue[s] \in Seq(Span)
    BY <1>3, <1>5
  <2> QED
    BY <1>4, <1>11, <2>1, MoreSpans
<1> HIDE DEF spans, x0
<1>13. CASE queue' = [queue EXCEPT ![s] = spans] /\ sending' = sending
  <2>1. \A z \in Shard : queue'[z] = IF z = s THEN spans ELSE queue[z]
    BY <1>5, <1>13
  <2>2. ASSUME NEW M, M = {x0}
        PROVE  PlaceInv'
    <3>1. Into(M, "queue", s)
      <4>1. \A x, k, o : Inside(x, k, o)' =>
               \/ k = "queue" /\ o = s /\ (x \in M \/ Inside(x, k, o))
               \/ Inside(x, k, o) /\ ~(k = "drop" /\ o = t)
        BY <1>1, <1>5, <1>6, <1>12, <1>13, <2>1, <2>2 DEF Inside
      <4> QED
        BY <1>9, <2>2, <4>1 DEF Into
    <3>2. Kept
      <4>1. \A x, k, o : Inside(x, k, o) /\ k # "drop" => Inside(x, k, o)'
        BY <1>1, <1>5, <1>6, <1>12, <1>13, <2>1 DEF Inside
      <4> QED
        BY <1>10, <4>1 DEF Kept
    <3>3. \A x \in M : Inside(x, "queue", s)'
      BY <1>3, <1>12, <2>1, <2>2 DEF Inside
    <3>4. OncePerPlace'
      BY <1>1, <1>12, <1>13, <2>1 DEF PlaceInv, OncePerPlace
    <3>5. \A x \in M : \E k, o : Inside(x, k, o)
      BY <1>8, <2>2
    <3> QED
      BY <1>1, <1>7, <2>2, <3>1, <3>2, <3>3, <3>4, <3>5, PlaceMove
  <2> QED
    BY <2>2
<1>14. CASE queue' = [queue EXCEPT ![s] = <<>>] /\ sending' = [sending EXCEPT ![t] = <<spans>>]
  <2>1. /\ \A z \in Shard : queue'[z] = IF z = s THEN <<>> ELSE queue[z]
        /\ \A u \in Thread : sending'[u] = IF u = t THEN <<spans>> ELSE sending[u]
    BY <1>5, <1>14
  <2>2. SpansOf(<<spans>>) = ToSet(spans) /\ Disjoint(<<spans>>) /\ ToSet(<<>>) = {}
        /\ NoneTwice(<<>>)
    BY <1>12, OneBatch, EmptyBatches
  <2>3. /\ \A z \in Shard : ToSet(queue'[z]) = IF z = s THEN {} ELSE ToSet(queue[z])
        /\ \A u \in Thread : SpansOf(sending'[u]) = IF u = t THEN ToSet(spans) ELSE SpansOf(sending[u])
    BY <2>1, <2>2
  <2>4. ASSUME NEW M, M = ToSet(queue[s]) \cup {x0}
        PROVE  PlaceInv'
    <3>1. \A x \in M : Inside(x, "queue", s) \/ x = x0
      BY <1>3, <2>4 DEF Inside
    <3>2. Into(M, "send", t)
      <4>1. \A x, k, o : Inside(x, k, o)' =>
               \/ k = "send" /\ o = t /\ x \in M
               \/ Inside(x, k, o) /\ ~(k = "drop" /\ o = t) /\ ~(k = "queue" /\ o = s)
        BY <1>1, <1>5, <1>6, <1>12, <2>3, <2>4 DEF Inside
      <4>2. \A x \in M : \A k, o : Inside(x, k, o) =>
               (k = "drop" /\ o = t) \/ (k = "queue" /\ o = s)
        BY <1>9, <3>1 DEF PlaceInv, OnePlace
      <4> QED
        BY <4>1, <4>2 DEF Into
    <3>3. \A x \in M : Inside(x, "send", t)'
      BY <1>12, <2>3, <2>4 DEF Inside
    <3>4. Kept
      <4>1. \A x, k, o : Inside(x, k, o) /\ k # "drop" =>
               Inside(x, k, o)' \/ (k = "queue" /\ o = s) \/ (k = "send" /\ o = t)
        BY <1>1, <1>5, <1>6, <2>3 DEF Inside
      <4>2. \A x : Inside(x, "queue", s) => x \in M
        BY <2>4 DEF Inside
      <4>3. \A x : ~Inside(x, "send", t)
        BY <1>4, EmptyBatches DEF Inside
      <4> QED
        BY <1>10, <3>3, <4>1, <4>2, <4>3 DEF Kept
    <3>5. OncePerPlace'
      BY <1>1, <1>12, <2>1, <2>2 DEF PlaceInv, OncePerPlace
    <3>6. \A x \in M : \E k, o : Inside(x, k, o)
      BY <1>8, <3>1
    <3> QED
      BY <1>1, <1>7, <2>4, <3>2, <3>3, <3>4, <3>5, <3>6, PlaceMove
  <2> QED
    BY <2>4
<1> QED
  BY <1>2, <1>13, <1>14 DEF spans
\* What a thread is about to send is one batch.
LEMMA SendingOne ==
  ASSUME FlowInv, NEW t \in Thread, sending[t] # <<>>
  PROVE  sending[t][1] \in Batch /\ sending[t] = <<sending[t][1]>>
PROOF
<1>1. sending[t] \in Seq(Batch) /\ Len(sending[t]) <= 1
  BY DEF FlowInv, QueueType
<1> DEFINE one == sending[t]
<1> HIDE DEF one
<1>2. one \in Seq(Batch) /\ one # <<>> => Len(one) # 0 /\ Len(one) \in Nat
  BY EmptySeq, LenProperties
<1>3. one \in Seq(Batch) /\ Len(one) = 1 => one[1] \in Batch /\ one = <<one[1]>>
  <2>1. ASSUME one \in Seq(Batch), Len(one) = 1
        PROVE  one[1] \in Batch /\ one = <<one[1]>>
    <3>0. 1 \in 1 .. Len(one)
      BY <2>1
    <3>1. one[1] \in Batch
      BY <2>1, <3>0, ElementOfSeq
    <3>2. one \in [1 .. 1 -> Batch]
      BY <2>1, LenProperties
    <3>3. one = [i \in 1 .. 1 |-> one[1]]
      BY <3>2
    <3> QED
      BY <2>1, <3>1, <3>3
  <2> QED
    BY <2>1
<1>4. Len(one) = 1
  <2>1. one \in Seq(Batch) /\ one # <<>> /\ Len(one) <= 1
    BY <1>1 DEF one
  <2>2. Len(one) # 0 /\ Len(one) \in Nat
    BY <1>2, <2>1
  <2> DEFINE n == Len(one)
  <2>3. n <= 1 /\ n # 0 /\ n \in Nat
    BY <2>1, <2>2
  <2> HIDE DEF n
  <2>4. n = 1
    BY <2>3
  <2> QED
    BY <2>4 DEF n
<1> QED
  BY <1>1, <1>3, <1>4 DEF one

\* A batch goes to the channel of its thread.
LEMMA PlaceSendBatch ==
  ASSUME FlowInv, PlaceInv, NEW t \in Thread, SendBatch(t)
  PROVE  PlaceInv'
PROOF
<1> SUFFICES ASSUME NEW b, b = sending[t][1]
             PROVE  PlaceInv'
  OBVIOUS
<1>1. /\ sending[t] # <<>> /\ chan' = [chan EXCEPT ![t] = Push(@, b)]
      /\ sending' = [sending EXCEPT ![t] = <<>>]
      /\ UNCHANGED <<live, owner, dropping, queue, buffer, writing, output, seen>>
  BY DEF SendBatch, CanSend, Sent, spanVars, bufVars, writeVars
<1>2. b \in Batch /\ sending[t] = <<b>>
  BY <1>1, SendingOne
<1>3. sending \in [Thread -> Seq(Batch)] /\ chan \in [Thread -> Channels(Batch)]
  BY DEF FlowInv, QueueType
<1>4. chan[t].ring \in Seq(Batch) /\ Push(chan[t], b).ring = Append(chan[t].ring, b)
  BY <1>2, <1>3, ChannelUpdates, ZenonT(30) DEF FlowInv, QueueType, Channels
<1>5. /\ \A u \in Thread : chan'[u].ring = IF u = t THEN Append(chan[t].ring, b) ELSE chan[u].ring
      /\ \A u \in Thread : sending'[u] = IF u = t THEN <<>> ELSE sending[u]
  BY <1>1, <1>3, <1>4
<1>6. WrittenSpans' = WrittenSpans
  BY <1>1 DEF WrittenSpans, Datas
<1>7. SpansOf(sending[t]) = ToSet(b) /\ SpansOf(<<>>) = {} /\ Disjoint(<<>>)
      /\ SpansOf(Append(chan[t].ring, b)) = SpansOf(chan[t].ring) \cup ToSet(b)
  BY <1>2, <1>4, OneBatch, EmptyBatches, MoreBatches
<1>8. /\ \A u \in Thread : SpansOf(chan'[u].ring) = IF u = t THEN SpansOf(chan[t].ring) \cup ToSet(b)
                                                    ELSE SpansOf(chan[u].ring)
      /\ \A u \in Thread : SpansOf(sending'[u]) = IF u = t THEN {} ELSE SpansOf(sending[u])
  BY <1>5, <1>7
<1>9. ASSUME NEW M, M = ToSet(b)
      PROVE  PlaceInv'
  <2>1. \A x \in M : Inside(x, "send", t)
    BY <1>7, <1>9 DEF Inside
  <2>2. \A x \in M : \A k, o : Inside(x, k, o) => k = "send" /\ o = t
    BY <2>1 DEF PlaceInv, OnePlace
  <2>3. Into(M, "ring", t)
    <3>1. \A x, k, o : Inside(x, k, o)' =>
             \/ k = "ring" /\ o = t /\ (x \in M \/ Inside(x, k, o))
             \/ Inside(x, k, o) /\ ~(k = "send" /\ o = t)
      BY <1>1, <1>6, <1>8, <1>9 DEF Inside
    <3> QED
      BY <2>2, <3>1 DEF Into
  <2>4. \A x \in M : Inside(x, "ring", t)'
    BY <1>8, <1>9 DEF Inside
  <2>5. Kept
    <3>1. \A x, k, o : Inside(x, k, o) => Inside(x, k, o)' \/ x \in M
      BY <1>1, <1>6, <1>7, <1>8, <1>9 DEF Inside
    <3> QED
      BY <2>4, <3>1 DEF Kept
  <2>6. OncePerPlace'
    <3>1. Disjoint(sending[t]) /\ Disjoint(chan[t].ring)
      BY DEF PlaceInv, OncePerPlace
    <3>2. NoneTwice(b)
      <4> DEFINE one == <<b>>
      <4>1. Disjoint(one) /\ 1 \in DOMAIN one /\ one[1] = b
        BY <1>2, <3>1
      <4> HIDE DEF one
      <4> QED
        BY <4>1 DEF Disjoint
    <3>3. ToSet(b) \cap SpansOf(chan[t].ring) = {}
      <4>1. \A x \in M : ~Inside(x, "ring", t)
        BY <2>2
      <4> QED
        BY <1>9, <4>1 DEF Inside
    <3>4. Disjoint(Append(chan[t].ring, b))
      BY <1>2, <1>4, <3>1, <3>2, <3>3, MoreBatches
    <3> QED
      BY <1>1, <1>5, <1>7, <3>4 DEF PlaceInv, OncePerPlace
  <2>7. \A x \in M : \E k, o : Inside(x, k, o)
    BY <2>1
  <2> QED
    BY <1>1, <2>3, <2>4, <2>5, <2>6, <2>7, PlaceMove
<1> QED
  BY <1>9

\* A batch is lost to a full channel.
LEMMA PlaceLoseBatch ==
  ASSUME FlowInv, PlaceInv, NEW t \in Thread, LoseBatch(t)
  PROVE  PlaceInv'
PROOF
<1> SUFFICES ASSUME NEW b, b = sending[t][1]
             PROVE  PlaceInv'
  OBVIOUS
<1>1. /\ sending[t] # <<>> /\ sending' = [sending EXCEPT ![t] = <<>>]
      /\ seen' = [seen EXCEPT !.lost = @ \cup ToSet(b)]
      /\ UNCHANGED <<live, owner, dropping, queue, chan, buffer, writing, output>>
  BY DEF LoseBatch, CanSend, Sent, spanVars, bufVars, writeVars
<1>2. sending[t] = <<b>>
  BY <1>1, SendingOne
<1>3. sending \in [Thread -> Seq(Batch)]
  BY DEF FlowInv, QueueType
<1>4. \A u \in Thread : sending'[u] = IF u = t THEN <<>> ELSE sending[u]
  BY <1>1, <1>3
<1>5. WrittenSpans' = WrittenSpans
  BY <1>1 DEF WrittenSpans, Datas
<1>6. seen'.recorded = seen.recorded /\ seen'.lost = seen.lost \cup ToSet(b)
  BY <1>1 DEF FlowInv, ThreadType, Seen
<1>7. SpansOf(sending[t]) = ToSet(b) /\ SpansOf(<<>>) = {} /\ Disjoint(<<>>)
  BY <1>2, OneBatch, EmptyBatches
<1>8. \A u \in Thread : SpansOf(sending'[u]) = IF u = t THEN {} ELSE SpansOf(sending[u])
  BY <1>4, <1>7
<1>9. ASSUME NEW M, M = {}
      PROVE  PlaceInv'
  <2>1. Into(M, "send", t)
    <3>1. \A x, k, o : Inside(x, k, o)' => Inside(x, k, o)
      BY <1>1, <1>5, <1>8 DEF Inside
    <3> QED
      BY <1>9, <3>1 DEF Into
  <2>2. Kept
    <3>1. \A x, k, o : Inside(x, k, o) => Inside(x, k, o)' \/ x \in ToSet(b)
      BY <1>1, <1>5, <1>7, <1>8 DEF Inside
    <3> QED
      BY <1>6, <3>1 DEF Kept
  <2>3. OncePerPlace'
    BY <1>1, <1>4, <1>7 DEF PlaceInv, OncePerPlace
  <2> QED
    BY <1>1, <1>6, <1>9, <2>1, <2>2, <2>3, PlaceMove
<1> QED
  BY <1>9

\* A flush takes what a queue holds.
LEMMA PlaceFlushShard ==
  ASSUME FlowInv, PlaceInv, NEW t \in Thread, FlushShard(t)
  PROVE  PlaceInv'
PROOF
<1> SUFFICES ASSUME NEW s, s = shardAt[t], NEW q, q = queue[s]
             PROVE  PlaceInv'
  OBVIOUS
<1>1. /\ sending[t] = <<>> /\ sending' = [sending EXCEPT ![t] = <<q>>]
      /\ queue' = [queue EXCEPT ![s] = <<>>]
      /\ UNCHANGED <<live, owner, dropping, chan, buffer, writing, output, seen>>
  BY DEF FlushShard, TakeBatch, spanVars, bufVars, writeVars
<1>2. s \in Shard
  BY Numbers DEF FlushShard, FlowInv, QueueType, Shard
<1>3. sending \in [Thread -> Seq(Batch)] /\ queue \in [Shard -> Seq(Span)]
  BY DEF FlowInv, QueueType
<1>4. /\ \A z \in Shard : queue'[z] = IF z = s THEN <<>> ELSE queue[z]
      /\ \A u \in Thread : sending'[u] = IF u = t THEN <<q>> ELSE sending[u]
  BY <1>1, <1>3
<1>5. WrittenSpans' = WrittenSpans
  BY <1>1 DEF WrittenSpans, Datas
<1>6. SpansOf(<<q>>) = ToSet(q) /\ ToSet(<<>>) = {} /\ NoneTwice(<<>>) /\ Disjoint(<<q>>)
  <2>1. NoneTwice(q)
    BY <1>2 DEF PlaceInv, OncePerPlace
  <2> QED
    BY <2>1, OneBatch, EmptyBatches
<1>7. /\ \A z \in Shard : ToSet(queue'[z]) = IF z = s THEN {} ELSE ToSet(queue[z])
      /\ \A u \in Thread : SpansOf(sending'[u]) = IF u = t THEN ToSet(q) ELSE SpansOf(sending[u])
  BY <1>4, <1>6
<1>8. ASSUME NEW M, M = ToSet(q)
      PROVE  PlaceInv'
  <2>1. \A x \in M : Inside(x, "queue", s)
    BY <1>2, <1>8 DEF Inside
  <2>2. \A x \in M : \A k, o : Inside(x, k, o) => k = "queue" /\ o = s
    BY <2>1 DEF PlaceInv, OnePlace
  <2>3. Into(M, "send", t)
    <3>1. \A x, k, o : Inside(x, k, o)' =>
             \/ k = "send" /\ o = t /\ x \in M
             \/ Inside(x, k, o) /\ ~(k = "queue" /\ o = s)
      BY <1>1, <1>5, <1>7, <1>8 DEF Inside
    <3> QED
      BY <2>2, <3>1 DEF Into
  <2>4. \A x \in M : Inside(x, "send", t)'
    BY <1>7, <1>8 DEF Inside
  <2>5. Kept
    <3>1. SpansOf(sending[t]) = {}
      BY <1>1, EmptyBatches
    <3>2. \A x, k, o : Inside(x, k, o) => Inside(x, k, o)' \/ x \in M
      BY <1>1, <1>5, <1>7, <1>8, <3>1 DEF Inside
    <3> QED
      BY <2>4, <3>2 DEF Kept
  <2>6. OncePerPlace'
    BY <1>1, <1>4, <1>6 DEF PlaceInv, OncePerPlace
  <2>7. \A x \in M : \E k, o : Inside(x, k, o)
    BY <2>1
  <2> QED
    BY <1>1, <2>3, <2>4, <2>5, <2>6, <2>7, PlaceMove
<1> QED
  BY <1>8
\* A batch reaches the buffer; a full one loses its oldest.
LEMMA PlaceRecvCommand ==
  ASSUME FlowInv, PlaceInv, RecvCommand
  PROVE  PlaceInv'
PROOF
<1> SUFFICES ASSUME NEW t, t = Current, NEW b, b = Head(chan[t].ring)
             PROVE  PlaceInv'
  OBVIOUS
<1> DEFINE ring == chan[t].ring
           lost == SpansOf(Overwritten(buffer, BufferCapacity))
<1>1. /\ ring # <<>> /\ chan' = [chan EXCEPT ![t] = Pop(@)]
      /\ buffer' = PushOverwrite(buffer, b, BufferCapacity)
      /\ UNCHANGED <<live, owner, dropping, queue, sending, writing, output>>
  BY DEF RecvCommand, spanVars, writeVars
<1>2. seen'.recorded = seen.recorded /\ seen'.lost = seen.lost \cup lost
  BY DEF RecvCommand, FlowInv, ThreadType, Seen
<1>3. t \in Thread
  BY LenProperties, ElementOfSeq DEF RecvCommand, AtReceiver, Current, FlowInv, ConsumerType
<1>4. chan \in [Thread -> Channels(Batch)] /\ ring \in Seq(Batch)
  BY <1>3 DEF FlowInv, QueueType, Channels
<1>5. b \in Batch /\ SpansOf(ring) = ToSet(b) \cup SpansOf(Tail(ring))
      /\ (Disjoint(ring) => NoneTwice(b) /\ Disjoint(Tail(ring)) /\ ToSet(b) \cap SpansOf(Tail(ring)) = {})
  <2>1. ring \in Seq(Batch) /\ ring # <<>> /\ b = Head(ring)
    BY <1>1, <1>4
  <2> HIDE DEF ring
  <2> QED
    BY <2>1, FewerBatches, HeadTailProperties
<1>6. Pop(chan[t]).ring = Tail(ring)
  BY <1>1, <1>3, ChannelUpdates DEF FlowInv, QueueType
<1>7. /\ \A u \in Thread : chan'[u].ring = IF u = t THEN Tail(ring) ELSE chan[u].ring
      /\ \A u \in Thread : SpansOf(chan'[u].ring) = IF u = t THEN SpansOf(Tail(ring))
                                                    ELSE SpansOf(chan[u].ring)
  BY <1>1, <1>4, <1>6
<1>8. WrittenSpans' = WrittenSpans
  BY <1>1 DEF WrittenSpans, Datas
<1>9. PICK kept \in Seq(Batch) :
        /\ Drained(buffer') = Append(kept, b)
        /\ SpansOf(Drained(buffer)) = SpansOf(kept) \cup lost
        /\ Disjoint(Drained(buffer)) => Disjoint(kept)
  <2>1. buffer \in Buffer(Batch) /\ WellFormed(buffer, BufferCapacity)
    BY DEF FlowInv, ConsumerType
  <2> QED
    BY <1>1, <1>5, <2>1, BufferTakes
<1>10. SpansOf(Drained(buffer')) = SpansOf(kept) \cup ToSet(b)
  BY <1>5, <1>9, MoreBatches
<1> HIDE DEF ring, lost
<1>11. ASSUME NEW M, M = ToSet(b)
       PROVE  PlaceInv'
  <2>1. \A x \in M : Inside(x, "ring", t)
    BY <1>3, <1>5, <1>11 DEF Inside, ring
  <2>2. \A x \in M : \A k, o : Inside(x, k, o) => k = "ring" /\ o = t
    BY <2>1 DEF PlaceInv, OnePlace
  <2>3. Disjoint(ring) /\ Disjoint(Drained(buffer))
    BY <1>3 DEF PlaceInv, OncePerPlace, ring
  <2>4. Into(M, "buffer", 0)
    <3>1. \A x, k, o : Inside(x, k, o)' /\ ~(k = "ring" /\ o = t) =>
             \/ k = "buffer" /\ o = 0 /\ (x \in M \/ Inside(x, k, o))
             \/ Inside(x, k, o)
      BY <1>1, <1>7, <1>8, <1>9, <1>10, <1>11 DEF Inside
    <3>2. \A x : Inside(x, "ring", t)' => Inside(x, "ring", t) /\ x \notin M
      <4>1. \A x : Inside(x, "ring", t)' => x \in SpansOf(Tail(ring))
        BY <1>3, <1>7 DEF Inside
      <4>2. \A x \in SpansOf(Tail(ring)) : x \in SpansOf(ring) /\ x \notin M
        BY <1>5, <1>11, <2>3
      <4> QED
        BY <1>3, <4>1, <4>2 DEF Inside, ring
    <3> QED
      BY <2>2, <3>1, <3>2 DEF Into
  <2>5. \A x \in M : Inside(x, "buffer", 0)'
    BY <1>10, <1>11 DEF Inside
  <2>6. Kept
    <3>1. \A x, k, o : Inside(x, k, o) => Inside(x, k, o)' \/ x \in M \/ x \in lost
      BY <1>1, <1>5, <1>7, <1>8, <1>9, <1>10, <1>11 DEF Inside, ring
    <3> QED
      BY <1>2, <2>5, <3>1 DEF Kept
  <2>7. OncePerPlace'
    <3>1. ToSet(b) \cap SpansOf(kept) = {}
      <4>1. \A x \in M : ~Inside(x, "buffer", 0)
        BY <2>2
      <4> QED
        BY <1>9, <1>11, <4>1 DEF Inside
    <3>2. Disjoint(Append(kept, b))
      BY <1>5, <1>9, <2>3, <3>1, MoreBatches
    <3> QED
      BY <1>1, <1>5, <1>7, <1>9, <2>3, <3>2 DEF PlaceInv, OncePerPlace
  <2>8. \A x \in M : \E k, o : Inside(x, k, o)
    BY <2>1
  <2> QED
    BY <1>1, <1>2, <2>4, <2>5, <2>6, <2>7, <2>8, PlaceMove
<1> QED
  BY <1>11

\* A flush drains the buffer.
LEMMA PlaceWriteBegin ==
  ASSUME FlowInv, PlaceInv, WriteBegin
  PROVE  PlaceInv'
PROOF
<1>1. /\ writing' = Drained(buffer) /\ buffer' = NewBuffer
      /\ UNCHANGED <<live, owner, dropping, queue, sending, chan, output>>
  BY DEF WriteBegin, spanVars, queueVars
<1>2. seen'.recorded = seen.recorded /\ seen'.lost = seen.lost
  BY DEF WriteBegin, FlowInv, ThreadType, Seen
<1>3. writing = <<>>
  <2>1. at # 0
    BY LenProperties DEF WriteBegin, FlowInv, ConsumerType
  <2> QED
    BY <2>1 DEF FlowInv, ConsumerInv
<1>4. Drained(NewBuffer) = <<>>
  <2>1. Newest(<<>>, BufferCapacity) = <<>>
    BY CapacityPositive DEF Newest
  <2> QED
    BY <2>1, EmptyBuffer
<1>5. SpansOf(Drained(buffer')) = {} /\ Disjoint(Drained(buffer')) /\ SpansOf(writing) = {}
  BY <1>1, <1>3, <1>4, EmptyBatches
<1>6. WrittenSpans' = WrittenSpans
  BY <1>1 DEF WrittenSpans, Datas
<1>7. ASSUME NEW M, M = SpansOf(Drained(buffer))
      PROVE  PlaceInv'
  <2>1. \A x \in M : Inside(x, "buffer", 0)
    BY <1>7 DEF Inside
  <2>2. \A x \in M : \A k, o : Inside(x, k, o) => k = "buffer" /\ o = 0
    BY <2>1 DEF PlaceInv, OnePlace
  <2>3. Into(M, "writing", 0)
    <3>1. \A x, k, o : Inside(x, k, o)' =>
             \/ k = "writing" /\ o = 0 /\ x \in M
             \/ Inside(x, k, o) /\ ~(k = "buffer" /\ o = 0)
      BY <1>1, <1>5, <1>6, <1>7 DEF Inside
    <3> QED
      BY <2>2, <3>1 DEF Into
  <2>4. \A x \in M : Inside(x, "writing", 0)'
    BY <1>1, <1>7 DEF Inside
  <2>5. Kept
    <3>1. \A x, k, o : Inside(x, k, o) => Inside(x, k, o)' \/ x \in M
      BY <1>1, <1>5, <1>6, <1>7 DEF Inside
    <3> QED
      BY <2>4, <3>1 DEF Kept
  <2>6. OncePerPlace'
    BY <1>1, <1>5 DEF PlaceInv, OncePerPlace
  <2>7. \A x \in M : \E k, o : Inside(x, k, o)
    BY <2>1
  <2> QED
    BY <1>1, <1>2, <2>3, <2>4, <2>5, <2>6, <2>7, PlaceMove
<1> QED
  BY <1>7

\* The spans that have been written, when one more batch is.
LEMMA BatchSpans ==
  ASSUME FlowInv, SourceInv, ConsumeBatch
  PROVE  WrittenSpans' = WrittenSpans \cup ToSet(Head(writing))
PROOF
<1> DEFINE h == Head(writing)
<1>1. Datas' = Datas \cup Unflushed \cup EventsOf(h)
  BY BatchDatas
<1>2. \A d \in Unflushed : d.kind # "end"
  <2>1. \A d \in ThreadDescriptors : d.kind = "thread"
    BY ThreadDescriptorType DEF FlowInv, ThreadType
  <2> QED
    BY <2>1 DEF Unflushed, SourceInv
<1> HIDE DEF h
<1>3. \A x : x \in ToSet(h) <=> \E d \in EventsOf(h) : d.kind = "end" /\ d.of = x
  <2>1. \A x \in ToSet(h) : /\ Data("end", x) \in EventsOf(h)
                            /\ Data("end", x).kind = "end" /\ Data("end", x).of = x
    BY DEF EventsOf, Data
  <2>2. ASSUME NEW d \in EventsOf(h), d.kind = "end"
        PROVE  d.of \in ToSet(h)
    BY <2>2 DEF EventsOf, Data
  <2> QED
    BY <2>1, <2>2
<1>4. \A x : x \in WrittenSpans <=> \E d \in Datas : d.kind = "end" /\ d.of = x
  BY DEF WrittenSpans
<1>5. \A x : x \in WrittenSpans' <=> \E d \in Datas' : d.kind = "end" /\ d.of = x
  BY DEF WrittenSpans
<1>6. \A x : x \in WrittenSpans' <=> x \in WrittenSpans \/ x \in ToSet(h)
  BY <1>1, <1>2, <1>3, <1>4, <1>5
<1> QED
  BY <1>6 DEF h

\* A batch is written.
LEMMA PlaceConsumeBatch ==
  ASSUME FlowInv, SourceInv, PlaceInv, ConsumeBatch
  PROVE  PlaceInv'
PROOF
<1>1. /\ writing # <<>> /\ writing' = Tail(writing)
      /\ UNCHANGED <<live, owner, dropping, queue, sending, chan, buffer, seen>>
  BY DEF ConsumeBatch, spanVars, queueVars, bufVars
<1>2. writing \in Seq(Batch)
  BY DEF FlowInv, ConsumerType
<1>3. ASSUME NEW M, M = ToSet(Head(writing))
      PROVE  PlaceInv'
  <2>1. /\ SpansOf(writing) = M \cup SpansOf(writing')
        /\ Disjoint(writing') /\ M \cap SpansOf(writing') = {}
    BY <1>1, <1>2, <1>3, FewerBatches DEF PlaceInv, OncePerPlace
  <2>2. WrittenSpans' = WrittenSpans \cup M
    BY <1>3, BatchSpans
  <2>3. \A x \in M : Inside(x, "writing", 0)
    BY <2>1 DEF Inside
  <2>4. \A x \in M : \A k, o : Inside(x, k, o) => k = "writing" /\ o = 0
    BY <2>3 DEF PlaceInv, OnePlace
  <2>5. Into(M, "output", 0)
    <3>1. \A x, k, o : Inside(x, k, o)' =>
             \/ k = "output" /\ o = 0 /\ (x \in M \/ Inside(x, k, o))
             \/ Inside(x, k, o) /\ ~(k = "writing" /\ o = 0 /\ x \in M)
      BY <1>1, <2>1, <2>2 DEF Inside
    <3> QED
      BY <2>4, <3>1 DEF Into
  <2>6. \A x \in M : Inside(x, "output", 0)'
    BY <2>2 DEF Inside
  <2>7. Kept
    <3>1. \A x, k, o : Inside(x, k, o) => Inside(x, k, o)' \/ x \in M
      BY <1>1, <2>1, <2>2 DEF Inside
    <3> QED
      BY <2>6, <3>1 DEF Kept
  <2>8. OncePerPlace'
    BY <1>1, <2>1 DEF PlaceInv, OncePerPlace
  <2>9. \A x \in M : \E k, o : Inside(x, k, o)
    BY <2>3
  <2> QED
    BY <1>1, <2>5, <2>6, <2>7, <2>8, <2>9, PlaceMove
<1> QED
  BY <1>3

\* Nothing is anywhere yet.
LEMMA PlaceInit == Init => PlaceInv
PROOF
<1> SUFFICES ASSUME Init
             PROVE  PlaceInv
  OBVIOUS
<1>1. Drained(NewBuffer) = <<>>
  <2>1. Newest(<<>>, BufferCapacity) = <<>>
    BY CapacityPositive DEF Newest
  <2> QED
    BY <2>1, EmptyBuffer
<1>2. NewChannel.ring = <<>>
  BY DEF NewChannel
<1>3. WrittenSpans = {}
  BY DEF Init, WrittenSpans, Datas
<1>4. /\ \A t \in Thread : live[t] = {} /\ dropping[t] = 0 /\ sending[t] = <<>> /\ chan[t].ring = <<>>
      /\ \A s \in Shard : queue[s] = <<>>
      /\ Drained(buffer) = <<>> /\ writing = <<>> /\ seen.recorded = {}
  BY <1>1, <1>2 DEF Init, Shard
<1>5. \A x, k, o : ~Inside(x, k, o)
  BY <1>3, <1>4, EmptyBatches DEF Inside
<1>6. OncePerPlace
  BY <1>4, EmptyBatches DEF OncePerPlace
<1> QED
  BY <1>4, <1>5, <1>6 DEF PlaceInv, OnePlace, Created, Accounted

\* PlaceInv is inductive, given those before it.
LEMMA PlaceNext == FlowInv /\ SourceInv /\ PlaceInv /\ [Next]_vars => PlaceInv'
PROOF
<1> SUFFICES ASSUME FlowInv, SourceInv, PlaceInv, [Next]_vars
             PROVE  PlaceInv'
  OBVIOUS
<1>1. ASSUME NEW t \in Thread,
             \/ Spawn(t) \/ Exit(t) \/ Start(t) \/ Stop(t) \/ NewSpanPanics(t) \/ Flush(t)
             \/ RegisterReceiver(t) \/ FlushStart(t) \/ FlushBegin(t)
      PROVE  PlaceInv'
  <2>1. UNCHANGED <<live, dropping, queue, sending, buffer, writing, output, owner>>
    BY <1>1 DEF Spawn, Exit, Start, Stop, NewSpanPanics, Flush, RegisterReceiver, FlushStart,
                FlushBegin, Begin, spanVars, queueVars, bufVars, writeVars
  <2>2. \A u \in Thread : chan'[u].ring = chan[u].ring
    <3>1. chan' = chan \/ chan' = [chan EXCEPT ![t] = Abandon(@)]
      BY <1>1 DEF Spawn, Exit, Start, Stop, NewSpanPanics, Flush, RegisterReceiver, FlushStart,
                  FlushBegin, Begin, queueVars
    <3>2. Abandon(chan[t]).ring = chan[t].ring /\ chan \in [Thread -> Channels(Batch)]
      BY ChannelUpdates DEF FlowInv, QueueType
    <3> QED
      BY <3>1, <3>2
  <2>3. seen'.recorded = seen.recorded /\ seen'.lost = seen.lost
    BY <1>1 DEF Spawn, Exit, Start, Stop, NewSpanPanics, Flush, RegisterReceiver, FlushStart,
                FlushBegin, Begin, FlowInv, ThreadType, Seen
  <2> QED
    BY <2>1, <2>2, <2>3, PlaceStill
<1>2. CASE LoopBegin \/ RecvNone \/ LoopDone \/ WriteDone \/ UNCHANGED vars
  <2>1. UNCHANGED <<live, dropping, queue, sending, buffer, writing, output, owner, chan>>
    BY <1>2 DEF LoopBegin, Begin, RecvNone, LoopDone, WriteDone, vars, spanVars, queueVars,
                bufVars, writeVars
  <2>2. seen'.recorded = seen.recorded /\ seen'.lost = seen.lost
    BY <1>2 DEF LoopBegin, Begin, RecvNone, LoopDone, WriteDone, vars, FlowInv, ThreadType, Seen
  <2> QED
    BY <2>1, <2>2, PlaceStill
<1>3. CASE RecvCommand \/ WriteBegin \/ ConsumeBatch
  BY <1>3, PlaceRecvCommand, PlaceWriteBegin, PlaceConsumeBatch
<1>4. ASSUME NEW t \in Thread,
             \/ NewSpan(t) \/ PushSpan(t) \/ SendBatch(t) \/ LoseBatch(t) \/ FlushShard(t)
             \/ \E s \in Span : DropSpan(t, s)
      PROVE  PlaceInv'
  BY <1>4, PlaceNewSpan, PlacePushSpan, PlaceSendBatch, PlaceLoseBatch, PlaceFlushShard,
     PlaceDropSpan, Zenon
<1> QED
  BY <1>1, <1>2, <1>3, <1>4, Zenon DEF Next, Collect, CallStep, Send

\* PlaceInv holds throughout.
LEMMA Place == Spec => []PlaceInv
PROOF
  BY PlaceInit, PlaceNext, Flow, Source, PTL DEF Spec
\* However many threads there are and whatever they do, a span that has been
\* recorded and not been lost is in exactly one place between its thread and
\* the output: no overlap of flush, collection and exit drops or doubles it.
THEOREM SpansInOnePlace == Spec => [](OnePlace /\ Accounted)
PROOF
<1>1. PlaceInv => OnePlace /\ Accounted
  BY DEF PlaceInv
<1> QED
  BY <1>1, Place, PTL

-----------------------------------------------------------------------------
(* AskedInv. *)

\* What is written and lost does not change with the rest.
LEMMA OutputSame ==
  ASSUME output' = output
  PROVE  Datas' = Datas /\ WrittenSpans' = WrittenSpans
PROOF
  BY DEF Datas, WrittenSpans

\* The queues and the batches on their way are as before.
LEMMA TakenSame ==
  ASSUME AskedTaken, UNCHANGED <<queue, holder, sending, shardAt>>,
         \A t \in Thread : seen'.asked[t] \subseteq seen.asked[t],
         \A t \in Thread : thread'[t] \in {"flush", "wait", "write"} =>
                             thread[t] \in {"flush", "wait", "write"}
  PROVE  AskedTaken'
PROOF
  BY DEF AskedTaken, Taken

\* The collection is where it was, and no channel holds more.
LEMMA DrainedSame ==
  ASSUME AskedDrained, consumer' = consumer, at' = at, at = 0 \/ rxs' = rxs, FlowInv,
         \A t \in Thread : SpansOf(chan'[t].ring) \subseteq SpansOf(chan[t].ring),
         consumer \in Thread => seen'.asked[consumer] \subseteq seen.asked[consumer]
  PROVE  AskedDrained'
PROOF
<1> SUFFICES ASSUME consumer \in Thread, at # 0, NEW i \in 1 .. at - 1
             PROVE  SpansOf(chan'[rxs'[i]].ring) \cap seen'.asked[consumer] = {}
  BY DEF AskedDrained
<1>1. rxs' = rxs /\ rxs \in Seq(Thread) /\ at \in 0 .. Len(rxs) + 1 /\ Len(rxs) \in Nat
  BY LenProperties DEF FlowInv, ConsumerType
<1>2. i \in 1 .. Len(rxs)
  BY <1>1
<1>3. rxs[i] \in Thread
  BY <1>1, <1>2, ElementOfSeq
<1>4. SpansOf(chan[rxs[i]].ring) \cap seen.asked[consumer] = {}
  BY DEF AskedDrained
<1> QED
  BY <1>1, <1>3, <1>4

\* A flush writes what it did.
LEMMA WrittenSame ==
  ASSUME AskedWritten, consumer' = consumer, at' = at,
         SpansOf(writing) \cup WrittenSpans \subseteq SpansOf(writing') \cup WrittenSpans',
         seen.lost \subseteq seen'.lost,
         consumer \in Thread => seen'.asked[consumer] \subseteq seen.asked[consumer]
  PROVE  AskedWritten'
PROOF
  BY DEF AskedWritten

\* What has been written and lost stays so.
LEMMA CompleteSame ==
  ASSUME FlushComplete, seen'.due = seen.due, WrittenSpans \subseteq WrittenSpans',
         seen.lost \subseteq seen'.lost
  PROVE  FlushComplete'
PROOF
  BY DEF FlushComplete

\* Steps that record nothing, send nothing and move no flush.
LEMMA AskedQuiet ==
  ASSUME FlowInv, AskedInv, UNCHANGED <<queue, holder, sending, shardAt, consumer, at>>,
         seen'.asked = seen.asked, seen'.due = seen.due, seen'.recorded = seen.recorded,
         seen.lost \subseteq seen'.lost,
         \A t \in Thread : \/ thread'[t] = thread[t]
                           \/ {thread[t], thread'[t]} \cap {"flush", "wait", "write"} = {}
                           \/ {thread[t], thread'[t]} \subseteq {"flush", "wait", "write"},
         at = 0 \/ rxs' = rxs,
         \A t \in Thread : SpansOf(chan'[t].ring) \subseteq SpansOf(chan[t].ring),
         SpansOf(writing) \cup WrittenSpans \subseteq SpansOf(writing') \cup WrittenSpans',
         WrittenSpans \subseteq WrittenSpans'
  PROVE  AskedInv'
PROOF
<1>1. \A t \in Thread : thread'[t] \in {"flush", "wait", "write"} <=>
                           thread[t] \in {"flush", "wait", "write"}
  OBVIOUS
<1>2. AskedEarly'
  BY <1>1 DEF AskedInv, AskedEarly
<1>3. AskedTaken'
  BY <1>1, TakenSame DEF AskedInv
<1>4. AskedDrained'
  BY DrainedSame DEF AskedInv
<1>5. AskedWritten'
  BY WrittenSame DEF AskedInv
<1>6. FlushComplete'
  BY CompleteSame DEF AskedInv
<1> QED
  BY <1>2, <1>3, <1>4, <1>5, <1>6 DEF AskedInv

\* The steps of threads among them.
LEMMA AskedThread ==
  ASSUME FlowInv, AskedInv, NEW t \in Thread,
         \/ Spawn(t) \/ Exit(t) \/ Start(t) \/ Stop(t) \/ NewSpan(t) \/ NewSpanPanics(t)
         \/ RegisterReceiver(t) \/ FlushStart(t) \/ \E s \in Span : DropSpan(t, s)
  PROVE  AskedInv'
PROOF
<1> USE DEF spanVars, queueVars, bufVars, writeVars
<1>1. UNCHANGED <<queue, holder, sending, shardAt, consumer, at, writing, output>>
  BY DEF Spawn, Exit, Start, Stop, NewSpan, NewSpanPanics, RegisterReceiver, FlushStart, DropSpan
<1>2. /\ seen'.asked = seen.asked /\ seen'.due = seen.due /\ seen'.recorded = seen.recorded
      /\ seen'.lost = seen.lost
  BY DEF Spawn, Exit, Start, Stop, NewSpan, NewSpanPanics, RegisterReceiver, FlushStart, DropSpan,
         FlowInv, ThreadType, Seen
<1>3. \A u \in Thread : \/ thread'[u] = thread[u]
                        \/ {thread[u], thread'[u]} \cap {"flush", "wait", "write"} = {}
                        \/ {thread[u], thread'[u]} \subseteq {"flush", "wait", "write"}
  BY DEF Spawn, Exit, Start, Stop, NewSpan, NewSpanPanics, RegisterReceiver, FlushStart, DropSpan,
         FlowInv, ThreadType
<1>4. at = 0 \/ rxs' = rxs
  BY DEF Spawn, Exit, Start, Stop, NewSpan, NewSpanPanics, RegisterReceiver, FlushStart, DropSpan,
         RxsLocked
<1>5. \A u \in Thread : chan'[u].ring = chan[u].ring
  <2>1. chan' = chan \/ chan' = [chan EXCEPT ![t] = Abandon(@)]
    BY DEF Spawn, Exit, Start, Stop, NewSpan, NewSpanPanics, RegisterReceiver, FlushStart, DropSpan
  <2>2. Abandon(chan[t]).ring = chan[t].ring /\ chan \in [Thread -> Channels(Batch)]
    BY ChannelUpdates DEF FlowInv, QueueType
  <2> QED
    BY <2>1, <2>2
<1>6. WrittenSpans' = WrittenSpans
  BY <1>1, OutputSame
<1>7. /\ \A u \in Thread : SpansOf(chan'[u].ring) \subseteq SpansOf(chan[u].ring)
      /\ SpansOf(writing) \cup WrittenSpans \subseteq SpansOf(writing') \cup WrittenSpans'
      /\ WrittenSpans \subseteq WrittenSpans' /\ seen.lost \subseteq seen'.lost
  BY <1>1, <1>2, <1>5, <1>6
<1> QED
  BY <1>1, <1>2, <1>3, <1>4, <1>7, AskedQuiet

\* A batch leaves a channel.
LEMMA AskedRecvCommand ==
  ASSUME FlowInv, AskedInv, RecvCommand
  PROVE  AskedInv'
PROOF
<1> SUFFICES ASSUME NEW t, t = Current
             PROVE  AskedInv'
  OBVIOUS
<1>1. /\ chan[t].ring # <<>> /\ chan' = [chan EXCEPT ![t] = Pop(@)]
      /\ UNCHANGED <<thread, queue, holder, sending, shardAt, consumer, at, rxs, writing, output>>
  BY DEF RecvCommand, writeVars
<1>2. /\ seen'.asked = seen.asked /\ seen'.due = seen.due /\ seen'.recorded = seen.recorded
      /\ seen.lost \subseteq seen'.lost
  BY DEF RecvCommand, FlowInv, ThreadType, Seen
<1>3. t \in Thread
  BY LenProperties, ElementOfSeq DEF RecvCommand, AtReceiver, Current, FlowInv, ConsumerType
<1>4. chan \in [Thread -> Channels(Batch)] /\ Pop(chan[t]).ring = Tail(chan[t].ring)
  BY <1>1, <1>3, ChannelUpdates DEF FlowInv, QueueType
<1>5. SpansOf(Tail(chan[t].ring)) \subseteq SpansOf(chan[t].ring)
  <2>1. chan[t].ring \in Seq(Batch)
    BY <1>3, <1>4 DEF Channels
  <2> QED
    BY <1>1, <2>1, FewerBatches
<1>6. \A u \in Thread : SpansOf(chan'[u].ring) \subseteq SpansOf(chan[u].ring)
  <2>1. \A u \in Thread : chan'[u].ring = IF u = t THEN Tail(chan[t].ring) ELSE chan[u].ring
    BY <1>1, <1>4
  <2> QED
    BY <1>5, <2>1
<1>7. WrittenSpans' = WrittenSpans
  BY <1>1, OutputSame
<1>8. /\ SpansOf(writing) \cup WrittenSpans \subseteq SpansOf(writing') \cup WrittenSpans'
      /\ WrittenSpans \subseteq WrittenSpans'
      /\ \A u \in Thread : thread'[u] = thread[u]
  BY <1>1, <1>7
<1> QED
  BY <1>1, <1>2, <1>6, <1>8, AskedQuiet

\* A batch is written.
LEMMA AskedConsumeBatch ==
  ASSUME FlowInv, SourceInv, AskedInv, ConsumeBatch
  PROVE  AskedInv'
PROOF
<1>1. /\ writing # <<>> /\ writing' = Tail(writing)
      /\ UNCHANGED <<thread, queue, holder, sending, shardAt, consumer, at, rxs, chan, seen>>
  BY DEF ConsumeBatch, queueVars, bufVars
<1>2. writing \in Seq(Batch)
  BY DEF FlowInv, ConsumerType
<1>3. SpansOf(writing) = ToSet(Head(writing)) \cup SpansOf(writing')
  BY <1>1, <1>2, FewerBatches
<1>4. WrittenSpans' = WrittenSpans \cup ToSet(Head(writing))
  BY BatchSpans
<1>5. /\ SpansOf(writing) \cup WrittenSpans \subseteq SpansOf(writing') \cup WrittenSpans'
      /\ WrittenSpans \subseteq WrittenSpans' /\ seen.lost \subseteq seen'.lost
      /\ \A u \in Thread : thread'[u] = thread[u]
      /\ \A u \in Thread : SpansOf(chan'[u].ring) \subseteq SpansOf(chan[u].ring)
  BY <1>1, <1>3, <1>4
<1> QED
  BY <1>1, <1>5, AskedQuiet
\* A span recorded is asked for by no flush under way.
LEMMA AskedPushSpan ==
  ASSUME FlowInv, PlaceInv, AskedInv, NEW t \in Thread, PushSpan(t)
  PROVE  AskedInv'
PROOF
<1> SUFFICES ASSUME NEW s, s = ShardOf(t), NEW x0, x0 = dropping[t],
                    NEW spans, spans = Append(queue[s], x0)
             PROVE  AskedInv'
  OBVIOUS
<1>1. /\ seen' = [seen EXCEPT !.recorded = @ \cup {x0}]
      /\ UNCHANGED <<shardAt, chan, rxs, consumer, at, writing, output>>
      /\ thread[t] = "push" /\ holder[s] = NoThread
  BY DEF PushSpan, bufVars, writeVars, Locked
<1>2. \/ /\ queue' = [queue EXCEPT ![s] = spans] /\ sending' = sending /\ holder' = holder
         /\ thread' = [thread EXCEPT ![t] = "idle"]
      \/ /\ queue' = [queue EXCEPT ![s] = <<>>] /\ sending' = [sending EXCEPT ![t] = <<spans>>]
         /\ holder' = [holder EXCEPT ![s] = t] /\ thread' = [thread EXCEPT ![t] = "send"]
  BY DEF PushSpan, TakeBatch
<1>3. s \in Shard
  BY ShardType DEF FlowInv, ThreadType
<1>4. x0 \in Span /\ x0 # 0 /\ sending[t] = <<>>
  <2>1. x0 \in Span /\ x0 # 0
    BY <1>1, Numbers DEF FlowInv, LockInv, QueueType, Span
  <2>2. sending[t] = <<>>
    BY <1>1, Numbers DEF FlowInv, LockInv
  <2> QED
    BY <2>1, <2>2
<1>5. /\ seen'.asked = seen.asked /\ seen'.due = seen.due /\ seen'.lost = seen.lost
      /\ seen.recorded \subseteq seen'.recorded
  BY <1>1 DEF FlowInv, ThreadType, Seen
<1>6. /\ queue \in [Shard -> Seq(Span)] /\ sending \in [Thread -> Seq(Batch)]
      /\ holder \in [Shard -> Thread \cup {NoThread}] /\ thread \in [Thread -> ThreadState]
  BY DEF FlowInv, ThreadType, QueueType
<1>7. \A u \in Thread : x0 \notin seen.asked[u]
  <2>1. Inside(x0, "drop", t)
    BY <1>4 DEF Inside
  <2>2. x0 \notin seen.recorded
    BY <2>1 DEF PlaceInv, Created
  <2> QED
    BY <2>2 DEF AskedInv, AskedEarly
<1>8. ToSet(spans) = ToSet(queue[s]) \cup {x0}
  <2>1. queue[s] \in Seq(Span)
    BY <1>3, <1>6
  <2> QED
    BY <1>4, <2>1, MoreSpans
<1>9. AskedEarly'
  <2>1. \A u \in Thread : thread'[u] \in {"flush", "wait", "write"} <=>
                             thread[u] \in {"flush", "wait", "write"}
    BY <1>1, <1>2, <1>6
  <2> QED
    BY <1>5, <2>1 DEF AskedInv, AskedEarly
<1>10. AskedTaken'
  <2>1. \A u \in Thread, z \in Shard : Taken(u, z)' => Taken(u, z) /\ u # t
    <3>1. \A u \in Thread : u # t => thread'[u] = thread[u] /\ sending'[u] = sending[u]
      BY <1>2, <1>6
    <3>2. thread'[t] \in {"idle", "send"}
      BY <1>2, <1>6
    <3> QED
      BY <1>1, <3>1, <3>2 DEF Taken
  <2>2. ASSUME NEW u \in Thread, NEW z \in Shard, Taken(u, z)'
        PROVE  /\ ToSet(queue'[z]) \cap seen'.asked[u] = {}
               /\ holder'[z] \notin {u, NoThread} => SpansOf(sending'[holder'[z]]) \cap seen'.asked[u] = {}
    <3>1. /\ Taken(u, z) /\ u # t
          /\ ToSet(queue[z]) \cap seen.asked[u] = {}
          /\ holder[z] \notin {u, NoThread} => SpansOf(sending[holder[z]]) \cap seen.asked[u] = {}
      BY <2>1, <2>2 DEF AskedInv, AskedTaken
    <3>2. CASE z = s
      <4>1. ToSet(spans) \cap seen.asked[u] = {}
        BY <1>7, <1>8, <3>1, <3>2
      <4>2. ToSet(<<>>) = {} /\ SpansOf(<<spans>>) = ToSet(spans)
        BY EmptyBatches, OneBatch
      <4>3. \/ queue'[z] = spans /\ holder'[z] = NoThread
            \/ queue'[z] = <<>> /\ holder'[z] = t /\ sending'[t] = <<spans>>
        BY <1>1, <1>2, <1>3, <1>6, <3>2
      <4> QED
        BY <1>5, <4>1, <4>2, <4>3
    <3>3. CASE z # s
      <4>1. queue'[z] = queue[z] /\ holder'[z] = holder[z]
        BY <1>2, <1>6, <3>3
      <4>2. ASSUME holder[z] \notin {u, NoThread}
            PROVE  sending'[holder[z]] = sending[holder[z]]
        <5>1. holder[z] \in Thread /\ holder[z] # t
          BY <1>4, <1>6, <4>2 DEF FlowInv, LockInv
        <5> QED
          BY <1>2, <1>6, <5>1
      <4> QED
        BY <1>5, <3>1, <4>1, <4>2
    <3> QED
      BY <3>2, <3>3
  <2> QED
    BY <2>2 DEF AskedTaken
<1>11. /\ WrittenSpans' = WrittenSpans
       /\ \A u \in Thread : SpansOf(chan'[u].ring) \subseteq SpansOf(chan[u].ring)
  BY <1>1, OutputSame
<1>12. AskedDrained'
  BY <1>1, <1>5, <1>11, DrainedSame DEF AskedInv
<1>13. AskedWritten'
  BY <1>1, <1>5, <1>11, WrittenSame DEF AskedInv
<1>14. FlushComplete'
  BY <1>5, <1>11, CompleteSame DEF AskedInv
<1> QED
  BY <1>9, <1>10, <1>12, <1>13, <1>14 DEF AskedInv

\* When a send is over, and the shard it was from taken.
LEMMA SentTaken ==
  ASSUME FlowInv, AskedTaken, NEW t \in Thread, sending[t] # <<>>, Sent(t), queue' = queue,
         seen'.asked = seen.asked
  PROVE  AskedTaken'
PROOF
<1>1. /\ sending \in [Thread -> Seq(Batch)] /\ holder \in [Shard -> Thread \cup {NoThread}]
      /\ thread \in [Thread -> ThreadState] /\ shardAt \in [Thread -> 0 .. Shards]
  BY DEF FlowInv, ThreadType, QueueType
<1>2. /\ \A u \in Thread : sending'[u] = IF u = t THEN <<>> ELSE sending[u]
      /\ \A z \in Shard : holder'[z] = IF holder[z] = t THEN NoThread ELSE holder[z]
      /\ \A u \in Thread : u # t => thread'[u] = thread[u] /\ shardAt'[u] = shardAt[u]
      /\ thread'[t] = IF thread[t] = "send" THEN "idle" ELSE thread[t]
      /\ shardAt'[t] = IF thread[t] = "flush" THEN shardAt[t] + 1 ELSE shardAt[t]
  BY <1>1 DEF Sent
<1>3. thread[t] \in {"send", "flush"}
  BY Numbers DEF FlowInv, LockInv
<1>4. \A u \in Thread, z \in Shard : Taken(u, z)' => Taken(u, z)
  <2>1. ASSUME NEW u \in Thread, NEW z \in Shard, Taken(u, z)', u # t
        PROVE  Taken(u, z)
    BY <1>2, <2>1 DEF Taken
  <2>2. ASSUME NEW z \in Shard, Taken(t, z)'
        PROVE  Taken(t, z)
    <3>1. thread[t] = "flush" /\ z < shardAt'[t] /\ shardAt'[t] = shardAt[t] + 1
      BY <1>2, <1>3, <2>2 DEF Taken
    <3>2. z \in Nat /\ shardAt[t] \in Nat
      BY <1>1, Numbers DEF Shard
    <3>3. z < shardAt[t] \/ z = shardAt[t]
      BY <3>1, <3>2
    <3> QED
      BY <3>1, <3>3 DEF Taken
  <2> QED
    BY <2>1, <2>2
<1>5. ASSUME NEW u \in Thread, NEW z \in Shard, Taken(u, z)'
      PROVE  /\ ToSet(queue'[z]) \cap seen'.asked[u] = {}
             /\ holder'[z] \notin {u, NoThread} => SpansOf(sending'[holder'[z]]) \cap seen'.asked[u] = {}
  <2>1. /\ ToSet(queue[z]) \cap seen.asked[u] = {}
        /\ holder[z] \notin {u, NoThread} => SpansOf(sending[holder[z]]) \cap seen.asked[u] = {}
    BY <1>4, <1>5 DEF AskedTaken
  <2>2. holder'[z] \notin {u, NoThread} => holder[z] # t /\ holder'[z] = holder[z] /\ holder[z] \in Thread
    BY <1>1, <1>2
  <2> QED
    BY <1>2, <2>1, <2>2
<1> QED
  BY <1>5 DEF AskedTaken

\* A batch that gets into a channel the flush has drained is not asked for.
LEMMA AskedSendBatch ==
  ASSUME FlowInv, AskedInv, NEW t \in Thread, SendBatch(t)
  PROVE  AskedInv'
PROOF
<1> SUFFICES ASSUME NEW b, b = sending[t][1]
             PROVE  AskedInv'
  OBVIOUS
<1>1. /\ sending[t] # <<>> /\ chan' = [chan EXCEPT ![t] = Push(@, b)] /\ Sent(t)
      /\ thread' = [thread EXCEPT ![t] = IF @ = "send" THEN "idle" ELSE @]
      /\ UNCHANGED <<queue, rxs, consumer, at, writing, output, seen>>
  BY DEF SendBatch, CanSend, Sent, bufVars, writeVars
<1>2. b \in Batch /\ sending[t] = <<b>>
  BY <1>1, SendingOne
<1>3. AskedEarly'
  <2>1. \A u \in Thread : thread[u] \in {"flush", "wait", "write"} => thread'[u] = thread[u]
    BY <1>1 DEF FlowInv, ThreadType
  <2> QED
    BY <1>1, <2>1 DEF AskedInv, AskedEarly
<1>4. AskedTaken'
  BY <1>1, SentTaken DEF AskedInv
<1>5. AskedDrained'
  <2> SUFFICES ASSUME consumer \in Thread, at # 0, NEW i \in 1 .. at - 1
               PROVE  SpansOf(chan'[rxs[i]].ring) \cap seen.asked[consumer] = {}
    BY <1>1 DEF AskedDrained
  <2>1. rxs[i] \in Thread
    <3>1. rxs \in Seq(Thread) /\ at \in 0 .. Len(rxs) + 1 /\ Len(rxs) \in Nat
      BY LenProperties DEF FlowInv, ConsumerType
    <3>2. i \in 1 .. Len(rxs)
      BY <3>1
    <3> QED
      BY <3>1, <3>2, ElementOfSeq
  <2>2. SpansOf(chan[rxs[i]].ring) \cap seen.asked[consumer] = {}
    BY DEF AskedInv, AskedDrained
  <2>3. ToSet(b) \cap seen.asked[consumer] = {}
    <3>1. PICK s \in Shard : holder[s] = t
      BY <1>1 DEF FlowInv, LockInv
    <3>2. thread[consumer] = "wait" /\ shardAt[consumer] = Shards
      BY DEF FlowInv, ConsumerInv, LockInv
    <3>3. thread[t] \in {"send", "flush"} /\ t # NoThread
      BY <3>1, Numbers DEF FlowInv, LockInv
    <3>4. t # consumer
      BY <3>2, <3>3
    <3>5. Taken(consumer, s)
      <4>1. s < Shards
        BY Numbers DEF Shard
      <4> QED
        BY <3>2, <4>1 DEF Taken
    <3>6. SpansOf(sending[t]) \cap seen.asked[consumer] = {}
      BY <3>1, <3>3, <3>4, <3>5 DEF AskedInv, AskedTaken
    <3> QED
      BY <1>2, <3>6, OneBatch
  <2>4. chan \in [Thread -> Channels(Batch)]
    BY DEF FlowInv, QueueType
  <2>5. chan[t].ring \in Seq(Batch) /\ Push(chan[t], b).ring = Append(chan[t].ring, b)
    BY <1>2, <2>4, ChannelUpdates, ZenonT(30) DEF FlowInv, QueueType, Channels
  <2>6. SpansOf(Append(chan[t].ring, b)) = SpansOf(chan[t].ring) \cup ToSet(b)
    BY <1>2, <2>5, MoreBatches
  <2>7. SpansOf(chan'[rxs[i]].ring) \subseteq SpansOf(chan[rxs[i]].ring) \cup ToSet(b)
    <3>1. chan'[rxs[i]].ring = IF rxs[i] = t THEN Append(chan[t].ring, b) ELSE chan[rxs[i]].ring
      BY <1>1, <2>1, <2>4, <2>5
    <3> QED
      BY <2>6, <3>1
  <2> QED
    BY <2>2, <2>3, <2>7
<1>6. WrittenSpans' = WrittenSpans
  BY <1>1, OutputSame
<1>7. AskedWritten'
  BY <1>1, <1>6, WrittenSame DEF AskedInv
<1>8. FlushComplete'
  BY <1>1, <1>6, CompleteSame DEF AskedInv
<1> QED
  BY <1>3, <1>4, <1>5, <1>7, <1>8 DEF AskedInv

\* A batch lost is accounted for.
LEMMA AskedLoseBatch ==
  ASSUME FlowInv, AskedInv, NEW t \in Thread, LoseBatch(t)
  PROVE  AskedInv'
PROOF
<1>1. /\ sending[t] # <<>> /\ Sent(t)
      /\ thread' = [thread EXCEPT ![t] = IF @ = "send" THEN "idle" ELSE @]
      /\ UNCHANGED <<queue, chan, rxs, consumer, at, writing, output>>
  BY DEF LoseBatch, CanSend, Sent, bufVars, writeVars
<1>2. /\ seen'.asked = seen.asked /\ seen'.due = seen.due /\ seen'.recorded = seen.recorded
      /\ seen.lost \subseteq seen'.lost
  BY DEF LoseBatch, FlowInv, ThreadType, Seen
<1>3. AskedEarly'
  <2>1. \A u \in Thread : thread[u] \in {"flush", "wait", "write"} => thread'[u] = thread[u]
    BY <1>1 DEF FlowInv, ThreadType
  <2> QED
    BY <1>2, <2>1 DEF AskedInv, AskedEarly
<1>4. AskedTaken'
  BY <1>1, <1>2, SentTaken DEF AskedInv
<1>5. /\ WrittenSpans' = WrittenSpans
      /\ \A u \in Thread : SpansOf(chan'[u].ring) \subseteq SpansOf(chan[u].ring)
  BY <1>1, OutputSame
<1>6. AskedDrained'
  BY <1>1, <1>2, <1>5, DrainedSame DEF AskedInv
<1>7. AskedWritten'
  BY <1>1, <1>2, <1>5, WrittenSame DEF AskedInv
<1>8. FlushComplete'
  BY <1>2, <1>5, CompleteSame DEF AskedInv
<1> QED
  BY <1>3, <1>4, <1>6, <1>7, <1>8 DEF AskedInv

\* A flush is called: it has taken nothing.
LEMMA AskedFlush ==
  ASSUME FlowInv, AskedInv, NEW t \in Thread, Flush(t)
  PROVE  AskedInv'
PROOF
<1>1. /\ thread[t] = "idle" /\ thread' = [thread EXCEPT ![t] = "flush"]
      /\ shardAt' = [shardAt EXCEPT ![t] = 0]
      /\ UNCHANGED <<queue, holder, sending, chan, rxs, consumer, at, writing, output>>
  BY DEF Flush, bufVars, writeVars
<1>2. /\ seen'.asked = [seen.asked EXCEPT ![t] = seen.recorded] /\ seen'.due = seen.due
      /\ seen'.recorded = seen.recorded /\ seen'.lost = seen.lost
      /\ seen.asked \in [Thread -> SUBSET Span]
  BY DEF Flush, FlowInv, ThreadType, Seen
<1>3. sending[t] = <<>>
  BY <1>1, Numbers DEF FlowInv, LockInv
<1>4. \A u \in Thread : u # t => /\ thread'[u] = thread[u] /\ shardAt'[u] = shardAt[u]
                                 /\ seen'.asked[u] = seen.asked[u]
  BY <1>1, <1>2 DEF FlowInv, ThreadType, QueueType
<1>5. thread'[t] = "flush" /\ shardAt'[t] = 0 /\ seen'.asked[t] = seen.recorded
  BY <1>1, <1>2 DEF FlowInv, ThreadType, QueueType
<1>6. AskedEarly'
  BY <1>2, <1>4, <1>5 DEF AskedInv, AskedEarly
<1>7. AskedTaken'
  <2>1. \A z \in Shard : ~Taken(t, z)'
    <3>1. \A z \in Shard : ~(z < 0)
      BY Numbers
    <3> QED
      BY <1>1, <1>3, <1>5, <3>1 DEF Taken
  <2>2. \A u \in Thread, z \in Shard : u # t /\ Taken(u, z)' => Taken(u, z)
    BY <1>1, <1>4 DEF Taken
  <2> QED
    BY <1>1, <1>4, <2>1, <2>2 DEF AskedInv, AskedTaken
<1>8. /\ WrittenSpans' = WrittenSpans
      /\ \A u \in Thread : SpansOf(chan'[u].ring) \subseteq SpansOf(chan[u].ring)
  BY <1>1, OutputSame
<1>9. consumer \in Thread => seen'.asked[consumer] \subseteq seen.asked[consumer]
  BY <1>1, <1>4 DEF FlowInv, ConsumerInv
<1>10. AskedDrained'
  BY <1>1, <1>8, <1>9, DrainedSame DEF AskedInv
<1>11. AskedWritten'
  BY <1>1, <1>2, <1>8, <1>9, WrittenSame DEF AskedInv
<1>12. FlushComplete'
  BY <1>2, <1>8, CompleteSame DEF AskedInv
<1> QED
  BY <1>6, <1>7, <1>10, <1>11, <1>12 DEF AskedInv

\* A flush takes a shard.
LEMMA AskedFlushShard ==
  ASSUME FlowInv, AskedInv, NEW t \in Thread, FlushShard(t)
  PROVE  AskedInv'
PROOF
<1> SUFFICES ASSUME NEW s, s = shardAt[t], NEW q, q = queue[s]
             PROVE  AskedInv'
  OBVIOUS
<1>1. /\ sending[t] = <<>> /\ sending' = [sending EXCEPT ![t] = <<q>>]
      /\ holder[s] = NoThread /\ holder' = [holder EXCEPT ![s] = t]
      /\ queue' = [queue EXCEPT ![s] = <<>>]
      /\ UNCHANGED <<thread, shardAt, chan, rxs, consumer, at, writing, output, seen>>
  BY DEF FlushShard, TakeBatch, Locked, bufVars, writeVars
<1>2. s \in Shard
  BY Numbers DEF FlushShard, FlowInv, QueueType, Shard
<1>3. /\ sending \in [Thread -> Seq(Batch)] /\ queue \in [Shard -> Seq(Span)]
      /\ holder \in [Shard -> Thread \cup {NoThread}]
  BY DEF FlowInv, QueueType
<1>4. AskedEarly'
  BY <1>1 DEF AskedInv, AskedEarly
<1>5. AskedTaken'
  <2>1. \A u \in Thread, z \in Shard : Taken(u, z)' => Taken(u, z) \/ (u = t /\ z = s)
    BY <1>1, <1>3 DEF Taken
  <2>2. SpansOf(<<q>>) = ToSet(q) /\ ToSet(<<>>) = {}
    BY OneBatch, EmptyBatches
  <2>3. ASSUME NEW u \in Thread, NEW z \in Shard, Taken(u, z)'
        PROVE  /\ ToSet(queue'[z]) \cap seen'.asked[u] = {}
               /\ holder'[z] \notin {u, NoThread} => SpansOf(sending'[holder'[z]]) \cap seen'.asked[u] = {}
    <3>1. CASE z = s
      <4>1. queue'[z] = <<>> /\ holder'[z] = t /\ sending'[t] = <<q>>
        BY <1>1, <1>2, <1>3, <3>1
      <4>2. u # t => ToSet(q) \cap seen.asked[u] = {}
        BY <2>1, <2>3, <3>1 DEF AskedInv, AskedTaken
      <4> QED
        BY <1>1, <2>2, <4>1, <4>2
    <3>2. CASE z # s
      <4>1. queue'[z] = queue[z] /\ holder'[z] = holder[z]
        BY <1>1, <1>3, <3>2
      <4>2. /\ ToSet(queue[z]) \cap seen.asked[u] = {}
            /\ holder[z] \notin {u, NoThread} => SpansOf(sending[holder[z]]) \cap seen.asked[u] = {}
        BY <2>1, <2>3, <3>2 DEF AskedInv, AskedTaken
      <4>3. ASSUME holder[z] \notin {u, NoThread}
            PROVE  sending'[holder[z]] = sending[holder[z]]
        <5>1. holder[z] \in Thread /\ holder[z] # t
          BY <1>1, <1>3, <4>3 DEF FlowInv, LockInv
        <5> QED
          BY <1>1, <1>3, <5>1
      <4> QED
        BY <1>1, <4>1, <4>2, <4>3
    <3> QED
      BY <3>1, <3>2
  <2> QED
    BY <2>3 DEF AskedTaken
<1>6. /\ WrittenSpans' = WrittenSpans
      /\ \A u \in Thread : SpansOf(chan'[u].ring) \subseteq SpansOf(chan[u].ring)
  BY <1>1, OutputSame
<1>7. AskedDrained'
  BY <1>1, <1>6, DrainedSame DEF AskedInv
<1>8. AskedWritten'
  BY <1>1, <1>6, WrittenSame DEF AskedInv
<1>9. FlushComplete'
  BY <1>1, <1>6, CompleteSame DEF AskedInv
<1> QED
  BY <1>4, <1>5, <1>7, <1>8, <1>9 DEF AskedInv
\* What a step of the consumer leaves alone.
LEMMA AskedConsumer ==
  ASSUME FlowInv, AskedInv, UNCHANGED <<queue, holder, sending, shardAt, output>>,
         seen'.asked = seen.asked, seen'.due = seen.due, seen'.recorded = seen.recorded,
         seen'.lost = seen.lost,
         \A t \in Thread : thread'[t] \in {"flush", "wait", "write"} <=>
                             thread[t] \in {"flush", "wait", "write"}
  PROVE  AskedEarly' /\ AskedTaken' /\ FlushComplete' /\ WrittenSpans' = WrittenSpans
PROOF
<1>1. AskedEarly'
  BY DEF AskedInv, AskedEarly
<1>2. AskedTaken'
  BY TakenSame DEF AskedInv
<1>3. WrittenSpans' = WrittenSpans
  BY OutputSame
<1>4. FlushComplete'
  BY <1>3, CompleteSame DEF AskedInv
<1> QED
  BY <1>1, <1>2, <1>3, <1>4

\* A collection begins, ends, or comes to the next receiver.
LEMMA AskedCollect ==
  ASSUME FlowInv, AskedInv, (\E t \in Thread : FlushBegin(t)) \/ LoopBegin \/ LoopDone \/ RecvNone
  PROVE  AskedInv'
PROOF
<1>1. UNCHANGED <<thread, queue, holder, sending, shardAt, output, seen, chan, rxs>>
  BY DEF FlushBegin, LoopBegin, Begin, LoopDone, RecvNone, queueVars, writeVars
<1>2. AskedEarly' /\ AskedTaken' /\ FlushComplete'
  BY <1>1, AskedConsumer
<1>3. CASE (\E t \in Thread : FlushBegin(t)) \/ LoopBegin
  <2>1. at' = 1
    BY <1>3 DEF FlushBegin, LoopBegin, Begin
  <2>2. AskedDrained' /\ AskedWritten'
    BY <2>1 DEF AskedDrained, AskedWritten
  <2> QED
    BY <1>2, <2>2 DEF AskedInv
<1>4. CASE LoopDone
  <2>1. consumer' \notin Thread
    BY <1>4, Numbers DEF LoopDone
  <2>2. AskedDrained' /\ AskedWritten'
    BY <2>1 DEF AskedDrained, AskedWritten
  <2> QED
    BY <1>2, <2>2 DEF AskedInv
<1>5. CASE RecvNone
  <2>1. /\ at' = at + 1 /\ consumer' = consumer /\ at \in DOMAIN rxs /\ chan[rxs[at]].ring = <<>>
    BY <1>5 DEF RecvNone, AtReceiver, Current
  <2>2. at \in Nat /\ at # 0
    BY <2>1, LenProperties DEF FlowInv, ConsumerType
  <2>3. AskedWritten'
    BY <2>1, <2>2 DEF AskedWritten
  <2>4. AskedDrained'
    <3>1. ASSUME consumer \in Thread, NEW i \in 1 .. at
          PROVE  SpansOf(chan[rxs[i]].ring) \cap seen.asked[consumer] = {}
      <4>1. CASE i = at
        BY <2>1, <4>1, EmptyBatches
      <4>2. CASE i # at
        <5>1. i \in 1 .. at - 1
          BY <2>2, <4>2
        <5> QED
          BY <2>2, <3>1, <5>1 DEF AskedInv, AskedDrained
      <4> QED
        BY <4>1, <4>2
    <3>2. at' - 1 = at
      BY <2>1, <2>2
    <3> QED
      BY <1>1, <2>1, <3>1, <3>2 DEF AskedDrained
  <2> QED
    BY <1>2, <2>3, <2>4 DEF AskedInv
<1> QED
  BY <1>3, <1>4, <1>5

\* When the buffer is drained, all that is asked for is in it, written or lost:
\* it has left the queues, the hands of other threads, and every channel.
LEMMA AskedWriteBegin ==
  ASSUME FlowInv, PlaceInv, AskedInv, WriteBegin
  PROVE  AskedInv'
PROOF
<1> SUFFICES ASSUME NEW c, c = consumer
             PROVE  AskedInv'
  OBVIOUS
<1>1. /\ writing' = Drained(buffer) /\ at = Len(rxs) + 1 /\ at' = 0 /\ c # Loop
      /\ thread' = [thread EXCEPT ![c] = "write"]
      /\ UNCHANGED <<queue, holder, sending, shardAt, output, consumer, rxs, chan>>
  BY DEF WriteBegin, queueVars
<1>2. /\ seen'.asked = seen.asked /\ seen'.due = seen.due /\ seen'.recorded = seen.recorded
      /\ seen'.lost = seen.lost
  BY DEF WriteBegin, FlowInv, ThreadType, Seen
<1>3. at \in Nat /\ at # 0 /\ Len(rxs) \in Nat /\ rxs \in Seq(Thread)
  BY <1>1, LenProperties DEF FlowInv, ConsumerType
<1>4. c \in Thread /\ thread[c] = "wait" /\ shardAt[c] = Shards
  BY <1>1, <1>3, Numbers DEF FlowInv, ConsumerType, ConsumerInv, LockInv
<1>5. AskedEarly' /\ AskedTaken' /\ FlushComplete' /\ WrittenSpans' = WrittenSpans
  <2>1. \A t \in Thread : thread'[t] \in {"flush", "wait", "write"} <=>
                             thread[t] \in {"flush", "wait", "write"}
    BY <1>1, <1>4 DEF FlowInv, ThreadType
  <2> QED
    BY <1>1, <1>2, <2>1, AskedConsumer
<1>6. AskedDrained'
  BY <1>1 DEF AskedDrained
<1>7. \A s \in Shard : Taken(c, s)
  <2>1. \A s \in Shard : s < Shards
    BY Numbers DEF Shard
  <2> QED
    BY <1>4, <2>1 DEF Taken
<1>8. ASSUME NEW x \in seen.asked[c]
      PROVE  x \in SpansOf(Drained(buffer)) \cup SpansOf(writing) \cup WrittenSpans \cup seen.lost
  <2>1. x \in seen.recorded
    BY <1>4 DEF AskedInv, AskedEarly
  <2>2. CASE x \in seen.lost
    BY <2>2
  <2>3. CASE \E k, o : Inside(x, k, o)
    <3>1. PICK k, o : Inside(x, k, o)
      BY <2>3
    <3>2. ~Inside(x, "live", o) /\ ~Inside(x, "drop", o)
      BY <2>1 DEF PlaceInv, Created
    <3>3. ~Inside(x, "queue", o)
      BY <1>4, <1>7 DEF Inside, AskedInv, AskedTaken
    <3>4. ~Inside(x, "send", o)
      <4>1. ASSUME Inside(x, "send", o)
            PROVE  FALSE
        <5>1. o \in Thread /\ x \in SpansOf(sending[o]) /\ sending[o] # <<>>
          BY <4>1, EmptyBatches DEF Inside
        <5>2. PICK s \in Shard : holder[s] = o
          BY <5>1 DEF FlowInv, LockInv
        <5>3. o # NoThread /\ thread[o] \in {"send", "flush"}
          BY <5>1, <5>2, Numbers DEF FlowInv, LockInv
        <5>4. o # c
          BY <1>4, <5>3
        <5>5. SpansOf(sending[o]) \cap seen.asked[c] = {}
          BY <1>4, <1>7, <5>2, <5>3, <5>4 DEF AskedInv, AskedTaken
        <5> QED
          BY <5>1, <5>5
      <4> QED
        BY <4>1
    <3>5. ~Inside(x, "ring", o)
      <4>1. ASSUME Inside(x, "ring", o)
            PROVE  FALSE
        <5>1. o \in Thread /\ x \in SpansOf(chan[o].ring) /\ chan[o].ring # <<>>
          BY <4>1, EmptyBatches DEF Inside
        <5>2. PICK i \in DOMAIN rxs : rxs[i] = o
          BY <5>1 DEF FlowInv, ConsumerInv, ToSet
        <5>3. i \in 1 .. at - 1
          BY <1>1, <1>3, <5>2, LenProperties
        <5>4. SpansOf(chan[o].ring) \cap seen.asked[c] = {}
          BY <1>3, <1>4, <5>2, <5>3 DEF AskedInv, AskedDrained
        <5> QED
          BY <5>1, <5>4
      <4> QED
        BY <4>1
    <3>6. \/ k = "live" \/ k = "drop" \/ k = "queue" \/ k = "send" \/ k = "ring"
          \/ x \in SpansOf(Drained(buffer)) \/ x \in SpansOf(writing) \/ x \in WrittenSpans
      BY <3>1 DEF Inside
    <3> QED
      BY <3>1, <3>2, <3>3, <3>4, <3>5, <3>6
  <2> QED
    BY <2>1, <2>2, <2>3 DEF PlaceInv, Accounted
<1>9. writing = <<>>
  BY <1>3 DEF FlowInv, ConsumerInv
<1>10. AskedWritten'
  BY <1>1, <1>2, <1>5, <1>8, <1>9, EmptyBatches DEF AskedWritten
<1> QED
  BY <1>5, <1>6, <1>10 DEF AskedInv

\* A flush returns with nothing left to write.
LEMMA AskedWriteDone ==
  ASSUME FlowInv, AskedInv, WriteDone
  PROVE  AskedInv'
PROOF
<1> SUFFICES ASSUME NEW c, c = consumer
             PROVE  AskedInv'
  OBVIOUS
<1>1. /\ c \in Thread /\ at = 0 /\ writing = <<>> /\ consumer' = NoThread /\ at' = at
      /\ thread' = [thread EXCEPT ![c] = "idle"]
      /\ UNCHANGED <<queue, holder, sending, shardAt, output, rxs, chan>>
  BY DEF WriteDone, Writing, queueVars, writeVars
<1>2. /\ seen'.asked = [seen.asked EXCEPT ![c] = {}] /\ seen'.due = seen.due \cup seen.asked[c]
      /\ seen'.recorded = seen.recorded /\ seen'.lost = seen.lost
      /\ seen.asked \in [Thread -> SUBSET Span]
  BY DEF WriteDone, FlowInv, ThreadType, Seen
<1>3. thread \in [Thread -> ThreadState]
  BY DEF FlowInv, ThreadType
<1>4. \A t \in Thread : /\ thread'[t] = IF t = c THEN "idle" ELSE thread[t]
                        /\ seen'.asked[t] = IF t = c THEN {} ELSE seen.asked[t]
  BY <1>1, <1>2, <1>3
<1>5. AskedEarly'
  BY <1>2, <1>4 DEF AskedInv, AskedEarly
<1>6. AskedTaken'
  BY <1>1, <1>4, TakenSame DEF AskedInv
<1>7. AskedDrained' /\ AskedWritten'
  BY <1>1, Numbers DEF AskedDrained, AskedWritten
<1>8. FlushComplete'
  <2>1. seen.asked[c] \subseteq WrittenSpans \cup seen.lost
    BY <1>1, EmptyBatches DEF AskedInv, AskedWritten
  <2>2. WrittenSpans' = WrittenSpans
    BY <1>1, OutputSame
  <2> QED
    BY <1>2, <2>1, <2>2 DEF AskedInv, FlushComplete
<1> QED
  BY <1>5, <1>6, <1>7, <1>8 DEF AskedInv

\* Nothing is asked for yet.
LEMMA AskedInit == Init => AskedInv
PROOF
<1> SUFFICES ASSUME Init
             PROVE  AskedInv
  OBVIOUS
<1>1. /\ \A t \in Thread : seen.asked[t] = {}
      /\ seen.due = {} /\ consumer = NoThread
  BY DEF Init
<1> QED
  BY <1>1, Numbers DEF AskedInv, AskedEarly, AskedTaken, AskedDrained, AskedWritten, FlushComplete

\* AskedInv is inductive, given those before it.
LEMMA AskedNext == FlowInv /\ SourceInv /\ PlaceInv /\ AskedInv /\ [Next]_vars => AskedInv'
PROOF
<1> SUFFICES ASSUME FlowInv, SourceInv, PlaceInv, AskedInv, [Next]_vars
             PROVE  AskedInv'
  OBVIOUS
<1>1. ASSUME NEW t \in Thread,
             \/ Spawn(t) \/ Exit(t) \/ Start(t) \/ Stop(t) \/ NewSpan(t) \/ NewSpanPanics(t)
             \/ RegisterReceiver(t) \/ FlushStart(t) \/ \E s \in Span : DropSpan(t, s)
      PROVE  AskedInv'
  BY <1>1, AskedThread, Zenon
<1>2. ASSUME NEW t \in Thread,
             PushSpan(t) \/ SendBatch(t) \/ LoseBatch(t) \/ Flush(t) \/ FlushShard(t)
      PROVE  AskedInv'
  BY <1>2, AskedPushSpan, AskedSendBatch, AskedLoseBatch, AskedFlush, AskedFlushShard, Zenon
<1>3. CASE (\E t \in Thread : FlushBegin(t)) \/ LoopBegin \/ LoopDone \/ RecvNone
  BY <1>3, AskedCollect
<1>4. CASE RecvCommand \/ WriteBegin \/ ConsumeBatch \/ WriteDone
  BY <1>4, AskedRecvCommand, AskedWriteBegin, AskedConsumeBatch, AskedWriteDone
<1>5. CASE UNCHANGED vars
  BY <1>5 DEF vars, AskedInv, AskedEarly, AskedTaken, AskedDrained, AskedWritten, FlushComplete,
              Taken, WrittenSpans, Datas
<1> QED
  BY <1>1, <1>2, <1>3, <1>4, <1>5, Zenon DEF Next, Collect, CallStep, Send

\* flush() is complete: whatever other threads record, send, flush or end
\* meanwhile, and however the background loop collects, every span recorded
\* before the call is written when it returns, or was in a batch that a full
\* channel refused or the full buffer overwrote. It makes no difference that the
\* span was still in the SpanQueue of a shard, though flush's doc says that these
\* are not flushed (lib.rs:122).
THEOREM FlushKeepsAll == Spec => []FlushComplete
PROOF
<1>1. Spec => []AskedInv
  BY AskedInit, AskedNext, Flow, Source, Place, PTL DEF Spec
<1>2. AskedInv => FlushComplete
  BY DEF AskedInv
<1> QED
  BY <1>1, <1>2, PTL

-----------------------------------------------------------------------------
(* OutputInv. *)

\* What has both its events or none: the output between two batches.
LEMMA BeginsEnd ==
  ASSUME EventsPaired, NEW x, Data("begin", x) \in Datas \/ Data("end", x) \in Datas
  PROVE  x \in WrittenSpans
PROOF
<1>1. Data("end", x) \in Datas
  <2>1. CASE Data("begin", x) \in Datas
    <3>1. PICK i \in DOMAIN output : output[i].data = Data("begin", x)
      BY <2>1 DEF Datas
    <3>2. output[i].data.kind = "begin" /\ output[i].data.of = x
      BY <3>1 DEF Data
    <3>3. i + 1 \in DOMAIN output /\ output[i + 1].data = Data("end", x)
      BY <3>2 DEF EventsPaired
    <3> QED
      BY <3>3 DEF Datas
  <2> QED
    BY <2>1
<1> QED
  BY <1>1 DEF WrittenSpans, Data

\* Nothing in a new batch has been written, nor any descriptor that is new.
LEMMA BatchNew ==
  ASSUME FlowInv, SourceInv, PlaceInv, OutputInv, ConsumeBatch,
         NEW d \in Unflushed \cup EventsOf(Head(writing))
  PROVE  d \notin Datas
PROOF
<1>1. CASE d \in Unflushed
  BY <1>1 DEF Unflushed, SourceInv
<1>2. CASE d \in EventsOf(Head(writing))
  <2>1. PICK x \in ToSet(Head(writing)) : d = Data("begin", x) \/ d = Data("end", x)
    BY <1>2 DEF EventsOf
  <2>2. writing \in Seq(Batch) /\ writing # <<>>
    BY DEF FlowInv, ConsumerType, ConsumeBatch
  <2>3. Inside(x, "writing", 0)
    BY <2>1, <2>2, FewerBatches DEF Inside
  <2>4. ~Inside(x, "output", 0)
    BY <2>3 DEF PlaceInv, OnePlace
  <2>5. x \notin WrittenSpans
    BY <2>4 DEF Inside
  <2> QED
    BY <2>1, <2>5, BeginsEnd DEF OutputInv
<1> QED
  BY <1>1, <1>2
\* A step that writes nothing.
LEMMA OutputStill ==
  ASSUME FlowInv, PlaceInv, OutputInv, output' = output, tid' = tid,
         \/ owner' = owner
         \/ \E t \in Thread : owner' = Append(owner, t)
  PROVE  OutputInv'
PROOF
<1>1. WrittenOnce' /\ EventsPaired'
  BY DEF OutputInv, WrittenOnce, EventsPaired
<1>2. owner \in Seq(Thread)
  BY DEF FlowInv, ThreadType
<1>3. \A x \in 1 .. Len(owner) : owner'[x] = owner[x]
  BY <1>2, AppendProperties
<1>4. \A x \in 1 .. Len(owner) : ThreadDescriptor(owner[x])' = ThreadDescriptor(owner[x])
  BY <1>3 DEF ThreadDescriptor
<1>5. ASSUME NEW i \in DOMAIN output, output[i].data.kind = "begin"
      PROVE  /\ output[i].data.of \in 1 .. Len(owner)
             /\ \E j \in 1 .. i - 1 : output[j].data = ThreadDescriptor(owner[output[i].data.of])
  <2> DEFINE x == output[i].data.of
  <2>1. \E j \in 1 .. i - 1 : output[j].data = ThreadDescriptor(owner[x])
    BY <1>5 DEF OutputInv, DescribedFirst
  <2>2. i + 1 \in DOMAIN output /\ output[i + 1].data = Data("end", x)
    BY <1>5 DEF OutputInv, EventsPaired
  <2>3. x \in WrittenSpans
    BY <2>2 DEF WrittenSpans, Datas, Data
  <2>4. Inside(x, "output", 0)
    BY <2>3 DEF Inside
  <2> HIDE DEF x
  <2>5. x \in 1 .. Len(owner)
    BY <2>4 DEF PlaceInv, Created
  <2> QED
    BY <2>1, <2>5 DEF x
<1>6. DescribedFirst'
  <2>1. ASSUME NEW i \in DOMAIN output, output[i].data.kind = "begin"
        PROVE  \E j \in 1 .. i - 1 : output[j].data = Data("thread", tid[owner'[output[i].data.of]])
    BY <1>3, <1>5, <2>1 DEF ThreadDescriptor
  <2> QED
    BY <2>1 DEF DescribedFirst, ThreadDescriptor
<1> QED
  BY <1>1, <1>6 DEF OutputInv

\* A batch is written whole, once, and behind the descriptors of its threads.
LEMMA OutputConsumeBatch ==
  ASSUME FlowInv, SourceInv, PlaceInv, OutputInv, ConsumeBatch
  PROVE  OutputInv'
PROOF
<1>1. PICK order \in Seq(DataSet), w \in Seq(PacketSet) :
            /\ output' = output \o w /\ Chunk(w, order, Head(writing))
            /\ NoneTwice(order) /\ ToSet(order) = Unflushed
  BY BatchWritten
<1>2. owner' = owner /\ tid' = tid /\ writing # <<>>
  BY DEF ConsumeBatch, spanVars
<1>3. writing \in Seq(Batch) /\ Head(writing) \in Seq(Nat)
  BY <1>2, WritingSpans DEF FlowInv, ConsumerType
<1> DEFINE spans == Head(writing)
           n == Len(output)
           m == Len(w)
           all == output \o w
<1>4. NoneTwice(spans) /\ \A x \in ToSet(spans) : Inside(x, "writing", 0)
  BY <1>2, <1>3, FewerBatches DEF PlaceInv, OncePerPlace, Inside
<1>5. \A d \in ToSet(order) : d.kind \notin {"begin", "end"}
  <2>1. \A d \in ThreadDescriptors : d.kind = "thread"
    BY ThreadDescriptorType DEF FlowInv, ThreadType
  <2> QED
    BY <1>1, <2>1 DEF Unflushed, SourceInv
<1>6. output \in Seq(PacketSet)
  BY DEF SourceInv
<1>7. /\ DOMAIN output = 1 .. n /\ DOMAIN w = 1 .. m /\ n \in Nat /\ m \in Nat
      /\ DOMAIN all = 1 .. n + m
      /\ \A i \in 1 .. n : i \in 1 .. n + m /\ all[i] = output[i]
      /\ \A i \in 1 .. m : n + i \in 1 .. n + m /\ all[n + i] = w[i]
      /\ \A i \in 1 .. n + m : i \in 1 .. n \/ \E j \in 1 .. m : i = n + j
  BY <1>6, OutputGrows
<1>8. \A i, j \in 1 .. m : w[i].data = w[j].data => i = j
  BY <1>1, <1>3, <1>4, <1>5, <1>7, ChunkOnce
<1>9. {w[i].data : i \in DOMAIN w} = Unflushed \cup EventsOf(spans)
  BY <1>1, <1>3, ChunkDatas
<1>10. \A i \in 1 .. m : w[i].data \notin Datas
  BY <1>7, <1>9, BatchNew
<1>11. \A i \in 1 .. n : output[i].data \in Datas
  BY <1>7 DEF Datas
<1>12. \A j \in 1 .. m : w[j].data.kind \in {"begin", "end"} =>
          /\ w[j].time = w[j].data
          /\ w[j].data.kind = "begin" =>
               /\ j + 1 \in 1 .. m /\ w[j + 1].data = Data("end", w[j].data.of)
               /\ w[j].data.of \in ToSet(spans)
               /\ \A d \in Unflushed : \E h \in 1 .. j - 1 : w[h].data = d
  <2>1. ASSUME NEW j \in DOMAIN w, w[j].data.kind \in {"begin", "end"}
        PROVE  /\ w[j].time = w[j].data
               /\ w[j].data.kind = "begin" =>
                    /\ j + 1 \in DOMAIN w /\ w[j + 1].data = Data("end", w[j].data.of)
                    /\ w[j].data.of \in ToSet(spans)
                    /\ \A d \in ToSet(order) : \E h \in 1 .. j - 1 : w[h].data = d
    BY <1>1, <1>3, <1>5, <2>1, ChunkPaired
  <2> QED
    BY <1>1, <1>7, <2>1
<1>13. \A x \in ToSet(spans) : /\ ThreadDescriptor(owner[x]) \in Datas \cup Unflushed
  <2>1. ASSUME NEW x \in ToSet(spans)
        PROVE  ThreadDescriptor(owner[x]) \in Datas \cup Unflushed
    <3>1. x \in 1 .. Len(owner)
      BY <1>4 DEF PlaceInv, Created
    <3>2. owner[x] \in Thread /\ initialized[owner[x]]
      BY <3>1, ElementOfSeq DEF FlowInv, ThreadType, SourceInv
    <3>3. ThreadDescriptor(owner[x]) \in DOMAIN descriptors
      BY <3>2 DEF SourceInv
    <3> QED
      BY <3>3 DEF SourceInv, Unflushed
  <2> QED
    BY <2>1
<1> HIDE DEF spans, n, m, all
<1>14. \A i, j \in 1 .. n + m : all[i].data = all[j].data => i = j
  <2>1. \A i, j \in 1 .. n : all[i].data = all[j].data => i = j
    BY <1>7 DEF OutputInv, WrittenOnce
  <2>2. \A i \in 1 .. n : \A j \in 1 .. m : all[i].data # all[n + j].data
    BY <1>7, <1>10, <1>11
  <2>3. \A i, j \in 1 .. m : all[n + i].data = all[n + j].data => i = j
    BY <1>7, <1>8
  <2>4. ASSUME NEW i \in 1 .. n + m, NEW j \in 1 .. n + m, all[i].data = all[j].data
        PROVE  i = j
    <3>1. i \in 1 .. n \/ \E g \in 1 .. m : i = n + g
      BY <1>7
    <3>2. j \in 1 .. n \/ \E h \in 1 .. m : j = n + h
      BY <1>7
    <3>3. CASE i \in 1 .. n
      BY <2>1, <2>2, <2>4, <3>2, <3>3
    <3>4. CASE \E g \in 1 .. m : i = n + g
      <4>1. PICK g \in 1 .. m : i = n + g
        BY <3>4
      <4>2. PICK h \in 1 .. m : j = n + h
        BY <2>2, <2>4, <3>2, <4>1
      <4> QED
        BY <2>3, <2>4, <4>1, <4>2
    <3> QED
      BY <3>1, <3>3, <3>4
  <2> QED
    BY <2>4
<1>15. ASSUME NEW i \in 1 .. n + m, all[i].data.kind \in {"begin", "end"}
       PROVE  /\ all[i].time = all[i].data
              /\ all[i].data.kind = "begin" =>
                   /\ i + 1 \in 1 .. n + m
                   /\ all[i + 1].data = Data("end", all[i].data.of)
                   /\ \E j \in 1 .. i - 1 : all[j].data = ThreadDescriptor(owner[all[i].data.of])
  <2>1. CASE i \in 1 .. n
    <3>1. all[i] = output[i] /\ i \in DOMAIN output
      BY <1>7, <2>1
    <3>2. all[i].time = all[i].data
      BY <1>15, <3>1 DEF OutputInv, EventsPaired
    <3>3. ASSUME all[i].data.kind = "begin"
          PROVE  /\ i + 1 \in 1 .. n /\ output[i + 1].data = Data("end", all[i].data.of)
                 /\ \E j \in 1 .. i - 1 : output[j].data = ThreadDescriptor(owner[all[i].data.of])
      BY <1>7, <3>1, <3>3 DEF OutputInv, EventsPaired, DescribedFirst
    <3>4. \A j \in 1 .. i - 1 : j \in 1 .. n
      BY <1>7, <2>1
    <3> QED
      BY <1>7, <3>2, <3>3, <3>4
  <2>2. CASE \E j \in 1 .. m : i = n + j
    <3>1. PICK j \in 1 .. m : i = n + j
      BY <2>2
    <3>2. all[i] = w[j]
      BY <1>7, <3>1
    <3>3. all[i].time = all[i].data
      BY <1>12, <1>15, <3>2
    <3>4. ASSUME all[i].data.kind = "begin"
          PROVE  /\ i + 1 \in 1 .. n + m
                 /\ all[i + 1].data = Data("end", all[i].data.of)
                 /\ \E h \in 1 .. i - 1 : all[h].data = ThreadDescriptor(owner[all[i].data.of])
      <4> DEFINE x == all[i].data.of
                 td == ThreadDescriptor(owner[x])
      <4>1. /\ j + 1 \in 1 .. m /\ w[j + 1].data = Data("end", x)
            /\ x \in ToSet(spans)
            /\ \A d \in Unflushed : \E h \in 1 .. j - 1 : w[h].data = d
        BY <1>12, <1>15, <3>2, <3>4
      <4>2. i + 1 = n + (j + 1)
        BY <1>7, <3>1
      <4>3. i + 1 \in 1 .. n + m /\ all[i + 1] = w[j + 1]
        <5>1. n + (j + 1) \in 1 .. n + m /\ all[n + (j + 1)] = w[j + 1]
          <6>1. ASSUME NEW g \in 1 .. m
                PROVE  n + g \in 1 .. n + m /\ all[n + g] = w[g]
            BY <1>7
          <6> QED
            BY <4>1, <6>1
        <5> QED
          BY <4>2, <5>1
      <4>4. td \in Datas \cup Unflushed
        BY <1>13, <4>1
      <4>5. CASE td \in Datas
        <5>1. PICK h \in 1 .. n : output[h].data = td
          BY <1>7, <4>5 DEF Datas
        <5>2. h \in 1 .. i - 1
          BY <1>7, <3>1
        <5> QED
          BY <1>7, <4>1, <4>3, <5>1, <5>2
      <4>6. CASE td \in Unflushed
        <5>1. PICK h \in 1 .. j - 1 : w[h].data = td
          BY <4>1, <4>6
        <5>2. h \in 1 .. m /\ n + h \in 1 .. i - 1
          BY <1>7, <3>1
        <5> QED
          BY <1>7, <4>1, <4>3, <5>1, <5>2
      <4> QED
        BY <4>4, <4>5, <4>6
    <3> QED
      BY <3>3, <3>4
  <2> QED
    BY <1>7, <2>1, <2>2
<1>16. output' = all /\ DOMAIN output' = 1 .. n + m
  BY <1>1, <1>7 DEF all
<1>17. WrittenOnce'
  BY <1>14, <1>16 DEF WrittenOnce
<1>18. EventsPaired'
  BY <1>15, <1>16 DEF EventsPaired
<1>19. DescribedFirst'
  <2>1. \A t : ThreadDescriptor(t) = Data("thread", tid[t])
    BY DEF ThreadDescriptor
  <2> QED
    BY <1>2, <1>15, <1>16, <2>1 DEF DescribedFirst, ThreadDescriptor
<1> QED
  BY <1>17, <1>18, <1>19 DEF OutputInv

\* Nothing is written yet.
LEMMA OutputInit == Init => OutputInv
PROOF
  BY DEF Init, OutputInv, WrittenOnce, EventsPaired, DescribedFirst

\* OutputInv is inductive, given those before it.
LEMMA OutputNext == FlowInv /\ SourceInv /\ PlaceInv /\ OutputInv /\ [Next]_vars => OutputInv'
PROOF
<1> SUFFICES ASSUME FlowInv, SourceInv, PlaceInv, OutputInv, [Next]_vars
             PROVE  OutputInv'
  OBVIOUS
<1> USE DEF spanVars, writeVars
<1>1. ASSUME NEW t \in Thread,
             \/ Spawn(t) \/ Exit(t) \/ Start(t) \/ Stop(t) \/ NewSpan(t) \/ NewSpanPanics(t)
             \/ Flush(t) \/ CallStep(t) \/ \E s \in Span : DropSpan(t, s)
      PROVE  OutputInv'
  <2>1. output' = output /\ tid' = tid /\ (owner' = owner \/ owner' = Append(owner, t))
    BY <1>1 DEF Spawn, Exit, Start, Stop, NewSpan, NewSpanPanics, Flush, CallStep, PushSpan, Send,
                RegisterReceiver, SendBatch, LoseBatch, FlushShard, FlushStart, FlushBegin, Begin,
                DropSpan
  <2> QED
    BY <2>1, OutputStill
<1>2. CASE LoopBegin \/ RecvCommand \/ RecvNone \/ LoopDone \/ WriteBegin \/ WriteDone
           \/ UNCHANGED vars
  <2>1. output' = output /\ tid' = tid /\ owner' = owner
    BY <1>2 DEF LoopBegin, Begin, RecvCommand, RecvNone, LoopDone, WriteBegin, WriteDone, vars
  <2> QED
    BY <2>1, OutputStill
<1>3. CASE ConsumeBatch
  BY <1>3, OutputConsumeBatch
<1> QED
  BY <1>1, <1>2, <1>3, Zenon DEF Next, Collect

\* OutputInv holds throughout.
LEMMA Output == Spec => []OutputInv
PROOF
  BY OutputInit, OutputNext, Flow, Source, Place, PTL DEF Spec

\* No span and no descriptor is written twice, over all flushes and from
\* whatever threads; every span is written whole, with its own times.
THEOREM SpansWrittenWhole == Spec => []WrittenWhole
PROOF
<1>1. OutputInv => WrittenWhole
  BY DEF OutputInv, WrittenWhole
<1> QED
  BY <1>1, Output, PTL

\* A span is written behind the descriptor of the thread that created it,
\* whichever flush writes it and whether that thread still runs.
THEOREM ThreadsDescribed == Spec => []DescribedFirst
PROOF
<1>1. OutputInv => DescribedFirst
  BY DEF OutputInv
<1> QED
  BY <1>1, Output, PTL
=============================================================================
