--------------------------- MODULE DeliveryProofs ---------------------------
(***************************************************************************)
(* Every span is reported at most once per item of its token, with the    *)
(* events and properties that were added to it, proved for any number of   *)
(* threads, traces and spans.                                              *)
(*                                                                         *)
(* A record can come from a place: a span in a span set of a submission on *)
(* its way, in what the collector drained or holds, or a record reported.  *)
(* The places of a span are one disjoint union over all of these.  Every   *)
(* step maps the places after it one to one into those before it, and a    *)
(* call makes new ones only for a span that has none, no more than its     *)
(* token has items.                                                        *)
(*                                                                         *)
(* An attachment of a span reaches the collector in the same batch or an   *)
(* earlier one, where it waits; it is mounted with the first record.       *)
(***************************************************************************)
EXTENDS CollectorProofs

-----------------------------------------------------------------------------
(* Where the spans of a trace are, in sequences of what they become. *)

\* The sequence part has its elements from places of seq, each used once.
Thinned(part, seq) ==
  \E f \in [DOMAIN part -> DOMAIN seq] :
     /\ \A i \in DOMAIN part : part[i] = seq[f[i]]
     /\ \A i, j \in DOMAIN part : f[i] = f[j] => i = j

\* The places of a span in amended raw spans, in records and in collections: k
\* is <<trace, span, parent>>.
AmendedAt(seq, k) == {i \in DOMAIN seq : IsSpan(seq[i]) /\ k = <<seq[i].trace, seq[i].id, seq[i].parent>>}
RecordsAt(seq, k) == {i \in DOMAIN seq : k = <<seq[i].trace, seq[i].span, seq[i].parent>>}
Spots(colls, k) == UNION {{i} \X AmendedAt(Amend(colls[i]), k) : i \in DOMAIN colls}

\* Membership, for a pair.
LEMMA SpotsMember ==
  ASSUME NEW colls, NEW k, NEW i, NEW j
  PROVE  <<i, j>> \in Spots(colls, k) <=> i \in DOMAIN colls /\ j \in AmendedAt(Amend(colls[i]), k)
PROOF
  BY DEF Spots

\* Filters thin: the places kept are those of the members that pass.
LEMMA FilterThins ==
  ASSUME NEW E, NEW T, NEW seq \in Seq(E),
         NEW kept, kept = FlattenSeq([i \in DOMAIN seq |-> IF seq[i] \in T THEN <<seq[i]>> ELSE <<>>])
  PROVE  Thinned(kept, seq)
PROOF
<1> DEFINE F == [i \in DOMAIN seq |-> IF seq[i] \in T THEN <<seq[i]>> ELSE <<>>]
<1>1. Len(seq) \in Nat /\ DOMAIN seq = 1 .. Len(seq) /\ \A i \in 1 .. Len(seq) : seq[i] \in E
  BY ElementOfSeq, LenProperties
<1>2. /\ DOMAIN F = DOMAIN seq /\ F = [i \in 1 .. Len(seq) |-> F[i]]
      /\ \A i \in DOMAIN seq : F[i] = IF seq[i] \in T THEN <<seq[i]>> ELSE <<>>
  BY <1>1
<1>3. \A i \in 1 .. Len(seq) : F[i] \in Seq(E)
  <2>1. <<>> \in Seq(E) /\ \A x \in E : <<x>> \in Seq(E)
    BY ShortRanges
  <2> HIDE DEF F
  <2> QED
    BY <1>1, <1>2, <2>1
<1>4. kept = FlattenSeq(F)
  OBVIOUS
<1> HIDE DEF F
<1>5. F \in Seq(Seq(E))
  BY <1>1, <1>2, <1>3
<1>6. PICK f : Places(f, kept, F)
  BY <1>4, <1>5, FlattenPlaces
<1> DEFINE g == [k \in DOMAIN kept |-> f[k][1]]
<1>7. ASSUME NEW k \in DOMAIN kept
      PROVE  f[k][1] \in DOMAIN seq /\ f[k][2] = 1 /\ kept[k] = seq[f[k][1]]
  <2>1. PICK i, j : i = f[k][1] /\ j = f[k][2]
    OBVIOUS
  <2>2. i \in DOMAIN seq /\ j \in DOMAIN F[i] /\ kept[k] = F[i][j]
    BY <1>2, <1>6, <2>1 DEF Places
  <2>3. F[i] = <<seq[i]>>
    <3>1. DOMAIN <<>> = {}
      OBVIOUS
    <3>2. F[i] # <<>>
      BY <2>2, <3>1
    <3> QED
      BY <1>2, <2>2, <3>2
  <2>4. j = 1 /\ kept[k] = seq[i]
    BY <2>2, <2>3
  <2> QED
    BY <2>1, <2>2, <2>4
<1>8. \A k \in DOMAIN kept : f[k] = <<f[k][1], f[k][2]>>
  BY <1>6 DEF Places
<1>9. g \in [DOMAIN kept -> DOMAIN seq] /\ \A k \in DOMAIN kept : g[k] = f[k][1]
  BY <1>7
<1> HIDE DEF g
<1>10. \A k \in DOMAIN kept : kept[k] = seq[g[k]]
  BY <1>7, <1>9
<1>11. ASSUME NEW k \in DOMAIN kept, NEW l \in DOMAIN kept, g[k] = g[l]
       PROVE  k = l
  <2>1. f[k] = <<g[k], 1>> /\ f[l] = <<g[l], 1>>
    BY <1>7, <1>8, <1>9
  <2>2. f[k] = f[l]
    BY <1>11, <2>1
  <2> QED
    BY <1>6, <2>2 DEF Places
<1> QED
  BY <1>9, <1>10, <1>11 DEF Thinned

\* Those that are spans, the sampled items, the collections of a trace, the
\* collections of no active trace.
LEMMA SpansThin ==
  ASSUME NEW E, NEW seq \in Seq(E)
  PROVE  Thinned(Select(seq, IsSpan), seq)
PROOF
<1> DEFINE T == {x \in E : IsSpan(x)}
<1>1. \A i \in DOMAIN seq : seq[i] \in E
  BY ElementOfSeq, LenProperties
<1>2. [i \in DOMAIN seq |-> IF seq[i] \in T THEN <<seq[i]>> ELSE <<>>]
        = [i \in DOMAIN seq |-> IF IsSpan(seq[i]) THEN <<seq[i]>> ELSE <<>>]
  BY <1>1
<1>3. Select(seq, IsSpan) = FlattenSeq([i \in DOMAIN seq |-> IF seq[i] \in T THEN <<seq[i]>> ELSE <<>>])
  BY <1>2 DEF Select
<1> HIDE DEF T
<1> QED
  BY <1>3, FilterThins

LEMMA SampledThin ==
  ASSUME NEW token \in Seq(TokenItem)
  PROVE  Thinned(Select(token, IsSampled), token)
PROOF
<1> DEFINE T == {x \in TokenItem : IsSampled(x)}
<1>1. \A i \in DOMAIN token : token[i] \in TokenItem
  BY ElementOfSeq, LenProperties
<1>2. [i \in DOMAIN token |-> IF token[i] \in T THEN <<token[i]>> ELSE <<>>]
        = [i \in DOMAIN token |-> IF IsSampled(token[i]) THEN <<token[i]>> ELSE <<>>]
  BY <1>1
<1>3. Select(token, IsSampled) = FlattenSeq([i \in DOMAIN token |-> IF token[i] \in T THEN <<token[i]>> ELSE <<>>])
  BY <1>2 DEF Select
<1> HIDE DEF T
<1> QED
  BY <1>3, FilterThins

LEMMA TraceThins ==
  ASSUME NEW c \in CollectId, NEW E, NEW seq \in Seq(E)
  PROVE  Thinned(Select(seq, LAMBDA s : s.trace = c), seq)
PROOF
<1> DEFINE T == {x \in E : x.trace = c}
<1>1. \A i \in DOMAIN seq : seq[i] \in E
  BY ElementOfSeq, LenProperties
<1>2. [i \in DOMAIN seq |-> IF seq[i] \in T THEN <<seq[i]>> ELSE <<>>]
        = [i \in DOMAIN seq |-> IF seq[i].trace = c THEN <<seq[i]>> ELSE <<>>]
  BY <1>1
<1>3. Select(seq, LAMBDA s : s.trace = c)
        = FlattenSeq([i \in DOMAIN seq |-> IF seq[i] \in T THEN <<seq[i]>> ELSE <<>>])
  BY <1>2 DEF Select
<1> HIDE DEF T
<1> QED
  BY <1>3, FilterThins

LEMMA OthersThin ==
  ASSUME NEW E, NEW seq \in Seq(E)
  PROVE  Thinned(Select(seq, LAMBDA s : s.trace \notin DOMAIN Started), seq)
PROOF
<1> DEFINE T == {x \in E : x.trace \notin DOMAIN Started}
<1>1. \A i \in DOMAIN seq : seq[i] \in E
  BY ElementOfSeq, LenProperties
<1>2. [i \in DOMAIN seq |-> IF seq[i] \in T THEN <<seq[i]>> ELSE <<>>]
        = [i \in DOMAIN seq |-> IF seq[i].trace \notin DOMAIN Started THEN <<seq[i]>> ELSE <<>>]
  BY <1>1
<1>3. Select(seq, LAMBDA s : s.trace \notin DOMAIN Started)
        = FlattenSeq([i \in DOMAIN seq |-> IF seq[i] \in T THEN <<seq[i]>> ELSE <<>>])
  BY <1>2 DEF Select
<1> HIDE DEF T
<1> QED
  BY <1>3, FilterThins

\* Thinning adds no place for a span.
LEMMA ThinnedSpots ==
  ASSUME NEW part, NEW seq, NEW k, Thinned(part, seq)
  PROVE  /\ AmendedAt(part, k) \preceq AmendedAt(seq, k)
         /\ Spots(part, k) \preceq Spots(seq, k)
PROOF
<1>1. PICK f \in [DOMAIN part -> DOMAIN seq] :
        /\ \A i \in DOMAIN part : part[i] = seq[f[i]]
        /\ \A i, j \in DOMAIN part : f[i] = f[j] => i = j
  BY DEF Thinned
<1>2. AmendedAt(part, k) \preceq AmendedAt(seq, k)
  <2> DEFINE A == AmendedAt(part, k)
             B == AmendedAt(seq, k)
             g == [i \in A |-> f[i]]
  <2>1. \A i \in A : i \in DOMAIN part /\ f[i] \in B
    BY <1>1 DEF AmendedAt
  <2> HIDE DEF A, B
  <2>2. g \in [A -> B] /\ \A i, j \in A : g[i] = g[j] => i = j
    BY <1>1, <2>1
  <2> QED
    BY <2>2, InjectionExists DEF A, B
<1>3. Spots(part, k) \preceq Spots(seq, k)
  <2> DEFINE A == Spots(part, k)
             B == Spots(seq, k)
             g == [x \in A |-> <<f[x[1]], x[2]>>]
  <2>1. ASSUME NEW x \in A
        PROVE  x[1] \in DOMAIN part /\ x = <<x[1], x[2]>> /\ <<f[x[1]], x[2]>> \in B
    <3>1. x[1] \in DOMAIN part /\ x = <<x[1], x[2]>> /\ x[2] \in AmendedAt(Amend(part[x[1]]), k)
      BY DEF Spots
    <3>2. f[x[1]] \in DOMAIN seq /\ part[x[1]] = seq[f[x[1]]]
      BY <1>1, <3>1
    <3> QED
      BY <3>1, <3>2, SpotsMember
  <2> HIDE DEF A, B
  <2>2. g \in [A -> B]
    BY <2>1
  <2>3. ASSUME NEW x \in A, NEW y \in A, g[x] = g[y]
        PROVE  x = y
    <3>1. f[x[1]] = f[y[1]] /\ x[2] = y[2]
      BY <2>3
    <3>2. x[1] = y[1]
      BY <1>1, <2>1, <3>1
    <3> QED
      BY <2>1, <3>1, <3>2
  <2> HIDE DEF g
  <2> QED
    BY <2>2, <2>3, InjectionExists DEF A, B
<1> QED
  BY <1>2, <1>3

\* The amended spans of all collections are at places of them.
LEMMA AmendAllSpots ==
  ASSUME NEW T, NEW colls \in Seq(Coll(T)), NEW k
  PROVE  AmendedAt(AmendAll(colls), k) \preceq Spots(colls, k)
PROOF
<1> DEFINE n == Len(colls)
           F == [i \in DOMAIN colls |-> Amend(colls[i])]
           flat == AmendAll(colls)
<1>1. n \in Nat /\ DOMAIN colls = 1 .. n /\ \A i \in 1 .. n : colls[i] \in Coll(T)
  BY ElementOfSeq, LenProperties
<1>2. /\ flat = FlattenSeq(F) /\ F = [i \in 1 .. n |-> F[i]] /\ DOMAIN F = DOMAIN colls
      /\ \A i \in DOMAIN colls : F[i] = Amend(colls[i])
  BY <1>1 DEF AmendAll
<1> HIDE DEF F, flat, n
<1>3. \A i \in 1 .. n : F[i] \in Seq(Amended(T))
  BY <1>1, <1>2, AmendType
<1>4. F \in Seq(Seq(Amended(T)))
  BY <1>1, <1>2, <1>3
<1>5. PICK f : Places(f, flat, F)
  BY <1>2, <1>4, FlattenPlaces
<1> DEFINE A == AmendedAt(flat, k)
           B == Spots(colls, k)
           g == [x \in A |-> f[x]]
<1>6. ASSUME NEW x \in A
      PROVE  x \in DOMAIN flat /\ f[x] \in B
  <2>1. x \in DOMAIN flat /\ IsSpan(flat[x]) /\ k = <<flat[x].trace, flat[x].id, flat[x].parent>>
    BY DEF AmendedAt
  <2>2. PICK i, j : i = f[x][1] /\ j = f[x][2]
    OBVIOUS
  <2>3. f[x] = <<i, j>> /\ i \in DOMAIN F /\ j \in DOMAIN F[i] /\ flat[x] = F[i][j]
    BY <1>5, <2>1, <2>2 DEF Places
  <2>4. i \in DOMAIN colls /\ j \in AmendedAt(Amend(colls[i]), k)
    BY <1>2, <2>1, <2>3 DEF AmendedAt
  <2> QED
    BY <2>1, <2>3, <2>4, SpotsMember
<1> HIDE DEF A, B
<1>7. g \in [A -> B] /\ \A x, y \in A : g[x] = g[y] => x = y
  BY <1>5, <1>6 DEF Places
<1> QED
  BY <1>7, InjectionExists DEF A, B, flat

\* A run of the post-processing gives no span more records than it has places.
LEMMA PostprocessSpots ==
  ASSUME NEW T, NEW colls \in Seq(Coll(T)), NEW danglings, NEW k
  PROVE  RecordsAt(PostprocessSpanCollection(colls, danglings).records, k) \preceq Spots(colls, k)
PROOF
<1> DEFINE amended == AmendAll(colls)
           dangling == Dangle(danglings, amended)
           records == Mount(amended, dangling)
           sp == Select(amended, IsSpan)
<1>1. PostprocessSpanCollection(colls, danglings).records = records
  BY DEF PostprocessSpanCollection
<1>2. amended \in Seq(Amended(T))
  BY AmendAllType
<1>3. AmendedAt(amended, k) \preceq Spots(colls, k)
  BY AmendAllSpots
<1> HIDE DEF amended
<1>4. DOMAIN records = DOMAIN sp /\ \A i \in DOMAIN sp : /\ records[i].trace = sp[i].trace
                                                         /\ records[i].span = sp[i].id
                                                         /\ records[i].parent = sp[i].parent
  BY DEF Mount
<1>5. \A i \in DOMAIN sp : IsSpan(sp[i])
  <2> DEFINE S == {x \in Amended(T) : IsSpan(x)}
  <2>1. sp \in Seq(S) /\ \A x \in S : IsSpan(x)
    BY <1>2, SelectSpans
  <2> HIDE DEF S, sp
  <2> QED
    BY <2>1, ElementOfSeq, LenProperties
<1>6. AmendedAt(sp, k) \preceq AmendedAt(amended, k)
  <2>1. Thinned(sp, amended)
    BY <1>2, SpansThin
  <2> HIDE DEF sp
  <2> QED
    BY <2>1, ThinnedSpots
<1> HIDE DEF records, sp
<1>7. RecordsAt(records, k) \subseteq AmendedAt(sp, k)
  BY <1>4, <1>5 DEF RecordsAt, AmendedAt
<1>8. RecordsAt(records, k) \preceq AmendedAt(sp, k)
  BY <1>7, InjectionOfPart
<1> QED
  BY <1>1, <1>3, <1>6, <1>8, InjectionComposed

\* The places in a concatenation are in its parts, for collections and for
\* records.
LEMMA FlattenSpots ==
  ASSUME NEW E, NEW seqs \in Seq(Seq(E)), NEW k, NEW flat, flat = FlattenSeq(seqs)
  PROVE  Spots(flat, k) \preceq Tagged([i \in DOMAIN seqs |-> Spots(seqs[i], k)])
PROOF
<1>1. PICK f : Places(f, flat, seqs)
  BY FlattenPlaces
<1> DEFINE A == Spots(flat, k)
           B == Tagged([i \in DOMAIN seqs |-> Spots(seqs[i], k)])
           g == [x \in A |-> <<f[x[1]][1], <<f[x[1]][2], x[2]>> >>]
<1>2. ASSUME NEW x \in A
      PROVE  /\ x[1] \in DOMAIN flat /\ x = <<x[1], x[2]>>
             /\ <<f[x[1]][1], <<f[x[1]][2], x[2]>> >> \in B
  <2>1. x[1] \in DOMAIN flat /\ x = <<x[1], x[2]>> /\ x[2] \in AmendedAt(Amend(flat[x[1]]), k)
    BY DEF Spots
  <2>2. PICK i, j : i = f[x[1]][1] /\ j = f[x[1]][2]
    OBVIOUS
  <2>3. i \in DOMAIN seqs /\ j \in DOMAIN seqs[i] /\ flat[x[1]] = seqs[i][j]
    BY <1>1, <2>1, <2>2 DEF Places
  <2>4. <<j, x[2]>> \in Spots(seqs[i], k)
    BY <2>1, <2>3, SpotsMember
  <2>5. \A n \in DOMAIN seqs : \A y \in Spots(seqs[n], k) : <<n, y>> \in B
    BY DEF Tagged
  <2> HIDE DEF B
  <2>6. <<i, <<j, x[2]>> >> \in B
    BY <2>3, <2>4, <2>5
  <2> QED
    BY <2>1, <2>2, <2>6
<1> HIDE DEF A, B
<1>3. g \in [A -> B]
  BY <1>2
<1>4. ASSUME NEW x \in A, NEW y \in A, g[x] = g[y]
      PROVE  x = y
  <2>1. x[1] \in DOMAIN flat /\ y[1] \in DOMAIN flat /\ x = <<x[1], x[2]>> /\ y = <<y[1], y[2]>>
    BY <1>2
  <2>2. f[x[1]][1] = f[y[1]][1] /\ f[x[1]][2] = f[y[1]][2] /\ x[2] = y[2]
    BY <1>4
  <2> HIDE DEF g
  <2>3. f[x[1]] = <<f[x[1]][1], f[x[1]][2]>> /\ f[y[1]] = <<f[y[1]][1], f[y[1]][2]>>
    BY <1>1, <2>1 DEF Places
  <2>4. f[x[1]] = f[y[1]]
    BY <2>2, <2>3
  <2>5. x[1] = y[1]
    BY <1>1, <2>1, <2>4 DEF Places
  <2> QED
    BY <2>1, <2>2, <2>5
<1> HIDE DEF g
<1> QED
  BY <1>3, <1>4, InjectionExists DEF A, B

LEMMA FlattenRecords ==
  ASSUME NEW E, NEW seqs \in Seq(Seq(E)), NEW k, NEW flat, flat = FlattenSeq(seqs)
  PROVE  RecordsAt(flat, k) \preceq Tagged([i \in DOMAIN seqs |-> RecordsAt(seqs[i], k)])
PROOF
<1>1. PICK f : Places(f, flat, seqs)
  BY FlattenPlaces
<1> DEFINE A == RecordsAt(flat, k)
           B == Tagged([i \in DOMAIN seqs |-> RecordsAt(seqs[i], k)])
           g == [x \in A |-> f[x]]
<1>2. ASSUME NEW x \in A
      PROVE  x \in DOMAIN flat /\ f[x] \in B
  <2>1. x \in DOMAIN flat /\ k = <<flat[x].trace, flat[x].span, flat[x].parent>>
    BY DEF RecordsAt
  <2>2. PICK i, j : i = f[x][1] /\ j = f[x][2]
    OBVIOUS
  <2>3. f[x] = <<i, j>> /\ i \in DOMAIN seqs /\ j \in DOMAIN seqs[i] /\ flat[x] = seqs[i][j]
    BY <1>1, <2>1, <2>2 DEF Places
  <2>4. j \in RecordsAt(seqs[i], k)
    BY <2>1, <2>3 DEF RecordsAt
  <2>5. \A n \in DOMAIN seqs : \A y \in RecordsAt(seqs[n], k) : <<n, y>> \in B
    BY DEF Tagged
  <2> HIDE DEF B
  <2> QED
    BY <2>1, <2>3, <2>4, <2>5
<1> HIDE DEF A, B
<1>3. g \in [A -> B] /\ \A x, y \in A : g[x] = g[y] => x = y
  BY <1>1, <1>2 DEF Places
<1> QED
  BY <1>3, InjectionExists DEF A, B

\* The places in a concatenation of two.
LEMMA ConcatSpots ==
  ASSUME NEW E, NEW a \in Seq(E), NEW b \in Seq(E), NEW k
  PROVE  /\ Spots(a \o b, k) \preceq Spots(a, k) \uplus Spots(b, k)
         /\ RecordsAt(a \o b, k) \preceq RecordsAt(a, k) \uplus RecordsAt(b, k)
PROOF
<1> DEFINE n == Len(a)
           ab == a \o b
           Left(i) == i \in DOMAIN a /\ ab[i] = a[i]
           Right(i) == i \notin DOMAIN a /\ i - n \in DOMAIN b /\ ab[i] = b[i - n]
<1>0. \A u, v : <<0, u>> # <<1, v>> /\ (<<0, u>> = <<0, v>> => u = v) /\ (<<1, u>> = <<1, v>> => u = v)
  OBVIOUS
<1>1. /\ n \in Nat /\ Len(b) \in Nat /\ DOMAIN a = 1 .. n /\ DOMAIN b = 1 .. Len(b)
  BY LenProperties
<1>2. /\ ab \in Seq(E) /\ Len(ab) = n + Len(b)
      /\ \A i \in 1 .. n + Len(b) : ab[i] = IF i <= n THEN a[i] ELSE b[i - n]
  BY ConcatProperties
<1>3. DOMAIN ab = 1 .. n + Len(b)
  BY <1>2, LenProperties
<1> HIDE DEF n, ab
<1>4. ASSUME NEW i \in DOMAIN ab
      PROVE  i \in Int /\ (Left(i) \/ Right(i))
  <2>1. i \in 1 .. n + Len(b) /\ ab[i] = IF i <= n THEN a[i] ELSE b[i - n]
    BY <1>2, <1>3
  <2>2. CASE i <= n
    <3>1. i \in 1 .. n /\ i \in Int
      BY <1>1, <2>1, <2>2
    <3> QED
      BY <1>1, <2>1, <2>2, <3>1
  <2>3. CASE ~(i <= n)
    <3>1. i - n \in 1 .. Len(b) /\ i \notin 1 .. n /\ i \in Int
      BY <1>1, <2>1, <2>3
    <3> QED
      BY <1>1, <2>1, <2>3, <3>1
  <2> QED
    BY <2>2, <2>3
<1>5. Spots(ab, k) \preceq Spots(a, k) \uplus Spots(b, k)
  <2> DEFINE S == Spots(ab, k)
             T == Spots(a, k) \uplus Spots(b, k)
             g == [x \in S |-> IF x[1] \in DOMAIN a THEN <<0, x>> ELSE <<1, <<x[1] - n, x[2]>> >>]
  <2>1. ASSUME NEW x \in S
        PROVE  /\ x = <<x[1], x[2]>> /\ x[1] \in Int
               /\ x[1] \in DOMAIN a => <<0, x>> \in T
               /\ x[1] \notin DOMAIN a => <<1, <<x[1] - n, x[2]>> >> \in T
    <3>1. PICK i, j : x = <<i, j>> /\ i \in DOMAIN ab /\ j \in AmendedAt(Amend(ab[i]), k)
      BY <2>1 DEF Spots
    <3>2. Left(i) => <<i, j>> \in Spots(a, k)
      BY <3>1, SpotsMember
    <3>3. Right(i) => <<i - n, j>> \in Spots(b, k)
      BY <3>1, SpotsMember
    <3>4. i \in DOMAIN a => <<0, <<i, j>> >> \in T
      BY <1>4, <3>1, <3>2, UnionMember
    <3>5. i \notin DOMAIN a => <<1, <<i - n, j>> >> \in T
      BY <1>4, <3>1, <3>3, UnionMember
    <3> HIDE DEF T
    <3> QED
      BY <1>4, <3>1, <3>4, <3>5
  <2> HIDE DEF S, T
  <2>2. g \in [S -> T]
    BY <2>1
  <2>3. ASSUME NEW x \in S, NEW y \in S, g[x] = g[y]
        PROVE  x = y
    <3>1. PICK i, j : i = x[1] /\ j = y[1]
      OBVIOUS
    <3>2. g[x] = (IF i \in DOMAIN a THEN <<0, x>> ELSE <<1, <<i - n, x[2]>> >>)
      BY <3>1
    <3>3. g[y] = (IF j \in DOMAIN a THEN <<0, y>> ELSE <<1, <<j - n, y[2]>> >>)
      BY <3>1
    <3> HIDE DEF g
    <3>4. i \in DOMAIN a <=> j \in DOMAIN a
      <4>1. ~(<<0, x>> = <<1, <<j - n, y[2]>> >>) /\ ~(<<1, <<i - n, x[2]>> >> = <<0, y>>)
        BY <1>0
      <4> QED
        BY <2>3, <3>2, <3>3, <4>1, Zenon
    <3>5. CASE i \in DOMAIN a
      <4>1. <<0, x>> = <<0, y>>
        BY <2>3, <3>2, <3>3, <3>4, <3>5
      <4> QED
        BY <1>0, <4>1
    <3>6. CASE i \notin DOMAIN a
      <4>1. <<1, <<i - n, x[2]>> >> = <<1, <<j - n, y[2]>> >>
        BY <2>3, <3>2, <3>3, <3>4, <3>6
      <4>2. i - n = j - n /\ x[2] = y[2] /\ i \in Int /\ j \in Int
        BY <2>1, <3>1, <4>1
      <4>3. i = j
        BY <1>1, <4>2
      <4> QED
        BY <2>1, <3>1, <4>2, <4>3
    <3> QED
      BY <3>5, <3>6
  <2> HIDE DEF g
  <2> QED
    BY <2>2, <2>3, InjectionExists DEF S, T
<1>6. RecordsAt(ab, k) \preceq RecordsAt(a, k) \uplus RecordsAt(b, k)
  <2> DEFINE S == RecordsAt(ab, k)
             T == RecordsAt(a, k) \uplus RecordsAt(b, k)
             g == [i \in S |-> IF i \in DOMAIN a THEN <<0, i>> ELSE <<1, i - n>>]
  <2>1. ASSUME NEW i \in S
        PROVE  /\ i \in Int
               /\ i \in DOMAIN a => <<0, i>> \in T
               /\ i \notin DOMAIN a => <<1, i - n>> \in T
    <3>1. i \in DOMAIN ab /\ k = <<ab[i].trace, ab[i].span, ab[i].parent>>
      BY <2>1 DEF RecordsAt
    <3>2. Left(i) => i \in RecordsAt(a, k)
      BY <3>1 DEF RecordsAt
    <3>3. Right(i) => i - n \in RecordsAt(b, k)
      BY <3>1 DEF RecordsAt
    <3>4. i \in DOMAIN a => <<0, i>> \in T
      BY <1>4, <3>1, <3>2, UnionMember
    <3>5. i \notin DOMAIN a => <<1, i - n>> \in T
      BY <1>4, <3>1, <3>3, UnionMember
    <3> HIDE DEF T
    <3> QED
      BY <1>4, <3>1, <3>4, <3>5
  <2> HIDE DEF S, T
  <2>2. g \in [S -> T]
    BY <2>1
  <2>3. ASSUME NEW i \in S, NEW j \in S, g[i] = g[j]
        PROVE  i = j
    <3>1. g[i] = IF i \in DOMAIN a THEN <<0, i>> ELSE <<1, i - n>>
      OBVIOUS
    <3>2. g[j] = IF j \in DOMAIN a THEN <<0, j>> ELSE <<1, j - n>>
      OBVIOUS
    <3> HIDE DEF g
    <3>3. i = j \/ i - n = j - n
      <4>1. ~(<<0, i>> = <<1, j - n>>) /\ ~(<<1, i - n>> = <<0, j>>)
        BY <1>0
      <4>2. <<0, i>> = <<0, j>> => i = j
        BY <1>0
      <4>3. <<1, i - n>> = <<1, j - n>> => i - n = j - n
        BY <1>0
      <4> QED
        BY <2>3, <3>1, <3>2, <4>1, <4>2, <4>3, Zenon
    <3>4. n \in Nat /\ i \in Int /\ j \in Int
      BY <1>1, <2>1
    <3> QED
      BY <3>3, <3>4
  <2> HIDE DEF g
  <2> QED
    BY <2>2, <2>3, InjectionExists DEF S, T
<1> QED
  BY <1>5, <1>6 DEF ab

\* The records of a span in a bag, one by one.
RecordCopies(bag, k) ==
  UNION {{q} \X (1 .. bag[q]) : q \in {x \in DOMAIN bag : k = <<x.trace, x.span, x.parent>>}}

\* A bag grows by what is added to it.
LEMMA CopiesGrow ==
  ASSUME NEW R, NEW seq \in Seq(R), NEW bag, IsABag(bag),
         NEW sum, sum = bag (+) BagOf(seq), NEW k
  PROVE  RecordCopies(sum, k) \preceq RecordCopies(bag, k) \uplus RecordsAt(seq, k)
PROOF
<1> DEFINE B == BagOf(seq)
           places(x) == {i \in DOMAIN seq : seq[i] = x}
           old(x) == IF x \in DOMAIN bag THEN bag[x] ELSE 0
           new(x) == Cardinality(places(x))
           Key(x) == <<x.trace, x.span, x.parent>>
<1>0. \A u, v : <<0, u>> # <<1, v>> /\ (<<0, u>> = <<0, v>> => u = v) /\ (<<1, u>> = <<1, v>> => u = v)
  OBVIOUS
<1>1. Len(seq) \in Nat /\ DOMAIN seq = 1 .. Len(seq) /\ DOMAIN B = ToSet(seq)
  BY ElementOfSeq, LenProperties DEF BagOf
<1>2. \A x \in ToSet(seq) : B[x] = Cardinality(places(x))
  BY DEF BagOf
<1>3. sum = [x \in DOMAIN bag \cup DOMAIN B |->
               (IF x \in DOMAIN bag THEN bag[x] ELSE 0) + (IF x \in DOMAIN B THEN B[x] ELSE 0)]
  BY DEF (+)
<1>4. \A x \in DOMAIN bag : bag[x] \in Nat
  BY DEF IsABag
<1> HIDE DEF B
<1>5. ASSUME NEW x
      PROVE  new(x) \in Nat /\ \E f \in [1 .. new(x) -> places(x)] : \A i, j \in 1 .. new(x) : f[i] = f[j] => i = j
  <2>1. IsFiniteSet(1 .. Len(seq)) /\ places(x) \subseteq 1 .. Len(seq)
    BY <1>1, FS_Interval
  <2>2. IsFiniteSet(places(x))
    BY <2>1, FS_Subset
  <2> HIDE DEF places
  <2>3. new(x) \in Nat /\ ExistsBijection(1 .. new(x), places(x))
    BY <2>2, FS_CardinalityType
  <2>4. ExistsInjection(1 .. new(x), places(x))
    BY <2>3 DEF ExistsBijection, Bijection, ExistsInjection
  <2>5. 1 .. new(x) \preceq places(x)
    BY <2>4 DEF \preceq
  <2> QED
    BY <2>3, <2>5, InjectionExists
<1>6. \A x : x \notin ToSet(seq) => new(x) = 0
  <2> SUFFICES ASSUME NEW x, x \notin ToSet(seq)
               PROVE  new(x) = 0
    OBVIOUS
  <2>1. places(x) = {}
    BY DEF ToSet
  <2> QED
    BY <2>1, FS_EmptySet
<1>7. \A x \in DOMAIN sum : sum[x] = old(x) + new(x) /\ old(x) \in Nat /\ new(x) \in Nat
  <2> SUFFICES ASSUME NEW x \in DOMAIN sum
               PROVE  sum[x] = old(x) + new(x) /\ old(x) \in Nat /\ new(x) \in Nat
    OBVIOUS
  <2> HIDE DEF new
  <2>1. new(x) \in Nat /\ old(x) \in Nat
    BY <1>4, <1>5
  <2>2. new(x) = IF x \in DOMAIN B THEN B[x] ELSE 0
    BY <1>1, <1>2, <1>6 DEF new
  <2>3. sum[x] = old(x) + (IF x \in DOMAIN B THEN B[x] ELSE 0)
    BY <1>3
  <2> QED
    BY <2>1, <2>2, <2>3
<1> DEFINE Bij(x, f) == f \in [1 .. new(x) -> places(x)] /\ \A i, j \in 1 .. new(x) : f[i] = f[j] => i = j
           f(x) == CHOOSE g : Bij(x, g)
<1>8. \A x : Bij(x, f(x))
  <2> SUFFICES ASSUME NEW x
               PROVE  Bij(x, f(x))
    OBVIOUS
  <2>1. PICK h \in [1 .. new(x) -> places(x)] : \A i, j \in 1 .. new(x) : h[i] = h[j] => i = j
    <3> HIDE DEF new, places
    <3> QED
      BY <1>5
  <2>2. Bij(x, h)
    BY <2>1
  <2> HIDE DEF Bij
  <2> QED
    BY <2>2
<1> DEFINE S == RecordCopies(sum, k)
           T == RecordCopies(bag, k) \uplus RecordsAt(seq, k)
           g == [y \in S |-> IF y[2] <= old(y[1]) THEN <<0, y>> ELSE <<1, f(y[1])[y[2] - old(y[1])]>>]
<1>9. ASSUME NEW y \in S
      PROVE  /\ y = <<y[1], y[2]>> /\ y[2] \in Int /\ old(y[1]) \in Nat
             /\ y[2] <= old(y[1]) => <<0, y>> \in T
             /\ ~(y[2] <= old(y[1])) => /\ y[2] - old(y[1]) \in 1 .. new(y[1])
                                        /\ <<1, f(y[1])[y[2] - old(y[1])]>> \in T
  <2>1. PICK x, i : y = <<x, i>> /\ x \in DOMAIN sum /\ k = Key(x) /\ i \in 1 .. sum[x]
    BY DEF RecordCopies
  <2> HIDE DEF new
  <2>2. sum[x] = old(x) + new(x) /\ old(x) \in Nat /\ new(x) \in Nat
    BY <1>7, <2>1
  <2>3. i \in Int
    BY <2>1, <2>2
  <2>4. ASSUME i <= old(x)
        PROVE  <<0, <<x, i>> >> \in T
    <3>1. x \in DOMAIN bag /\ i \in 1 .. bag[x]
      BY <2>1, <2>2, <2>4
    <3>2. <<x, i>> \in RecordCopies(bag, k)
      BY <2>1, <3>1 DEF RecordCopies
    <3> QED
      BY <3>2, UnionMember
  <2> HIDE DEF old
  <2>5. ASSUME ~(i <= old(x))
        PROVE  i - old(x) \in 1 .. new(x) /\ <<1, f(x)[i - old(x)]>> \in T
    <3>1. i - old(x) \in 1 .. new(x)
      BY <2>1, <2>2, <2>3, <2>5
    <3>2. f(x)[i - old(x)] \in places(x)
      BY <1>8, <3>1
    <3> HIDE DEF f
    <3>3. f(x)[i - old(x)] \in RecordsAt(seq, k)
      BY <2>1, <3>2 DEF RecordsAt
    <3> QED
      BY <3>1, <3>3, UnionMember
  <2> HIDE DEF T, f
  <2> QED
    BY <2>1, <2>2, <2>3, <2>4, <2>5
<1>10. g \in [S -> T]
  <2> HIDE DEF S, T, f, old, new
  <2> QED
    BY <1>9
<1>11. ASSUME NEW y \in S, NEW z \in S, g[y] = g[z]
       PROVE  y = z
  <2>1. PICK x, i : x = y[1] /\ i = y[2]
    OBVIOUS
  <2>2. PICK w, j : w = z[1] /\ j = z[2]
    OBVIOUS
  <2> HIDE DEF S, T, f, old, new
  <2>3. g[y] = IF i <= old(x) THEN <<0, y>> ELSE <<1, f(x)[i - old(x)]>>
    BY <2>1
  <2>4. g[z] = IF j <= old(w) THEN <<0, z>> ELSE <<1, f(w)[j - old(w)]>>
    BY <2>2
  <2> HIDE DEF g
  <2>5. y = z \/ (~(i <= old(x)) /\ ~(j <= old(w)) /\ f(x)[i - old(x)] = f(w)[j - old(w)])
    <3>1. ~(<<0, y>> = <<1, f(w)[j - old(w)]>>) /\ ~(<<1, f(x)[i - old(x)]>> = <<0, z>>)
      BY <1>0
    <3>2. <<0, y>> = <<0, z>> => y = z
      BY <1>0
    <3>3. <<1, f(x)[i - old(x)]>> = <<1, f(w)[j - old(w)]>> => f(x)[i - old(x)] = f(w)[j - old(w)]
      BY <1>0
    <3> QED
      BY <1>11, <2>3, <2>4, <3>1, <3>2, <3>3, Zenon
  <2>6. ASSUME ~(i <= old(x)), ~(j <= old(w)), f(x)[i - old(x)] = f(w)[j - old(w)]
        PROVE  y = z
    <3>1. i - old(x) \in 1 .. new(x) /\ j - old(w) \in 1 .. new(w)
      BY <1>9, <2>1, <2>2, <2>6
    <3>2. PICK l : l = f(x)[i - old(x)]
      OBVIOUS
    <3>3. l \in places(x)
      BY <1>8, <3>1, <3>2
    <3>4. l \in places(w)
      <4>1. l = f(w)[j - old(w)]
        BY <2>6, <3>2
      <4> QED
        BY <1>8, <3>1, <4>1
    <3>5. x = w
      BY <3>3, <3>4
    <3>6. i - old(x) = j - old(x)
      BY <1>8, <2>6, <3>1, <3>5
    <3>7. i \in Int /\ j \in Int /\ old(x) \in Int
      <4>1. i \in Int /\ j \in Int /\ old(x) \in Nat
        BY <1>9, <2>1, <2>2
      <4>2. \A n \in Nat : n \in Int
        OBVIOUS
      <4> QED
        BY <4>1, <4>2
    <3>8. i = j
      BY <3>6, <3>7
    <3> QED
      BY <1>9, <2>1, <2>2, <3>5, <3>8
  <2> QED
    BY <2>5, <2>6
<1> HIDE DEF g, S, T
<1>12. S \preceq T
  BY <1>10, <1>11, InjectionExists
<1> QED
  BY <1>12 DEF S, T

-----------------------------------------------------------------------------
(* The places for a span in commands. *)

\* Of one command, and of commands in sequence.
SpotsOf(m, k) == IF m.cmd = "submit" THEN Spots(Copies(m), k) ELSE {}
SpotsIn(seq, k) == Tagged([i \in DOMAIN seq |-> SpotsOf(seq[i], k)])

\* Membership, in both directions.
LEMMA SpotsInMember ==
  ASSUME NEW seq, NEW k
  PROVE  /\ \A i \in DOMAIN seq : \A x \in SpotsOf(seq[i], k) : <<i, x>> \in SpotsIn(seq, k)
         /\ \A y \in SpotsIn(seq, k) : y = <<y[1], y[2]>> /\ y[1] \in DOMAIN seq /\ y[2] \in SpotsOf(seq[y[1]], k)
PROOF
  BY DEF SpotsIn, Tagged

\* What appending a command adds, and what taking the first one gives.
LEMMA AppendSpots ==
  ASSUME NEW E, NEW seq \in Seq(E), NEW m, NEW k
  PROVE  SpotsIn(Append(seq, m), k) \preceq SpotsIn(seq, k) \uplus SpotsOf(m, k)
PROOF
<1> DEFINE n == Len(seq)
           after == Append(seq, m)
           S == SpotsIn(after, k)
           T == SpotsIn(seq, k) \uplus SpotsOf(m, k)
           g == [y \in S |-> IF y[1] \in DOMAIN seq THEN <<0, y>> ELSE <<1, y[2]>>]
<1>1. /\ DOMAIN after = 1 .. n + 1 /\ DOMAIN seq = 1 .. n /\ n \in Nat
      /\ \A i \in 1 .. n : after[i] = seq[i]
      /\ after[n + 1] = m
  BY AppendProperties, LenProperties
<1> HIDE DEF after, n
<1>2. ASSUME NEW y \in S
      PROVE  /\ y = <<y[1], y[2]>>
             /\ y[1] \in DOMAIN seq => <<0, y>> \in T
             /\ y[1] \notin DOMAIN seq => y[1] = n + 1 /\ <<1, y[2]>> \in T
  <2>1. PICK i, j : i = y[1] /\ j = y[2]
    OBVIOUS
  <2>2. y = <<i, j>> /\ i \in DOMAIN after /\ j \in SpotsOf(after[i], k)
    BY <2>1, SpotsInMember
  <2>3. i \in DOMAIN seq => after[i] = seq[i]
    BY <1>1
  <2>4. i \in DOMAIN seq => <<i, j>> \in SpotsIn(seq, k)
    BY <2>2, <2>3, SpotsInMember
  <2>5. i \notin DOMAIN seq => i = n + 1 /\ j \in SpotsOf(m, k)
    BY <1>1, <2>2
  <2> QED
    BY <2>1, <2>2, <2>4, <2>5, UnionMember
<1> HIDE DEF S, T
<1>3. g \in [S -> T]
  BY <1>2
<1>4. \A u, v : <<0, u>> # <<1, v>> /\ (<<0, u>> = <<0, v>> => u = v) /\ (<<1, u>> = <<1, v>> => u = v)
  OBVIOUS
<1>5. ASSUME NEW y \in S, NEW z \in S, g[y] = g[z]
      PROVE  y = z
  <2>1. g[y] = IF y[1] \in DOMAIN seq THEN <<0, y>> ELSE <<1, y[2]>>
    OBVIOUS
  <2>2. g[z] = IF z[1] \in DOMAIN seq THEN <<0, z>> ELSE <<1, z[2]>>
    OBVIOUS
  <2> HIDE DEF g
  <2>3. ~(<<0, y>> = <<1, z[2]>>) /\ ~(<<1, y[2]>> = <<0, z>>)
    BY <1>4
  <2>4. (<<0, y>> = <<0, z>> => y = z) /\ (<<1, y[2]>> = <<1, z[2]>> => y[2] = z[2])
    BY <1>4
  <2>5. y = z \/ (y[1] \notin DOMAIN seq /\ z[1] \notin DOMAIN seq /\ y[2] = z[2])
    BY <1>5, <2>1, <2>2, <2>3, <2>4, Zenon
  <2> QED
    BY <1>2, <2>5
<1> HIDE DEF g
<1> QED
  BY <1>3, <1>5, InjectionExists DEF S, T, after

LEMMA TailSpots ==
  ASSUME NEW E, NEW seq \in Seq(E), seq # <<>>, NEW k
  PROVE  SpotsIn(Tail(seq), k) \uplus SpotsOf(Head(seq), k) \preceq SpotsIn(seq, k)
PROOF
<1> DEFINE n == Len(seq)
           rest == Tail(seq)
           S == SpotsIn(rest, k) \uplus SpotsOf(Head(seq), k)
           T == SpotsIn(seq, k)
           g == [y \in S |-> IF y[1] = 1 THEN <<1, y[2]>> ELSE <<y[2][1] + 1, y[2][2]>>]
<1>1. /\ n \in Nat /\ DOMAIN seq = 1 .. n /\ n # 0 /\ Head(seq) = seq[1]
      /\ DOMAIN rest = 1 .. n - 1
      /\ \A i \in 1 .. n - 1 : rest[i] = seq[i + 1]
  <2>1. n \in Nat /\ DOMAIN seq = 1 .. n /\ n # 0
    BY LenProperties, EmptySeq
  <2>2. Head(seq) = seq[1] /\ rest \in Seq(E) /\ Len(rest) = n - 1 /\ \A i \in 1 .. Len(rest) : rest[i] = seq[i + 1]
    BY <2>1, HeadTailProperties
  <2> HIDE DEF rest
  <2>3. DOMAIN rest = 1 .. Len(rest)
    BY <2>2, LenProperties
  <2> QED
    BY <2>1, <2>2, <2>3
<1> HIDE DEF rest, n
<1>2. ASSUME NEW y \in S
      PROVE  /\ y = <<y[1], y[2]>>
             /\ y[1] = 1 => <<1, y[2]>> \in T
             /\ y[1] # 1 => /\ y[1] = 0 /\ y[2][1] \in Nat /\ y[2][1] # 0 /\ y[2] = <<y[2][1], y[2][2]>>
                            /\ <<y[2][1] + 1, y[2][2]>> \in T
  <2>1. y = <<y[1], y[2]>> /\ ((y[1] = 0 /\ y[2] \in SpotsIn(rest, k)) \/ (y[1] = 1 /\ y[2] \in SpotsOf(seq[1], k)))
    BY <1>1, UnionCases
  <2>2. y[1] = 1 => <<1, y[2]>> \in T
    <3>1. 1 \in DOMAIN seq
      BY <1>1
    <3> QED
      BY <2>1, <3>1, SpotsInMember
  <2>3. ASSUME y[1] # 1
        PROVE  /\ y[1] = 0 /\ y[2][1] \in Nat /\ y[2][1] # 0 /\ y[2] = <<y[2][1], y[2][2]>>
               /\ <<y[2][1] + 1, y[2][2]>> \in T
    <3>1. PICK i, j : i = y[2][1] /\ j = y[2][2]
      OBVIOUS
    <3>2. y[1] = 0 /\ y[2] = <<i, j>> /\ i \in DOMAIN rest /\ j \in SpotsOf(rest[i], k)
      BY <2>1, <2>3, <3>1, SpotsInMember
    <3>3. i \in Nat /\ i # 0 /\ i + 1 \in DOMAIN seq /\ rest[i] = seq[i + 1]
      BY <1>1, <3>2
    <3>4. <<i + 1, j>> \in T
      BY <3>2, <3>3, SpotsInMember
    <3>5. <<y[2][1] + 1, y[2][2]>> = <<i + 1, j>> /\ y[2] = <<y[2][1], y[2][2]>>
      BY <3>1, <3>2
    <3>6. y[2][1] \in Nat /\ y[2][1] # 0
      BY <3>1, <3>3
    <3> HIDE DEF T
    <3> QED
      BY <3>2, <3>4, <3>5, <3>6
  <2> QED
    BY <2>1, <2>2, <2>3
<1> HIDE DEF S, T
<1>3. g \in [S -> T]
  BY <1>2
<1>4. ASSUME NEW y \in S, NEW z \in S, g[y] = g[z]
      PROVE  y = z
  <2>0. y = <<y[1], y[2]>> /\ z = <<z[1], z[2]>>
    BY <1>2
  <2>1. PICK i, j : i = y[2][1] /\ j = z[2][1]
    OBVIOUS
  <2>2. g[y] = IF y[1] = 1 THEN <<1, y[2]>> ELSE <<i + 1, y[2][2]>>
    BY <2>1
  <2>3. g[z] = IF z[1] = 1 THEN <<1, z[2]>> ELSE <<j + 1, z[2][2]>>
    BY <2>1
  <2> HIDE DEF g
  <2>4. (y[1] # 1 => i \in Nat /\ i # 0) /\ (z[1] # 1 => j \in Nat /\ j # 0)
    BY <1>2, <2>1
  <2>5. CASE y[1] = 1 /\ z[1] = 1
    <3>1. <<1, y[2]>> = <<1, z[2]>>
      BY <1>4, <2>2, <2>3, <2>5
    <3>2. y[2] = z[2]
      BY <3>1
    <3> QED
      BY <2>0, <2>5, <3>2
  <2>6. CASE y[1] = 1 /\ z[1] # 1
    <3>1. <<1, y[2]>> = <<j + 1, z[2][2]>>
      BY <1>4, <2>2, <2>3, <2>6
    <3>2. 1 = j + 1
      BY <3>1
    <3> QED
      BY <2>4, <2>6, <3>2
  <2>7. CASE y[1] # 1 /\ z[1] = 1
    <3>1. <<i + 1, y[2][2]>> = <<1, z[2]>>
      BY <1>4, <2>2, <2>3, <2>7
    <3>2. i + 1 = 1
      BY <3>1
    <3> QED
      BY <2>4, <2>7, <3>2
  <2>8. CASE y[1] # 1 /\ z[1] # 1
    <3>1. <<i + 1, y[2][2]>> = <<j + 1, z[2][2]>>
      BY <1>4, <2>2, <2>3, <2>8
    <3>2. i + 1 = j + 1 /\ y[2][2] = z[2][2]
      BY <3>1
    <3>3. i = j
      BY <2>4, <2>8, <3>2
    <3>4. y[2] = <<i, y[2][2]>> /\ z[2] = <<j, z[2][2]>> /\ y[1] = 0 /\ z[1] = 0
      BY <1>2, <2>1, <2>8
    <3>5. y[2] = z[2] /\ y[1] = z[1]
      BY <3>2, <3>3, <3>4
    <3> QED
      BY <2>0, <3>5
  <2> QED
    BY <2>5, <2>6, <2>7, <2>8
<1> HIDE DEF g
<1> QED
  BY <1>3, <1>4, InjectionExists DEF S, T, rest

\* Nothing in nothing.
LEMMA EmptySpots ==
  ASSUME NEW k
  PROVE  Spots(<<>>, k) = {} /\ RecordsAt(<<>>, k) = {} /\ SpotsIn(<<>>, k) = {}
PROOF
<1>1. DOMAIN <<>> = {}
  OBVIOUS
<1> QED
  BY <1>1 DEF Spots, RecordsAt, SpotsIn, Tagged

\* The collections submitted in the batch are those of its commands.
LEMMA SubmittedSpots ==
  ASSUME batch \in Seq(Command), NEW k
  PROVE  Spots(Submitted, k) \preceq SpotsIn(batch, k)
PROOF
<1> DEFINE F == [i \in DOMAIN batch |-> IF batch[i].cmd = "submit" THEN Copies(batch[i]) ELSE <<>>]
           E == Coll(CollectId)
<1>1. Len(batch) \in Nat /\ DOMAIN batch = 1 .. Len(batch) /\ \A i \in DOMAIN batch : batch[i] \in Command
  BY ElementOfSeq, LenProperties
<1>2. ASSUME NEW i \in DOMAIN batch
      PROVE  F[i] \in Seq(E) /\ Spots(F[i], k) = SpotsOf(batch[i], k)
  <2>1. CASE batch[i].cmd = "submit"
    <3>1. batch[i] \in Command /\ F[i] = Copies(batch[i])
      BY <1>1, <2>1
    <3>2. Copies(batch[i]) \in Seq(Coll(CollectId))
      BY <2>1, <3>1, CopiesType
    <3> QED
      BY <2>1, <3>1, <3>2 DEF SpotsOf
  <2>2. CASE batch[i].cmd # "submit"
    <3>1. F[i] = <<>>
      BY <2>2
    <3> HIDE DEF F, E
    <3> QED
      BY <2>2, <3>1, EmptySpots, ShortRanges DEF SpotsOf
  <2> QED
    BY <2>1, <2>2
<1>3. F \in Seq(Seq(E)) /\ DOMAIN F = DOMAIN batch
  <2>1. F = [i \in 1 .. Len(batch) |-> F[i]] /\ DOMAIN F = DOMAIN batch
    BY <1>1
  <2> HIDE DEF F, E
  <2> QED
    BY <1>1, <1>2, <2>1
<1>4. Submitted = FlattenSeq(F)
  BY DEF Submitted
<1> HIDE DEF F, E
<1>5. Spots(Submitted, k) \preceq Tagged([i \in DOMAIN F |-> Spots(F[i], k)])
  BY <1>3, <1>4, FlattenSpots
<1>6. [i \in DOMAIN F |-> Spots(F[i], k)] = [i \in DOMAIN batch |-> SpotsOf(batch[i], k)]
  BY <1>2, <1>3
<1> QED
  BY <1>5, <1>6 DEF SpotsIn

-----------------------------------------------------------------------------
(* Processing a batch. *)

\* The places among what the collector of the trace holds.
HeldSpots(k) == IF k[1] \in DOMAIN active THEN Spots(active[k[1]].colls, k) ELSE {}

\* Collections of other traces have no place.
LEMMA OtherTraces ==
  ASSUME NEW colls, NEW k, \A i \in DOMAIN colls : colls[i].trace # k[1]
  PROVE  Spots(colls, k) = {}
PROOF
<1>1. ASSUME NEW i \in DOMAIN colls, NEW j \in AmendedAt(Amend(colls[i]), k)
      PROVE  FALSE
  <2>1. j \in DOMAIN Amend(colls[i]) /\ k[1] = Amend(colls[i])[j].trace
    BY <1>1 DEF AmendedAt
  <2>2. Amend(colls[i])[j].trace = colls[i].trace
    BY <2>1 DEF Amend
  <2> QED
    BY <1>1, <2>1, <2>2
<1> QED
  BY <1>1 DEF Spots

\* Collections one by one have the places they have together.
LEMMA SinglesSpots ==
  ASSUME NEW seq, NEW k
  PROVE  Tagged([i \in DOMAIN seq |-> Spots(<<seq[i]>>, k)]) \preceq Spots(seq, k)
PROOF
<1> DEFINE S == Tagged([i \in DOMAIN seq |-> Spots(<<seq[i]>>, k)])
           T == Spots(seq, k)
           g == [y \in S |-> <<y[1], y[2][2]>>]
<1>1. ASSUME NEW y \in S
      PROVE  /\ y = <<y[1], <<1, y[2][2]>> >>
             /\ <<y[1], y[2][2]>> \in T
  <2>1. y = <<y[1], y[2]>> /\ y[1] \in DOMAIN seq /\ y[2] \in Spots(<<seq[y[1]]>>, k)
    <3>1. S = UNION {{i} \X Spots(<<seq[i]>>, k) : i \in DOMAIN seq}
      BY DEF Tagged
    <3> HIDE DEF S
    <3>2. PICK i \in DOMAIN seq : y \in {i} \X Spots(<<seq[i]>>, k)
      BY <3>1
    <3> QED
      BY <3>2
  <2>2. PICK i, x : i = y[1] /\ x = y[2]
    OBVIOUS
  <2>3. PICK n, j : x = <<n, j>> /\ n \in DOMAIN <<seq[i]>> /\ j \in AmendedAt(Amend(<<seq[i]>>[n]), k)
    BY <2>1, <2>2 DEF Spots
  <2>4. n = 1 /\ <<seq[i]>>[n] = seq[i]
    BY <2>3
  <2>5. j \in AmendedAt(Amend(seq[i]), k)
    BY <2>3, <2>4
  <2>6. <<i, j>> \in T
    BY <2>1, <2>2, <2>5, SpotsMember
  <2> QED
    BY <2>1, <2>2, <2>3, <2>4, <2>6
<1> HIDE DEF S, T
<1>2. g \in [S -> T] /\ \A y \in S : g[y] = <<y[1], y[2][2]>>
  BY <1>1
<1> HIDE DEF g
<1>3. ASSUME NEW y \in S, NEW z \in S, g[y] = g[z]
      PROVE  y = z
  <2>1. y[1] = z[1] /\ y[2][2] = z[2][2]
    BY <1>2, <1>3
  <2>2. y = <<y[1], <<1, y[2][2]>> >> /\ z = <<z[1], <<1, z[2][2]>> >>
    BY <1>1
  <2> QED
    BY <2>1, <2>2
<1> QED
  BY <1>2, <1>3, InjectionExists DEF S, T

\* Post-processing one trace gives records of that trace.
LEMMA OutcomeSpots ==
  ASSUME CollectorsOK, batch \in Seq(Command), NEW c \in StartedTraces, NEW k
  PROVE  /\ RecordsAt(Outcomes(Filled)[c].records, k) \preceq Spots(Filled[c].colls, k)
         /\ c # k[1] => RecordsAt(Outcomes(Filled)[c].records, k) = {}
PROOF
<1> DEFINE f == Filled[c]
<1>1. f.colls \in Seq(Coll({c})) /\ c \in DOMAIN Filled
  BY FilledType DEF ActiveCollector
<1>2. Outcomes(Filled)[c] = PostprocessSpanCollection(f.colls, f.danglings)
  BY <1>1 DEF Outcomes
<1> HIDE DEF f
<1>3. RecordsAt(Outcomes(Filled)[c].records, k) \preceq Spots(f.colls, k)
  BY <1>1, <1>2, PostprocessSpots
<1>4. ASSUME c # k[1]
      PROVE  Spots(f.colls, k) = {}
  <2>1. \A i \in DOMAIN f.colls : f.colls[i] \in Coll({c})
    BY <1>1, ElementOfSeq, LenProperties
  <2>2. \A x \in Coll({c}) : x.trace = c
    BY DEF Coll
  <2> QED
    BY <1>4, <2>1, <2>2, OtherTraces
<1> QED
  BY <1>3, <1>4, NothingBelow DEF f

\* A collector is filled with what it held and what the batch submits.
LEMMA FilledSpots ==
  ASSUME CollectorsOK, batch \in Seq(Command), NEW k, k[1] \in StartedTraces
  PROVE  Spots(Filled[k[1]].colls, k) \preceq HeldSpots(k) \uplus SpotsIn(batch, k)
PROOF
<1> SUFFICES ASSUME NEW c, c = k[1]
             PROVE  Spots(Filled[c].colls, k) \preceq HeldSpots(k) \uplus SpotsIn(batch, k)
  OBVIOUS
<1> DEFINE old == Started[c].colls
           mine == Select(Submitted, LAMBDA s : s.trace = c)
<1>1. c \in CollectId /\ c \in DOMAIN Started /\ Started[c] \in ActiveCollector(c)
  BY StartedType
<1>2. Submitted \in Seq(Coll(CollectId))
  BY SubmittedType
<1>3. mine \in Seq(Coll({c})) /\ old \in Seq(Coll({c}))
  BY <1>1, <1>2, SelectTrace DEF ActiveCollector
<1>4. Filled[c].colls = old \o mine
  <2>1. Filled[c] = [Started[c] EXCEPT !.colls = old \o mine]
    BY <1>1 DEF Filled
  <2> QED
    BY <1>1, <2>1 DEF ActiveCollector
<1>5. Spots(mine, k) \preceq SpotsIn(batch, k)
  <2>1. Thinned(Select(Submitted, LAMBDA s : s.trace = c), Submitted)
    BY <1>1, <1>2, TraceThins
  <2>2. Thinned(mine, Submitted)
    BY <2>1
  <2> HIDE DEF mine
  <2>3. Spots(mine, k) \preceq Spots(Submitted, k)
    BY <2>2, ThinnedSpots
  <2> QED
    BY <2>3, SubmittedSpots, InjectionComposed
<1>6. Spots(old, k) \preceq HeldSpots(k)
  <2>1. CASE c \in Ids("start")
    <3>1. old = <<>>
      BY <1>1, <2>1 DEF Started, NewCollector
    <3>2. Spots(old, k) \subseteq HeldSpots(k)
      BY <3>1, EmptySpots
    <3> QED
      BY <3>2, InjectionOfPart
  <2>2. CASE c \notin Ids("start")
    <3>1. old = active[c].colls /\ c \in DOMAIN active
      BY <1>1, <2>2 DEF Started
    <3>2. Spots(old, k) = HeldSpots(k)
      BY <3>1 DEF HeldSpots
    <3> QED
      BY <3>2, InjectionOfPart
  <2> QED
    BY <2>1, <2>2
<1> HIDE DEF mine, old
<1>7. Spots(old \o mine, k) \preceq Spots(old, k) \uplus Spots(mine, k)
  BY <1>3, ConcatSpots
<1>8. Spots(old, k) \uplus Spots(mine, k) \preceq HeldSpots(k) \uplus SpotsIn(batch, k)
  BY <1>5, <1>6, UnionGrows
<1> QED
  BY <1>4, <1>7, <1>8, InjectionComposed

\* The records of a span come from its collector or, if it has none, from
\* the stale collections.
LEMMA CommittedSpots ==
  ASSUME CollectorsOK, batch \in Seq(Command), NEW k,
         NEW records, records = CommittedRecords(Outcomes(Filled))
  PROVE  /\ k[1] \in StartedTraces => RecordsAt(records, k) \preceq Spots(Filled[k[1]].colls, k)
         /\ Cancelable /\ k[1] \notin Ids("commit") => RecordsAt(records, k) = {}
         /\ k[1] \notin StartedTraces => RecordsAt(records, k) \preceq SpotsIn(batch, k)
PROOF
<1> DEFINE R == Recorded(CollectId)
           out == Outcomes(Filled)
           reporting == IF Cancelable THEN DOMAIN out \cap Ids("commit") ELSE DOMAIN out
           F == [c \in CollectId |-> IF c \in reporting THEN out[c].records ELSE <<>>]
           late == Stale
           G == [i \in DOMAIN late |-> PostprocessSpanCollection(<<late[i]>>, NoDanglings).records]
<1>1. MaxRoot \in Nat /\ CollectId = 1 .. MaxRoot
  BY CollectorAssumption DEF CollectId
<1>2. DOMAIN out = StartedTraces /\ StartedTraces \subseteq CollectId
  BY StartedType, FilledType DEF Outcomes
<1>3. records = FlattenSeq(F) \o FlattenSeq(G)
  BY DEF CommittedRecords
<1>4. <<>> \in Seq(R) /\ NoDanglings \in Danglings
  <2>1. NoDanglings \in [{} -> Seq(SpanId)] /\ {} \in SUBSET Parent
    BY DEF NoDanglings
  <2> QED
    BY <2>1, ShortRanges DEF Danglings
<1>5. ASSUME NEW c \in CollectId
      PROVE  /\ F[c] \in Seq(R)
             /\ c \in reporting => c \in StartedTraces /\ F[c] = out[c].records
             /\ c # k[1] \/ c \notin reporting => RecordsAt(F[c], k) = {}
  <2>1. CASE c \in reporting
    <3>1. c \in StartedTraces /\ F[c] = out[c].records
      BY <1>2, <2>1
    <3> QED
      BY <2>1, <3>1, OutcomeType, OutcomeSpots
  <2>2. CASE c \notin reporting
    <3>1. F[c] = <<>>
      BY <2>2
    <3> HIDE DEF F
    <3> QED
      BY <1>4, <2>2, <3>1, EmptySpots
  <2> QED
    BY <2>1, <2>2
<1>6. F \in Seq(Seq(R)) /\ DOMAIN F = CollectId
  <2>1. F = [c \in 1 .. MaxRoot |-> F[c]] /\ DOMAIN F = CollectId
    BY <1>1
  <2> HIDE DEF F, R
  <2> QED
    BY <1>1, <1>5, <2>1
<1>7. /\ late \in Seq(Coll(CollectId))
      /\ Cancelable => late = <<>>
      /\ Spots(late, k) \preceq SpotsIn(batch, k)
      /\ k[1] \in StartedTraces => Spots(late, k) = {}
  <2>1. CASE Cancelable
    <3>1. late = <<>>
      BY <2>1 DEF Stale
    <3> HIDE DEF late
    <3>2. Spots(late, k) = {}
      BY <3>1, EmptySpots
    <3>3. Spots(late, k) \preceq SpotsIn(batch, k)
      BY <3>2, InjectionOfPart
    <3> QED
      BY <3>1, <3>2, <3>3, ShortRanges
  <2>2. CASE ~Cancelable
    <3> DEFINE sel == Select(Submitted, LAMBDA s : s.trace \notin DOMAIN Started)
    <3>1. late = sel
      BY <2>2 DEF Stale
    <3>2. Submitted \in Seq(Coll(CollectId))
      BY SubmittedType
    <3>3. sel \in Seq(Coll(CollectId)) /\ ToSet(sel) = {x \in ToSet(Submitted) : x.trace \notin DOMAIN Started}
      BY <3>2, SelectOthers
    <3>4. Thinned(sel, Submitted)
      BY <3>2, OthersThin
    <3> HIDE DEF sel, late
    <3>5. Spots(sel, k) \preceq Spots(Submitted, k)
      BY <3>4, ThinnedSpots
    <3>6. Spots(sel, k) \preceq SpotsIn(batch, k)
      BY <3>5, SubmittedSpots, InjectionComposed
    <3>7. ASSUME k[1] \in StartedTraces
          PROVE  Spots(sel, k) = {}
      <4>1. \A i \in DOMAIN sel : sel[i].trace \notin DOMAIN Started
        BY <3>3 DEF ToSet
      <4> QED
        BY <3>7, <4>1, StartedType, OtherTraces
    <3> QED
      BY <2>2, <3>1, <3>3, <3>6, <3>7
  <2> QED
    BY <2>1, <2>2
<1> HIDE DEF late
<1>8. ASSUME NEW i \in DOMAIN late
      PROVE  G[i] \in Seq(R) /\ RecordsAt(G[i], k) \preceq Spots(<<late[i]>>, k)
  <2> DEFINE one == <<late[i]>>
             o == PostprocessSpanCollection(one, NoDanglings)
  <2>1. late[i] \in Coll(CollectId)
    BY <1>7, ElementOfSeq, LenProperties
  <2>2. one \in Seq(Coll(CollectId))
    BY <2>1, ShortRanges
  <2>3. G[i] = o.records
    OBVIOUS
  <2> HIDE DEF o, one, R, G
  <2>4. o = PostprocessSpanCollection(one, NoDanglings)
    BY DEF o
  <2>5. o.records \in Seq(Recorded(CollectId))
    BY <1>4, <2>2, <2>4, PostprocessType
  <2>6. RecordsAt(o.records, k) \preceq Spots(one, k)
    BY <2>2, <2>4, PostprocessSpots
  <2> QED
    BY <2>3, <2>5, <2>6 DEF R, one
<1>9. G \in Seq(Seq(R)) /\ DOMAIN G = DOMAIN late
  <2> DEFINE n == Len(late)
  <2>1. n \in Nat /\ DOMAIN late = 1 .. n
    BY <1>7, LenProperties
  <2>2. G = [i \in 1 .. n |-> G[i]] /\ DOMAIN G = DOMAIN late
    BY <2>1
  <2> HIDE DEF G, R, n
  <2>3. \A i \in 1 .. n : G[i] \in Seq(R)
    BY <1>8, <2>1
  <2> QED
    BY <2>1, <2>2, <2>3
<1>10. FlattenSeq(F) \in Seq(R) /\ FlattenSeq(G) \in Seq(R)
  <2> HIDE DEF F, G, R
  <2>1. FlattenSeq(F) \in Seq(R)
    BY <1>6, FlattenRange
  <2>2. FlattenSeq(G) \in Seq(R)
    BY <1>9, FlattenRange
  <2> DEFINE x == FlattenSeq(F)
             y == FlattenSeq(G)
  <2>3. x \in Seq(R) /\ y \in Seq(R)
    BY <2>1, <2>2
  <2> QED
    BY <2>3
<1> DEFINE a == FlattenSeq(F)
           b == FlattenSeq(G)
<1>11. RecordsAt(records, k) \preceq RecordsAt(a, k) \uplus RecordsAt(b, k)
  <2> HIDE DEF F, G, R
  <2> QED
    BY <1>3, <1>10, ConcatSpots
<1>12. /\ k[1] \in reporting => RecordsAt(a, k) \preceq Spots(Filled[k[1]].colls, k)
       /\ k[1] \notin reporting => RecordsAt(a, k) = {}
  <2> DEFINE S == [c \in DOMAIN F |-> RecordsAt(F[c], k)]
  <2> HIDE DEF F, R, reporting, out
  <2>1. RecordsAt(a, k) \preceq Tagged(S)
    BY <1>6, FlattenRecords
  <2> HIDE DEF a
  <2>2. DOMAIN S = CollectId /\ \A c \in CollectId : S[c] = RecordsAt(F[c], k)
    BY <1>6
  <2> HIDE DEF S
  <2>3. ASSUME k[1] \in reporting
        PROVE  RecordsAt(a, k) \preceq Spots(Filled[k[1]].colls, k)
    <3>1. k[1] \in CollectId /\ k[1] \in StartedTraces
      BY <1>2, <2>3 DEF reporting, out
    <3>2. S[k[1]] \preceq Spots(Filled[k[1]].colls, k)
      BY <1>5, <2>2, <2>3, <3>1, OutcomeSpots DEF out
    <3>3. Tagged(S) \preceq S[k[1]]
      BY <1>5, <2>2, <3>1, OnlyPart, ZenonT(30)
    <3> QED
      BY <2>1, <3>2, <3>3, InjectionComposed
  <2>4. ASSUME k[1] \notin reporting
        PROVE  RecordsAt(a, k) = {}
    <3>1. \A c \in CollectId : S[c] = {}
      BY <1>5, <2>2, <2>4
    <3>2. Tagged(S) = {}
      BY <2>2, <3>1 DEF Tagged
    <3> QED
      BY <2>1, <3>2, NothingBelow
  <2> QED
    BY <2>3, <2>4
<1>13. RecordsAt(b, k) \preceq Spots(late, k)
  <2> DEFINE S == [i \in DOMAIN G |-> RecordsAt(G[i], k)]
             T == [i \in DOMAIN late |-> Spots(<<late[i]>>, k)]
  <2> HIDE DEF G, R
  <2>1. RecordsAt(b, k) \preceq Tagged(S)
    BY <1>9, FlattenRecords
  <2>2. DOMAIN S = DOMAIN T /\ \A i \in DOMAIN S : S[i] \preceq T[i]
    BY <1>8, <1>9
  <2>3. Tagged(T) \preceq Spots(late, k)
    BY SinglesSpots
  <2> HIDE DEF S, T, b
  <2>4. Tagged(S) \preceq Tagged(T)
    BY <2>2, InjectionsTagged
  <2> QED
    BY <2>1, <2>3, <2>4, InjectionComposed
<1> HIDE DEF a, b, F, G, R
<1>14. k[1] \in StartedTraces => RecordsAt(b, k) = {}
  BY <1>7, <1>13, NothingBelow
<1>15. Cancelable => RecordsAt(b, k) = {}
  BY <1>7, <1>13, EmptySpots, NothingBelow
<1>16. ASSUME k[1] \in StartedTraces
       PROVE  RecordsAt(records, k) \preceq Spots(Filled[k[1]].colls, k)
  <2>1. RecordsAt(records, k) \preceq RecordsAt(a, k)
    BY <1>11, <1>14, <1>16, PartsBelow
  <2>2. RecordsAt(a, k) \preceq Spots(Filled[k[1]].colls, k)
    BY <1>12, InjectionOfPart
  <2> QED
    BY <2>1, <2>2, InjectionComposed
<1>17. ASSUME Cancelable, k[1] \notin Ids("commit")
       PROVE  RecordsAt(records, k) = {}
  <2>1. k[1] \notin reporting
    BY <1>17
  <2>2. RecordsAt(records, k) \preceq RecordsAt(a, k)
    BY <1>11, <1>15, <1>17, PartsBelow
  <2> QED
    BY <1>12, <2>1, <2>2, NothingBelow
<1>18. ASSUME k[1] \notin StartedTraces
       PROVE  RecordsAt(records, k) \preceq SpotsIn(batch, k)
  <2>1. k[1] \notin reporting
    BY <1>2, <1>18
  <2>2. RecordsAt(records, k) \preceq RecordsAt(b, k)
    BY <1>11, <1>12, <2>1, PartsBelow
  <2> QED
    BY <1>7, <1>13, <2>2, InjectionComposed
<1> QED
  BY <1>16, <1>17, <1>18

\* Processing a batch makes no more of a span than was in it, held or reported.
LEMMA BatchSpots ==
  ASSUME TypeInv, ProcessBatch, NEW k
  PROVE  HeldSpots(k)' \uplus RecordCopies(reported', k)
           \preceq SpotsIn(batch, k) \uplus (HeldSpots(k) \uplus RecordCopies(reported, k))
PROOF
<1> DEFINE out == Outcomes(Filled)
           records == CommittedRecords(out)
           c == k[1]
           W == SpotsIn(batch, k)
           H == HeldSpots(k)
           R == RecordCopies(reported, k)
           N == RecordsAt(records, k)
           X == Spots(Filled[c].colls, k)
           all == W \uplus (H \uplus R)
<1>1. CollectorsOK /\ batch \in Seq(Command)
  BY DEF TypeInv, ReceiversOK
<1>2. active' = StillActive(Filled, out) /\ reported' = reported (+) BagOf(records)
  BY DEF ProcessBatch
<1>3. DOMAIN active' = StartedTraces \ Ids("commit")
  BY <1>1, <1>2, FilledType DEF StillActive
<1>4. /\ c \in StartedTraces => N \preceq X
      /\ Cancelable /\ c \notin Ids("commit") => N = {}
      /\ c \notin StartedTraces => N \preceq W
  BY <1>1, CommittedSpots
<1>5. RecordCopies(reported', k) \preceq R \uplus N
  <2>1. records \in Seq(Recorded(CollectId)) /\ IsABag(reported)
    BY <1>1, CommittedType DEF CollectorsOK
  <2> HIDE DEF records
  <2> QED
    BY <1>2, <2>1, CopiesGrow
<1>6. c \in StartedTraces => X \preceq H \uplus W
  BY <1>1, FilledSpots
<1>7. HeldSpots(k)' = IF c \in DOMAIN active' THEN Spots(active'[c].colls, k) ELSE {}
  BY DEF HeldSpots
<1>8. CASE c \in DOMAIN active' /\ Cancelable
  <2>1. c \in StartedTraces /\ c \notin Ids("commit") /\ c \in DOMAIN Filled
    BY <1>1, <1>3, <1>8, FilledType
  <2>2. active'[c] = Filled[c]
    BY <1>2, <1>8, <2>1 DEF StillActive
  <2> HIDE DEF X, R, H, W, N
  <2>3. HeldSpots(k)' = X
    BY <1>7, <1>8, <2>2 DEF X
  <2>4. N = {}
    BY <1>4, <1>8, <2>1
  <2>5. RecordCopies(reported', k) \preceq R
    BY <1>5, <2>4, PartsBelow
  <2>6. X \uplus RecordCopies(reported', k) \preceq (H \uplus W) \uplus R
    BY <1>6, <2>1, <2>5, UnionGrows
  <2>7. (H \uplus W) \uplus R \preceq all
    BY Regroup
  <2> HIDE DEF all
  <2>8. X \uplus RecordCopies(reported', k) \preceq all
    BY <2>6, <2>7, InjectionComposed
  <2> QED
    BY <2>3, <2>8 DEF all, W, H, R
<1>9. CASE ~(c \in DOMAIN active' /\ Cancelable)
  <2>1. HeldSpots(k)' = {}
    <3>1. CASE c \in DOMAIN active'
      <4>1. c \in DOMAIN Filled \ Ids("commit") /\ ~Cancelable
        BY <1>1, <1>3, <1>9, <3>1, FilledType
      <4>2. active'[c] = [colls |-> <<>>, danglings |-> out[c].danglings]
        BY <1>2, <4>1 DEF StillActive
      <4> HIDE DEF out
      <4>3. active'[c].colls = <<>>
        BY <4>2
      <4>4. HeldSpots(k)' = Spots(active'[c].colls, k)
        BY <1>7, <3>1
      <4>5. HeldSpots(k)' = Spots(<<>>, k)
        BY <4>3, <4>4
      <4> QED
        BY <4>5, EmptySpots
    <3>2. CASE c \notin DOMAIN active'
      BY <1>7, <3>2
    <3> QED
      BY <3>1, <3>2
  <2> HIDE DEF X, R, H, W, N
  <2>2. R \uplus N \preceq all
    <3>0. R \preceq R
      BY InjectionOfPart
    <3>1. CASE c \in StartedTraces
      <4>1. N \preceq H \uplus W
        BY <1>4, <1>6, <3>1, InjectionComposed
      <4>2. R \uplus N \preceq R \uplus (H \uplus W)
        BY <3>0, <4>1, UnionGrows
      <4>3. R \uplus (H \uplus W) \preceq all
        BY Regroup
      <4> HIDE DEF all
      <4> QED
        BY <4>2, <4>3, InjectionComposed
    <3>2. CASE c \notin StartedTraces
      <4>1. R \uplus N \preceq R \uplus W
        BY <1>4, <3>0, <3>2, UnionGrows
      <4>2. R \uplus W \preceq all
        BY Regroup
      <4> HIDE DEF all
      <4> QED
        BY <4>1, <4>2, InjectionComposed
    <3> QED
      BY <3>1, <3>2
  <2>3. HeldSpots(k)' \uplus RecordCopies(reported', k) \preceq RecordCopies(reported', k)
    BY <2>1, UnionLaws
  <2> HIDE DEF all
  <2>4. RecordCopies(reported', k) \preceq all
    BY <1>5, <2>2, InjectionComposed
  <2> DEFINE after == HeldSpots(k)' \uplus RecordCopies(reported', k)
  <2>5. after \preceq all
    <3>1. after \preceq RecordCopies(reported', k)
      BY <2>3
    <3> HIDE DEF after
    <3> QED
      BY <2>4, <3>1, InjectionComposed
  <2> QED
    BY <2>5 DEF all, W, H, R
<1> QED
  BY <1>8, <1>9

-----------------------------------------------------------------------------
(* What a call sends, and that it was not sent before. *)

\* The items of a token that name the trace and the parent of k.
ItemsAt(token, k) == {i \in DOMAIN token : token[i] = Item(k[1], k[3])}

\* Of the set, only the first raw span can be a span, s, a root of the set.
OnlySpan(set, s) == \A j \in DOMAIN set : IsSpan(set[j]) => j = 1 /\ set[j].id = s /\ set[j].parent = NoParent

\* A submission that has the span s first, for a root of its set, and no
\* other span makes s no more often than its token has items for it.
LEMMA SubmitSpots ==
  ASSUME NEW set, NEW token \in Seq(TokenItem), NEW s, NEW k, OnlySpan(set, s)
  PROVE  /\ SpotsIn(SubmitSpans(set, token), k) \preceq ItemsAt(token, k)
         /\ SpotsIn(SubmitSpans(set, token), k) # {} => k[2] = s /\ \E i \in DOMAIN token : token[i] = Item(k[1], k[3])
PROOF
<1> DEFINE cmds == SubmitSpans(set, token)
           sampled == Select(token, IsSampled)
           m == [cmd |-> "submit", set |-> set, token |-> sampled]
<1>1. CASE sampled = <<>>
  <2>1. cmds = <<>>
    BY <1>1 DEF SubmitSpans
  <2>2. SpotsIn(cmds, k) = {}
    BY <2>1, EmptySpots
  <2>3. SpotsIn(cmds, k) \preceq ItemsAt(token, k)
    <3> HIDE DEF cmds
    <3> QED
      BY <2>2, InjectionOfPart
  <2> QED
    BY <2>2, <2>3
<1>2. CASE sampled # <<>>
  <2>1. cmds = <<m>>
    BY <1>2 DEF SubmitSpans
  <2> DEFINE A == Spots(Copies(m), k)
             B == ItemsAt(sampled, k)
             g == [x \in A |-> x[1]]
  <2>2. SpotsIn(cmds, k) \preceq A
    <3> DEFINE F == [i \in DOMAIN <<m>> |-> SpotsOf(<<m>>[i], k)]
    <3>1. DOMAIN F = {1} /\ F[1] = SpotsOf(m, k)
      OBVIOUS
    <3>2. SpotsIn(<<m>>, k) = Tagged(F)
      BY DEF SpotsIn
    <3>3. SpotsOf(m, k) = A
      BY DEF SpotsOf
    <3> HIDE DEF F, A, m, cmds
    <3>4. Tagged(F) \preceq F[1]
      BY <3>1, OnlyPart
    <3> QED
      BY <2>1, <3>1, <3>2, <3>3, <3>4
  <2>3. ASSUME NEW x \in A
        PROVE  x = <<x[1], 1>> /\ x[1] \in B /\ k[2] = s
    <3>1. PICK i, j : x = <<i, j>> /\ i \in DOMAIN Copies(m) /\ j \in AmendedAt(Amend(Copies(m)[i]), k)
      BY <2>3 DEF Spots
    <3>2. /\ i \in DOMAIN sampled
          /\ Copies(m)[i] = [set |-> set, trace |-> sampled[i].collect, parent |-> sampled[i].parent]
      BY <3>1 DEF Copies
    <3> DEFINE a == Amend(Copies(m)[i])
    <3>3. /\ j \in DOMAIN set
          /\ a[j] = [trace |-> sampled[i].collect, id |-> set[j].id, kind |-> set[j].kind,
                     parent |-> IF set[j].parent = NoParent THEN sampled[i].parent ELSE set[j].parent]
      BY <3>1, <3>2 DEF Amend, AmendedAt
    <3>4. IsSpan(a[j]) /\ k = <<a[j].trace, a[j].id, a[j].parent>>
      BY <3>1 DEF AmendedAt
    <3> HIDE DEF a, m
    <3>5. IsSpan(set[j])
      BY <3>3, <3>4 DEF IsSpan
    <3>6. j = 1 /\ set[j].id = s /\ set[j].parent = NoParent
      BY <3>3, <3>5 DEF OnlySpan
    <3>7. k = <<sampled[i].collect, s, sampled[i].parent>>
      BY <3>3, <3>4, <3>6
    <3>8. sampled \in Seq(Sampled)
      BY SelectSampled
    <3>9. sampled[i] \in Sampled
      <4> HIDE DEF sampled
      <4> QED
        BY <3>2, <3>8
    <3>10. sampled[i] = Item(k[1], k[3])
      <4> HIDE DEF sampled
      <4> QED
        BY <3>7, <3>9 DEF Sampled, Item
    <3> QED
      BY <3>1, <3>2, <3>6, <3>7, <3>10 DEF ItemsAt
  <2> HIDE DEF A, B, sampled
  <2>4. g \in [A -> B]
    BY <2>3
  <2>5. ASSUME NEW x \in A, NEW y \in A, g[x] = g[y]
        PROVE  x = y
    BY <2>3, <2>5
  <2> HIDE DEF g
  <2>6. A \preceq B
    BY <2>4, <2>5, InjectionExists
  <2>7. B \preceq ItemsAt(token, k)
    <3>1. PICK f \in [DOMAIN sampled -> DOMAIN token] :
            /\ \A i \in DOMAIN sampled : sampled[i] = token[f[i]]
            /\ \A i, j \in DOMAIN sampled : f[i] = f[j] => i = j
      BY SampledThin DEF Thinned, sampled
    <3> DEFINE C == ItemsAt(token, k)
               h == [i \in B |-> f[i]]
    <3>2. \A i \in B : i \in DOMAIN sampled /\ f[i] \in C
      BY <3>1 DEF ItemsAt, B
    <3> HIDE DEF C
    <3>3. h \in [B -> C] /\ \A i, j \in B : h[i] = h[j] => i = j
      BY <3>1, <3>2
    <3> QED
      BY <3>3, InjectionExists DEF C
  <2>8. SpotsIn(cmds, k) \preceq ItemsAt(token, k)
    BY <2>2, <2>6, <2>7, InjectionComposed
  <2>9. ASSUME SpotsIn(cmds, k) # {}
        PROVE  k[2] = s /\ \E i \in DOMAIN token : token[i] = Item(k[1], k[3])
    <3>1. A # {}
      BY <2>2, <2>9, NothingBelow
    <3>2. k[2] = s
      BY <2>3, <3>1
    <3>3. ItemsAt(token, k) # {}
      BY <2>8, <2>9, NothingBelow
    <3> QED
      BY <3>2, <3>3 DEF ItemsAt
  <2> QED
    BY <2>8, <2>9
<1> QED
  BY <1>1, <1>2

\* Other commands make no span.
LEMMA OtherSpots ==
  ASSUME NEW m, NEW k, m.cmd # "submit"
  PROVE  SpotsOf(m, k) = {} /\ SpotsIn(<<m>>, k) = {}
PROOF
<1>1. SpotsOf(m, k) = {}
  BY DEF SpotsOf
<1>2. \A y \in SpotsIn(<<m>>, k) : y[1] = 1 /\ y[2] \in SpotsOf(m, k)
  BY SpotsInMember
<1> QED
  BY <1>1, <1>2

\* What a drop sends.
LEMMA DroppedSpots ==
  ASSUME SpansOK, NEW s \in DOMAIN spans, NEW k
  PROVE  /\ SpotsIn(SpanDropped(s), k) \preceq ItemsAt(spans[s].token, k)
         /\ SpotsIn(SpanDropped(s), k) # {} => k[2] = s
PROOF
<1> DEFINE set == <<Raw(s, NoParent, "Span")>>
           a == SubmitSpans(set, spans[s].token)
           x == CommitCollect(spans[s].collect)
<1>1. spans[s].token \in Seq(TokenItem) /\ s \in SpanId
  BY IssueTokenType
<1>2. set \in Seq(RawSpan)
  BY <1>1 DEF Raw, RawSpan, Parent, Kind
<1>3. OnlySpan(set, s)
  BY DEF OnlySpan, Raw
<1> HIDE DEF set
<1>4. SpotsIn(a, k) \preceq ItemsAt(spans[s].token, k) /\ (SpotsIn(a, k) # {} => k[2] = s)
  <2>1. PICK token \in Seq(TokenItem) : token = spans[s].token
    BY <1>1
  <2>2. SpotsIn(SubmitSpans(set, token), k) \preceq ItemsAt(token, k)
    BY <1>3, SubmitSpots
  <2>3. SpotsIn(SubmitSpans(set, token), k) # {} => k[2] = s
    BY <1>3, SubmitSpots
  <2> QED
    BY <2>1, <2>2, <2>3
<1>5. a \in Seq(Command)
  BY <1>1, <1>2, SubmitSpansType
<1>6. SpotsOf(x, k) = {}
  BY OtherSpots DEF CommitCollect
<1>7. SpanDropped(s) = IF spans[s].collect = -1 THEN a \o <<>> ELSE a \o <<x>>
  BY DEF SpanDropped, set
<1> HIDE DEF a, x
<1>8. a \o <<>> = a /\ a \o <<x>> = Append(a, x)
  BY <1>5
<1>9. SpotsIn(Append(a, x), k) \preceq SpotsIn(a, k) \uplus SpotsOf(x, k)
  BY <1>5, AppendSpots
<1>10. SpotsIn(Append(a, x), k) \preceq SpotsIn(a, k)
  BY <1>6, <1>9, PartsBelow
<1>11. SpotsIn(SpanDropped(s), k) \preceq SpotsIn(a, k)
  BY <1>7, <1>8, <1>10, InjectionOfPart
<1> QED
  BY <1>4, <1>11, InjectionComposed, NothingBelow

\* The tokens and the spans that ended stay: Told(k) says that the span of k
\* will not be submitted again, TokenSpots(k) how often it may have been.
Told(k) ==
  /\ k[2] < nextRaw
  /\ k[2] \in DOMAIN spans => ~spans[k[2]].live
  /\ k[2] \in DOMAIN spans \/ k[3] \in DOMAIN spans

TokenSpots(k) ==
  ItemsAt(IF k[2] \in DOMAIN spans THEN spans[k[2]].token ELSE IssueCollectToken(k[3]), k)

\* The submission of a call is for a span that was not told, and now is.
LEMMA CallSends ==
  ASSUME TypeInv, NEW t \in Thread, Call(t), NEW k, SpotsIn(todo'[t], k) # {}
  PROVE  ~Told(k) /\ Told(k)' /\ SpotsIn(todo'[t], k) \preceq TokenSpots(k)'
PROOF
<1>1. todo[t] = <<>> /\ todo \in [Thread -> Seq(Command)] /\ SpansOK /\ SpotsIn(<<>>, k) = {}
  BY CallType, EmptySpots DEF Idle, TypeInv, ThreadsOK
<1>2. CASE Root(t)
  <2>1. todo'[t] = <<StartCollect(nextRoot)>>
    BY <1>1, <1>2 DEF Root, Issue
  <2> QED
    BY <2>1, OtherSpots DEF StartCollect
<1>3. CASE UnsampledRoot(t) \/ \E n \in 1 .. MaxParents : \E parents \in [1 .. n -> SpanId] : Child(t, parents)
  BY <1>1, <1>3 DEF UnsampledRoot, Child
<1>4. ASSUME NEW s \in SpanId, Attach(t, s)
      PROVE  FALSE
  <2> DEFINE set == <<Raw(nextRaw, NoParent, "Attachment")>>
             token == IssueCollectToken(s)
  <2>1. s \in DOMAIN spans
    BY <1>4 DEF Attach, MayUse, Live
  <2>2. token \in Seq(TokenItem)
    BY <1>1, <2>1, IssueTokenType
  <2>3. OnlySpan(set, 1) /\ OnlySpan(set, 2)
    BY DEF Raw, IsSpan, OnlySpan
  <2>4. todo'[t] = SubmitSpans(set, token)
    BY <1>1, <1>4 DEF Attach, Issue
  <2> HIDE DEF set, token
  <2>5. k[2] = 1
    BY <2>2, <2>3, <2>4, SubmitSpots
  <2>6. k[2] = 2
    BY <2>2, <2>3, <2>4, SubmitSpots
  <2> QED
    BY <2>5, <2>6
<1>5. ASSUME NEW s \in SpanId, PushChildSpans(t, s)
      PROVE  ~Told(k) /\ Told(k)' /\ SpotsIn(todo'[t], k) \preceq TokenSpots(k)'
  <2> DEFINE set == <<Raw(nextRaw, NoParent, "Span"), Raw(nextRaw + 1, nextRaw, "Attachment")>>
             token == IssueCollectToken(s)
  <2>1. s \in DOMAIN spans
    BY <1>5 DEF PushChildSpans, MayUse, Live
  <2>2. token \in Seq(TokenItem)
    BY <1>1, <2>1, IssueTokenType
  <2>3. OnlySpan(set, nextRaw)
    BY DEF Raw, IsSpan, OnlySpan
  <2>4. todo'[t] = SubmitSpans(set, token)
    BY <1>1, <1>5 DEF PushChildSpans, Issue
  <2>5. \A i \in DOMAIN token : token[i].parent = s
    BY DEF IssueCollectToken, Item
  <2>6. UNCHANGED spans /\ nextRaw' = nextRaw + 2
    BY <1>5 DEF PushChildSpans
  <2>7. nextRaw \in Nat /\ nextRaw \notin DOMAIN spans
    BY <1>1 DEF SpansOK
  <2>8. token' = token
    BY <2>6 DEF IssueCollectToken
  <2>9. SpotsIn(todo'[t], k) \preceq ItemsAt(token, k) /\ k[2] = nextRaw
        /\ \E i \in DOMAIN token : token[i] = Item(k[1], k[3])
    <3> HIDE DEF set, token
    <3> QED
      BY <2>2, <2>3, <2>4, SubmitSpots
  <2>10. k[3] = s
    <3> HIDE DEF token
    <3> QED
      BY <2>5, <2>9 DEF Item
  <2>11. TokenSpots(k)' = ItemsAt(token, k)
    <3>1. TokenSpots(k) = ItemsAt(token, k)
      BY <2>7, <2>9, <2>10 DEF TokenSpots
    <3>2. TokenSpots(k)' = TokenSpots(k)
      BY <2>6 DEF TokenSpots, IssueCollectToken
    <3> QED
      BY <3>1, <3>2
  <2>12. Told(k)'
    BY <2>1, <2>6, <2>7, <2>9, <2>10 DEF Told
  <2>13. ~Told(k)
    BY <2>7, <2>9 DEF Told
  <2> QED
    BY <2>9, <2>11, <2>12, <2>13
<1>6. ASSUME NEW s \in SpanId, Cancel(t, s)
      PROVE  FALSE
  <2>1. todo'[t] = <<DropCollect(spans[s].collect)>>
    BY <1>1, <1>6 DEF Cancel, Issue
  <2> QED
    BY <2>1, OtherSpots DEF DropCollect
<1>7. ASSUME NEW s \in SpanId, DropSpan(t, s)
      PROVE  ~Told(k) /\ Told(k)' /\ SpotsIn(todo'[t], k) \preceq TokenSpots(k)'
  <2>1. s \in DOMAIN spans /\ spans[s].live /\ todo'[t] = SpanDropped(s) /\ spans[s] \in SpanObject
    BY <1>1, <1>7 DEF DropSpan, Issue, MayUse, Live, SpansOK
  <2>2. SpotsIn(todo'[t], k) \preceq ItemsAt(spans[s].token, k) /\ k[2] = s
    BY <1>1, <2>1, DroppedSpots
  <2>3. spans' = [spans EXCEPT ![s].live = FALSE] /\ nextRaw' = nextRaw
    BY <1>7 DEF DropSpan
  <2>4. DOMAIN spans' = DOMAIN spans /\ ~spans'[s].live /\ spans'[s].token = spans[s].token
    BY <2>1, <2>3 DEF SpanObject
  <2>5. s < nextRaw
    BY <1>1, <2>1 DEF SpansOK
  <2>6. TokenSpots(k)' = ItemsAt(spans'[s].token, k)
    BY <2>1, <2>2, <2>4 DEF TokenSpots
  <2>7. ~Told(k) /\ Told(k)'
    BY <2>1, <2>2, <2>3, <2>4, <2>5 DEF Told
  <2> QED
    BY <2>2, <2>4, <2>6, <2>7
<1> QED
  BY <1>2, <1>3, <1>4, <1>5, <1>6, <1>7 DEF Call

-----------------------------------------------------------------------------
(* All places, and the steps. *)

\* The places of k: in what a thread is about to send and in its channel, in
\* what the collector drained and holds, and in what was reported.
InThread(t, k)  == SpotsIn(todo[t], k) \uplus SpotsIn(Ring(t), k)
InThreads(k)    == Tagged([t \in Thread |-> InThread(t, k)])
Collected(k)    == SpotsIn(batch, k) \uplus (HeldSpots(k) \uplus RecordCopies(reported, k))
Everywhere(k)   == InThreads(k) \uplus Collected(k)

\* Where a step leaves what it does not touch.
LEMMA ThreadMoves ==
  ASSUME NEW k, NEW t \in Thread, \A u \in Thread \ {t} : InThread(u, k)' = InThread(u, k),
         InThread(t, k)' \preceq InThread(t, k), Collected(k)' = Collected(k)
  PROVE  Everywhere(k)' \preceq Everywhere(k)
PROOF
<1> DEFINE A == [u \in Thread |-> InThread(u, k)']
           B == [u \in Thread |-> InThread(u, k)]
<1>1. InThreads(k)' = Tagged(A) /\ InThreads(k) = Tagged(B)
  BY DEF InThreads
<1>2. DOMAIN A = Thread /\ DOMAIN B = Thread /\ \A u \in Thread : A[u] = InThread(u, k)' /\ B[u] = InThread(u, k)
  OBVIOUS
<1> HIDE DEF A, B
<1>3. \A u \in Thread : A[u] \preceq B[u]
  BY <1>2, InjectionOfPart
<1>4. Tagged(A) \preceq Tagged(B)
  BY <1>2, <1>3, InjectionsTagged
<1>5. Collected(k) \preceq Collected(k)
  BY InjectionOfPart
<1>6. Tagged(A) \uplus Collected(k) \preceq Tagged(B) \uplus Collected(k)
  BY <1>4, <1>5, UnionGrows
<1> QED
  BY <1>1, <1>6 DEF Everywhere

\* A command taken from the call is sent, parked or lost.
LEMMA TakenSpots ==
  ASSUME TypeInv, NEW t \in Thread, Takes(t), NEW k,
         Ring(t)' = Ring(t) \/ Ring(t)' = Append(Ring(t), Cmd(t))
  PROVE  Everywhere(k)' \preceq Everywhere(k)
PROOF
<1> DEFINE Td == SpotsIn(todo[t], k)
           Tl == SpotsIn(Tail(todo[t]), k)
           Rg == SpotsIn(Ring(t), k)
           m  == SpotsOf(Cmd(t), k)
<1>1. /\ todo[t] \in Seq(Command) /\ todo[t] # <<>> /\ Cmd(t) = Head(todo[t]) /\ todo'[t] = Tail(todo[t])
      /\ Ring(t) \in Seq(Command)
      /\ \A u \in Thread \ {t} : todo'[u] = todo[u] /\ Ring(u)' = Ring(u)
      /\ UNCHANGED <<batch, active, reported>>
  BY TakesSets, CommandSeqs DEF Takes
<1>2. Collected(k)' = Collected(k)
  BY <1>1 DEF Collected, HeldSpots
<1>3. \A u \in Thread \ {t} : InThread(u, k)' = InThread(u, k)
  <2>1. \A u : InThread(u, k)' = SpotsIn(todo'[u], k) \uplus SpotsIn(Ring(u)', k)
    BY DEF InThread
  <2> QED
    BY <1>1, <2>1 DEF InThread
<1>4. Tl \uplus m \preceq Td
  BY <1>1, TailSpots
<1>5. InThread(t, k)' = Tl \uplus SpotsIn(Ring(t)', k) /\ InThread(t, k) = Td \uplus Rg
  BY <1>1 DEF InThread
<1>6. SpotsIn(Append(Ring(t), Cmd(t)), k) \preceq Rg \uplus m
  BY <1>1, AppendSpots
<1>7. SpotsIn(Ring(t)', k) \preceq Rg \uplus m
  <2>1. Rg \preceq Rg \uplus m
    BY UnionLaws
  <2> QED
    BY <1>6, <2>1
<1> HIDE DEF Td, Tl, Rg, m
<1>8. Tl \uplus SpotsIn(Ring(t)', k) \preceq Td \uplus Rg
  <2>1. Tl \preceq Tl /\ Rg \preceq Rg
    BY InjectionOfPart
  <2>2. Tl \uplus SpotsIn(Ring(t)', k) \preceq Tl \uplus (Rg \uplus m)
    BY <1>7, <2>1, UnionGrows
  <2>3. Tl \uplus (Rg \uplus m) \preceq Tl \uplus (m \uplus Rg)
    <3>1. Rg \uplus m \preceq m \uplus Rg
      BY UnionLaws
    <3> QED
      BY <2>1, <3>1, UnionGrows
  <2>4. Tl \uplus (m \uplus Rg) \preceq (Tl \uplus m) \uplus Rg
    BY UnionLaws
  <2>5. (Tl \uplus m) \uplus Rg \preceq Td \uplus Rg
    BY <1>4, <2>1, UnionGrows
  <2> QED
    BY <2>2, <2>3, <2>4, <2>5, InjectionComposed
<1>9. InThread(t, k)' \preceq InThread(t, k)
  BY <1>5, <1>8
<1> QED
  BY <1>2, <1>3, <1>9, ThreadMoves

\* What was parked makes no span.
LEMMA UnparkedSpots ==
  ASSUME TypeInv, NEW t \in Thread, Unparks(t), NEW k
  PROVE  Everywhere(k)' \preceq Everywhere(k)
PROOF
<1>1. /\ Ring(t) \in Seq(Command) /\ todo' = todo
      /\ \A u \in Thread \ {t} : Ring(u)' = Ring(u)
      /\ UNCHANGED <<batch, active, reported>>
  BY UnparkSets, CommandSeqs DEF Unparks
<1>2. Collected(k)' = Collected(k)
  BY <1>1 DEF Collected, HeldSpots
<1>3. \A u : InThread(u, k)' = SpotsIn(todo[u], k) \uplus SpotsIn(Ring(u)', k)
  BY <1>1 DEF InThread
<1>4. \A u \in Thread \ {t} : InThread(u, k)' = InThread(u, k)
  BY <1>1, <1>3 DEF InThread
<1>5. SpotsIn(Ring(t)', k) \preceq SpotsIn(Ring(t), k)
  <2>1. CASE Ring(t)' = Ring(t)
    BY <2>1, InjectionOfPart
  <2>2. ASSUME NEW m \in ToSet(Parked(t)), Ring(t)' = Append(Ring(t), m)
        PROVE  SpotsIn(Ring(t)', k) \preceq SpotsIn(Ring(t), k)
    <3>1. m.cmd # "submit"
      BY ParkedForced
    <3>2. SpotsOf(m, k) = {}
      BY <3>1, OtherSpots
    <3>3. SpotsIn(Append(Ring(t), m), k) \preceq SpotsIn(Ring(t), k) \uplus SpotsOf(m, k)
      BY <1>1, AppendSpots
    <3>4. SpotsIn(Append(Ring(t), m), k) \preceq SpotsIn(Ring(t), k)
      BY <3>2, <3>3, PartsBelow
    <3> QED
      BY <2>2, <3>4
  <2> QED
    BY <2>1, <2>2 DEF Unparks
<1>6. SpotsIn(todo[t], k) \preceq SpotsIn(todo[t], k)
  BY InjectionOfPart
<1>7. SpotsIn(todo[t], k) \uplus SpotsIn(Ring(t)', k) \preceq SpotsIn(todo[t], k) \uplus SpotsIn(Ring(t), k)
  BY <1>5, <1>6, UnionGrows
<1>8. InThread(t, k)' \preceq InThread(t, k)
  BY <1>3, <1>7 DEF InThread
<1> QED
  BY <1>2, <1>4, <1>8, ThreadMoves

\* A command received moves from the channel to the batch.
LEMMA ReceivedSpots ==
  ASSUME TypeInv, NEW t \in Thread, Receives(t), NEW k
  PROVE  Everywhere(k)' \preceq Everywhere(k)
PROOF
<1> DEFINE A == [u \in Thread |-> InThread(u, k)']
           B == [u \in Thread |-> InThread(u, k)]
           Td == SpotsIn(todo[t], k)
           Tl == SpotsIn(Tail(Ring(t)), k)
           Rg == SpotsIn(Ring(t), k)
           m  == SpotsOf(Head(Ring(t)), k)
           Bt == SpotsIn(batch, k)
           Rest == HeldSpots(k) \uplus RecordCopies(reported, k)
<1>1. /\ Ring(t) \in Seq(Command) /\ Ring(t) # <<>> /\ Ring(t)' = Tail(Ring(t)) /\ todo' = todo
      /\ \A u \in Thread \ {t} : Ring(u)' = Ring(u)
      /\ UNCHANGED <<active, reported>>
      /\ batch \in Seq(Command) /\ batch' = Append(batch, Head(Ring(t)))
  BY CommandSeqs, ReceiveSets DEF Receives
<1>2. \A u : InThread(u, k)' = SpotsIn(todo[u], k) \uplus SpotsIn(Ring(u)', k)
  BY <1>1 DEF InThread
<1>3. InThreads(k)' = Tagged(A) /\ InThreads(k) = Tagged(B)
  BY DEF InThreads
<1>4. /\ DOMAIN A = DOMAIN B /\ t \in DOMAIN B
      /\ \A u \in DOMAIN B : u # t => A[u] = B[u]
      /\ A[t] = Td \uplus Tl /\ B[t] = Td \uplus Rg
  <2>1. \A u \in Thread \ {t} : InThread(u, k)' = InThread(u, k)
    BY <1>1, <1>2 DEF InThread
  <2>2. A[t] = Td \uplus Tl /\ B[t] = Td \uplus Rg
    BY <1>1, <1>2 DEF InThread
  <2> QED
    BY <2>1, <2>2
<1>5. Tl \uplus m \preceq Rg
  BY <1>1, TailSpots
<1>6. SpotsIn(Append(batch, Head(Ring(t))), k) \preceq Bt \uplus m
  BY <1>1, AppendSpots
<1>7. Collected(k)' = SpotsIn(Append(batch, Head(Ring(t))), k) \uplus Rest /\ Collected(k) = Bt \uplus Rest
  <2>1. HeldSpots(k)' = HeldSpots(k)
    BY <1>1 DEF HeldSpots
  <2> QED
    BY <1>1, <2>1 DEF Collected
<1> HIDE DEF A, B, Td, Tl, Rg, m, Bt, Rest
<1>8. \A X : X \preceq X
  BY InjectionOfPart
<1>9. (Td \uplus Tl) \uplus m \preceq Td \uplus Rg
  <2>1. (Td \uplus Tl) \uplus m \preceq Td \uplus (Tl \uplus m)
    BY UnionLaws
  <2>2. Td \uplus (Tl \uplus m) \preceq Td \uplus Rg
    BY <1>5, <1>8, UnionGrows
  <2> QED
    BY <2>1, <2>2, InjectionComposed
<1>10. Tagged(A) \uplus m \preceq Tagged(B)
  <2>1. A[t] \uplus m \preceq B[t]
    BY <1>4, <1>9
  <2> QED
    BY <1>4, <2>1, TaggedGives
<1>11. Collected(k)' \preceq m \uplus (Bt \uplus Rest)
  <2>1. Bt \uplus m \preceq m \uplus Bt
    BY UnionLaws
  <2>2. SpotsIn(Append(batch, Head(Ring(t))), k) \preceq m \uplus Bt
    BY <1>6, <2>1, InjectionComposed
  <2>3. Collected(k)' \preceq (m \uplus Bt) \uplus Rest
    BY <1>7, <1>8, <2>2, UnionGrows
  <2>4. (m \uplus Bt) \uplus Rest \preceq m \uplus (Bt \uplus Rest)
    BY UnionLaws
  <2> QED
    BY <2>3, <2>4, InjectionComposed
<1>12. Everywhere(k)' \preceq Tagged(A) \uplus (m \uplus (Bt \uplus Rest))
  <2>1. Everywhere(k)' = Tagged(A) \uplus Collected(k)'
    BY <1>3 DEF Everywhere
  <2> QED
    BY <1>8, <1>11, <2>1, UnionGrows
<1>13. Tagged(A) \uplus (m \uplus (Bt \uplus Rest)) \preceq (Tagged(A) \uplus m) \uplus (Bt \uplus Rest)
  BY UnionLaws
<1>14. (Tagged(A) \uplus m) \uplus (Bt \uplus Rest) \preceq Tagged(B) \uplus (Bt \uplus Rest)
  BY <1>8, <1>10, UnionGrows
<1>15. Everywhere(k) = Tagged(B) \uplus (Bt \uplus Rest)
  BY <1>3, <1>7 DEF Everywhere
<1> QED
  BY <1>12, <1>13, <1>14, <1>15, InjectionComposed

\* A batch is processed.
LEMMA ProcessedSpots ==
  ASSUME TypeInv, ProcessBatch, NEW k
  PROVE  Everywhere(k)' \preceq Everywhere(k)
PROOF
<1>1. UNCHANGED <<todo, chan>> /\ batch' = <<>>
  BY DEF ProcessBatch
<1>2. InThreads(k)' = InThreads(k)
  BY <1>1 DEF InThreads, InThread, Ring
<1>3. SpotsIn(batch', k) = {}
  BY <1>1, EmptySpots
<1> DEFINE X == HeldSpots(k)' \uplus RecordCopies(reported', k)
<1>4. Collected(k)' = SpotsIn(batch', k) \uplus X
  BY DEF Collected
<1>5. X \preceq Collected(k)
  BY BatchSpots DEF Collected
<1> HIDE DEF X
<1>6. SpotsIn(batch', k) \uplus X \preceq X
  BY <1>3, UnionLaws
<1>7. Collected(k)' \preceq Collected(k)
  BY <1>4, <1>5, <1>6, InjectionComposed
<1>8. InThreads(k) \preceq InThreads(k)
  BY InjectionOfPart
<1>9. InThreads(k) \uplus Collected(k)' \preceq InThreads(k) \uplus Collected(k)
  BY <1>7, <1>8, UnionGrows
<1> QED
  BY <1>2, <1>9 DEF Everywhere

\* Only a call adds places.
LEMMA OtherStepsAdd ==
  ASSUME TypeInv, SeenOK, [Next]_vars, ~ \E t \in Thread : Call(t), NEW k
  PROVE  Everywhere(k)' \preceq Everywhere(k) /\ UNCHANGED <<spans, nextRaw>>
PROOF
<1>1. CASE NothingMoves
  <2>1. UNCHANGED <<spans, nextRaw, todo, batch, active, reported>> /\ \A t \in Thread : Ring(t)' = Ring(t)
    BY <1>1 DEF NothingMoves, appVars
  <2>2. \A t \in Thread : InThread(t, k)' = InThread(t, k)
    <3>1. \A t : InThread(t, k)' = SpotsIn(todo[t], k) \uplus SpotsIn(Ring(t)', k)
      BY <2>1 DEF InThread
    <3> QED
      BY <2>1, <3>1 DEF InThread
  <2>3. InThreads(k)' = InThreads(k)
    <3>1. InThreads(k)' = Tagged([t \in Thread |-> InThread(t, k)'])
      BY DEF InThreads
    <3>2. [t \in Thread |-> InThread(t, k)'] = [t \in Thread |-> InThread(t, k)]
      BY <2>2
    <3> QED
      BY <3>1, <3>2 DEF InThreads
  <2>4. Collected(k)' = Collected(k)
    BY <2>1 DEF Collected, HeldSpots
  <2>5. Everywhere(k)' = Everywhere(k)
    BY <2>3, <2>4 DEF Everywhere
  <2> QED
    BY <2>1, <2>5, InjectionOfPart
<1>2. CASE ProcessBatch
  BY <1>2, ProcessedSpots DEF ProcessBatch, appVars
<1>3. ASSUME NEW t \in Thread, Pushes(t) \/ Parks(t) \/ Loses(t)
      PROVE  Everywhere(k)' \preceq Everywhere(k) /\ UNCHANGED <<spans, nextRaw>>
  <2>1. Takes(t) /\ (Ring(t)' = Ring(t) \/ Ring(t)' = Append(Ring(t), Cmd(t)))
    BY <1>3 DEF Pushes, Parks, Loses
  <2>2. UNCHANGED <<spans, nextRaw>>
    BY <2>1 DEF Takes
  <2> QED
    BY <2>1, <2>2, TakenSpots
<1>4. ASSUME NEW t \in Thread, Unparks(t)
      PROVE  Everywhere(k)' \preceq Everywhere(k) /\ UNCHANGED <<spans, nextRaw>>
  <2>1. UNCHANGED <<spans, nextRaw>>
    BY <1>4 DEF Unparks, appVars
  <2> QED
    BY <1>4, <2>1, UnparkedSpots
<1>5. ASSUME NEW t \in Thread, Receives(t)
      PROVE  Everywhere(k)' \preceq Everywhere(k) /\ UNCHANGED <<spans, nextRaw>>
  <2>1. UNCHANGED <<spans, nextRaw>>
    BY <1>5 DEF Receives, appVars
  <2> QED
    BY <1>5, <2>1, ReceivedSpots
<1> QED
  BY <1>1, <1>2, <1>3, <1>4, <1>5, StepKinds

\* A call adds what it is about to send.
LEMMA CallAdds ==
  ASSUME TypeInv, NEW t \in Thread, Call(t), NEW k
  PROVE  /\ SpotsIn(todo'[t], k) = {} => Everywhere(k)' \preceq Everywhere(k)
         /\ Everywhere(k) = {} => Everywhere(k)' \preceq SpotsIn(todo'[t], k)
PROOF
<1>1. /\ todo[t] = <<>> /\ UNCHANGED <<chan, batch, active, reported>>
      /\ \A u \in Thread \ {t} : todo'[u] = todo[u]
  BY CallType DEF Idle, collVars
<1>2. Collected(k)' = Collected(k)
  BY <1>1 DEF Collected, HeldSpots
<1>3. \A u : InThread(u, k)' = SpotsIn(todo'[u], k) \uplus SpotsIn(Ring(u), k)
  BY <1>1 DEF InThread, Ring
<1>4. \A u \in Thread \ {t} : InThread(u, k)' = InThread(u, k)
  BY <1>1, <1>3 DEF InThread
<1>5. ASSUME SpotsIn(todo'[t], k) = {}
      PROVE  Everywhere(k)' \preceq Everywhere(k)
  <2>1. SpotsIn(todo[t], k) = {}
    BY <1>1, EmptySpots
  <2>2. InThread(t, k)' = InThread(t, k)
    BY <1>3, <1>5, <2>1 DEF InThread
  <2>3. InThread(t, k)' \preceq InThread(t, k)
    BY <2>2, InjectionOfPart
  <2> QED
    BY <1>2, <1>4, <2>3, ThreadMoves
<1>6. ASSUME Everywhere(k) = {}
      PROVE  Everywhere(k)' \preceq SpotsIn(todo'[t], k)
  <2> DEFINE A == [u \in Thread |-> InThread(u, k)']
  <2>1. InThreads(k) = {} /\ Collected(k) = {}
    <3>1. InThreads(k) \preceq Everywhere(k) /\ Collected(k) \preceq Everywhere(k)
      BY UnionLaws DEF Everywhere
    <3> QED
      BY <1>6, <3>1, NothingBelow
  <2>2. ASSUME NEW u \in Thread
        PROVE  InThread(u, k) = {} /\ SpotsIn(Ring(u), k) = {}
    <3> DEFINE F == [v \in Thread |-> InThread(v, k)]
    <3>0. DOMAIN F = Thread /\ F[u] = InThread(u, k) /\ Tagged(F) = {}
      BY <2>1 DEF InThreads
    <3>1. InThread(u, k) = {}
      <4> HIDE DEF F
      <4>1. \A x \in F[u] : <<u, x>> \in Tagged(F)
        BY <3>0 DEF Tagged
      <4> QED
        BY <3>0, <4>1
    <3>2. SpotsIn(Ring(u), k) \preceq InThread(u, k)
      BY UnionLaws DEF InThread
    <3> QED
      BY <3>1, <3>2, NothingBelow
  <2>3. /\ t \in DOMAIN A /\ \A u \in DOMAIN A : u # t => A[u] = {}
        /\ A[t] = SpotsIn(todo'[t], k) \uplus SpotsIn(Ring(t), k)
    BY <1>3, <1>4, <2>2
  <2>4. Everywhere(k)' = Tagged(A) \uplus Collected(k)'
    BY DEF Everywhere, InThreads
  <2> HIDE DEF A
  <2>5. Tagged(A) \preceq A[t]
    BY <2>3, OnlyPart
  <2>6. A[t] \preceq SpotsIn(todo'[t], k)
    BY <2>2, <2>3, UnionLaws
  <2>7. Everywhere(k)' \preceq Tagged(A)
    BY <1>2, <2>1, <2>4, UnionLaws
  <2> QED
    BY <2>5, <2>6, <2>7, InjectionComposed
<1> QED
  BY <1>5, <1>6

-----------------------------------------------------------------------------
(* The invariant. *)

\* A trace, a span and the parent of its record.
Key == CollectId \X SpanId \X Parent

\* A span with a place somewhere was told, and has no more places than items.
SpotsInv ==
  \A k \in Key : Everywhere(k) # {} => Told(k) /\ Everywhere(k) \preceq TokenSpots(k)

\* The invariant holds initially and is kept: a call makes places for a span
\* that has none, every other step moves them.
LEMMA InitSpots == Init => SpotsInv
PROOF
<1> SUFFICES ASSUME Init, NEW k
             PROVE  Everywhere(k) = {}
  BY DEF SpotsInv
<1>1. SpotsIn(<<>>, k) = {}
  BY EmptySpots
<1>2. \A t \in Thread : InThread(t, k) = {}
  <2>1. \A t \in Thread : todo[t] = <<>> /\ Ring(t) = <<>>
    BY DEF Init, Ring, NewChannel
  <2>2. {} \uplus {} = {}
    BY UnionCases
  <2> QED
    BY <1>1, <2>1, <2>2 DEF InThread
<1>3. InThreads(k) = {}
  BY <1>2 DEF InThreads, Tagged
<1>4. HeldSpots(k) = {}
  <2>1. DOMAIN active = {}
    BY DEF Init
  <2> QED
    BY <2>1 DEF HeldSpots
<1>5. RecordCopies(reported, k) = {}
  <2>1. DOMAIN reported = {}
    BY DEF Init, EmptyBag, SetToBag
  <2> QED
    BY <2>1 DEF RecordCopies
<1>6. Collected(k) = {}
  <2>1. {} \uplus {} = {}
    BY UnionCases
  <2>2. batch = <<>>
    BY DEF Init
  <2> QED
    BY <1>1, <1>4, <1>5, <2>1, <2>2 DEF Collected
<1>7. {} \uplus {} = {}
  BY UnionCases
<1> QED
  BY <1>3, <1>6, <1>7 DEF Everywhere

\* What was told stays told, with the items it has.
LEMMA ToldStays ==
  ASSUME TypeInv, NEW t \in Thread, Call(t), NEW k \in Key, Told(k)
  PROVE  Told(k)' /\ TokenSpots(k)' = TokenSpots(k)
PROOF
<1>1. SpansOK /\ k[2] \in SpanId
  BY DEF TypeInv, Key
<1>2. /\ nextRaw \in Nat /\ nextRaw' \in Nat /\ nextRaw <= nextRaw'
      /\ DOMAIN spans \subseteq DOMAIN spans' /\ DOMAIN spans' \subseteq DOMAIN spans \cup {nextRaw}
      /\ \A s \in DOMAIN spans : /\ spans'[s].token = spans[s].token
                                 /\ ~spans[s].live => ~spans'[s].live
  <2>1. nextRaw \in Nat /\ nextRaw' \in Nat /\ nextRaw <= nextRaw'
    <3>1. nextRaw \in Nat
      BY <1>1 DEF SpansOK
    <3>2. nextRaw' = nextRaw \/ nextRaw' = nextRaw + 1 \/ nextRaw' = nextRaw + 2
      BY DEF Call, Root, UnsampledRoot, Child, Attach, PushChildSpans, Cancel, DropSpan
    <3> QED
      BY <3>1, <3>2
  <2>2. CASE UNCHANGED spans
    BY <2>1, <2>2
  <2>3. ASSUME NEW s \in DOMAIN spans, spans' = [spans EXCEPT ![s].live = FALSE]
        PROVE  /\ DOMAIN spans' = DOMAIN spans
               /\ \A r \in DOMAIN spans : spans'[r].token = spans[r].token /\ (~spans[r].live => ~spans'[r].live)
    <3>1. \A r \in DOMAIN spans : spans[r] \in SpanObject
      BY <1>1 DEF SpansOK
    <3>2. DOMAIN spans' = DOMAIN spans /\ \A r \in DOMAIN spans : spans'[r] = IF r = s THEN [spans[s] EXCEPT !.live = FALSE] ELSE spans[r]
      BY <2>3
    <3>3. \A r \in DOMAIN spans : spans'[r].token = spans[r].token
      BY <3>1, <3>2 DEF SpanObject
    <3>4. \A r \in DOMAIN spans : ~spans[r].live => ~spans'[r].live
      BY <3>1, <3>2 DEF SpanObject
    <3> QED
      BY <3>2, <3>3, <3>4
  <2>4. ASSUME NEW token \in Seq(TokenItem), NEW c \in AnyTrace \cup {-1},
               nextRaw <= MaxRaw, nextRaw' = nextRaw + 1, NewSpan(t, token, c)
        PROVE  DOMAIN spans' = DOMAIN spans \cup {nextRaw} /\ \A s \in DOMAIN spans : spans'[s] = spans[s]
    BY <1>1, <2>4, NewSpanType
  <2> QED
    BY <2>1, <2>2, <2>3, <2>4, CallSpans
<1>3. k[2] \in DOMAIN spans' <=> k[2] \in DOMAIN spans
  BY <1>1, <1>2 DEF Told, SpanId
<1>4. Told(k)'
  BY <1>1, <1>2, <1>3 DEF Told, SpanId
<1>5. k[2] \notin DOMAIN spans => IssueCollectToken(k[3])' = IssueCollectToken(k[3])
  <2> SUFFICES ASSUME k[2] \notin DOMAIN spans
               PROVE  IssueCollectToken(k[3])' = IssueCollectToken(k[3])
    OBVIOUS
  <2>1. spans'[k[3]].token = spans[k[3]].token
    BY <1>2 DEF Told
  <2> QED
    BY <2>1 DEF IssueCollectToken
<1>6. k[2] \in DOMAIN spans => spans'[k[2]].token = spans[k[2]].token
  BY <1>2
<1>7. TokenSpots(k)' = ItemsAt(IF k[2] \in DOMAIN spans' THEN spans'[k[2]].token ELSE IssueCollectToken(k[3])', k)
  BY DEF TokenSpots
<1>8. TokenSpots(k)' = TokenSpots(k)
  BY <1>3, <1>5, <1>6, <1>7 DEF TokenSpots
<1> QED
  BY <1>4, <1>8

LEMMA NextSpots == TypeInv /\ SeenOK /\ SpotsInv /\ [Next]_vars => SpotsInv'
PROOF
<1> SUFFICES ASSUME TypeInv, SeenOK, SpotsInv, [Next]_vars, NEW k \in Key, Everywhere(k)' # {}
             PROVE  Told(k)' /\ Everywhere(k)' \preceq TokenSpots(k)'
  BY DEF SpotsInv
<1>1. CASE \E t \in Thread : Call(t)
  <2>1. PICK t \in Thread : Call(t)
    BY <1>1
  <2>2. CASE SpotsIn(todo'[t], k) = {}
    <3>1. Everywhere(k)' \preceq Everywhere(k)
      BY <2>1, <2>2, CallAdds
    <3>2. Everywhere(k) # {}
      BY <3>1, NothingBelow
    <3>3. Told(k) /\ Everywhere(k) \preceq TokenSpots(k)
      BY <3>2 DEF SpotsInv
    <3>4. Told(k)' /\ TokenSpots(k)' = TokenSpots(k)
      BY <2>1, <3>3, ToldStays
    <3> QED
      BY <3>1, <3>3, <3>4, InjectionComposed
  <2>3. CASE SpotsIn(todo'[t], k) # {}
    <3>1. ~Told(k) /\ Told(k)' /\ SpotsIn(todo'[t], k) \preceq TokenSpots(k)'
      BY <2>1, <2>3, CallSends
    <3>2. Everywhere(k) = {}
      BY <3>1 DEF SpotsInv
    <3>3. Everywhere(k)' \preceq SpotsIn(todo'[t], k)
      BY <2>1, <3>2, CallAdds
    <3> QED
      BY <3>1, <3>3, InjectionComposed
  <2> QED
    BY <2>2, <2>3
<1>2. CASE ~ \E t \in Thread : Call(t)
  <2>1. Everywhere(k)' \preceq Everywhere(k) /\ UNCHANGED <<spans, nextRaw>>
    BY <1>2, OtherStepsAdd
  <2>2. Everywhere(k) # {}
    BY <2>1, NothingBelow
  <2>3. Told(k) /\ Everywhere(k) \preceq TokenSpots(k)
    BY <2>2 DEF SpotsInv
  <2>4. Told(k)' /\ TokenSpots(k)' = TokenSpots(k)
    BY <2>1, <2>3 DEF Told, TokenSpots, IssueCollectToken
  <2> QED
    BY <2>1, <2>3, <2>4, InjectionComposed
<1> QED
  BY <1>1, <1>2

\* The records of a span are among its places, so no more than its items.
LEMMA SpotsGiveOnce == TypeInv /\ SpotsInv => ReportedOnce
PROOF
<1> SUFFICES ASSUME TypeInv, SpotsInv, NEW r \in DOMAIN reported
             PROVE  LET same == {q \in DOMAIN reported : SameSpan(r, q)}
                    IN  Cardinality(UNION {{q} \X (1 .. reported[q]) : q \in same}) <= TokenItems(r)
  BY DEF ReportedOnce
<1> DEFINE k == <<r.trace, r.span, r.parent>>
           same == {q \in DOMAIN reported : SameSpan(r, q)}
<1>1. r \in Recorded(CollectId) /\ IsABag(reported) /\ SpansOK
  BY DEF TypeInv, CollectorsOK
<1>2. k \in Key /\ k[1] = r.trace /\ k[2] = r.span /\ k[3] = r.parent
  BY <1>1 DEF Recorded, Key
<1>3. RecordCopies(reported, k) = UNION {{q} \X (1 .. reported[q]) : q \in same}
  <2>1. {x \in DOMAIN reported : k = <<x.trace, x.span, x.parent>>} = same
    BY DEF SameSpan
  <2> QED
    BY <2>1 DEF RecordCopies
<1>4. RecordCopies(reported, k) \preceq Everywhere(k)
  <2>1. /\ RecordCopies(reported, k) \preceq HeldSpots(k) \uplus RecordCopies(reported, k)
        /\ HeldSpots(k) \uplus RecordCopies(reported, k) \preceq Collected(k)
        /\ Collected(k) \preceq Everywhere(k)
    BY UnionLaws DEF Collected, Everywhere
  <2> QED
    BY <2>1, InjectionComposed
<1>5. RecordCopies(reported, k) # {}
  <2>1. r \in same /\ reported[r] \in Nat \ {0}
    BY <1>1 DEF SameSpan, IsABag
  <2> HIDE DEF k, same
  <2>2. 1 \in 1 .. reported[r]
    BY <2>1
  <2>3. <<r, 1>> \in UNION {{q} \X (1 .. reported[q]) : q \in same}
    BY <2>1, <2>2
  <2> QED
    BY <1>3, <2>3
<1> HIDE DEF k
<1>6. Everywhere(k) # {}
  BY <1>4, <1>5, NothingBelow
<1>7. Told(k) /\ Everywhere(k) \preceq TokenSpots(k)
  BY <1>2, <1>6 DEF SpotsInv
<1> DEFINE token == IF r.span \in DOMAIN spans THEN spans[r.span].token ELSE IssueCollectToken(r.parent)
<1>8. token \in Seq(TokenItem)
  BY <1>1, <1>2, <1>7, IssueTokenType DEF Told
<1>9. TokenSpots(k) = {i \in DOMAIN token : token[i] = Item(r.trace, r.parent)}
  BY <1>2 DEF TokenSpots, ItemsAt
<1>10. TokenItems(r) = Cardinality(TokenSpots(k))
  BY <1>9 DEF TokenItems
<1>11. IsFiniteSet(TokenSpots(k))
  <2> HIDE DEF token
  <2>1. DOMAIN token = 1 .. Len(token) /\ Len(token) \in Nat
    BY <1>8, LenProperties
  <2>2. IsFiniteSet(DOMAIN token)
    BY <2>1, FS_Interval
  <2> QED
    BY <1>9, <2>2, FS_Subset
<1>12. RecordCopies(reported, k) \preceq TokenSpots(k)
  BY <1>4, <1>7, InjectionComposed
<1>13. Cardinality(RecordCopies(reported, k)) <= Cardinality(TokenSpots(k))
  BY <1>11, <1>12, InjectionSizes
<1> QED
  BY <1>3, <1>10, <1>13

\* No span is reported more often than its token has items for the trace and the
\* parent of the record, whatever the order of the commands, the cuts between the
\* batches and what is lost: handle_commands and postprocess_span_collection of
\* fastrace/src/collector/global_collector.rs, over any number of threads.
THEOREM ReportedAtMostOnce == Spec => []ReportedOnce
PROOF
<1>1. Spec => []FlowInv
  BY FlowHolds
<1>2. Init => SpotsInv
  BY InitSpots
<1>3. FlowInv /\ SpotsInv /\ [Next]_vars => SpotsInv'
  BY NextSpots DEF FlowInv
<1>4. FlowInv /\ SpotsInv => ReportedOnce
  BY SpotsGiveOnce DEF FlowInv
<1> QED
  BY <1>1, <1>2, <1>3, <1>4, PTL DEF Spec

-----------------------------------------------------------------------------
(* What post-processing mounts, and what it leaves dangling. *)

-----------------------------------------------------------------------------
(* What becomes of the attachments of a span. *)

\* The attachments of span s in amended raw spans.
AttachedTo(s, amended) == {a.id : a \in {x \in ToSet(amended) : IsAttachment(x) /\ x.parent = s}}

\* The first record of a span takes all that dangles for it.
LEMMA MountEvents ==
  ASSUME NEW T, NEW amended \in Seq(Amended(T)), NEW danglings \in Danglings,
         NEW b \in ToSet(amended), IsSpan(b)
  PROVE  \E r \in ToSet(Mount(amended, danglings)) : r.span = b.id /\ ToSet(r.events) = Waiting(danglings, b.id)
PROOF
<1> DEFINE sp == Select(amended, IsSpan)
           takes(i) == /\ sp[i].id \in DOMAIN danglings
                       /\ \A j \in 1 .. i - 1 : sp[j].id # sp[i].id
           ev(i) == IF takes(i) THEN danglings[sp[i].id] ELSE <<>>
           F == [i \in DOMAIN sp |-> [trace |-> sp[i].trace, span |-> sp[i].id, parent |-> sp[i].parent,
                                      events |-> ev(i)]]
           S == {i \in DOMAIN sp : sp[i].id = b.id}
<1>1. Mount(amended, danglings) = F
  BY DEF Mount
<1>2. sp \in Seq({x \in Amended(T) : IsSpan(x)}) /\ b \in ToSet(sp)
  BY SelectSpans
<1> HIDE DEF sp
<1>3. DOMAIN sp \subseteq Nat /\ Len(sp) \in Nat /\ DOMAIN sp = 1 .. Len(sp)
  BY <1>2, LenProperties
<1>4. S \subseteq Nat /\ S # {}
  BY <1>2, <1>3 DEF ToSet
<1>5. PICK i \in S : \A k \in S : i <= k
  <2> HIDE DEF S
  <2> QED
    BY <1>4, LeastMember
<1>6. i \in DOMAIN sp /\ sp[i].id = b.id /\ \A j \in 1 .. i - 1 : sp[j].id # sp[i].id
  <2>1. ASSUME NEW j \in 1 .. i - 1, sp[j].id = b.id
        PROVE  FALSE
    <3>1. j \in S
      BY <1>3, <1>5, <2>1
    <3> QED
      BY <1>3, <1>5, <2>1, <3>1
  <2> QED
    BY <1>5, <2>1
<1>7. ToSet(ev(i)) = Waiting(danglings, b.id)
  BY <1>6, ShortRanges DEF Waiting
<1>8. F[i] \in ToSet(F) /\ F[i].span = b.id /\ F[i].events = ev(i)
  <2> HIDE DEF ev
  <2> QED
    BY <1>6 DEF ToSet
<1> HIDE DEF F, ev
<1> QED
  BY <1>1, <1>7, <1>8

\* Post-processing mounts what waits for a span on a record of it, and leaves it
\* waiting when there is no such record.
LEMMA PostprocessKeeps ==
  ASSUME NEW T, NEW colls \in Seq(Coll(T)), NEW danglings \in Danglings,
         NEW out, out = PostprocessSpanCollection(colls, danglings), NEW s,
         NEW x \in Waiting(danglings, s) \cup AttachedTo(s, AmendAll(colls))
  PROVE  \/ \E r \in ToSet(out.records) : r.span = s /\ x \in ToSet(r.events)
         \/ /\ x \in Waiting(out.danglings, s)
            /\ \A b \in ToSet(AmendAll(colls)) : IsSpan(b) => b.id # s
PROOF
<1> DEFINE amended == AmendAll(colls)
           dangling == Dangle(danglings, amended)
           records == Mount(amended, dangling)
<1>1. out.records = records /\ out.danglings = Unmounted(records, dangling)
  BY DEF PostprocessSpanCollection
<1>2. amended \in Seq(Amended(T))
  BY AmendAllType
<1>3. dangling \in Danglings /\ x \in Waiting(dangling, s)
  <2> HIDE DEF amended
  <2>1. dangling \in Danglings /\ Waiting(dangling, s) = Waiting(danglings, s) \cup AttachedTo(s, amended)
    BY <1>2, DangleType DEF AttachedTo
  <2> QED
    BY <2>1 DEF amended
<1> HIDE DEF dangling
<1>4. CASE \E b \in ToSet(amended) : IsSpan(b) /\ b.id = s
  <2>1. PICK b \in ToSet(amended) : IsSpan(b) /\ b.id = s
    BY <1>4
  <2>2. \E r \in ToSet(records) : r.span = b.id /\ ToSet(r.events) = Waiting(dangling, b.id)
    <3> HIDE DEF amended
    <3> QED
      BY <1>2, <1>3, <2>1, MountEvents
  <2> QED
    BY <1>1, <1>3, <2>1, <2>2
<1>5. CASE ~ \E b \in ToSet(amended) : IsSpan(b) /\ b.id = s
  <2>1. \A r \in ToSet(records) : r.span # s
    <3> HIDE DEF amended
    <3>1. \A r \in ToSet(records) : \E a \in ToSet(amended) : IsSpan(a) /\ r.span = a.id
      BY <1>2, <1>3, MountRecords
    <3> QED
      BY <1>5, <3>1
  <2>2. \A i \in DOMAIN records : records[i].span # s
    <3> HIDE DEF records
    <3> QED
      BY <2>1 DEF ToSet
  <2>3. s \in DOMAIN dangling
    BY <1>3 DEF Waiting
  <2> DEFINE left == DOMAIN dangling \ {records[i].span : i \in DOMAIN records}
  <2>4. s \in left
    <3> HIDE DEF records
    <3> QED
      BY <2>2, <2>3
  <2>5. Unmounted(records, dangling) = [y \in left |-> dangling[y]]
    BY DEF Unmounted
  <2> HIDE DEF left, records
  <2>6. Waiting(Unmounted(records, dangling), s) = Waiting(dangling, s)
    BY <2>3, <2>4, <2>5 DEF Waiting
  <2> QED
    BY <1>1, <1>3, <1>5, <2>6
<1> QED
  BY <1>4, <1>5

-----------------------------------------------------------------------------
(* Where an attachment is when its batch is processed. *)

\* The span an attachment belongs to, in its trace.
Owner(a) == <<a.trace, a.parent>>

\* It is on the record of its span.
Mounted(a) ==
  \E r \in DOMAIN reported : r.trace = a.trace /\ r.span = a.parent /\ a.id \in ToSet(r.events)

\* The collector has it, and its span has not been reported.
Waits(a) ==
  /\ Owner(a) \notin Got /\ a.trace \in DOMAIN active
  /\ \/ a \in ToSet(AmendAll(active[a.trace].colls))
     \/ a.id \in Waiting(active[a.trace].danglings, a.parent)

\* What a collector holds when it runs over a batch, amended.
AmendedBy(c) == UNION {ToSet(Amend(coll)) : coll \in HeldBy(c)}

\* A batch that finds an attachment and its collector mounts it, or leaves it
\* waiting, unless the trace ends without its span.
LEMMA BatchMounts ==
  ASSUME TypeInv, ProcessBatch, NEW a \in Amended(CollectId), IsAttachment(a),
         a.trace \in StartedTraces, Owner(a) \notin Got,
         \/ a \in AmendedBy(a.trace)
         \/ a.trace \notin Ids("start") /\ a.id \in Waiting(active[a.trace].danglings, a.parent)
  PROVE  \/ Mounted(a)' \/ Waits(a)'
         \/ a.trace \in Ids("commit") /\ Owner(a) \notin Got'
PROOF
<1> DEFINE c == a.trace
           p == Owner(a)
           f == Filled[c]
           out == Outcomes(Filled)[c]
<1>1. CollectorsOK /\ batch \in Seq(Command) /\ c \in CollectId
  BY DEF TypeInv, ReceiversOK, Amended
<1>2. /\ f \in ActiveCollector(c) /\ ToSet(f.colls) = HeldBy(c)
      /\ c \notin Ids("start") => f.danglings = active[c].danglings
      /\ DOMAIN Filled = StartedTraces
  <2>1. c \notin Ids("start") => Started[c] = active[c]
    BY StartedType, <1>1 DEF Started
  <2> QED
    BY <1>1, <2>1, FilledType
<1>3. f.colls \in Seq(Coll({c})) /\ f.danglings \in Danglings
  BY <1>2 DEF ActiveCollector
<1>4. DOMAIN Outcomes(Filled) = StartedTraces /\ out = PostprocessSpanCollection(f.colls, f.danglings)
  BY <1>2 DEF Outcomes
<1>5. /\ active' = StillActive(Filled, Outcomes(Filled))
      /\ DOMAIN active' = StartedTraces \ Ids("commit")
  BY BatchEffect DEF ProcessBatch
<1>a. p[1] = c /\ p = <<c, a.parent>>
  BY DEF Owner
<1> HIDE DEF f, out
<1>6. ToSet(AmendAll(f.colls)) = AmendedBy(c)
  BY <1>2, <1>3, AmendAllType DEF AmendedBy
<1>7. a.id \in Waiting(f.danglings, a.parent) \cup AttachedTo(a.parent, AmendAll(f.colls))
  BY <1>2, <1>6 DEF AttachedTo
<1>8. ASSUME NEW q \in SpanPair, q \in Got' \ Got, q[1] = c
      PROVE  q \in PairsOf(HeldBy(c)) /\ (Cancelable => c \in Ids("commit"))
  <2>1. \A x \in PairsOf({y \in SubmittedBy(ToSet(batch)) : y.trace \notin StartedTraces}) : x[1] # c
    BY PairsOfMember
  <2>2. CASE Cancelable
    BY <1>8, <2>2, BatchEffect, HeldTraces
  <2>3. CASE ~Cancelable
    <3>1. \/ \E d \in StartedTraces : q \in PairsOf(HeldBy(d))
          \/ q \in PairsOf({y \in SubmittedBy(ToSet(batch)) : y.trace \notin StartedTraces})
      BY <1>8, <2>3, BatchEffect
    <3>2. \E d \in StartedTraces : q \in PairsOf(HeldBy(d))
      BY <1>8, <2>1, <3>1
    <3>3. PICK d \in StartedTraces : q \in PairsOf(HeldBy(d))
      BY <3>2
    <3>4. d = c
      BY <1>8, <3>3, HeldTraces
    <3> QED
      BY <2>3, <3>3, <3>4
  <2> QED
    BY <2>2, <2>3
<1>9. CASE Cancelable /\ c \notin Ids("commit")
  <2>1. active'[c] = f /\ c \in DOMAIN active'
    BY <1>2, <1>5, <1>9 DEF StillActive, f
  <2>2. p \notin Got'
    <3>1. \A x \in Got' : x \in SpanPair
      BY BatchEffect DEF CollectorsOK, Got, Recorded, SpanPair
    <3> QED
      BY <1>8, <1>9, <1>a, <3>1
  <2> QED
    BY <1>2, <1>6, <2>1, <2>2 DEF Waits, f
<1>10. CASE Cancelable => c \in Ids("commit")
  <2>1. \/ \E r \in ToSet(out.records) : r.span = a.parent /\ a.id \in ToSet(r.events)
        \/ /\ a.id \in Waiting(out.danglings, a.parent)
           /\ \A b \in ToSet(AmendAll(f.colls)) : IsSpan(b) => b.id # a.parent
    BY <1>3, <1>4, <1>7, PostprocessKeeps
  <2>2. out.records \in Seq(Recorded({c})) /\ ToSet(out.records) \subseteq DOMAIN reported'
    BY <1>3, <1>4, <1>10, PostprocessType, BatchEffect DEF out
  <2>3. ASSUME NEW r \in ToSet(out.records), r.span = a.parent, a.id \in ToSet(r.events)
        PROVE  Mounted(a)'
    <3>1. r.trace = c
      <4>1. r \in Recorded({c})
        BY <2>2, ElementOfSeq, LenProperties DEF ToSet
      <4> QED
        BY <4>1 DEF Recorded
    <3> QED
      BY <2>2, <2>3, <3>1 DEF Mounted
  <2>4. ASSUME a.id \in Waiting(out.danglings, a.parent),
               \A b \in ToSet(AmendAll(f.colls)) : IsSpan(b) => b.id # a.parent
        PROVE  Waits(a)' \/ (c \in Ids("commit") /\ p \notin Got')
    <3>1. p \notin PairsOf(HeldBy(c))
      <4>1. {Pair(b) : b \in {x \in ToSet(AmendAll(f.colls)) : IsSpan(x)}} = PairsOf(HeldBy(c))
        BY <1>2, <1>3, AmendPairs
      <4>2. \A b : Pair(b) = p => b.id = a.parent
        BY <1>a DEF Pair
      <4> QED
        BY <2>4, <4>1, <4>2
    <3>2. p \notin Got'
      <4>1. \A x \in Got' : x \in SpanPair
        BY BatchEffect DEF CollectorsOK, Got, Recorded, SpanPair
      <4> QED
        BY <1>8, <1>a, <3>1, <4>1
    <3>3. CASE c \in Ids("commit")
      BY <3>2, <3>3
    <3>4. CASE c \notin Ids("commit")
      <4>1. ~Cancelable /\ c \in DOMAIN active' /\ active'[c] = [colls |-> <<>>, danglings |-> out.danglings]
        BY <1>2, <1>5, <1>10, <3>4 DEF StillActive, out
      <4>2. active'[c].danglings = out.danglings
        BY <4>1
      <4> QED
        BY <2>4, <3>2, <4>1, <4>2 DEF Waits
    <3> QED
      BY <3>3, <3>4
  <2> QED
    BY <2>1, <2>3, <2>4
<1> QED
  BY <1>9, <1>10

-----------------------------------------------------------------------------
(* What is submitted is of spans that have ended. *)

\* The span was created, and has ended if it is an object: it will not be
\* submitted again.
Past(s) == s < nextRaw /\ (s \in DOMAIN spans => ~spans[s].live)

\* The spans that a command brings, with those its attachments belong to.
Concerns(m) == NewPairs(m) \cup {Owner(a) : a \in {x \in SentBy(m) : IsAttachment(x)}}

\* What a submission holds, from the raw spans of its set.
LEMMA SubmitContents ==
  ASSUME NEW set \in Seq(RawSpan), NEW token \in Seq(TokenItem), NEW m \in ToSet(SubmitSpans(set, token))
  PROVE  /\ \A p \in NewPairs(m) : \E raw \in ToSet(set) : raw.kind = "Span" /\ p[2] = raw.id
         /\ \A a \in SentBy(m) : \E raw \in ToSet(set) :
              /\ a.kind = raw.kind
              /\ raw.parent # NoParent => a.parent = raw.parent
              /\ raw.parent = NoParent => \E item \in ToSet(token) : a.parent = item.parent
PROOF
<1>1. m \in Command /\ m.cmd = "submit" /\ m.set = set /\ ToSet(m.token) \subseteq ToSet(token)
  BY SubmitTraces
<1>2. /\ Copies(m) \in Seq(Coll(CollectId))
      /\ ToSet(Copies(m)) = {[set |-> set, trace |-> item.collect, parent |-> item.parent] : item \in ToSet(m.token)}
  BY <1>1, CopiesType
<1>3. \A coll \in ToSet(Copies(m)) : coll.set = set /\ \E item \in ToSet(token) : coll.parent = item.parent
  BY <1>1, <1>2
<1>4. \A coll \in ToSet(Copies(m)) : coll \in Coll(CollectId)
  BY <1>2, ElementOfSeq, LenProperties DEF ToSet
<1>5. ASSUME NEW p \in NewPairs(m)
      PROVE  \E raw \in ToSet(set) : raw.kind = "Span" /\ p[2] = raw.id
  <2>1. p \in PairsOf(ToSet(Copies(m)))
    BY <1>1, <1>5 DEF NewPairs
  <2>2. PICK coll \in ToSet(Copies(m)), raw \in RawSpan :
          raw \in ToSet(coll.set) /\ raw.kind = "Span" /\ p = <<coll.trace, raw.id>>
    BY <2>1, PairsOfMember
  <2> QED
    BY <1>3, <2>2
<1>6. ASSUME NEW a \in SentBy(m)
      PROVE  \E raw \in ToSet(set) :
              /\ a.kind = raw.kind
              /\ raw.parent # NoParent => a.parent = raw.parent
              /\ raw.parent = NoParent => \E item \in ToSet(token) : a.parent = item.parent
  <2>1. a \in UNION {ToSet(Amend(coll)) : coll \in ToSet(Copies(m))}
    BY <1>1, <1>2, <1>6, AmendAllType DEF SentBy
  <2>2. PICK coll \in ToSet(Copies(m)) : a \in ToSet(Amend(coll))
    BY <2>1
  <2>3. PICK raw \in ToSet(coll.set) :
          a = [trace |-> coll.trace, id |-> raw.id, kind |-> raw.kind,
               parent |-> IF raw.parent = NoParent THEN coll.parent ELSE raw.parent]
    BY <1>4, <2>2, AmendType
  <2> QED
    BY <1>3, <2>3
<1> QED
  BY <1>5, <1>6

\* A call submits spans that end with it, or local ones, and attachments of them
\* or of a span that lives; its submission comes first.
LEMMA CallTells ==
  ASSUME TypeInv, NEW t \in Thread, Call(t)
  PROVE  /\ \A i \in DOMAIN (todo'[t]) : (todo'[t])[i].cmd = "submit" => i = 1
         /\ \A m \in ToSet(todo'[t]) : \A p \in NewPairs(m) : ~Past(p[2]) /\ Past(p[2])'
         /\ \A m \in ToSet(todo'[t]) : \A p \in Concerns(m) : ~Past(p[2])
PROOF
<1> DEFINE First(seq) == \A i \in DOMAIN seq : seq[i].cmd = "submit" => i = 1
<1>a. PICK before, after : before = {s \in Nat : ~Past(s)} /\ after = {s \in Nat : Past(s)'}
  OBVIOUS
<1> DEFINE Good(seq) == /\ First(seq)
                        /\ \A m \in ToSet(seq) : \A p \in NewPairs(m) : p[2] \in after
                        /\ \A m \in ToSet(seq) : \A p \in Concerns(m) : p[2] \in before
<1>1. todo[t] = <<>> /\ todo \in [Thread -> Seq(Command)] /\ SpansOK
  BY CallType DEF Idle, TypeInv, ThreadsOK
<1>2. ASSUME NEW m, m.cmd # "submit"
      PROVE  NewPairs(m) = {} /\ Concerns(m) = {}
  BY <1>2 DEF NewPairs, Concerns, SentBy
<1>3. Good(<<>>) /\ \A m : First(<<m>>) /\ (m.cmd # "submit" => Good(<<m>>))
  <2>1. ToSet(<<>>) = {} /\ \A m : ToSet(<<m>>) = {m}
    BY ShortRanges
  <2> QED
    BY <1>2, <2>1
<1>4. ASSUME Root(t)
      PROVE  Good(todo'[t])
  <2>1. todo'[t] = <<StartCollect(nextRoot)>> /\ StartCollect(nextRoot).cmd # "submit"
    BY <1>1, <1>4 DEF Root, Issue, StartCollect
  <2> HIDE DEF Good
  <2> QED
    BY <1>3, <2>1
<1>5. ASSUME UnsampledRoot(t) \/ \E n \in 1 .. MaxParents : \E parents \in [1 .. n -> SpanId] : Child(t, parents)
      PROVE  Good(todo'[t])
  <2> HIDE DEF Good
  <2> QED
    BY <1>1, <1>3, <1>5 DEF UnsampledRoot, Child
<1>6. ASSUME NEW s \in SpanId, Cancel(t, s)
      PROVE  Good(todo'[t])
  <2>1. todo'[t] = <<DropCollect(spans[s].collect)>> /\ DropCollect(spans[s].collect).cmd # "submit"
    BY <1>1, <1>6 DEF Cancel, Issue, DropCollect
  <2> HIDE DEF Good
  <2> QED
    BY <1>3, <2>1
<1>7. ASSUME NEW set, NEW token
      PROVE  First(SubmitSpans(set, token))
  BY <1>3 DEF SubmitSpans
<1>8. ASSUME NEW m, NEW p \in Concerns(m)
      PROVE  p \in NewPairs(m) \/ \E a \in SentBy(m) : IsAttachment(a) /\ p[2] = a.parent
  BY <1>8 DEF Concerns, Owner
<1>9. ASSUME NEW s \in SpanId, Attach(t, s)
      PROVE  Good(todo'[t])
  <2> DEFINE set == <<Raw(nextRaw, NoParent, "Attachment")>>
             token == IssueCollectToken(s)
  <2>1. s \in DOMAIN spans /\ spans[s].live /\ nextRaw \in SpanId /\ s \in before
    BY <1>1, <1>9, <1>a DEF Attach, MayUse, Live, SpansOK, SpanId, Past
  <2>2. set \in Seq(RawSpan) /\ \A raw \in ToSet(set) : raw.kind = "Attachment" /\ raw.parent = NoParent
    <3>1. Raw(nextRaw, NoParent, "Attachment") \in RawSpan
      BY <2>1 DEF Raw, RawSpan, Parent, Kind
    <3>2. ToSet(set) = {Raw(nextRaw, NoParent, "Attachment")}
      BY ShortRanges
    <3> QED
      BY <3>1, <3>2 DEF Raw
  <2>3. token \in Seq(TokenItem) /\ \A item \in ToSet(token) : item.parent = s
    <3>1. token \in Seq(TokenItem)
      BY <1>1, <2>1, IssueTokenType
    <3>2. \A i \in DOMAIN token : token[i].parent = s
      BY DEF IssueCollectToken, Item
    <3> HIDE DEF token
    <3> QED
      BY <3>1, <3>2 DEF ToSet
  <2>4. todo'[t] = SubmitSpans(set, token)
    BY <1>1, <1>9 DEF Attach, Issue
  <2> HIDE DEF set, token
  <2>5. ASSUME NEW m \in ToSet(todo'[t])
        PROVE  NewPairs(m) = {} /\ \A a \in SentBy(m) : a.parent = s
    BY <2>2, <2>3, <2>4, SubmitContents
  <2>6. \A m \in ToSet(todo'[t]) : \A p \in Concerns(m) : p[2] = s
    BY <1>8, <2>5
  <2> QED
    BY <1>7, <2>1, <2>4, <2>5, <2>6
<1>10. ASSUME NEW s \in SpanId, PushChildSpans(t, s)
      PROVE  Good(todo'[t])
  <2>0. PICK n : n = nextRaw
    OBVIOUS
  <2> DEFINE set == <<Raw(n, NoParent, "Span"), Raw(n + 1, n, "Attachment")>>
             token == IssueCollectToken(s)
  <2>1. s \in DOMAIN spans /\ n \in SpanId /\ n + 1 \in SpanId /\ n # NoParent
    BY <1>1, <1>10, <2>0, CollectorAssumption DEF PushChildSpans, MayUse, Live, SpansOK, SpanId, NoParent
  <2>2. /\ set \in Seq(RawSpan)
        /\ \A raw \in ToSet(set) : /\ raw.kind = "Span" => raw.id = n
                                   /\ raw.kind = "Attachment" => raw.parent = n
    <3> DEFINE x == Raw(n, NoParent, "Span")
               y == Raw(n + 1, n, "Attachment")
    <3>1. x \in RawSpan /\ y \in RawSpan
      BY <2>1 DEF Raw, RawSpan, Parent, Kind
    <3>2. x.kind = "Span" /\ x.id = n /\ y.kind = "Attachment" /\ y.parent = n
      BY DEF Raw
    <3>3. set = <<x, y>>
      OBVIOUS
    <3> HIDE DEF x, y
    <3>4. <<x, y>> \in Seq(RawSpan) /\ ToSet(<<x, y>>) = {x, y}
      BY <3>1 DEF ToSet
    <3> QED
      BY <3>2, <3>3, <3>4
  <2>3. token \in Seq(TokenItem)
    BY <1>1, <2>1, IssueTokenType
  <2>4. todo'[t] = SubmitSpans(set, token)
    BY <1>1, <1>10, <2>0 DEF PushChildSpans, Issue
  <2>5. n \in before /\ n \in after
    <3>1. UNCHANGED spans /\ nextRaw' = nextRaw + 2 /\ nextRaw \in Nat /\ nextRaw \notin DOMAIN spans
      BY <1>1, <1>10 DEF PushChildSpans, SpansOK
    <3>2. n \in Nat /\ n < nextRaw' /\ ~(n < nextRaw) /\ n \notin DOMAIN spans'
      BY <2>0, <3>1
    <3> QED
      BY <1>a, <3>2 DEF Past
  <2> HIDE DEF set, token
  <2>6. ASSUME NEW m \in ToSet(todo'[t])
        PROVE  /\ \A p \in NewPairs(m) : p[2] = n
               /\ \A a \in SentBy(m) : IsAttachment(a) => a.parent = n
    BY <2>1, <2>2, <2>3, <2>4, SubmitContents DEF IsAttachment
  <2>7. \A m \in ToSet(todo'[t]) : \A p \in Concerns(m) : p[2] = n
    BY <1>8, <2>6
  <2> QED
    BY <1>7, <2>4, <2>5, <2>6, <2>7
<1>11. ASSUME NEW s \in SpanId, DropSpan(t, s)
      PROVE  Good(todo'[t])
  <2>1. s \in DOMAIN spans /\ spans[s].live /\ todo'[t] = SpanDropped(s) /\ spans[s] \in SpanObject
    BY <1>1, <1>11 DEF DropSpan, Issue, MayUse, Live, SpansOK
  <2>2. spans[s].token \in Seq(TokenItem) /\ spans[s].collect \in AnyTrace \cup {-1}
    BY <2>1 DEF SpanObject
  <2> DEFINE set == <<Raw(s, NoParent, "Span")>>
             a == SubmitSpans(set, spans[s].token)
             b == IF spans[s].collect = -1 THEN <<>> ELSE <<CommitCollect(spans[s].collect)>>
  <2>3. set \in Seq(RawSpan) /\ \A raw \in ToSet(set) : raw.kind = "Span" /\ raw.id = s
    <3>1. Raw(s, NoParent, "Span") \in RawSpan
      BY DEF Raw, RawSpan, Parent, Kind
    <3>2. ToSet(set) = {Raw(s, NoParent, "Span")}
      BY ShortRanges
    <3> QED
      BY <3>1, <3>2 DEF Raw
  <2>4. SpanDropped(s) = a \o b
    BY DEF SpanDropped
  <2> HIDE DEF set
  <2>5. a \in Seq(Command) /\ (a = <<>> \/ \E m \in Command : m.cmd = "submit" /\ a = <<m>>)
    BY <2>2, <2>3, SubmitSpansType
  <2>6. b \in Seq(Command) /\ \A i \in DOMAIN b : b[i].cmd # "submit"
    <3>1. CASE spans[s].collect = -1
      BY <3>1, ShortRanges
    <3>2. CASE spans[s].collect # -1
      <4>1. /\ CommitCollect(spans[s].collect) \in Command /\ CommitCollect(spans[s].collect).cmd # "submit"
            /\ b = <<CommitCollect(spans[s].collect)>>
        BY <2>2, <3>2 DEF CommitCollect, Command
      <4> HIDE DEF b
      <4> QED
        BY <4>1
    <3> QED
      BY <3>1, <3>2
  <2>7. ASSUME NEW m \in ToSet(a)
        PROVE  \A p \in Concerns(m) : p[2] = s
    <3>1. \A p \in NewPairs(m) : p[2] = s
      BY <2>2, <2>3, <2>7, SubmitContents
    <3>2. \A x \in SentBy(m) : ~IsAttachment(x)
      BY <2>2, <2>3, <2>7, SubmitContents DEF IsAttachment
    <3> QED
      BY <1>8, <3>1, <3>2
  <2> HIDE DEF a, b
  <2>8. First(a \o b)
    <3>1. /\ a \o b \in Seq(Command) /\ DOMAIN (a \o b) = 1 .. Len(a) + Len(b)
          /\ \A i \in 1 .. Len(a) + Len(b) : (a \o b)[i] = IF i <= Len(a) THEN a[i] ELSE b[i - Len(a)]
      BY <2>5, <2>6, ConcatProperties, LenProperties
    <3>2. Len(a) \in Nat /\ Len(a) <= 1 /\ Len(b) \in Nat /\ DOMAIN b = 1 .. Len(b)
      <4>1. Len(<<>>) = 0 /\ \A m : Len(<<m>>) = 1
        OBVIOUS
      <4>2. Len(a) = 0 \/ Len(a) = 1
        BY <2>5, <4>1
      <4> QED
        <5>1. Len(b) \in Nat /\ DOMAIN b = 1 .. Len(b)
          BY <2>6, LenProperties
        <5>2. Len(a) \in Nat /\ Len(a) <= 1
          <6>1. PICK k : k = Len(a)
            OBVIOUS
          <6>2. k = 0 \/ k = 1
            BY <4>2, <6>1
          <6> QED
            BY <6>1, <6>2
        <5> QED
          BY <5>1, <5>2
    <3>3. ASSUME NEW i \in DOMAIN (a \o b), i # 1
          PROVE  (a \o b)[i].cmd # "submit"
      <4>1. i \in 1 .. Len(a) + Len(b) /\ ~(i <= Len(a)) /\ i - Len(a) \in DOMAIN b
        BY <3>1, <3>2, <3>3
      <4>2. (a \o b)[i] = b[i - Len(a)]
        BY <3>1, <4>1
      <4> QED
        BY <2>6, <4>1, <4>2
    <3> QED
      BY <3>3
  <2>9. ASSUME NEW m \in ToSet(a \o b), NEW p \in Concerns(m)
        PROVE  p[2] = s
    <3>1. ToSet(a \o b) = ToSet(a) \cup ToSet(b)
      BY <2>5, <2>6, ConcatRange
    <3>2. \A x \in ToSet(b) : x.cmd # "submit"
      BY <2>6 DEF ToSet
    <3>3. m \in ToSet(a)
      BY <1>2, <2>9, <3>1, <3>2
    <3> QED
      BY <2>7, <2>9, <3>3
  <2>10. s \in before /\ s \in after
    <3>1. spans' = [spans EXCEPT ![s].live = FALSE] /\ nextRaw' = nextRaw
      BY <1>11 DEF DropSpan
    <3>2. DOMAIN spans' = DOMAIN spans /\ ~spans'[s].live
      BY <2>1, <3>1 DEF SpanObject
    <3>3. s < nextRaw /\ s \in Nat
      BY <1>1, <2>1 DEF SpansOK, SpanId
    <3> QED
      BY <1>a, <2>1, <3>1, <3>2, <3>3 DEF Past
  <2>11. \A m : NewPairs(m) \subseteq Concerns(m)
    BY DEF Concerns
  <2> QED
    BY <2>1, <2>4, <2>8, <2>9, <2>10, <2>11
<1> QED
  <2> HIDE DEF Good
  <2>1. Good(todo'[t])
    BY <1>4, <1>5, <1>6, <1>9, <1>10, <1>11 DEF Call
  <2>2. /\ First(todo'[t])
        /\ \A m \in ToSet(todo'[t]) : \A p \in NewPairs(m) : p[2] \in after
        /\ \A m \in ToSet(todo'[t]) : \A p \in Concerns(m) : p[2] \in before
    BY <2>1 DEF Good
  <2>3. \A s \in before : ~Past(s)
    BY <1>a
  <2>4. \A s \in after : Past(s)'
    BY <1>a
  <2>5. \A m : NewPairs(m) \subseteq Concerns(m)
    BY DEF Concerns
  <2> QED
    BY <2>2, <2>3, <2>4, <2>5

\* What has passed stays so.
LEMMA PastStays ==
  ASSUME TypeInv, SeenOK, [Next]_vars, NEW s \in SpanId, Past(s)
  PROVE  Past(s)'
PROOF
<1>1. CASE \E t \in Thread : Call(t)
  <2>1. PICK t \in Thread : Call(t)
    BY <1>1
  <2>2. SpansOK /\ nextRaw \in Nat
    BY DEF TypeInv, SpansOK
  <2>3. nextRaw' = nextRaw \/ nextRaw' = nextRaw + 1 \/ nextRaw' = nextRaw + 2
    BY <2>1 DEF Call, Root, UnsampledRoot, Child, Attach, PushChildSpans, Cancel, DropSpan
  <2>4. s < nextRaw /\ s < nextRaw' /\ s # nextRaw
    BY <2>2, <2>3 DEF Past, SpanId
  <2>5. s \in DOMAIN spans' => s \in DOMAIN spans /\ ~spans'[s].live
    <3>1. CASE UNCHANGED spans
      BY <3>1 DEF Past
    <3>2. ASSUME NEW r \in DOMAIN spans, spans' = [spans EXCEPT ![r].live = FALSE]
          PROVE  s \in DOMAIN spans' => s \in DOMAIN spans /\ ~spans'[s].live
      <4>1. \A q \in DOMAIN spans : spans[q] \in SpanObject
        BY <2>2 DEF SpansOK
      <4> QED
        BY <3>2, <4>1 DEF SpanObject, Past
    <3>3. ASSUME NEW token \in Seq(TokenItem), NEW c \in AnyTrace \cup {-1},
                 nextRaw <= MaxRaw, nextRaw' = nextRaw + 1, NewSpan(t, token, c)
          PROVE  s \in DOMAIN spans' => s \in DOMAIN spans /\ ~spans'[s].live
      <4>1. DOMAIN spans' = DOMAIN spans \cup {nextRaw} /\ \A q \in DOMAIN spans : spans'[q] = spans[q]
        BY <2>2, <3>3, NewSpanType
      <4> QED
        BY <2>4, <4>1 DEF Past
    <3> QED
      BY <2>1, <3>1, <3>2, <3>3, CallSpans
  <2> QED
    BY <2>4, <2>5 DEF Past
<1>2. CASE ~ \E t \in Thread : Call(t)
  <2>1. UNCHANGED <<spans, nextRaw>>
    BY <1>2, OtherStepsAdd
  <2> QED
    BY <2>1 DEF Past
<1> QED
  BY <1>1, <1>2

\* What a submission holds is of its traces.
LEMMA SentTraces ==
  ASSUME NEW m \in Command, NEW a \in SentBy(m)
  PROVE  a \in Amended(CollectId) /\ a.trace \in CollectId \cap Traces(m) /\ m.cmd = "submit"
PROOF
<1>1. m.cmd = "submit"
  BY DEF SentBy
<1>2. /\ Copies(m) \in Seq(Coll(CollectId))
      /\ ToSet(Copies(m)) = {[set |-> m.set, trace |-> item.collect, parent |-> item.parent] : item \in ToSet(m.token)}
      /\ ToSet(AmendAll(Copies(m))) \subseteq Amended(CollectId)
  BY <1>1, CopiesType, SubmitSends
<1>3. a \in UNION {ToSet(Amend(coll)) : coll \in ToSet(Copies(m))} /\ a \in Amended(CollectId)
  BY <1>1, <1>2, AmendAllType DEF SentBy
<1>4. PICK coll \in ToSet(Copies(m)) : a \in ToSet(Amend(coll))
  BY <1>3
<1>5. coll \in Coll(CollectId)
  BY <1>2, ElementOfSeq, LenProperties DEF ToSet
<1>6. a.trace = coll.trace
  BY <1>4, <1>5, AmendType
<1>7. coll.trace \in Traces(m)
  BY <1>1, <1>2 DEF Traces
<1> QED
  BY <1>1, <1>3, <1>6, <1>7 DEF Amended

\* The attachments that have to be mounted when a channel accepts a command:
\* those of the spans it submits before the trace is committed.
LEMMA MountGrows ==
  ASSUME SeenOK, NEW m \in Command, seen' = Record(m), NEW a \in seen'.mount
  PROVE  \/ a \in seen.mount
         \/ a \in seen'.sent /\ IsAttachment(a) /\ Owner(a) \in NewPairs(m) /\ a.trace \notin seen.committed
PROOF
<1>1. CASE m.cmd = "submit"
  <2> DEFINE new == ToSet(AmendAll(Copies(m)))
             open == {x \in new : IsSpan(x) /\ x.trace \notin seen.committed}
             more == {x \in seen.sent \cup new : IsAttachment(x) /\ <<x.trace, x.parent>> \in {Pair(y) : y \in open}}
             add == IF Cancelable THEN seen.owed ELSE seen.owed \cup {Pair(x) : x \in {y \in new : IsSpan(y)}}
  <2>1. seen' = [seen EXCEPT !.sent = seen.sent \cup new, !.owed = add, !.mount = seen.mount \cup more]
    BY <1>1 DEF Record
  <2>2. seen'.mount = seen.mount \cup more
    <3> HIDE DEF add, more, new
    <3> QED
      BY <2>1 DEF SeenOK
  <2>3. CASE a \in more
    <3>1. IsAttachment(a) /\ <<a.trace, a.parent>> \in {Pair(y) : y \in open}
      BY <2>3
    <3>2. PICK y \in open : <<a.trace, a.parent>> = Pair(y)
      BY <3>1
    <3>3. y \in new /\ IsSpan(y) /\ y.trace \notin seen.committed /\ y.trace = a.trace
      BY <3>2 DEF Pair
    <3>4. Owner(a) \in {Pair(x) : x \in {z \in new : IsSpan(z)}}
      <4> HIDE DEF new, open
      <4> QED
        BY <3>2, <3>3 DEF Owner
    <3>5. Owner(a) \in NewPairs(m)
      BY <1>1, <3>4, SubmitSends DEF NewPairs
    <3>6. a \in seen'.sent
      <4>1. a \in seen.sent \cup new
        BY <2>3
      <4> HIDE DEF new, more, add
      <4> QED
        BY <2>1, <4>1 DEF SeenOK
    <3> HIDE DEF new, more, open
    <3> QED
      BY <3>1, <3>3, <3>5, <3>6
  <2> HIDE DEF more
  <2> QED
    BY <2>2, <2>3
<1>2. CASE m.cmd # "submit"
  <2>1. seen'.mount = seen.mount
    <3>1. CASE m.cmd = "commit"
      <4> DEFINE u == seen.committed \cup {m.collect}
                 v == IF Cancelable /\ m.collect \in seen.started \ seen.cancelled
                      THEN seen.owed \cup {Pair(x) : x \in {y \in seen.sent : IsSpan(y) /\ y.trace = m.collect}}
                      ELSE seen.owed
      <4>1. seen' = [seen EXCEPT !.committed = u, !.owed = v]
        BY <3>1 DEF Record
      <4> HIDE DEF u, v
      <4> QED
        BY <4>1 DEF SeenOK
    <3> QED
      BY <1>2, <3>1, CommandShape DEF Record, SeenOK
  <2> QED
    BY <2>1
<1> QED
  BY <1>1, <1>2

\* What a batch gives the reporter or the collectors was in it, or a collector's.
LEMMA BatchBrings ==
  ASSUME TypeInv, ProcessBatch, NEW q,
         q \in Got' \ Got \/ \E c \in DOMAIN active' : q \in PairsOf(ToSet(active'[c].colls))
  PROVE  \/ \E m \in ToSet(batch) : q \in NewPairs(m)
         \/ q[1] \in DOMAIN active /\ q \in PairsOf(ToSet(active[q[1]].colls))
PROOF
<1>1. CollectorsOK /\ batch \in Seq(Command)
  BY DEF TypeInv, ReceiversOK
<1>2. ASSUME NEW coll \in SubmittedBy(ToSet(batch)), q \in PairsOf({coll})
      PROVE  \E m \in ToSet(batch) : q \in NewPairs(m)
  <2>1. PICK m \in ToSet(batch) : m.cmd = "submit" /\ coll \in ToSet(Copies(m))
    BY DEF SubmittedBy
  <2>2. q \in PairsOf(ToSet(Copies(m)))
    BY <1>2, <2>1, PairsOfMember
  <2> QED
    BY <2>1, <2>2 DEF NewPairs
<1>3. ASSUME NEW c \in StartedTraces, q \in PairsOf(HeldBy(c))
      PROVE  \/ \E m \in ToSet(batch) : q \in NewPairs(m)
             \/ q[1] \in DOMAIN active /\ q \in PairsOf(ToSet(active[q[1]].colls))
  <2>1. q[1] = c
    BY <1>3, HeldTraces
  <2>2. PICK coll \in HeldBy(c) : q \in PairsOf({coll})
    BY <1>3, PairsOfMember
  <2>3. CASE coll \in SubmittedBy(ToSet(batch))
    BY <1>2, <2>2, <2>3
  <2>4. CASE c \notin Ids("start") /\ coll \in ToSet(active[c].colls)
    <3>1. c \in DOMAIN active
      BY <2>4 DEF StartedTraces
    <3>2. q \in PairsOf(ToSet(active[c].colls))
      BY <2>2, <2>4, PairsOfMember
    <3> QED
      BY <2>1, <3>1, <3>2
  <2> QED
    BY <2>3, <2>4 DEF HeldBy
<1>4. CASE q \in Got' \ Got
  <2>1. CASE Cancelable
    <3>1. PICK c \in StartedTraces : q \in PairsOf(HeldBy(c))
      BY <1>4, <2>1, BatchEffect
    <3> QED
      BY <1>3, <3>1
  <2>2. CASE ~Cancelable
    <3>1. \/ \E c \in StartedTraces : q \in PairsOf(HeldBy(c))
          \/ q \in PairsOf({x \in SubmittedBy(ToSet(batch)) : x.trace \notin StartedTraces})
      BY <1>4, <2>2, BatchEffect
    <3>2. CASE q \in PairsOf({x \in SubmittedBy(ToSet(batch)) : x.trace \notin StartedTraces})
      <4>1. PICK coll \in {x \in SubmittedBy(ToSet(batch)) : x.trace \notin StartedTraces} : q \in PairsOf({coll})
        BY <3>2, PairsOfMember
      <4> QED
        BY <1>2, <4>1
    <3> QED
      BY <1>3, <3>1, <3>2
  <2> QED
    BY <2>1, <2>2
<1>5. ASSUME NEW c \in DOMAIN active', q \in PairsOf(ToSet(active'[c].colls))
      PROVE  \/ \E m \in ToSet(batch) : q \in NewPairs(m)
             \/ q[1] \in DOMAIN active /\ q \in PairsOf(ToSet(active[q[1]].colls))
  <2>1. c \in StartedTraces /\ active' = StillActive(Filled, Outcomes(Filled))
    BY BatchEffect DEF ProcessBatch
  <2>2. CASE Cancelable
    <3>1. ToSet(active'[c].colls) = HeldBy(c)
      BY <2>2, BatchEffect
    <3> QED
      BY <1>3, <1>5, <2>1, <3>1
  <2>3. CASE ~Cancelable
    <3>1. active'[c] = [colls |-> <<>>, danglings |-> Outcomes(Filled)[c].danglings]
      BY <2>1, <2>3 DEF StillActive
    <3>2. active'[c].colls = <<>> /\ ToSet(<<>>) = {}
      BY <3>1, ShortRanges
    <3> QED
      BY <1>5, <3>2, PairsOfMember
  <2> QED
    BY <2>2, <2>3
<1> QED
  BY <1>4, <1>5

\* What is in flight, held or reported was submitted, by spans that have ended;
\* what a call has still to submit was not.
PairInv ==
  /\ \A p \in SentPairs : Past(p[2])
  /\ \A t \in Thread : \A i \in DOMAIN todo[t] : todo[t][i].cmd = "submit" => i = 1
  /\ \A t \in Thread : \A m \in ToSet(todo[t]) : /\ \A p \in NewPairs(m) : Past(p[2])
                                                 /\ \A p \in Concerns(m) : p \notin SentPairs
  /\ \A t \in Thread : \A m \in ToSet(Ring(t)) : NewPairs(m) \subseteq SentPairs
  /\ \A m \in ToSet(batch) : NewPairs(m) \subseteq SentPairs
  /\ Got \subseteq SentPairs
  /\ \A c \in DOMAIN active : PairsOf(ToSet(active[c].colls)) \subseteq SentPairs
  /\ \A a \in seen.sent : a.trace \in Known

\* A span on its way is named by its trace and its id.
LEMMA SentPairType == SeenOK => SentPairs \subseteq SpanPair
PROOF
  BY DEF SeenOK, SentPairs, Pair, Amended, SpanPair

\* A pair or an attachment is of its command's traces.
LEMMA ConcernTraces ==
  ASSUME NEW m \in Command, NEW p \in Concerns(m)
  PROVE  p[1] \in CollectId \cap Traces(m) /\ m.cmd = "submit"
PROOF
<1>1. CASE p \in NewPairs(m)
  BY <1>1, PairTraces DEF NewPairs, SpanPair
<1>2. ASSUME NEW a \in SentBy(m), p = Owner(a)
      PROVE  p[1] \in CollectId \cap Traces(m) /\ m.cmd = "submit"
  BY <1>2, SentTraces DEF Owner
<1> QED
  BY <1>1, <1>2 DEF Concerns

\* Only a call makes a submission, of spans that end with it; what it concerns
\* was not submitted before, and reaches the collector once it is.
LEMMA NextPairs == HomeFlow /\ PairInv /\ [Next]_vars => PairInv'
PROOF
<1> SUFFICES ASSUME HomeFlow, PairInv, [Next]_vars
             PROVE  PairInv'
  OBVIOUS
<1>1. TypeInv /\ SeenOK /\ FlowInv /\ RootInv /\ HomeInv
  BY DEF HomeFlow, FlowInv
<1>2. \A s \in SpanId : Past(s) => Past(s)'
  BY <1>1, PastStays
<1>3. SentPairs \subseteq SpanPair
  BY <1>1, SentPairType
<1>4. \A p \in SpanPair : Past(p[2]) => Past(p[2])'
  BY <1>2 DEF SpanPair, Past
<1>5. CASE \E t \in Thread : Call(t)
  <2>1. PICK t \in Thread : Call(t)
    BY <1>5
  <2>2. /\ UNCHANGED <<chan, batch, active, reported, seen>>
        /\ \A u \in Thread \ {t} : todo'[u] = todo[u]
    BY <1>1, <2>1, CallType DEF collVars
  <2>3. SentPairs' = SentPairs /\ Got' = Got /\ \A u : Ring(u)' = Ring(u)
    BY <2>2 DEF SentPairs, Got, Ring
  <2>4. \A p \in SentPairs : Past(p[2]) /\ Past(p[2])'
    BY <1>3, <1>4 DEF PairInv
  <2>5. \A u \in Thread : \A i \in DOMAIN (todo'[u]) : (todo'[u])[i].cmd = "submit" => i = 1
    BY <1>1, <2>1, <2>2, CallTells DEF PairInv
  <2>6. ASSUME NEW u \in Thread, NEW m \in ToSet(todo'[u])
        PROVE  /\ \A p \in NewPairs(m) : Past(p[2])'
               /\ \A p \in Concerns(m) : p \notin SentPairs
    <3>1. CASE u = t
      <4>1. /\ \A p \in NewPairs(m) : Past(p[2])'
            /\ \A p \in Concerns(m) : ~Past(p[2])
        BY <1>1, <2>1, <2>6, <3>1, CallTells
      <4> QED
        BY <2>4, <4>1
    <3>2. CASE u # t
      <4>1. m \in ToSet(todo[u]) /\ m \in Command
        BY <1>1, <2>2, <2>6, <3>2, CommandSeqs
      <4>2. NewPairs(m) \subseteq SpanPair
        BY <4>1, PairTraces
      <4> QED
        BY <1>4, <4>1, <4>2 DEF PairInv
    <3> QED
      BY <3>1, <3>2
  <2>7. \A a \in seen.sent : a.trace \in Known'
    BY <1>1, <2>1, SpansAfter DEF PairInv
  <2> QED
    BY <2>2, <2>3, <2>4, <2>5, <2>6, <2>7 DEF PairInv
<1>6. CASE ~ \E t \in Thread : Call(t)
  <2>1. UNCHANGED <<spans, nextRaw, nextRoot>>
    BY <1>1, <1>6, OtherSteps, OtherStepsAdd
  <2>2. Known' = Known /\ \A s : Past(s)' = Past(s)
    BY <2>1 DEF Known, Past
  <2>3. CASE NothingMoves
    <3>1. UNCHANGED <<todo, batch, active, reported>> /\ \A t \in Thread : Ring(t)' = Ring(t)
      BY <2>3 DEF NothingMoves
    <3>2. PICK f \in [Thread -> SUBSET SpanPair] : seen' = [seen EXCEPT !.asked = f]
      BY <2>3 DEF NothingMoves
    <3>3. seen'.sent = seen.sent
      BY <1>1, <3>2 DEF SeenOK
    <3>4. SentPairs' = SentPairs /\ Got' = Got
      BY <3>1, <3>3 DEF SentPairs, Got
    <3> QED
      BY <2>2, <3>1, <3>3, <3>4 DEF PairInv
  <2>4. CASE ProcessBatch
    <3>1. UNCHANGED <<todo, chan>> /\ batch' = <<>> /\ ToSet(batch') = {}
      BY <2>4, ShortRanges DEF ProcessBatch
    <3>2. seen'.sent = seen.sent
      BY <1>1, <2>4, BatchHistory
    <3>3. SentPairs' = SentPairs /\ \A t \in Thread : Ring(t)' = Ring(t)
      BY <3>1, <3>2 DEF SentPairs, Ring
    <3>4. ASSUME NEW q, q \in Got' \ Got \/ \E c \in DOMAIN active' : q \in PairsOf(ToSet(active'[c].colls))
          PROVE  q \in SentPairs
      BY <1>1, <2>4, <3>4, BatchBrings DEF PairInv
    <3>5. Got' \subseteq SentPairs
      BY <3>4 DEF PairInv
    <3> QED
      BY <2>2, <3>1, <3>2, <3>3, <3>4, <3>5 DEF PairInv
  <2>5. ASSUME NEW t \in Thread, Pushes(t) \/ Parks(t) \/ Loses(t)
        PROVE  PairInv'
    <3>1. Takes(t)
      BY <2>5 DEF Pushes, Parks, Loses
    <3>2. /\ Cmd(t) \in Command /\ todo[t] # <<>> /\ todo'[t] = Tail(todo[t]) /\ Cmd(t) = todo[t][1]
          /\ ToSet(todo[t]) = {Cmd(t)} \cup ToSet(todo'[t])
          /\ \A u \in Thread \ {t} : todo'[u] = todo[u]
          /\ UNCHANGED <<batch, active, reported>>
      BY <1>1, <3>1, TakesSets DEF Cmd
    <3>3. \A i \in DOMAIN (todo'[t]) : (todo'[t])[i].cmd # "submit"
      <4>1. todo[t] \in Seq(Command)
        BY <1>1, CommandSeqs
      <4>2. DOMAIN Tail(todo[t]) \subseteq Nat \ {0} /\ \A i \in DOMAIN Tail(todo[t]) : i + 1 \in DOMAIN todo[t] /\ Tail(todo[t])[i] = todo[t][i + 1]
        BY <3>2, <4>1, LenProperties
      <4>3. \A i \in DOMAIN todo[t] : todo[t][i].cmd = "submit" => i = 1
        BY DEF PairInv
      <4>4. ASSUME NEW i \in DOMAIN Tail(todo[t])
            PROVE  Tail(todo[t])[i].cmd # "submit"
        <5>1. i + 1 \in DOMAIN todo[t] /\ i + 1 # 1 /\ Tail(todo[t])[i] = todo[t][i + 1]
          BY <4>2
        <5> QED
          BY <4>3, <5>1
      <4> QED
        BY <3>2, <4>4
    <3>4. \A m \in ToSet(todo'[t]) : m.cmd # "submit"
      BY <3>3 DEF ToSet
    <3>5. \A m \in ToSet(todo'[t]) : NewPairs(m) = {} /\ Concerns(m) = {}
      BY <3>4 DEF NewPairs, Concerns, SentBy
    <3>6. Got' = Got
      BY <3>2 DEF Got
    <3>7. /\ \A u \in Thread \ {t} : Ring(u)' = Ring(u)
          /\ ToSet(Ring(t)') \subseteq ToSet(Ring(t)) \cup {Cmd(t)}
      <4>1. \A u \in Thread \ {t} : Ring(u)' = Ring(u)
        BY <3>1 DEF Takes
      <4>2. Ring(t) \in Seq(Command)
        BY <1>1, CommandSeqs
      <4>3. Ring(t)' = Ring(t) \/ Ring(t)' = Append(Ring(t), Cmd(t))
        BY <2>5 DEF Pushes, Parks, Loses
      <4> QED
        <5>1. ToSet(Append(Ring(t), Cmd(t))) = ToSet(Ring(t)) \cup {Cmd(t)}
          BY <3>2, <4>2, AppendRange
        <5> QED
          BY <4>1, <4>3, <5>1
    <3>8. \A u \in Thread : \A i \in DOMAIN (todo'[u]) : (todo'[u])[i].cmd = "submit" => i = 1
      BY <3>2, <3>3 DEF PairInv
    <3>9. CASE Loses(t)
      <4>1. seen' = seen /\ SentPairs' = SentPairs /\ \A u \in Thread : Ring(u)' = Ring(u)
        BY <3>7, <3>9 DEF SentPairs, Loses
      <4>2. \A u \in Thread : \A m \in ToSet(todo'[u]) : m \in ToSet(todo[u])
        BY <3>2
      <4> QED
        BY <2>2, <3>2, <3>6, <3>8, <4>1, <4>2 DEF PairInv
    <3>10. CASE Pushes(t) \/ Parks(t)
      <4>1. seen' = Record(Cmd(t))
        BY <3>10 DEF Pushes, Parks
      <4>2. SentPairs' = SentPairs \cup NewPairs(Cmd(t)) /\ seen'.sent = seen.sent \cup SentBy(Cmd(t))
        BY <1>1, <3>2, <4>1, SentGrows, RecordEffect
      <4>3. \A p \in NewPairs(Cmd(t)) : Past(p[2])
        BY <3>2 DEF PairInv
      <4>4. ASSUME NEW u \in Thread, NEW m \in ToSet(todo'[u])
            PROVE  /\ \A p \in NewPairs(m) : Past(p[2])
                   /\ \A p \in Concerns(m) : p \notin SentPairs'
        <5>1. CASE u = t
          BY <3>5, <4>4, <5>1
        <5>2. CASE u # t
          <6>1. m \in ToSet(todo[u]) /\ m \in Command /\ m \in Held(u) /\ Cmd(t) \in Held(t)
            BY <1>1, <3>2, <4>4, <5>2, CommandSeqs DEF Held
          <6>2. ASSUME NEW p \in Concerns(m), p \in NewPairs(Cmd(t))
                PROVE  FALSE
            <7>1. p[1] \in CollectId /\ p[1] \in Traces(m)
              BY <6>1, ConcernTraces
            <7>2. p[1] \in Traces(Cmd(t))
              BY <3>2, <6>2, PairTraces
            <7>3. Homed(p[1], u) /\ Homed(p[1], t)
              BY <1>1, <6>1, <7>1, <7>2 DEF HomeInv
            <7> QED
              BY <1>1, <5>2, <7>1, <7>3, OneHome
          <6> QED
            BY <4>2, <6>1, <6>2 DEF PairInv
        <5> QED
          BY <5>1, <5>2
      <4>5. \A a \in seen'.sent : a.trace \in Known
        <5>1. Cmd(t) \in Held(t)
          BY <3>2 DEF Held
        <5>2. Traces(Cmd(t)) \subseteq Known
          BY <1>1, <5>1 DEF RootInv
        <5> QED
          BY <3>2, <4>2, <5>2, SentTraces DEF PairInv
      <4>6. \A u \in Thread : \A m \in ToSet(Ring(u)') : NewPairs(m) \subseteq SentPairs'
        BY <3>7, <4>2 DEF PairInv
      <4>7. SentPairs \subseteq SentPairs' /\ \A p \in SentPairs' : Past(p[2])
        BY <4>2, <4>3 DEF PairInv
      <4> QED
        BY <2>2, <3>2, <3>6, <3>8, <4>4, <4>5, <4>6, <4>7 DEF PairInv
    <3> QED
      BY <2>5, <3>9, <3>10
  <2>6. ASSUME NEW t \in Thread, Unparks(t)
        PROVE  PairInv'
    <3>1. UNCHANGED <<todo, batch, active, reported, seen>>
      BY <1>1, <2>6, UnparkSets
    <3>2. SentPairs' = SentPairs /\ Got' = Got
      BY <3>1 DEF SentPairs, Got
    <3>3. ASSUME NEW u \in Thread, NEW m \in ToSet(Ring(u)')
          PROVE  m \in ToSet(Ring(u)) \/ NewPairs(m) = {}
      <4>1. CASE u # t
        BY <2>6, <3>3, <4>1 DEF Unparks
      <4>2. CASE u = t
        <5>1. Ring(t)' = Ring(t) \/ \E x \in ToSet(Parked(t)) : Ring(t)' = Append(Ring(t), x)
          BY <2>6 DEF Unparks
        <5>2. ASSUME NEW x \in ToSet(Parked(t)), Ring(t)' = Append(Ring(t), x)
              PROVE  m \in ToSet(Ring(u)) \/ NewPairs(m) = {}
          <6>1. x \in Command /\ x.cmd # "submit"
            BY <1>1, ParkedForced
          <6>2. ToSet(Ring(t)') = ToSet(Ring(t)) \cup {x}
            BY <1>1, <5>2, <6>1, CommandSeqs, AppendRange
          <6> QED
            BY <3>3, <4>2, <6>1, <6>2 DEF NewPairs
        <5> QED
          BY <3>3, <4>2, <5>1, <5>2
      <4> QED
        BY <4>1, <4>2
    <3> QED
      BY <2>2, <3>1, <3>2, <3>3 DEF PairInv
  <2>7. ASSUME NEW t \in Thread, Receives(t)
        PROVE  PairInv'
    <3>1. UNCHANGED <<todo, active, reported, seen>>
      BY <1>1, <2>7, ReceiveSets
    <3>2. SentPairs' = SentPairs /\ Got' = Got
      BY <3>1 DEF SentPairs, Got
    <3>3. /\ \A u \in Thread : ToSet(Ring(u)') \subseteq ToSet(Ring(u))
          /\ \A m \in ToSet(batch') : m \in ToSet(batch) \/ m \in ToSet(Ring(t))
      BY <1>1, <2>7, ReceiveSets DEF Receives
    <3> QED
      BY <2>2, <3>1, <3>2, <3>3 DEF PairInv
  <2> QED
    BY <1>1, <1>6, <2>3, <2>4, <2>5, <2>6, <2>7, StepKinds
<1> QED
  BY <1>5, <1>6

\* At first nothing was submitted.
LEMMA InitPairs == Init => PairInv
PROOF
<1> SUFFICES ASSUME Init
             PROVE  PairInv
  OBVIOUS
<1>1. ToSet(<<>>) = {} /\ DOMAIN <<>> = {}
  BY ShortRanges
<1>2. seen.sent = {} /\ SentPairs = {}
  BY DEF Init, SentPairs
<1>3. Got = {} /\ DOMAIN active = {} /\ batch = <<>>
  BY DEF Init, Got, EmptyBag, SetToBag
<1>4. \A t \in Thread : todo[t] = <<>> /\ Ring(t) = <<>>
  BY DEF Init, Ring, NewChannel
<1> QED
  BY <1>1, <1>2, <1>3, <1>4 DEF PairInv

\* The start of a trace, once accepted, is on its way or was processed.
FoundInv == \A c \in seen.started : StartFound(c)

\* A start that was accepted goes from ring to batch to collector, which stays
\* until the trace is cancelled or committed.
LEMMA NextFound == FlowInv /\ FoundInv /\ [Next]_vars => FoundInv'
PROOF
<1> SUFFICES ASSUME FlowInv, FoundInv, [Next]_vars, NEW c \in seen'.started
             PROVE  StartFound(c)'
  BY DEF FoundInv
<1>1. TypeInv /\ SeenOK
  BY DEF FlowInv
<1>2. CASE NothingMoves \/ \E t \in Thread : Call(t) \/ Loses(t)
  <2>1. UNCHANGED <<batch, active>> /\ \A t \in Thread : Ring(t)' = Ring(t)
    BY <1>1, <1>2, CallType DEF NothingMoves, Loses, Takes, collVars, Ring
  <2>2. seen'.cancelled = seen.cancelled /\ seen'.done = seen.done /\ seen'.started = seen.started
    BY <1>1, <1>2, CallType DEF NothingMoves, Loses, SeenOK
  <2> QED
    BY <2>1, <2>2 DEF FoundInv, StartFound
<1>3. CASE ProcessBatch
  <2>1. DOMAIN active' = (DOMAIN active \cup Ids("start")) \ (Ids("drop") \cup Ids("commit"))
    BY <1>1, <1>3, BatchEffect DEF StartedTraces
  <2>2. /\ seen'.done = seen.done \cup Ids("commit")
        /\ seen'.cancelled = seen.cancelled /\ seen'.started = seen.started
    BY <1>1, <1>3, BatchHistory
  <2>3. \A t \in Thread : Ring(t)' = Ring(t)
    BY <1>3 DEF ProcessBatch, Ring
  <2>4. batch \in Seq(Command) /\ ToSet(batch) \subseteq Command
    BY <1>1, CommandSeqs
  <2>5. Ids("drop") \subseteq seen.cancelled
    <3>1. \A m \in ToSet(batch) : Accepted(m)
      BY DEF FlowInv, AcceptedInv
    <3> QED
      BY <2>4, <3>1, IdsMember DEF Accepted
  <2>6. StartCollect(c) \in ToSet(batch) => c \in Ids("start")
    BY <2>4, IdsMember DEF StartCollect
  <2> QED
    BY <2>1, <2>2, <2>3, <2>5, <2>6 DEF FoundInv, StartFound
<1>4. ASSUME NEW t \in Thread, Pushes(t) \/ Parks(t)
      PROVE  StartFound(c)'
  <2>1. Takes(t) /\ seen' = Record(Cmd(t))
    BY <1>4 DEF Pushes, Parks
  <2>2. Cmd(t) \in Command /\ UNCHANGED <<batch, active>> /\ \A u \in Thread \ {t} : Ring(u)' = Ring(u)
    BY <1>1, <2>1, TakesSets DEF Takes
  <2>3. /\ seen'.started = seen.started \cup IdIf(Cmd(t), "start")
        /\ seen.cancelled \subseteq seen'.cancelled /\ seen'.done = seen.done
    BY <1>1, <2>1, <2>2, RecordEffect
  <2>4. Ring(t) \in Seq(Command)
    BY <1>1, CommandSeqs
  <2>5. ToSet(Ring(t)) \subseteq ToSet(Ring(t)')
    <3>1. ToSet(Append(Ring(t), Cmd(t))) = ToSet(Ring(t)) \cup {Cmd(t)}
      BY <2>2, <2>4, AppendRange
    <3>2. Ring(t)' = Ring(t) \/ Ring(t)' = Append(Ring(t), Cmd(t))
      BY <1>4 DEF Pushes, Parks
    <3> QED
      BY <3>1, <3>2
  <2>6. CASE c \in seen.started
    BY <2>2, <2>3, <2>5, <2>6 DEF FoundInv, StartFound
  <2>7. CASE c \notin seen.started
    <3>1. Cmd(t).cmd = "start" /\ c = Cmd(t).collect
      BY <2>3, <2>7 DEF IdIf
    <3>2. Cmd(t) = StartCollect(c)
      BY <2>2, <3>1, CommandShape
    <3>3. Ring(t)' = Append(Ring(t), Cmd(t))
      BY <1>4, <3>1 DEF Pushes, Parks, Forced
    <3>4. StartCollect(c) \in ToSet(Ring(t)')
      BY <2>2, <2>4, <3>2, <3>3, AppendRange
    <3> QED
      BY <3>4 DEF StartFound
  <2> QED
    BY <2>6, <2>7
<1>5. ASSUME NEW t \in Thread, Unparks(t)
      PROVE  StartFound(c)'
  <2>1. UNCHANGED <<batch, active, seen>> /\ \A u \in Thread \ {t} : Ring(u)' = Ring(u)
    BY <1>1, <1>5, UnparkSets DEF Unparks
  <2>2. Ring(t) \in Seq(Command) /\ ToSet(Parked(t)) \subseteq Command
    BY <1>1, CommandSeqs
  <2>3. Ring(t)' = Ring(t) \/ \E m \in ToSet(Parked(t)) : Ring(t)' = Append(Ring(t), m)
    BY <1>5 DEF Unparks
  <2>4. ToSet(Ring(t)) \subseteq ToSet(Ring(t)')
    <3>1. \A m \in ToSet(Parked(t)) : ToSet(Append(Ring(t), m)) = ToSet(Ring(t)) \cup {m}
      BY <2>2, AppendRange
    <3> QED
      BY <2>3, <3>1
  <2> QED
    BY <2>1, <2>4 DEF FoundInv, StartFound
<1>6. ASSUME NEW t \in Thread, Receives(t)
      PROVE  StartFound(c)'
  <2>1. UNCHANGED <<active, seen>> /\ \A u \in Thread \ {t} : Ring(u)' = Ring(u)
    BY <1>1, <1>6, ReceiveSets DEF Receives
  <2>2. ToSet(Ring(t)) = {Head(Ring(t))} \cup ToSet(Ring(t)') /\ ToSet(batch') = ToSet(batch) \cup {Head(Ring(t))}
    BY <1>1, <1>6, ReceiveSets
  <2> QED
    BY <2>1, <2>2 DEF FoundInv, StartFound
<1> QED
  BY <1>1, <1>2, <1>3, <1>4, <1>5, <1>6, StepKinds

-----------------------------------------------------------------------------
(* The attachments of a span that is reported are on its record. *)

\* The batch brings the span.
Batched(p) == \E m \in ToSet(batch) : p \in NewPairs(m)

\* Neither the reporter nor the collector of its trace has it.
Untouched(p) == p \notin Got /\ (p[1] \in DOMAIN active => p \notin PairsOf(ToSet(active[p[1]].colls)))

\* The attachment is in the channel of t, not behind its span.
Leading(t, a) ==
  \E i \in DOMAIN Ring(t) :
     a \in SentBy(Ring(t)[i]) /\ \A j \in DOMAIN Ring(t) : j < i => Owner(a) \notin NewPairs(Ring(t)[j])

\* The collector will receive the attachment, not after its span.
Coming(a) ==
  /\ Untouched(Owner(a))
  /\ \/ \E m \in ToSet(batch) : a \in SentBy(m)
     \/ ~Batched(Owner(a)) /\ \E t \in Thread : Leading(t, a)

\* The span was dropped on its way, as its trace had no collector.
Missed(p) ==
  /\ p \in SentPairs /\ Untouched(p) /\ ~Batched(p)
  /\ \A t \in Thread : \A m \in ToSet(Ring(t)) : p \notin NewPairs(m)

\* Nothing of its trace is reported any more.
Shut(p) == Cancelable /\ p \notin Got /\ Gone(p[1])

\* What may become of an attachment: all but to be left off the record.
Safe(a) == Mounted(a) \/ Waits(a) \/ Coming(a) \/ Missed(Owner(a)) \/ Shut(Owner(a))

\* The span, where it is on its way, is not behind the commit of its trace.
InTime(p) ==
  /\ Batched(p) => p[1] \notin seen.done
  /\ \A t \in Thread : \A j \in DOMAIN Ring(t) : p \in NewPairs(Ring(t)[j]) =>
       /\ p[1] \notin seen.done /\ CommitCollect(p[1]) \notin ToSet(batch)
       /\ \A i \in DOMAIN Ring(t) : i < j => Ring(t)[i] # CommitCollect(p[1])

\* A span that was owed an attachment can still be reported only with it.
MountInv ==
  /\ \A a \in seen.mount : /\ a \in seen.sent /\ IsAttachment(a)
                           /\ Owner(a) \in SentPairs /\ InTime(Owner(a))
  /\ \A a \in seen.sent : IsAttachment(a) /\ (a \in seen.mount \/ a.trace \notin seen.committed) => Safe(a)

\* Of the cases of Safe, one is left for a span that is reported.
LEMMA MountKeeps == MountInv => AttachmentsKept
PROOF
<1> SUFFICES ASSUME MountInv, NEW a \in seen.mount, <<a.trace, a.parent>> \in Got
             PROVE  \E r \in DOMAIN reported : r.trace = a.trace /\ r.span = a.parent /\ a.id \in ToSet(r.events)
  BY DEF AttachmentsKept
<1>1. Safe(a) /\ Owner(a) \in Got
  BY DEF MountInv, Owner
<1>2. Mounted(a)
  BY <1>1 DEF Safe, Waits, Coming, Missed, Shut, Untouched
<1> QED
  BY <1>2 DEF Mounted

\* A command that joins a ring, or nothing: everything stays but for the spans
\* that it brings.
LEMMA RingsGrow ==
  ASSUME TypeInv, NEW t \in Thread, NEW m \in Command, UNCHANGED <<batch, active, reported>>,
         \A u \in Thread \ {t} : Ring(u)' = Ring(u),
         Ring(t)' = Ring(t) \/ Ring(t)' = Append(Ring(t), m)
  PROVE  /\ \A p : Untouched(p)' = Untouched(p) /\ Batched(p)' = Batched(p)
         /\ \A a : Mounted(a) \/ Waits(a) \/ Coming(a) => Mounted(a)' \/ Waits(a)' \/ Coming(a)'
         /\ \A p : p \notin NewPairs(m) /\ SentPairs \subseteq SentPairs' /\ Missed(p) => Missed(p)'
         /\ \A p : p \notin NewPairs(m) /\ seen'.done = seen.done /\ InTime(p) => InTime(p)'
PROOF
<1>1. Got' = Got
  BY DEF Got
<1>2. \A p : Untouched(p)' = Untouched(p) /\ Batched(p)' = Batched(p)
  BY <1>1 DEF Untouched, Batched
<1>3. \A a : Mounted(a)' = Mounted(a) /\ Waits(a)' = Waits(a)
  BY <1>1 DEF Mounted, Waits
<1>4. /\ DOMAIN Ring(t) \subseteq Nat /\ Len(Ring(t)) \in Nat
      /\ DOMAIN Ring(t) \subseteq DOMAIN (Ring(t)')
      /\ \A i \in DOMAIN Ring(t) : (Ring(t)')[i] = Ring(t)[i]
      /\ \A i \in DOMAIN (Ring(t)') : \/ i \in DOMAIN Ring(t)
                                      \/ (Ring(t)')[i] = m /\ \A j \in DOMAIN Ring(t) : j < i
  <2>1. DOMAIN Ring(t) \subseteq Nat /\ Len(Ring(t)) \in Nat
    BY RingMoves
  <2>2. CASE Ring(t)' = Ring(t)
    BY <2>1, <2>2
  <2>3. CASE Ring(t)' = Append(Ring(t), m)
    <3>1. /\ DOMAIN (Ring(t)') = DOMAIN Ring(t) \cup {Len(Ring(t)) + 1}
          /\ \A i \in DOMAIN Ring(t) : i < Len(Ring(t)) + 1 /\ (Ring(t)')[i] = Ring(t)[i]
          /\ (Ring(t)')[Len(Ring(t)) + 1] = m
      BY <2>3, RingMoves
    <3> QED
      BY <2>1, <3>1
  <2> QED
    BY <2>2, <2>3
<1>5. ASSUME NEW i \in DOMAIN Ring(t), NEW j \in DOMAIN (Ring(t)'), j < i
      PROVE  j \in DOMAIN Ring(t)
  <2>1. j \in DOMAIN Ring(t) \/ i < j
    BY <1>4
  <2>2. i \in Nat
    BY <1>4
  <2>3. CASE j \notin DOMAIN Ring(t)
    <3>1. Ring(t)' = Append(Ring(t), m)
      BY <2>3
    <3>2. j = Len(Ring(t)) + 1
      BY <2>3, <3>1, RingMoves
    <3> QED
      BY <1>4, <1>5, <2>1, <2>2, <3>2
  <2> QED
    BY <2>3
<1>6. ASSUME NEW a, NEW u \in Thread, Leading(u, a)
      PROVE  Leading(u, a)'
  <2>1. CASE u # t
    BY <1>6, <2>1 DEF Leading
  <2>2. CASE u = t
    <3>1. PICK i \in DOMAIN Ring(t) :
            a \in SentBy(Ring(t)[i]) /\ \A j \in DOMAIN Ring(t) : j < i => Owner(a) \notin NewPairs(Ring(t)[j])
      BY <1>6, <2>2 DEF Leading
    <3>2. i \in DOMAIN (Ring(t)') /\ a \in SentBy((Ring(t)')[i])
      BY <1>4, <3>1
    <3>3. \A j \in DOMAIN (Ring(t)') : j < i => Owner(a) \notin NewPairs((Ring(t)')[j])
      BY <1>4, <1>5, <3>1
    <3> QED
      BY <2>2, <3>2, <3>3 DEF Leading
  <2> QED
    BY <2>1, <2>2
<1>7. \A a : Coming(a) => Coming(a)'
  BY <1>2, <1>6 DEF Coming
<1>8. \A u \in Thread : \A x \in ToSet(Ring(u)') : x \in ToSet(Ring(u)) \/ x = m
  BY <1>4 DEF ToSet
<1>9. ASSUME NEW p, p \notin NewPairs(m), SentPairs \subseteq SentPairs', Missed(p)
      PROVE  Missed(p)'
  BY <1>2, <1>8, <1>9 DEF Missed
<1>10. ASSUME NEW p, p \notin NewPairs(m), seen'.done = seen.done, InTime(p)
       PROVE  InTime(p)'
  <2>1. ASSUME NEW u \in Thread, NEW j \in DOMAIN (Ring(u)'), p \in NewPairs((Ring(u)')[j])
        PROVE  /\ p[1] \notin seen.done /\ CommitCollect(p[1]) \notin ToSet(batch)
               /\ \A i \in DOMAIN (Ring(u)') : i < j => (Ring(u)')[i] # CommitCollect(p[1])
    <3>1. CASE u # t
      BY <1>10, <2>1, <3>1 DEF InTime
    <3>2. CASE u = t
      <4>1. j \in DOMAIN Ring(t) /\ p \in NewPairs(Ring(t)[j])
        BY <1>4, <1>10, <2>1, <3>2
      <4>2. /\ p[1] \notin seen.done /\ CommitCollect(p[1]) \notin ToSet(batch)
            /\ \A i \in DOMAIN Ring(t) : i < j => Ring(t)[i] # CommitCollect(p[1])
        BY <1>10, <4>1 DEF InTime
      <4> QED
        BY <1>4, <1>5, <3>2, <4>1, <4>2
    <3> QED
      BY <3>1, <3>2
  <2> QED
    BY <1>2, <1>10, <2>1 DEF InTime
<1> QED
  BY <1>2, <1>3, <1>7, <1>9, <1>10

\* A command received from the ring of t: its traces are at home there, so the
\* commands of a trace keep their order.
LEMMA RingShrinks ==
  ASSUME HomeFlow, NEW t \in Thread, Receives(t)
  PROVE  /\ \A a \in seen.sent : Mounted(a) \/ Waits(a) \/ Coming(a) => Mounted(a)' \/ Waits(a)' \/ Coming(a)'
         /\ \A p : Missed(p) => Missed(p)'
         /\ \A p \in SpanPair : InTime(p) => InTime(p)'
PROOF
<1>1. TypeInv /\ SeenOK /\ RootInv /\ HomeInv
  BY DEF HomeFlow, FlowInv
<1> DEFINE m == Head(Ring(t))
<1>2. /\ m \in Command /\ ToSet(batch') = ToSet(batch) \cup {m} /\ m \in ToSet(Ring(t)) /\ m \in Held(t)
      /\ UNCHANGED <<todo, active, reported, seen>> /\ \A u \in Thread \ {t} : Ring(u)' = Ring(u)
      /\ ToSet(Ring(t)') \subseteq ToSet(Ring(t))
  BY <1>1, ReceiveSets DEF Receives, Held, Carried
<1>3. /\ m = Ring(t)[1] /\ 1 \in DOMAIN Ring(t) /\ DOMAIN Ring(t) \subseteq Nat
      /\ \A i \in DOMAIN (Ring(t)') : i + 1 \in DOMAIN Ring(t) /\ (Ring(t)')[i] = Ring(t)[i + 1]
      /\ \A i \in DOMAIN Ring(t) : i # 1 => i - 1 \in DOMAIN (Ring(t)') /\ (Ring(t)')[i - 1] = Ring(t)[i]
  BY <1>1, RingMoves
<1>4. Got' = Got /\ SentPairs' = SentPairs
  BY <1>2 DEF Got, SentPairs
<1>5. \A p : Untouched(p)' = Untouched(p)
  BY <1>2, <1>4 DEF Untouched
<1>6. \A a : Mounted(a)' = Mounted(a) /\ Waits(a)' = Waits(a)
  BY <1>2, <1>4 DEF Mounted, Waits
<1> HIDE DEF m
<1>7. \A p : Batched(p)' => Batched(p) \/ p \in NewPairs(m)
  BY <1>2 DEF Batched
<1>8. \A u \in Thread : \A x \in ToSet(Ring(u)') : x \in ToSet(Ring(u))
  BY <1>2
<1>9. ASSUME NEW p, Missed(p)
      PROVE  Missed(p)'
  BY <1>2, <1>4, <1>5, <1>7, <1>8, <1>9 DEF Missed
<1>10. ASSUME NEW c \in CollectId, c \in Traces(m), NEW u \in Thread, NEW i \in DOMAIN Ring(u), c \in Traces(Ring(u)[i])
       PROVE  u = t
  <2>1. Ring(u)[i] \in Held(u)
    BY DEF Held, Carried, ToSet
  <2>2. Homed(c, t) /\ Homed(c, u)
    BY <1>1, <1>2, <1>10, <2>1 DEF HomeInv
  <2> QED
    BY <1>1, <2>2, OneHome
<1>11. ASSUME NEW u \in Thread, NEW i \in DOMAIN Ring(u)
       PROVE  Ring(u)[i] \in Command
  <2>1. Ring(u)[i] \in ToSet(Ring(u))
    BY DEF ToSet
  <2> QED
    BY <1>1, <2>1, CommandSeqs
<1>12. ASSUME NEW a, Coming(a), ~ \E x \in ToSet(batch) : a \in SentBy(x)
       PROVE  Coming(a)'
  <2>1. Untouched(Owner(a)) /\ ~Batched(Owner(a))
    BY <1>12 DEF Coming
  <2>2. PICK u \in Thread : Leading(u, a)
    BY <1>12 DEF Coming
  <2>3. PICK i \in DOMAIN Ring(u) :
          a \in SentBy(Ring(u)[i]) /\ \A j \in DOMAIN Ring(u) : j < i => Owner(a) \notin NewPairs(Ring(u)[j])
    BY <2>2 DEF Leading
  <2>4. a.trace \in CollectId /\ a.trace \in Traces(Ring(u)[i]) /\ Owner(a)[1] = a.trace
    BY <1>11, <2>3, SentTraces DEF Owner
  <2>5. CASE u # t
    <3>1. Owner(a) \notin NewPairs(m)
      BY <1>2, <1>10, <2>4, <2>5, PairTraces
    <3>2. Leading(u, a)'
      BY <1>2, <2>2, <2>5 DEF Leading
    <3>3. ~Batched(Owner(a))'
      BY <1>7, <2>1, <3>1
    <3> QED
      BY <1>5, <2>1, <3>2, <3>3 DEF Coming
  <2>6. CASE u = t /\ i = 1
    <3>1. a \in SentBy(m)
      BY <1>3, <2>3, <2>6
    <3> QED
      BY <1>2, <1>5, <2>1, <3>1 DEF Coming
  <2>7. CASE u = t /\ i # 1
    <3>1. i - 1 \in DOMAIN (Ring(t)') /\ a \in SentBy((Ring(t)')[i - 1])
      BY <1>3, <2>3, <2>7
    <3>2. i \in Nat /\ 1 < i
      <4>1. \A x \in DOMAIN Ring(t) : x \in 1 .. Len(Ring(t))
        BY <1>1, CommandSeqs, LenProperties
      <4> QED
        BY <2>7, <4>1
    <3>3. Owner(a) \notin NewPairs(m)
      BY <1>3, <2>3, <2>7, <3>2
    <3>4. ASSUME NEW j \in DOMAIN (Ring(t)'), j < i - 1
          PROVE  Owner(a) \notin NewPairs((Ring(t)')[j])
      <4>1. j + 1 \in DOMAIN Ring(t) /\ (Ring(t)')[j] = Ring(t)[j + 1]
        BY <1>3
      <4>2. j \in Nat
        <5>1. Ring(t)' \in Seq(Command)
          BY <1>1, CommandSeqs, HeadTailRange DEF Receives
        <5> QED
          BY <5>1, LenProperties
      <4>3. j + 1 < i
        BY <3>2, <3>4, <4>2
      <4> QED
        BY <2>3, <2>7, <4>1, <4>3
    <3>5. Leading(t, a)'
      BY <3>1, <3>4 DEF Leading
    <3>6. ~Batched(Owner(a))'
      BY <1>7, <2>1, <3>3
    <3> QED
      BY <1>5, <2>1, <3>5, <3>6 DEF Coming
  <2> QED
    BY <2>5, <2>6, <2>7
<1>13. ASSUME NEW a, Coming(a)
       PROVE  Coming(a)'
  <2>1. CASE \E x \in ToSet(batch) : a \in SentBy(x)
    BY <1>2, <1>5, <1>13, <2>1 DEF Coming
  <2> QED
    BY <1>12, <1>13, <2>1
<1>14. ASSUME NEW p \in SpanPair, InTime(p)
       PROVE  InTime(p)'
  <2>1. p[1] \in CollectId
    BY DEF SpanPair
  <2>2. Batched(p)' => p[1] \notin seen'.done
    <3>1. p \in NewPairs(m) => p[1] \notin seen.done
      BY <1>3, <1>14 DEF InTime
    <3>2. Batched(p) => p[1] \notin seen.done
      BY <1>14 DEF InTime
    <3> QED
      BY <1>2, <1>7, <3>1, <3>2
  <2>3. ASSUME NEW u \in Thread, NEW j \in DOMAIN (Ring(u)'), p \in NewPairs((Ring(u)')[j])
        PROVE  /\ p[1] \notin seen.done /\ CommitCollect(p[1]) \notin ToSet(batch')
               /\ \A i \in DOMAIN (Ring(u)') : i < j => (Ring(u)')[i] # CommitCollect(p[1])
    <3>1. CASE u # t
      <4>1. j \in DOMAIN Ring(u) /\ p \in NewPairs(Ring(u)[j]) /\ Ring(u)' = Ring(u)
        BY <1>2, <2>3, <3>1
      <4>2. /\ p[1] \notin seen.done /\ CommitCollect(p[1]) \notin ToSet(batch)
            /\ \A i \in DOMAIN Ring(u) : i < j => Ring(u)[i] # CommitCollect(p[1])
        BY <1>14, <4>1 DEF InTime
      <4>3. m # CommitCollect(p[1])
        <5>1. p[1] \in Traces(Ring(u)[j])
          BY <1>11, <4>1, PairTraces
        <5>2. p[1] \notin Traces(m)
          BY <1>10, <2>1, <3>1, <4>1, <5>1
        <5> QED
          BY <2>1, <5>2, ShortCommands
      <4> QED
        BY <1>2, <4>1, <4>2, <4>3
    <3>2. CASE u = t
      <4>1. j + 1 \in DOMAIN Ring(t) /\ (Ring(t)')[j] = Ring(t)[j + 1]
        BY <1>3, <2>3, <3>2
      <4>2. /\ p[1] \notin seen.done /\ CommitCollect(p[1]) \notin ToSet(batch)
            /\ \A i \in DOMAIN Ring(t) : i < j + 1 => Ring(t)[i] # CommitCollect(p[1])
        BY <1>14, <2>3, <3>2, <4>1 DEF InTime
      <4>3. DOMAIN (Ring(t)') \subseteq Nat \ {0}
        <5>1. Ring(t)' \in Seq(Command)
          BY <1>1, CommandSeqs, HeadTailRange DEF Receives
        <5> QED
          BY <5>1, LenProperties
      <4>4. 1 < j + 1
        BY <2>3, <3>2, <4>3
      <4>5. m # CommitCollect(p[1])
        BY <1>3, <4>2, <4>4
      <4>6. ASSUME NEW i \in DOMAIN (Ring(t)'), i < j
            PROVE  (Ring(t)')[i] # CommitCollect(p[1])
        <5>1. i + 1 \in DOMAIN Ring(t) /\ (Ring(t)')[i] = Ring(t)[i + 1]
          BY <1>3
        <5>2. i + 1 < j + 1
          BY <2>3, <3>2, <4>3, <4>6
        <5> QED
          BY <4>2, <5>1, <5>2
      <4> QED
        BY <1>2, <3>2, <4>2, <4>5, <4>6
    <3> QED
      BY <3>1, <3>2
  <2> QED
    BY <1>2, <2>2, <2>3 DEF InTime
<1> QED
  BY <1>6, <1>9, <1>13, <1>14

\* No start of a trace was refused by a full channel, and no trace cancelled.
StartsAccepted ==
  \A c \in 1 .. nextRoot - 1 : c \in seen.started \/ \E t \in Thread : StartCollect(c) \in ToSet(todo[t])

\* No trace was cancelled.
NothingCancelled == seen.cancelled = {}

\* Where spans of a trace without collector are reported, every trace has one.
AllCollected == Cancelable \/ (StartsAccepted /\ NothingCancelled)

\* A trace about which the batch has a command is not still to start.
LEMMA BatchStarted ==
  ASSUME HomeFlow, NEW m \in ToSet(batch), NEW c \in CollectId, c \in Traces(m)
  PROVE  \A t \in Thread : StartCollect(c) \notin Held(t)
PROOF
<1>1. FirstInv
  BY DEF HomeFlow
<1>2. ~Fresh(c) /\ ~Unstarted(c)
  BY DEF Fresh, Unstarted
<1> QED
  BY <1>1, <1>2 DEF FirstInv, Held

\* A processed batch brings an attachment to its collector and mounts it, or
\* ends the trace without its span.
LEMMA BatchSafe ==
  ASSUME HomeFlow, PairInv, FoundInv, AllCollected, ProcessBatch,
         NEW a \in seen.sent, IsAttachment(a), Safe(a),
         a \in seen.mount => Owner(a) \in SentPairs /\ InTime(Owner(a)),
         a \in seen.mount \/ a.trace \notin seen.committed
  PROVE  Safe(a)'
PROOF
<1> DEFINE c == a.trace
           p == Owner(a)
<1>1. TypeInv /\ SeenOK /\ FirstInv /\ RootInv /\ AcceptedInv /\ FlowInv
  BY DEF HomeFlow, FlowInv
<1>2. a \in Amended(CollectId) /\ c \in CollectId /\ c \in Known /\ p[1] = c
  BY <1>1 DEF SeenOK, Amended, PairInv, Owner
<1>3. /\ UNCHANGED <<todo, chan>> /\ batch' = <<>> /\ ToSet(batch') = {}
      /\ \A u : Ring(u)' = Ring(u)
  BY ShortRanges DEF ProcessBatch, Ring
<1>4. /\ seen'.done = seen.done \cup Ids("commit")
      /\ seen'.sent = seen.sent /\ SentPairs' = SentPairs
  BY <1>1, BatchHistory DEF SentPairs
<1>5. batch \in Seq(Command) /\ ToSet(batch) \subseteq Command
  BY <1>1, CommandSeqs
<1>6. ~Batched(p)'
  BY <1>3 DEF Batched
<1>7. DOMAIN active' = StartedTraces \ Ids("commit") /\ DOMAIN reported \subseteq DOMAIN reported'
  BY <1>1, BatchEffect
<1>8. ASSUME Untouched(p), ~Batched(p)
      PROVE  Untouched(p)'
  <2>1. p \notin Got' \ Got /\ ~ \E d \in DOMAIN active' : p \in PairsOf(ToSet(active'[d].colls))
    BY <1>1, <1>8, BatchBrings DEF Untouched, Batched
  <2> QED
    BY <1>8, <2>1 DEF Untouched
<1>9. \A m \in ToSet(batch) : Accepted(m)
  BY <1>1 DEF AcceptedInv
<1>10. CASE Mounted(a)
  <2>1. Mounted(a)'
    BY <1>7, <1>10 DEF Mounted
  <2> QED
    BY <2>1 DEF Safe
<1>11. CASE Missed(p)
  <2>1. Missed(p)'
    BY <1>3, <1>4, <1>6, <1>8, <1>11 DEF Missed
  <2> QED
    BY <2>1 DEF Safe
<1>12. CASE Shut(p)
  <2>1. c \notin StartedTraces
    <3>1. c \notin DOMAIN active /\ StartCollect(c) \notin ToSet(batch)
      BY <1>2, <1>12 DEF Shut, Gone
    <3>2. c \notin Ids("start")
      <4>1. \A m \in ToSet(batch) : m.cmd = "start" => m = StartCollect(m.collect)
        BY <1>5, CommandShape
      <4> QED
        BY <1>5, <3>1, <4>1, IdsMember
    <3> QED
      BY <3>1, <3>2 DEF StartedTraces
  <2>2. p \notin Got'
    BY <1>1, <1>2, <1>12, <2>1, BatchEffect, HeldTraces DEF Shut
  <2>3. Gone(p[1])'
    <3>1. Gone(c)
      BY <1>2, <1>12 DEF Shut
    <3>2. Gone(c)'
      BY <1>2, <1>7, <2>1, <3>1, <1>3 DEF Gone, Held, Carried, Ring, Parked
    <3> QED
      BY <1>2, <3>2
  <2>4. Shut(p)'
    BY <1>12, <2>2, <2>3 DEF Shut
  <2> QED
    BY <2>4 DEF Safe
<1>13. CASE ~Batched(p) /\ Coming(a) /\ \E t \in Thread : Leading(t, a)
  <2>1. Untouched(p)'
    BY <1>8, <1>13 DEF Coming
  <2>2. \E t \in Thread : Leading(t, a)'
    BY <1>3, <1>13 DEF Leading
  <2>3. Coming(a)'
    BY <1>6, <2>1, <2>2 DEF Coming
  <2> QED
    BY <2>3 DEF Safe
<1>14. CASE Waits(a) \/ (Coming(a) /\ \E m \in ToSet(batch) : a \in SentBy(m))
  <2>1. p \notin Got
    BY <1>14 DEF Waits, Coming, Untouched
  <2>2. ASSUME p \in SentPairs, Untouched(p)', \A t \in Thread : \A m \in ToSet(Ring(t)) : p \notin NewPairs(m)
        PROVE  Safe(a)'
    <3>1. Missed(p)'
      BY <1>3, <1>4, <1>6, <2>2 DEF Missed
    <3> QED
      BY <3>1 DEF Safe
  <2>3. ASSUME NEW m \in ToSet(batch), a \in SentBy(m)
        PROVE  m \in Command /\ m.cmd = "submit" /\ c \in Traces(m)
    BY <1>5, <2>3, SentTraces
  <2>4. CASE c \in StartedTraces
    <3>1. \/ a \in AmendedBy(c)
          \/ c \notin Ids("start") /\ a.id \in Waiting(active[c].danglings, a.parent)
      <4>1. CASE Waits(a)
        <5>1. c \in DOMAIN active /\ active[c] \in ActiveCollector(c)
          BY <1>1, <4>1 DEF Waits, TypeInv, CollectorsOK
        <5>2. c \notin Ids("start")
          <6>1. \A m \in ToSet(batch) : m.cmd = "start" => m = StartCollect(m.collect)
            BY <1>5, CommandShape
          <6> QED
            BY <1>1, <1>2, <1>5, <5>1, <6>1, IdsMember DEF FirstInv
        <5>3. ASSUME a \in ToSet(AmendAll(active[c].colls))
              PROVE  a \in AmendedBy(c)
          <6>1. active[c].colls \in Seq(Coll({c}))
            BY <5>1 DEF ActiveCollector
          <6>2. PICK coll \in ToSet(active[c].colls) : a \in ToSet(Amend(coll))
            BY <5>3, <6>1, AmendAllType
          <6>3. coll \in HeldBy(c)
            BY <5>2, <6>2 DEF HeldBy
          <6> QED
            BY <6>2, <6>3 DEF AmendedBy
        <5> QED
          BY <4>1, <5>2, <5>3 DEF Waits
      <4>2. ASSUME NEW m \in ToSet(batch), a \in SentBy(m)
            PROVE  a \in AmendedBy(c)
        <5>1. m \in Command /\ m.cmd = "submit" /\ Copies(m) \in Seq(Coll(CollectId))
          BY <2>3, <4>2, CopiesType
        <5>2. PICK coll \in ToSet(Copies(m)) : a \in ToSet(Amend(coll))
          BY <4>2, <5>1, AmendAllType DEF SentBy
        <5>3. coll \in Coll(CollectId)
          BY <5>1, ElementOfSeq, LenProperties DEF ToSet
        <5>4. a.trace = coll.trace
          BY <5>2, <5>3, AmendType
        <5>5. coll \in SubmittedBy(ToSet(batch))
          BY <5>1, <5>2 DEF SubmittedBy
        <5>6. coll \in HeldBy(c)
          BY <5>4, <5>5 DEF HeldBy
        <5> QED
          BY <5>2, <5>6 DEF AmendedBy
      <4> QED
        BY <1>14, <4>1, <4>2
    <3>2. \/ Mounted(a)' \/ Waits(a)'
          \/ c \in Ids("commit") /\ p \notin Got'
      BY <1>1, <1>2, <2>1, <2>4, <3>1, BatchMounts
    <3>3. CASE c \in Ids("commit") /\ p \notin Got'
      <4>1. CommitCollect(c) \in ToSet(batch)
        <5>1. \A m \in ToSet(batch) : m.cmd = "commit" => m = CommitCollect(m.collect)
          BY <1>5, CommandShape
        <5> QED
          BY <1>5, <3>3, <5>1, IdsMember
      <4>2. c \in seen.committed
        BY <1>2, <1>9, <4>1, ShortCommands DEF Accepted
      <4>3. p \in SentPairs /\ InTime(p)
        BY <4>2
      <4>4. \A t \in Thread : \A j \in DOMAIN Ring(t) : p \notin NewPairs(Ring(t)[j])
        BY <1>2, <4>1, <4>3 DEF InTime
      <4>5. \A t \in Thread : \A m \in ToSet(Ring(t)) : p \notin NewPairs(m)
        BY <4>4 DEF ToSet
      <4>6. Untouched(p)'
        BY <1>2, <1>7, <3>3 DEF Untouched
      <4> QED
        BY <2>2, <4>3, <4>5, <4>6
    <3> QED
      BY <3>2, <3>3 DEF Safe
  <2>5. CASE c \notin StartedTraces
    <3>1. \E m \in ToSet(batch) : c \in Traces(m)
      <4>1. CASE Waits(a)
        <5>1. c \in Ids("drop")
          BY <2>5, <4>1 DEF Waits, StartedTraces
        <5>2. PICK m \in ToSet(batch) : m.cmd = "drop" /\ m.collect = c
          BY <1>5, <5>1, IdsMember
        <5> QED
          BY <5>2 DEF Traces
      <4> QED
        BY <1>14, <2>3, <4>1
    <3>2. \A t \in Thread : StartCollect(c) \notin Held(t)
      BY <1>2, <3>1, BatchStarted
    <3>3. CASE Cancelable
      <4>1. p \notin Got'
        BY <1>1, <1>2, <2>1, <2>5, <3>3, BatchEffect, HeldTraces
      <4>2. Gone(c)'
        BY <1>3, <1>7, <2>5, <3>2 DEF Gone, Held, Carried, Ring, Parked
      <4>3. Shut(p)'
        BY <1>2, <3>3, <4>1, <4>2 DEF Shut
      <4> QED
        BY <4>3 DEF Safe
    <3>4. CASE ~Cancelable
      <4>1. StartsAccepted /\ seen.cancelled = {}
        BY <3>4 DEF AllCollected, NothingCancelled
      <4>2. Ids("drop") = {}
        BY <1>5, <1>9, <4>1, IdsMember DEF Accepted
      <4>3. c \notin DOMAIN active /\ c \notin Ids("start")
        BY <2>5, <4>2 DEF StartedTraces
      <4>4. c \in seen.started
        <5>1. c \in 1 .. nextRoot - 1
          BY <1>1, <1>2 DEF CollectId, Known, TypeInv, SpansOK
        <5> QED
          BY <3>2, <4>1, <5>1 DEF StartsAccepted, Held
      <4>5. c \in seen.done
        <5>1. StartCollect(c) \notin ToSet(batch)
          BY <1>2, <1>5, <4>3, ShortCommands, IdsMember
        <5>2. \A t \in Thread : StartCollect(c) \notin ToSet(Ring(t))
          BY <3>2 DEF Held, Carried
        <5> QED
          BY <4>1, <4>3, <4>4, <5>1, <5>2 DEF FoundInv, StartFound
      <4>6. p \in SentPairs /\ InTime(p)
        BY <1>1, <4>5 DEF AcceptedInv
      <4>7. ~Batched(p) /\ \A t \in Thread : \A j \in DOMAIN Ring(t) : p \notin NewPairs(Ring(t)[j])
        BY <1>2, <4>5, <4>6 DEF InTime
      <4>8. \A t \in Thread : \A m \in ToSet(Ring(t)) : p \notin NewPairs(m)
        BY <4>7 DEF ToSet
      <4>9. Untouched(p)'
        BY <1>2, <1>8, <2>1, <4>3, <4>7 DEF Untouched
      <4> QED
        BY <2>2, <4>6, <4>8, <4>9
    <3> QED
      BY <3>3, <3>4
  <2> QED
    BY <2>4, <2>5
<1> QED
  BY <1>10, <1>11, <1>12, <1>13, <1>14 DEF Safe, Coming

\* A trace that is over stays over.
LEMMA ShutStays ==
  ASSUME HomeFlow, [Next]_vars, NEW p, p[1] \in CollectId \cap Known, Got' = Got, Shut(p)
  PROVE  Shut(p)'
PROOF
<1>1. Gone(p[1])'
  BY GoneStays DEF Shut
<1> QED
  BY <1>1 DEF Shut

\* The send of a command: what it brings was not on its way before.
LEMMA TakenMounts ==
  ASSUME HomeFlow, PairInv, MountInv, [Next]_vars, NEW t \in Thread, Pushes(t) \/ Parks(t)
  PROVE  MountInv'
PROOF
<1> DEFINE m == Cmd(t)
<1>1. TypeInv /\ SeenOK /\ AcceptedInv /\ Takes(t) /\ seen' = Record(m)
  BY DEF HomeFlow, FlowInv, Pushes, Parks
<1>2. /\ m \in Command /\ m \in ToSet(todo[t]) /\ UNCHANGED <<batch, active, reported>>
      /\ \A u \in Thread \ {t} : Ring(u)' = Ring(u)
      /\ Ring(t)' = Ring(t) \/ Ring(t)' = Append(Ring(t), m)
      /\ m.cmd = "submit" => Ring(t)' = Append(Ring(t), m)
  BY <1>1, TakesSets DEF Takes, Pushes, Parks, Forced
<1> HIDE DEF m
<1>3. /\ SentPairs' = SentPairs \cup NewPairs(m) /\ seen'.sent = seen.sent \cup SentBy(m)
      /\ seen'.done = seen.done /\ seen.committed \subseteq seen'.committed
  BY <1>1, <1>2, RecordEffect, SentGrows
<1>4. \A p \in Concerns(m) : p \notin SentPairs
  BY <1>2 DEF PairInv
<1>5. \A p \in SentPairs : p \notin NewPairs(m)
  BY <1>4 DEF Concerns
<1>6. Got' = Got
  BY <1>2 DEF Got
<1>7. \A x \in ToSet(batch) : Accepted(x) /\ NewPairs(x) \subseteq SentPairs
  BY <1>1 DEF AcceptedInv, PairInv
<1>8. \A u \in Thread : \A x \in ToSet(Ring(u)) : Accepted(x) /\ NewPairs(x) \subseteq SentPairs
  BY <1>1 DEF AcceptedInv, PairInv, Carried
<1>9. \A u \in Thread : \A x \in ToSet(Ring(u)') : x \in ToSet(Ring(u)) \/ (u = t /\ x = m)
  <2>1. ToSet(Append(Ring(t), m)) = ToSet(Ring(t)) \cup {m}
    BY <1>1, <1>2, CommandSeqs, AppendRange
  <2> QED
    BY <1>2, <2>1
<1>10. /\ \A p : Untouched(p)' = Untouched(p) /\ Batched(p)' = Batched(p)
       /\ \A a : Mounted(a) \/ Waits(a) \/ Coming(a) => Mounted(a)' \/ Waits(a)' \/ Coming(a)'
       /\ \A p : p \notin NewPairs(m) /\ SentPairs \subseteq SentPairs' /\ Missed(p) => Missed(p)'
       /\ \A p : p \notin NewPairs(m) /\ seen'.done = seen.done /\ InTime(p) => InTime(p)'
  BY <1>1, <1>2, RingsGrow
<1>11. ASSUME NEW p, p \notin SentPairs
       PROVE  Untouched(p) /\ ~Batched(p)
  BY <1>7, <1>11 DEF PairInv, Untouched, Batched
<1>12. ASSUME NEW a \in seen'.mount
       PROVE  a \in seen'.sent /\ IsAttachment(a) /\ Owner(a) \in SentPairs' /\ InTime(Owner(a))'
  <2>1. CASE a \in seen.mount
    <3>1. a \in seen.sent /\ IsAttachment(a) /\ Owner(a) \in SentPairs /\ InTime(Owner(a))
      BY <2>1 DEF MountInv
    <3>2. InTime(Owner(a))'
      BY <1>3, <1>5, <1>10, <3>1
    <3> QED
      BY <1>3, <3>1, <3>2
  <2>2. CASE a \notin seen.mount
    <3>1. a \in seen'.sent /\ IsAttachment(a) /\ Owner(a) \in NewPairs(m) /\ a.trace \notin seen.committed
      BY <1>1, <1>2, <2>2, MountGrows
    <3>2. Owner(a) \in Concerns(m) /\ Owner(a)[1] = a.trace
      BY <3>1 DEF Concerns, Owner
    <3>3. a.trace \in CollectId /\ m.cmd = "submit"
      BY <1>2, <3>2, ConcernTraces
    <3>4. ~Batched(Owner(a))' /\ Owner(a) \notin SentPairs
      BY <1>4, <1>10, <1>11, <3>2
    <3>5. CommitCollect(a.trace).cmd = "commit" /\ CommitCollect(a.trace).collect = a.trace
      BY <3>3, ShortCommands
    <3>6. CommitCollect(a.trace) \notin ToSet(batch) /\ CommitCollect(a.trace) # m
      BY <1>7, <3>1, <3>3, <3>5 DEF Accepted
    <3>7. \A u \in Thread : CommitCollect(a.trace) \notin ToSet(Ring(u)')
      BY <1>8, <1>9, <3>1, <3>5, <3>6 DEF Accepted
    <3>8. \A u \in Thread : \A i \in DOMAIN (Ring(u)') : (Ring(u)')[i] # CommitCollect(a.trace)
      BY <3>7 DEF ToSet
    <3>9. a.trace \notin seen'.done
      BY <1>1, <1>3, <3>1 DEF AcceptedInv
    <3>10. InTime(Owner(a))'
      BY <1>2, <3>2, <3>4, <3>6, <3>8, <3>9 DEF InTime
    <3> QED
      BY <1>3, <3>1, <3>10
  <2> QED
    BY <2>1, <2>2
<1>13. ASSUME NEW a \in seen'.sent, IsAttachment(a), a \in seen'.mount \/ a.trace \notin seen'.committed
       PROVE  Safe(a)'
  <2>1. CASE a \in seen.sent
    <3>1. a \in seen.mount \/ a.trace \notin seen.committed
      BY <1>1, <1>2, <1>3, <1>13, MountGrows
    <3>2. Safe(a)
      BY <1>13, <2>1, <3>1 DEF MountInv
    <3>3. CASE Mounted(a) \/ Waits(a) \/ Coming(a)
      <4>1. Mounted(a)' \/ Waits(a)' \/ Coming(a)'
        BY <1>10, <3>3
      <4> QED
        BY <4>1 DEF Safe
    <3>4. CASE Missed(Owner(a))
      <4>1. Owner(a) \in SentPairs
        BY <3>4 DEF Missed
      <4>2. Missed(Owner(a))'
        BY <1>3, <1>5, <1>10, <3>4, <4>1
      <4> QED
        BY <4>2 DEF Safe
    <3>5. CASE Shut(Owner(a))
      <4>1. Owner(a)[1] \in CollectId \cap Known
        BY <1>1, <2>1 DEF SeenOK, Amended, PairInv, Owner
      <4>2. Shut(Owner(a))'
        BY <1>6, <3>5, <4>1, ShutStays
      <4> QED
        BY <4>2 DEF Safe
    <3> QED
      BY <3>2, <3>3, <3>4, <3>5 DEF Safe
  <2>2. CASE a \notin seen.sent
    <3>1. a \in SentBy(m) /\ Owner(a) \in Concerns(m)
      BY <1>3, <1>13, <2>2 DEF Concerns
    <3>2. Owner(a) \notin SentPairs /\ Untouched(Owner(a))' /\ ~Batched(Owner(a))'
      BY <1>4, <1>10, <1>11, <3>1
    <3>3. Ring(t)' = Append(Ring(t), m)
      BY <1>2, <3>1, SentTraces
    <3>4. /\ DOMAIN (Ring(t)') = DOMAIN Ring(t) \cup {Len(Ring(t)) + 1}
          /\ \A i \in DOMAIN Ring(t) : (Ring(t)')[i] = Ring(t)[i]
          /\ (Ring(t)')[Len(Ring(t)) + 1] = m /\ Len(Ring(t)) \in Nat
      BY <1>1, <1>2, <3>3, RingMoves
    <3>5. \A j \in DOMAIN Ring(t) : Owner(a) \notin NewPairs(Ring(t)[j])
      BY <1>8, <3>2 DEF ToSet
    <3>6. \A j \in DOMAIN (Ring(t)') : j < Len(Ring(t)) + 1 => Owner(a) \notin NewPairs((Ring(t)')[j])
      BY <3>4, <3>5
    <3>7. Leading(t, a)'
      BY <3>1, <3>4, <3>6 DEF Leading
    <3>8. Coming(a)'
      BY <3>2, <3>7 DEF Coming
    <3> QED
      BY <3>8 DEF Safe
  <2> QED
    BY <2>1, <2>2
<1> QED
  BY <1>12, <1>13 DEF MountInv

\* Every step keeps the attachments of the spans to come with their spans.
LEMMA NextMount == HomeFlow /\ PairInv /\ FoundInv /\ MountInv /\ AllCollected /\ [Next]_vars => MountInv'
PROOF
<1> SUFFICES ASSUME HomeFlow, PairInv, FoundInv, MountInv, AllCollected, [Next]_vars
             PROVE  MountInv'
  OBVIOUS
<1>1. TypeInv /\ SeenOK /\ AcceptedInv /\ SentPairs \subseteq SpanPair
  BY SentPairType DEF HomeFlow, FlowInv
<1>2. \A a \in seen.sent : Owner(a)[1] \in CollectId \cap Known
  BY <1>1 DEF SeenOK, Amended, PairInv, Owner
<1>3. CASE NothingMoves \/ \E t \in Thread : Call(t) \/ Loses(t)
  <2>1. UNCHANGED <<batch, active, reported>> /\ \A t \in Thread : Ring(t)' = Ring(t)
    BY <1>1, <1>3, CallType DEF NothingMoves, Loses, Takes, collVars, Ring
  <2>2. \A x \in {"sent", "mount", "done", "committed"} : seen'[x] = seen[x]
    BY <1>1, <1>3, CallType DEF NothingMoves, Loses, SeenOK
  <2>3. /\ seen'.sent = seen.sent /\ seen'.mount = seen.mount
        /\ seen'.done = seen.done /\ seen'.committed = seen.committed
    BY <2>2
  <2>4. SentPairs' = SentPairs /\ Got' = Got
    BY <2>1, <2>3 DEF SentPairs, Got
  <2>5. \A p : Untouched(p)' = Untouched(p) /\ Batched(p)' = Batched(p)
    BY <2>1, <2>4 DEF Untouched, Batched
  <2>6. \A p : Missed(p)' = Missed(p) /\ InTime(p)' = InTime(p)
    BY <2>1, <2>3, <2>4, <2>5 DEF Missed, InTime
  <2>7. \A a : Mounted(a)' = Mounted(a) /\ Waits(a)' = Waits(a)
    BY <2>1, <2>4 DEF Mounted, Waits
  <2>8. \A a : Coming(a)' = Coming(a)
    <3>1. \A a : \A t \in Thread : Leading(t, a)' = Leading(t, a)
      BY <2>1 DEF Leading
    <3> QED
      BY <2>1, <2>5, <3>1 DEF Coming
  <2>9. ASSUME NEW a \in seen.sent, Safe(a)
        PROVE  Safe(a)'
    <3>1. Shut(Owner(a)) => Shut(Owner(a))'
      BY <1>2, <2>4, ShutStays
    <3> QED
      BY <2>6, <2>7, <2>8, <2>9, <3>1 DEF Safe
  <2> QED
    BY <2>3, <2>4, <2>6, <2>9 DEF MountInv
<1>4. CASE ProcessBatch
  <2>1. \A x \in {"sent", "mount", "committed"} : seen'[x] = seen[x]
    BY <1>1, <1>4, BatchHistory
  <2>2. seen'.sent = seen.sent /\ seen'.mount = seen.mount /\ seen'.committed = seen.committed
    BY <2>1
  <2>3. SentPairs' = SentPairs
    BY <2>2 DEF SentPairs
  <2>4. ASSUME NEW p \in SpanPair, InTime(p)
        PROVE  InTime(p)'
    <3>1. ToSet(batch') = {} /\ \A t \in Thread : Ring(t)' = Ring(t)
      BY <1>4, ShortRanges DEF ProcessBatch, Ring
    <3>2. seen'.done = seen.done \cup Ids("commit")
      BY <1>1, <1>4, BatchHistory
    <3>3. CommitCollect(p[1]) \notin ToSet(batch) => p[1] \notin Ids("commit")
      <4>1. batch \in Seq(Command) /\ ToSet(batch) \subseteq Command
        BY <1>1, CommandSeqs
      <4>2. \A m \in ToSet(batch) : m.cmd = "commit" => m = CommitCollect(m.collect)
        BY <4>1, CommandShape
      <4> QED
        BY <4>1, <4>2, IdsMember
    <3> QED
      BY <2>4, <3>1, <3>2, <3>3 DEF InTime, Batched
  <2>5. ASSUME NEW a \in seen.sent, IsAttachment(a), a \in seen.mount \/ a.trace \notin seen.committed
        PROVE  Safe(a)'
    BY <1>4, <2>5, BatchSafe DEF MountInv
  <2> QED
    BY <1>1, <2>2, <2>3, <2>4, <2>5 DEF MountInv
<1>5. ASSUME NEW t \in Thread, Unparks(t)
      PROVE  MountInv'
  <2>1. UNCHANGED <<batch, active, reported, seen>> /\ \A u \in Thread \ {t} : Ring(u)' = Ring(u)
    BY <1>1, <1>5, UnparkSets DEF Unparks
  <2>2. SentPairs' = SentPairs /\ Got' = Got
    BY <2>1 DEF SentPairs, Got
  <2>3. PICK m \in ToSet(Parked(t)) : Ring(t)' = Ring(t) \/ Ring(t)' = Append(Ring(t), m)
    <3>1. \E m : m \in ToSet(Parked(t))
      <4>1. Parked(t) # <<>> /\ Parked(t) \in Seq(Command)
        BY <1>1, <1>5, CommandSeqs DEF Unparks
      <4> QED
        BY <4>1, HeadTailRange
    <3> QED
      BY <1>5, <3>1 DEF Unparks
  <2>4. m \in Command /\ NewPairs(m) = {}
    BY <1>1, ParkedForced DEF NewPairs
  <2>5. /\ \A a : Mounted(a) \/ Waits(a) \/ Coming(a) => Mounted(a)' \/ Waits(a)' \/ Coming(a)'
        /\ \A p : p \notin NewPairs(m) /\ SentPairs \subseteq SentPairs' /\ Missed(p) => Missed(p)'
        /\ \A p : p \notin NewPairs(m) /\ seen'.done = seen.done /\ InTime(p) => InTime(p)'
    BY <1>1, <2>1, <2>3, <2>4, RingsGrow
  <2>6. \A p : (Missed(p) => Missed(p)') /\ (InTime(p) => InTime(p)')
    BY <2>1, <2>2, <2>4, <2>5
  <2>7. ASSUME NEW a \in seen.sent, Safe(a)
        PROVE  Safe(a)'
    <3>1. Shut(Owner(a)) => Shut(Owner(a))'
      BY <1>2, <2>2, ShutStays
    <3> QED
      BY <2>5, <2>6, <2>7, <3>1 DEF Safe
  <2> QED
    BY <2>1, <2>2, <2>6, <2>7 DEF MountInv
<1>6. ASSUME NEW t \in Thread, Receives(t)
      PROVE  MountInv'
  <2>1. UNCHANGED <<active, reported, seen>>
    BY <1>1, <1>6, ReceiveSets
  <2>2. SentPairs' = SentPairs /\ Got' = Got
    BY <2>1 DEF SentPairs, Got
  <2>3. /\ \A a \in seen.sent : Mounted(a) \/ Waits(a) \/ Coming(a) => Mounted(a)' \/ Waits(a)' \/ Coming(a)'
        /\ \A p : Missed(p) => Missed(p)'
        /\ \A p \in SpanPair : InTime(p) => InTime(p)'
    BY <1>6, RingShrinks
  <2>4. ASSUME NEW a \in seen.sent, Safe(a)
        PROVE  Safe(a)'
    <3>1. Shut(Owner(a)) => Shut(Owner(a))'
      BY <1>2, <2>2, ShutStays
    <3> QED
      BY <2>3, <2>4, <3>1 DEF Safe
  <2> QED
    BY <1>1, <2>1, <2>2, <2>3, <2>4 DEF MountInv
<1>7. ASSUME NEW t \in Thread, Pushes(t) \/ Parks(t)
      PROVE  MountInv'
  BY <1>7, TakenMounts
<1> QED
  BY <1>1, <1>3, <1>4, <1>5, <1>6, <1>7, StepKinds

\* At first there is nothing to find or to mount.
LEMMA InitMount == Init => FoundInv /\ MountInv
PROOF
<1> SUFFICES ASSUME Init
             PROVE  FoundInv /\ MountInv
  OBVIOUS
<1>1. seen.sent = {} /\ seen.mount = {} /\ seen.started = {}
  BY DEF Init
<1> QED
  BY <1>1 DEF FoundInv, MountInv

\* Events and properties of a span are on its record, whichever of them reached
\* the collector first and in however many batches (handle_commands and
\* mount_danglings of fastrace/src/collector/global_collector.rs): for any number
\* of threads and traces and whatever the channels lose of the spans, as long as
\* spans stay on their thread and, unless traces are cancelable, every trace has a
\* collector: the spans of the others are mounted batch by batch.
THEOREM AttachmentsReported == ~Migrate /\ Spec /\ []AllCollected => []AttachmentsKept
PROOF
<1>1. Init => PairInv /\ FoundInv /\ MountInv
  BY InitPairs, InitMount
<1>2. MountInv => AttachmentsKept
  BY MountKeeps
<1>3. CASE ~Migrate
  <2>1. Spec => []HomeFlow
    BY <1>3, HomeFlowHolds
  <2>2. HomeFlow /\ PairInv /\ FoundInv /\ MountInv /\ AllCollected /\ [Next]_vars => PairInv' /\ FoundInv' /\ MountInv'
    BY NextPairs, NextFound, NextMount DEF HomeFlow
  <2> QED
    BY <1>1, <1>2, <2>1, <2>2, PTL DEF Spec
<1>4. CASE Migrate
  BY <1>4
<1> QED
  BY <1>3, <1>4
=============================================================================
