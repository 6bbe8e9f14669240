--------------------------- MODULE DataInduction ----------------------------
(***************************************************************************)
(* Induction over natural numbers and the left folds of the community      *)
(* modules, stated with sets and functions in place of operators: the      *)
(* induction step of a proof is then a fact about the members of a set.    *)
(* Then what sequence operators and division give, and injections, which   *)
(* compare the sizes of sets of positions without counting them.           *)
(***************************************************************************)
EXTENDS FiniteSetsExt, SequencesExt, SequenceTheorems, FiniteSetTheorems,
        WellFoundedInduction, TLAPS

\* A set that holds 0 and the successor of each of its members is Nat.
LEMMA NatSetInduction ==
  ASSUME NEW P, 0 \in P, \A n \in Nat : n \in P => n + 1 \in P
  PROVE  \A n \in Nat : n \in P
PROOF
<1> DEFINE R == OpToRel(<, Nat)
<1> SUFFICES ASSUME NEW m \in Nat, m \notin P
             PROVE  FALSE
  OBVIOUS
<1>1. Nat \ P \subseteq Nat /\ Nat \ P # {}
  OBVIOUS
<1>2. IsWellFoundedOn(R, Nat)
  BY NatLessThanWellFounded
<1>3. \A i, j \in Nat : i < j => <<i, j>> \in R
  BY DEF OpToRel
<1> HIDE DEF R
<1>4. PICK n \in Nat \ P : \A k \in Nat \ P : <<k, n>> \notin R
  BY <1>1, <1>2, WFMin
<1>5. CASE n = 0
  BY <1>5
<1>6. CASE n # 0
  <2>1. n - 1 \in Nat /\ n - 1 + 1 = n /\ n - 1 < n
    BY <1>6
  <2>2. n - 1 \in P
    BY <1>3, <1>4, <2>1
  <2> QED
    BY <2>1, <2>2
<1> QED
  BY <1>5, <1>6

\* The same up to a bound.
LEMMA UpToInduction ==
  ASSUME NEW P, NEW n \in Nat, 0 \in P, \A k \in 0 .. n - 1 : k \in P => k + 1 \in P
  PROVE  \A k \in 0 .. n : k \in P
PROOF
<1> DEFINE Q == {k \in Nat : k <= n => k \in P}
<1>1. 0 \in Q
  OBVIOUS
<1>2. \A k \in Nat : k \in Q => k + 1 \in Q
  <2> SUFFICES ASSUME NEW k \in Nat, k <= n => k \in P, k + 1 <= n
               PROVE  k + 1 \in P
    OBVIOUS
  <2>1. k \in 0 .. n - 1 /\ k <= n
    OBVIOUS
  <2> QED
    BY <2>1
<1> HIDE DEF Q
<1>3. \A k \in Nat : k \in Q
  BY <1>1, <1>2, NatSetInduction
<1> QED
  BY <1>3 DEF Q

-----------------------------------------------------------------------------
(* Folds. *)

\* Max gives the greatest element when there is one.
LEMMA GreatestIsMax ==
  ASSUME NEW S, NEW x \in S, x \in Nat, \A y \in S : y \in Nat /\ y <= x
  PROVE  Max(S) = x
PROOF
<1>1. x \in S /\ \A y \in S : x >= y
  OBVIOUS
<1>2. Max(S) \in S /\ \A y \in S : Max(S) >= y
  BY <1>1 DEF Max
<1>3. Max(S) \in Nat /\ Max(S) <= x /\ Max(S) >= x
  BY <1>2
<1> QED
  BY <1>3

\* The last of the first n numbers.
LEMMA MaxOfPrefix ==
  ASSUME NEW n \in Nat, NEW k \in 1 .. n
  PROVE  Max(1 .. k) = k /\ (1 .. k) \ {k} = 1 .. k - 1 /\ 1 .. k # {} /\ 1 .. k \subseteq 1 .. n
PROOF
<1>1. k \in 1 .. k /\ k \in Nat /\ \A y \in 1 .. k : y \in Nat /\ y <= k
  OBVIOUS
<1>2. Max(1 .. k) = k
  BY <1>1, GreatestIsMax
<1> QED
  BY <1>1, <1>2

\* A fold that has come to positions s, all of them among the first k; X[k] is
\* the type of what k steps give.
FoldsTo(iter, X, step, base, seq, s, k) ==
  /\ iter[s] \in X[k]
  /\ s = {} => iter[s] = base
  /\ s # {} =>
       /\ Max(s) \in s /\ iter[s \ {Max(s)}] \in X[k - 1]
       /\ iter[s] = step[<<iter[s \ {Max(s)}], seq[Max(s)]>>]

\* The function that a fold over a sequence names exists.
LEMMA FoldExists ==
  ASSUME NEW X, NEW E, NEW step, NEW seq \in Seq(E), NEW base \in X[0],
         \A k \in 0 .. Len(seq) - 1 :
            /\ \A x \in X[k] : x \in X[k + 1]
            /\ \A x \in X[k] : \A e \in E : step[<<x, e>>] \in X[k + 1]
  PROVE  \E iter : /\ DOMAIN iter = SUBSET DOMAIN seq
                   /\ iter = [s \in DOMAIN iter |-> iter[s]]
                   /\ \A s \in SUBSET DOMAIN seq : FoldsTo(iter, X, step, base, seq, s, Len(seq))
PROOF
<1> DEFINE n == Len(seq)
           Good(k) == \E iter : /\ DOMAIN iter = SUBSET (1 .. k)
                                /\ iter = [s \in DOMAIN iter |-> iter[s]]
                                /\ \A s \in SUBSET (1 .. k) : FoldsTo(iter, X, step, base, seq, s, k)
           P == {k \in Nat : Good(k)}
<1>1. n \in Nat /\ DOMAIN seq = 1 .. n
  BY LenProperties
<1>2. \A k \in 1 .. n : seq[k] \in E
  BY ElementOfSeq
<1>3. 0 \in P
  <2> DEFINE iter == [s \in SUBSET (1 .. 0) |-> base]
  <2>1. \A s \in SUBSET (1 .. 0) : s = {}
    OBVIOUS
  <2>2. /\ DOMAIN iter = SUBSET (1 .. 0) /\ iter = [s \in DOMAIN iter |-> iter[s]]
        /\ \A s \in SUBSET (1 .. 0) : iter[s] = base
    OBVIOUS
  <2> HIDE DEF iter
  <2>3. \A s \in SUBSET (1 .. 0) : FoldsTo(iter, X, step, base, seq, s, 0)
    BY <2>1, <2>2 DEF FoldsTo
  <2>4. Good(0)
    BY <2>2, <2>3
  <2> QED
    BY <2>4
<1>4. ASSUME NEW k \in 0 .. n - 1, k \in P
      PROVE  k + 1 \in P
  <2>1. PICK g : /\ DOMAIN g = SUBSET (1 .. k)
                 /\ \A s \in SUBSET (1 .. k) : FoldsTo(g, X, step, base, seq, s, k)
    BY <1>4
  <2> DEFINE m == k + 1
             f == [s \in SUBSET (1 .. m) |-> IF m \in s THEN step[<<g[s \ {m}], seq[m]>>] ELSE g[s]]
  <2>2. /\ m \in Nat /\ m \in 1 .. n /\ m \notin 1 .. k /\ m - 1 = k
        /\ \A j \in 1 .. m : j \in Nat /\ j <= m /\ (j = m \/ j \in 1 .. k)
        /\ \A j \in 1 .. k : k - 1 \in 0 .. n - 1 /\ k - 1 + 1 = k
    BY <1>1
  <2>3. 1 .. k \subseteq 1 .. m
    BY <2>2
  <2>4. /\ \A x \in X[k] : x \in X[m]
        /\ \A x \in X[k] : \A e \in E : step[<<x, e>>] \in X[m]
        /\ k # 0 => \A x \in X[k - 1] : x \in X[k]
    <3>1. k # 0 => k - 1 \in 0 .. n - 1 /\ k - 1 + 1 = k
      BY <1>1
    <3> QED
      BY <3>1
  <2> HIDE DEF m
  <2>5. ASSUME NEW s \in SUBSET (1 .. m), m \in s
        PROVE  FoldsTo(f, X, step, base, seq, s, m)
    <3>1. Max(s) = m
      BY <2>2, <2>5, GreatestIsMax
    <3>2. s \ {m} \in SUBSET (1 .. k)
      BY <2>2
    <3>3. f[s] = step[<<g[s \ {m}], seq[m]>>] /\ s \ {m} \in SUBSET (1 .. m) /\ f[s \ {m}] = g[s \ {m}]
      BY <2>3, <2>5, <3>2
    <3>4. g[s \ {m}] \in X[k] /\ seq[m] \in E
      BY <1>2, <2>1, <2>2, <3>2 DEF FoldsTo
    <3>5. step[<<g[s \ {m}], seq[m]>>] \in X[m]
      BY <2>4, <3>4
    <3>6. f[s \ {m}] \in X[m - 1]
      BY <2>2, <3>3, <3>4
    <3> HIDE DEF f
    <3> QED
      BY <2>5, <3>1, <3>3, <3>5, <3>6 DEF FoldsTo
  <2>6. ASSUME NEW s \in SUBSET (1 .. m), m \notin s
        PROVE  FoldsTo(f, X, step, base, seq, s, m)
    <3>1. s \in SUBSET (1 .. k)
      BY <2>2, <2>6
    <3>2. \A r \in SUBSET s : f[r] = g[r]
      BY <2>6
    <3>3. s \in SUBSET s /\ s \ {Max(s)} \in SUBSET s
      OBVIOUS
    <3>4. f[s] = g[s] /\ f[s \ {Max(s)}] = g[s \ {Max(s)}]
      BY <3>2, <3>3
    <3>5. FoldsTo(g, X, step, base, seq, s, k)
      BY <2>1, <3>1
    <3>6. s # {} => k # 0
      <4>1. k = 0 => 1 .. k = {}
        OBVIOUS
      <4> QED
        BY <3>1, <4>1
    <3> HIDE DEF f
    <3> QED
      BY <2>2, <2>4, <3>4, <3>5, <3>6 DEF FoldsTo
  <2>7. DOMAIN f = SUBSET (1 .. m) /\ f = [s \in DOMAIN f |-> f[s]]
    OBVIOUS
  <2>8. Good(m)
    <3> HIDE DEF f
    <3> QED
      BY <2>5, <2>6, <2>7
  <2> QED
    BY <2>2, <2>8 DEF m
<1> HIDE DEF P
<1>5. \A k \in 0 .. n : k \in P
  BY <1>1, <1>3, <1>4, UpToInduction
<1>6. n \in P
  BY <1>1, <1>5
<1> QED
  BY <1>1, <1>6 DEF P
-----------------------------------------------------------------------------
(* Sequences, and FlattenSeq, which filters are written with. *)

\* A function on the first n numbers is a sequence.
LEMMA FunctionIsSeq ==
  ASSUME NEW E, NEW n \in Nat, NEW f \in [1 .. n -> E]
  PROVE  f \in Seq(E) /\ Len(f) = n
PROOF
<1>1. f \in Seq(E)
  BY SeqDef
<1>2. DOMAIN f = 1 .. n /\ DOMAIN f = 1 .. Len(f) /\ Len(f) \in Nat
  BY <1>1, LenProperties
<1> QED
  BY <1>1, <1>2

\* The elements of two sequences put together.
LEMMA ConcatRange ==
  ASSUME NEW E, NEW a \in Seq(E), NEW b \in Seq(E)
  PROVE  a \o b \in Seq(E) /\ ToSet(a \o b) = ToSet(a) \cup ToSet(b)
PROOF
<1>1. /\ a \o b \in Seq(E) /\ Len(a \o b) = Len(a) + Len(b)
      /\ \A i \in 1 .. Len(a) + Len(b) : (a \o b)[i] = IF i <= Len(a) THEN a[i] ELSE b[i - Len(a)]
  BY ConcatProperties
<1>2. /\ Len(a) \in Nat /\ Len(b) \in Nat /\ DOMAIN a = 1 .. Len(a) /\ DOMAIN b = 1 .. Len(b)
      /\ DOMAIN (a \o b) = 1 .. Len(a) + Len(b)
  BY <1>1, LenProperties
<1>3. ASSUME NEW i \in DOMAIN (a \o b)
      PROVE  (a \o b)[i] \in ToSet(a) \cup ToSet(b)
  <2>1. CASE i <= Len(a)
    <3>1. i \in DOMAIN a /\ (a \o b)[i] = a[i]
      BY <1>1, <1>2, <2>1
    <3> QED
      BY <3>1 DEF ToSet
  <2>2. CASE ~(i <= Len(a))
    <3>1. i - Len(a) \in DOMAIN b /\ (a \o b)[i] = b[i - Len(a)]
      BY <1>1, <1>2, <2>2
    <3> QED
      BY <3>1 DEF ToSet
  <2> QED
    BY <2>1, <2>2
<1>4. ASSUME NEW i \in DOMAIN a
      PROVE  a[i] \in ToSet(a \o b)
  <2>1. i \in DOMAIN (a \o b) /\ (a \o b)[i] = a[i]
    BY <1>1, <1>2
  <2> QED
    BY <2>1 DEF ToSet
<1>5. ASSUME NEW i \in DOMAIN b
      PROVE  b[i] \in ToSet(a \o b)
  <2>1. Len(a) + i \in DOMAIN (a \o b) /\ (a \o b)[Len(a) + i] = b[i]
    BY <1>1, <1>2
  <2> QED
    BY <2>1 DEF ToSet
<1> QED
  BY <1>1, <1>3, <1>4, <1>5 DEF ToSet

\* The elements of short sequences.
LEMMA ShortRanges ==
  ASSUME NEW E
  PROVE  /\ <<>> \in Seq(E) /\ ToSet(<<>>) = {}
         /\ \A x \in E : <<x>> \in Seq(E) /\ ToSet(<<x>>) = {x}
PROOF
<1>1. <<>> \in Seq(E) /\ ToSet(<<>>) = {}
  BY DEF ToSet
<1>2. ASSUME NEW x \in E
      PROVE  <<x>> \in Seq(E) /\ ToSet(<<x>>) = {x}
  <2>1. <<x>> \in Seq(E) /\ DOMAIN <<x>> = {1} /\ <<x>>[1] = x
    OBVIOUS
  <2> QED
    BY <2>1 DEF ToSet
<1> QED
  BY <1>1, <1>2

\* FlattenSeq prefix by prefix.
LEMMA FlattenPrefixes ==
  ASSUME NEW E, NEW seqs \in Seq(Seq(E))
  PROVE  \E f \in [0 .. Len(seqs) -> Seq(E)] :
           /\ f[0] = <<>>
           /\ \A i \in 1 .. Len(seqs) : f[i] = f[i - 1] \o seqs[i]
           /\ FlattenSeq(seqs) = f[Len(seqs)]
PROOF
<1> DEFINE n == Len(seqs)
           Good(k) == \E f \in [0 .. k -> Seq(E)] : /\ f[0] = <<>>
                                                   /\ \A i \in 1 .. k : f[i] = f[i - 1] \o seqs[i]
           P == {k \in Nat : Good(k)}
<1>1. n \in Nat /\ \A i \in 1 .. n : seqs[i] \in Seq(E)
  BY ElementOfSeq, LenProperties
<1>2. 0 \in P
  <2> DEFINE f == [i \in 0 .. 0 |-> <<>>]
  <2>1. f \in [0 .. 0 -> Seq(E)] /\ f[0] = <<>>
    OBVIOUS
  <2>2. \A i \in 1 .. 0 : FALSE
    OBVIOUS
  <2> HIDE DEF f
  <2> QED
    BY <2>1, <2>2
<1>3. ASSUME NEW k \in 0 .. n - 1, k \in P
      PROVE  k + 1 \in P
  <2>1. PICK g \in [0 .. k -> Seq(E)] : g[0] = <<>> /\ \A i \in 1 .. k : g[i] = g[i - 1] \o seqs[i]
    BY <1>3
  <2> DEFINE m == k + 1
             f == [i \in 0 .. m |-> IF i = m THEN g[k] \o seqs[m] ELSE g[i]]
  <2>2. /\ m \in Nat /\ m \in 1 .. n /\ m # 0 /\ m - 1 = k /\ m \in 0 .. m /\ k \in 0 .. k
        /\ \A i \in 0 .. m : i # m => i \in 0 .. k
        /\ \A i \in 1 .. m : i # m => i \in 1 .. k /\ i - 1 \in 0 .. m /\ i - 1 # m
        /\ k \in 0 .. m /\ k # m /\ 0 \in 0 .. m
    BY <1>1
  <2> HIDE DEF m
  <2>3. g[k] \o seqs[m] \in Seq(E)
    BY <1>1, <2>2, ConcatProperties
  <2>4. f \in [0 .. m -> Seq(E)]
    BY <2>2, <2>3
  <2>5. f[0] = <<>>
    BY <2>1, <2>2
  <2>6. ASSUME NEW i \in 1 .. m
        PROVE  f[i] = f[i - 1] \o seqs[i]
    <3>1. CASE i = m
      BY <2>2, <3>1
    <3>2. CASE i # m
      <4>1. i \in 1 .. k /\ i \in 0 .. m /\ f[i] = g[i] /\ f[i - 1] = g[i - 1]
        BY <2>2, <3>2
      <4> QED
        BY <2>1, <4>1
    <3> QED
      BY <3>1, <3>2
  <2>7. Good(m)
    <3> HIDE DEF f
    <3> QED
      BY <2>4, <2>5, <2>6
  <2> QED
    BY <2>2, <2>7 DEF m
<1> HIDE DEF P
<1>4. n \in P
  <2>1. \A k \in 0 .. n : k \in P
    BY <1>1, <1>2, <1>3, UpToInduction
  <2> QED
    BY <1>1, <2>1
<1>5. PICK g \in [0 .. n -> Seq(E)] : g[0] = <<>> /\ \A i \in 1 .. n : g[i] = g[i - 1] \o seqs[i]
  BY <1>4 DEF P
<1>6. CASE n = 0
  <2>1. seqs = <<>>
    BY <1>6, EmptySeq
  <2>2. FlattenSeq(seqs) = <<>>
    BY <1>6, <2>1 DEF FlattenSeq
  <2> QED
    BY <1>5, <1>6, <2>2
<1>7. CASE n # 0
  <2> DEFINE Rule(f) == f = [i \in 1 .. n |-> IF i = 1 THEN seqs[i] ELSE f[i - 1] \o seqs[i]]
             h == [i \in 1 .. n |-> g[i]]
             it == CHOOSE f : Rule(f)
  <2>1. Rule(h)
    <3>1. ASSUME NEW i \in 1 .. n
          PROVE  h[i] = IF i = 1 THEN seqs[i] ELSE h[i - 1] \o seqs[i]
      <4>1. CASE i = 1
        <5>1. g[1] = <<>> \o seqs[1] /\ seqs[1] \in Seq(E)
          <6>1. g[i] = g[i - 1] \o seqs[i]
            BY <1>5
          <6>2. i - 1 = 0
            BY <4>1
          <6> QED
            BY <1>1, <1>5, <4>1, <6>1, <6>2
        <5>2. <<>> \o seqs[1] = seqs[1]
          BY <5>1, ConcatEmptySeq
        <5> QED
          BY <4>1, <5>1, <5>2
      <4>2. CASE i # 1
        <5>1. i - 1 \in 1 .. n
          BY <4>2
        <5> QED
          BY <1>5, <4>2, <5>1
      <4> QED
        BY <4>1, <4>2
    <3> QED
      BY <3>1
  <2>2. Rule(it)
    BY <2>1
  <2>3. FlattenSeq(seqs) = it[n]
    BY <1>7 DEF FlattenSeq
  <2>4. \A i \in 1 .. n : h[i] = g[i]
    OBVIOUS
  <2> HIDE DEF it, h
  <2>5. /\ \A i \in 1 .. n : it[i] = IF i = 1 THEN seqs[i] ELSE it[i - 1] \o seqs[i]
        /\ \A i \in 1 .. n : h[i] = IF i = 1 THEN seqs[i] ELSE h[i - 1] \o seqs[i]
    BY <2>1, <2>2
  <2> DEFINE Q == {k \in Nat : k = 0 \/ it[k] = h[k]}
  <2>6. \A k \in 0 .. n : k \in Q
    <3>1. ASSUME NEW k \in 0 .. n - 1, k \in Q
          PROVE  k + 1 \in Q
      <4>1. PICK j \in 1 .. n : j = k + 1 /\ j \in Nat /\ j - 1 = k
        BY <1>1
      <4>2. CASE j = 1
        <5>1. it[j] = h[j]
          BY <2>5, <4>2
        <5> QED
          BY <4>1, <5>1
      <4>3. CASE j # 1
        <5>1. it[k] = h[k]
          BY <3>1, <4>1, <4>3
        <5>2. it[j] = it[j - 1] \o seqs[j] /\ h[j] = h[j - 1] \o seqs[j]
          BY <2>5, <4>3
        <5>3. it[j] = h[j]
          BY <4>1, <5>1, <5>2
        <5> QED
          BY <4>1, <5>3
      <4> QED
        BY <4>2, <4>3
    <3>2. 0 \in Q
      OBVIOUS
    <3> HIDE DEF Q
    <3> QED
      BY <1>1, <3>1, <3>2, UpToInduction
  <2>7. it[n] = h[n] /\ h[n] = g[n]
    <3>1. n \in 0 .. n /\ n \in 1 .. n
      BY <1>1, <1>7
    <3> QED
      BY <1>7, <2>4, <2>6, <3>1
  <2> QED
    BY <1>5, <2>3, <2>7
<1> QED
  BY <1>6, <1>7

\* FlattenSeq has the elements of the sequences it is given.
LEMMA FlattenRange ==
  ASSUME NEW E, NEW seqs \in Seq(Seq(E))
  PROVE  /\ FlattenSeq(seqs) \in Seq(E)
         /\ ToSet(FlattenSeq(seqs)) = UNION {ToSet(seqs[i]) : i \in 1 .. Len(seqs)}
PROOF
<1> DEFINE n == Len(seqs)
           All(k) == UNION {ToSet(seqs[i]) : i \in 1 .. k}
<1>1. n \in Nat /\ \A i \in 1 .. n : seqs[i] \in Seq(E)
  BY ElementOfSeq, LenProperties
<1>2. PICK f \in [0 .. n -> Seq(E)] : /\ f[0] = <<>>
                                      /\ \A i \in 1 .. n : f[i] = f[i - 1] \o seqs[i]
                                      /\ FlattenSeq(seqs) = f[n]
  BY FlattenPrefixes
<1> DEFINE P == {k \in Nat : k <= n => ToSet(f[k]) = All(k)}
<1>3. 0 \in P
  BY <1>2 DEF ToSet
<1>4. ASSUME NEW k \in 0 .. n - 1, k \in P
      PROVE  k + 1 \in P
  <2>1. PICK m \in 1 .. n : m = k + 1 /\ m - 1 = k /\ m \in Nat /\ k \in 0 .. n /\ k <= n
    BY <1>1
  <2>2. ToSet(f[m]) = ToSet(f[k]) \cup ToSet(seqs[m])
    <3>1. f[m] = f[k] \o seqs[m] /\ f[k] \in Seq(E) /\ seqs[m] \in Seq(E)
      BY <1>1, <1>2, <2>1
    <3> QED
      BY <3>1, ConcatRange
  <2>3. \A i \in 1 .. m : i = m \/ i \in 1 .. k
    BY <2>1
  <2>4. m \in 1 .. m /\ \A i \in 1 .. k : i \in 1 .. m
    BY <2>1
  <2>5. All(m) = All(k) \cup ToSet(seqs[m])
    BY <2>3, <2>4
  <2>6. ToSet(f[k]) = All(k)
    BY <1>4, <2>1
  <2> QED
    BY <2>1, <2>2, <2>5, <2>6
<1> HIDE DEF P
<1>5. n \in P
  <2>1. \A k \in 0 .. n : k \in P
    BY <1>1, <1>3, <1>4, UpToInduction
  <2> QED
    BY <1>1, <2>1
<1> QED
  BY <1>1, <1>2, <1>5 DEF P

\* Appending to a sequence, and taking the first element off.
LEMMA AppendRange ==
  ASSUME NEW E, NEW seq \in Seq(E), NEW x \in E
  PROVE  /\ Append(seq, x) \in Seq(E)
         /\ Len(Append(seq, x)) = Len(seq) + 1
         /\ \A i \in 1 .. Len(seq) : Append(seq, x)[i] = seq[i]
         /\ Append(seq, x)[Len(seq) + 1] = x
         /\ ToSet(Append(seq, x)) = ToSet(seq) \cup {x}
PROOF
<1>1. /\ Append(seq, x) \in Seq(E) /\ Len(Append(seq, x)) = Len(seq) + 1
      /\ \A i \in 1 .. Len(seq) : Append(seq, x)[i] = seq[i]
      /\ Append(seq, x)[Len(seq) + 1] = x
  BY AppendProperties
<1>2. Len(seq) \in Nat /\ DOMAIN seq = 1 .. Len(seq) /\ DOMAIN Append(seq, x) = 1 .. Len(seq) + 1
  BY <1>1, LenProperties
<1>3. ToSet(Append(seq, x)) = ToSet(seq) \cup {x}
  <2> DEFINE a == Append(seq, x)
             n == Len(seq)
  <2> HIDE DEF a
  <2>1. ToSet(a) \subseteq ToSet(seq) \cup {x}
    <3>1. ASSUME NEW i \in 1 .. n + 1
          PROVE  a[i] \in ToSet(seq) \cup {x}
      <4>1. CASE i = n + 1
        BY <1>1, <4>1 DEF a
      <4>2. CASE i # n + 1
        <5>1. i \in 1 .. n
          BY <1>2, <3>1, <4>2
        <5> QED
          BY <1>1, <1>2, <5>1 DEF a, ToSet
      <4> QED
        BY <4>1, <4>2
    <3> QED
      BY <1>2, <3>1 DEF ToSet, a
  <2>2. ASSUME NEW i \in 1 .. n
        PROVE  seq[i] \in ToSet(a)
    <3>1. i \in 1 .. n + 1 /\ a[i] = seq[i]
      BY <1>1, <1>2, <2>2 DEF a
    <3> QED
      BY <1>2, <3>1 DEF ToSet, a
  <2>3. x \in ToSet(a)
    <3>1. n + 1 \in 1 .. n + 1 /\ a[n + 1] = x
      BY <1>1, <1>2 DEF a
    <3> QED
      BY <1>2, <3>1 DEF ToSet, a
  <2> QED
    BY <1>2, <2>1, <2>2, <2>3 DEF ToSet, a
<1> QED
  BY <1>1, <1>3

LEMMA HeadTailRange ==
  ASSUME NEW E, NEW seq \in Seq(E), seq # <<>>
  PROVE  /\ Len(seq) \in Nat /\ Len(seq) > 0
         /\ Head(seq) \in E /\ Head(seq) = seq[1]
         /\ Tail(seq) \in Seq(E)
         /\ Len(Tail(seq)) = Len(seq) - 1
         /\ \A i \in 1 .. Len(seq) - 1 : Tail(seq)[i] = seq[i + 1]
         /\ ToSet(seq) = {Head(seq)} \cup ToSet(Tail(seq))
PROOF
<1> DEFINE n == Len(seq)
           r == Tail(seq)
<1>1. /\ n \in Nat /\ n > 0 /\ DOMAIN seq = 1 .. n
  BY EmptySeq, LenProperties
<1>2. /\ Head(seq) \in E /\ Head(seq) = seq[1] /\ r \in Seq(E) /\ Len(r) = n - 1
      /\ \A i \in 1 .. n - 1 : r[i] = seq[i + 1]
  BY HeadTailProperties
<1>3. DOMAIN r = 1 .. n - 1
  BY <1>1, <1>2, LenProperties
<1> HIDE DEF n, r
<1>4. ASSUME NEW i \in 1 .. n
      PROVE  seq[i] \in {Head(seq)} \cup ToSet(r)
  <2>1. CASE i = 1
    BY <1>2, <2>1
  <2>2. CASE i # 1
    <3>1. i - 1 \in 1 .. n - 1 /\ (i - 1) + 1 = i
      BY <1>1, <1>4, <2>2
    <3>2. r[i - 1] = seq[i]
      BY <1>2, <3>1
    <3> QED
      BY <1>3, <3>1, <3>2 DEF ToSet
  <2> QED
    BY <2>1, <2>2
<1>5. ASSUME NEW i \in 1 .. n - 1
      PROVE  r[i] \in ToSet(seq)
  <2>1. i + 1 \in 1 .. n /\ r[i] = seq[i + 1]
    BY <1>1, <1>2, <1>5
  <2> QED
    BY <1>1, <2>1 DEF ToSet
<1>6. Head(seq) \in ToSet(seq)
  <2>1. 1 \in 1 .. n
    BY <1>1
  <2> QED
    BY <1>1, <1>2, <2>1 DEF ToSet
<1>7. ToSet(seq) = {Head(seq)} \cup ToSet(r)
  BY <1>1, <1>3, <1>4, <1>5, <1>6 DEF ToSet
<1> QED
  BY <1>1, <1>2, <1>7 DEF n, r

\* Taking one element out of a sequence in which none is repeated.
LEMMA RemoveAtRange ==
  ASSUME NEW E, NEW seq \in Seq(E), NEW k \in DOMAIN seq
  PROVE  /\ RemoveAt(seq, k) \in Seq(E)
         /\ Len(RemoveAt(seq, k)) = Len(seq) - 1
         /\ \A i \in 1 .. Len(seq) - 1 : RemoveAt(seq, k)[i] = IF i < k THEN seq[i] ELSE seq[i + 1]
         /\ IsInjective(seq) => /\ IsInjective(RemoveAt(seq, k))
                                /\ ToSet(RemoveAt(seq, k)) = ToSet(seq) \ {seq[k]}
PROOF
<1> DEFINE n == Len(seq)
           a == SubSeq(seq, 1, k - 1)
           b == SubSeq(seq, k + 1, n)
           r == a \o b
<1>1. n \in Nat /\ DOMAIN seq = 1 .. n /\ k \in 1 .. n /\ \A i \in 1 .. n : seq[i] \in E
  BY ElementOfSeq, LenProperties
<1>2. r = RemoveAt(seq, k)
  BY DEF RemoveAt
<1>3. a \in Seq(E) /\ Len(a) = k - 1 /\ \A i \in 1 .. k - 1 : a[i] = seq[i]
  <2>1. \A i \in 1 .. k - 1 : seq[i] \in E
    BY <1>1
  <2>2. /\ SubSeq(seq, 1, k - 1) \in Seq(E)
        /\ Len(SubSeq(seq, 1, k - 1)) = IF 1 <= k - 1 THEN (k - 1) - 1 + 1 ELSE 0
        /\ \A i \in 1 .. (k - 1) - 1 + 1 : SubSeq(seq, 1, k - 1)[i] = seq[1 + i - 1]
    BY <1>1, <2>1, SubSeqProperties
  <2> HIDE DEF a
  <2>3. a = SubSeq(seq, 1, k - 1)
    BY DEF a
  <2> QED
    BY <1>1, <2>2, <2>3
<1>4. b \in Seq(E) /\ Len(b) = n - k /\ \A i \in 1 .. n - k : b[i] = seq[k + i]
  <2>1. \A i \in k + 1 .. n : seq[i] \in E
    BY <1>1
  <2>2. /\ SubSeq(seq, k + 1, n) \in Seq(E)
        /\ Len(SubSeq(seq, k + 1, n)) = IF k + 1 <= n THEN n - (k + 1) + 1 ELSE 0
        /\ \A i \in 1 .. n - (k + 1) + 1 : SubSeq(seq, k + 1, n)[i] = seq[(k + 1) + i - 1]
    BY <1>1, <2>1, SubSeqProperties
  <2> HIDE DEF b
  <2>3. b = SubSeq(seq, k + 1, n)
    BY DEF b
  <2>4. \A i \in 1 .. n - k : (k + 1) + i - 1 = k + i /\ i \in 1 .. n - (k + 1) + 1
    BY <1>1
  <2> QED
    BY <1>1, <2>2, <2>3, <2>4
<1> HIDE DEF n, a, b
<1>5. /\ r \in Seq(E) /\ Len(r) = n - 1
      /\ \A i \in 1 .. n - 1 : r[i] = IF i <= k - 1 THEN a[i] ELSE b[i - (k - 1)]
  <2>1. /\ r \in Seq(E) /\ Len(r) = Len(a) + Len(b)
        /\ \A i \in 1 .. Len(a) + Len(b) : r[i] = IF i <= Len(a) THEN a[i] ELSE b[i - Len(a)]
    BY <1>3, <1>4, ConcatProperties
  <2>2. Len(a) + Len(b) = n - 1
    BY <1>1, <1>3, <1>4
  <2> QED
    BY <1>1, <1>3, <2>1, <2>2
<1> HIDE DEF r
<1>6. ASSUME NEW i \in 1 .. n - 1
      PROVE  r[i] = IF i < k THEN seq[i] ELSE seq[i + 1]
  <2>1. CASE i < k
    BY <1>1, <1>3, <1>5, <1>6, <2>1
  <2>2. CASE ~(i < k)
    <3>1. r[i] = b[i - (k - 1)]
      BY <1>1, <1>5, <1>6, <2>2
    <3>2. i - (k - 1) \in 1 .. n - k /\ k + (i - (k - 1)) = i + 1
      BY <1>1, <1>6, <2>2
    <3>3. b[i - (k - 1)] = seq[k + (i - (k - 1))]
      BY <1>4, <3>2
    <3> QED
      BY <2>2, <3>1, <3>2, <3>3
  <2> QED
    BY <2>1, <2>2
<1>7. DOMAIN r = 1 .. n - 1
  BY <1>1, <1>5, LenProperties
<1>8. ASSUME IsInjective(seq)
      PROVE  IsInjective(r)
  <2>1. ASSUME NEW i \in 1 .. n - 1, NEW j \in 1 .. n - 1, r[i] = r[j]
        PROVE  i = j
    <3>1. PICK x \in 1 .. n : x = (IF i < k THEN i ELSE i + 1) /\ r[i] = seq[x]
      BY <1>1, <1>6, <2>1
    <3>2. PICK y \in 1 .. n : y = (IF j < k THEN j ELSE j + 1) /\ r[j] = seq[y]
      BY <1>1, <1>6, <2>1
    <3>3. x = y
      BY <1>1, <1>8, <2>1, <3>1, <3>2 DEF IsInjective
    <3> QED
      BY <1>1, <2>1, <3>1, <3>2, <3>3
  <2> QED
    BY <1>7, <2>1 DEF IsInjective
<1>9. ASSUME IsInjective(seq)
      PROVE  ToSet(r) = ToSet(seq) \ {seq[k]}
  <2>1. ASSUME NEW i \in 1 .. n - 1
        PROVE  r[i] \in ToSet(seq) \ {seq[k]}
    <3>1. PICK x \in 1 .. n : x = (IF i < k THEN i ELSE i + 1) /\ r[i] = seq[x] /\ x # k
      BY <1>1, <1>6, <2>1
    <3> QED
      BY <1>1, <1>9, <3>1 DEF IsInjective, ToSet
  <2>2. ASSUME NEW x \in 1 .. n, seq[x] # seq[k]
        PROVE  seq[x] \in ToSet(r)
    <3>1. PICK i \in 1 .. n - 1 : x = (IF i < k THEN i ELSE i + 1)
      <4>1. CASE x < k
        <5>1. x \in 1 .. n - 1
          BY <1>1, <4>1
        <5> QED
          BY <4>1, <5>1
      <4>2. CASE ~(x < k)
        <5>1. x - 1 \in 1 .. n - 1 /\ (x - 1) + 1 = x /\ ~(x - 1 < k)
          BY <1>1, <2>2, <4>2
        <5> QED
          BY <5>1
      <4> QED
        BY <4>1, <4>2
    <3>2. r[i] = seq[x]
      BY <1>6, <3>1
    <3> QED
      BY <1>7, <3>2 DEF ToSet
  <2> QED
    BY <1>1, <1>7, <2>1, <2>2 DEF ToSet
<1> QED
  BY <1>2, <1>5, <1>6, <1>8, <1>9 DEF n

-----------------------------------------------------------------------------
(* Division, and counters that go round. *)

LEMMA DivMod ==
  ASSUME NEW h \in Nat, h > 0, NEW q \in Nat, NEW r \in 0 .. h - 1
  PROVE  (q * h + r) \div h = q /\ (q * h + r) % h = r
PROOF
BY SMTT(30)

LEMMA Divides ==
  ASSUME NEW h \in Nat, h > 0, NEW x \in Nat
  PROVE  x \div h \in Nat /\ x % h \in 0 .. h - 1 /\ x = (x \div h) * h + (x % h)
PROOF
<1>1. x \div h \in Int /\ x % h \in 0 .. h - 1 /\ x = (x \div h) * h + (x % h)
  BY SMTT(30)
<1>2. x \div h >= 0
  BY SMTT(30)
<1> QED
  BY <1>1, <1>2

LEMMA Remainder ==
  ASSUME NEW h \in Nat, h > 0, NEW x \in 0 .. h - 1
  PROVE  x % h = x
PROOF
<1>1. 0 \in Nat /\ x = 0 * h + x
  OBVIOUS
<1> QED
  BY <1>1, DivMod

LEMMA DivDiv ==
  ASSUME NEW h \in Nat, h > 0, NEW g \in Nat, g > 0, NEW x \in Nat
  PROVE  (x \div h) \div g = x \div (h * g)
PROOF
BY SMTT(30)

LEMMA DivSmall ==
  ASSUME NEW h \in Nat, h > 0, NEW g \in Nat, NEW x \in Nat, x < g * h
  PROVE  x \div h < g
PROOF
<1>1. /\ x \div h \in Nat /\ x % h \in 0 .. h - 1 /\ x = (x \div h) * h + (x % h)
  BY Divides
<1> DEFINE q == x \div h
<1> HIDE DEF q
<1>2. ASSUME q >= g
      PROVE  FALSE
  <2>1. q * h >= g * h
    BY <1>1, <1>2 DEF q
  <2> QED
    BY <1>1, <2>1 DEF q
<1> QED
  BY <1>1, <1>2 DEF q

\* One step more of a counter that goes round.
LEMMA ModStep ==
  ASSUME NEW h \in Nat, h > 0, NEW x \in Nat
  PROVE  ((x % h) + 1) % h = (x + 1) % h
PROOF
<1>1. /\ x \div h \in Nat /\ x % h \in 0 .. h - 1 /\ x = (x \div h) * h + (x % h)
  BY Divides
<1> DEFINE q == x \div h
           r == x % h
<1> HIDE DEF q, r
<1>2. q \in Nat /\ r \in 0 .. h - 1 /\ x = q * h + r
  BY <1>1 DEF q, r
<1>3. CASE r + 1 < h
  <2>1. r + 1 \in 0 .. h - 1 /\ x + 1 = q * h + (r + 1) /\ r + 1 = 0 * h + (r + 1)
    BY <1>2, <1>3
  <2>2. (x + 1) % h = r + 1
    BY <1>2, <2>1, DivMod
  <2>3. (r + 1) % h = r + 1
    BY <1>2, <2>1, DivMod
  <2> QED
    BY <2>2, <2>3 DEF r
<1>4. CASE r + 1 = h
  <2>1. 0 \in 0 .. h - 1 /\ q + 1 \in Nat /\ x + 1 = (q + 1) * h + 0 /\ r + 1 = 1 * h + 0
    BY <1>2, <1>4
  <2>2. (x + 1) % h = 0
    BY <1>2, <2>1, DivMod
  <2>3. (r + 1) % h = 0
    BY <1>2, <2>1, DivMod
  <2> QED
    BY <2>2, <2>3 DEF r
<1> QED
  BY <1>2, <1>3, <1>4

\* It comes back to where it was after h steps at the soonest.
LEMMA FullCircle ==
  ASSUME NEW h \in Nat, h > 0, NEW r \in 0 .. h - 1, NEW n \in Nat, n > 0, (r + n) % h = r
  PROVE  n >= h
PROOF
<1> SUFFICES ASSUME n < h
             PROVE  FALSE
  OBVIOUS
<1>1. CASE r + n < h
  <2>1. r + n \in 0 .. h - 1 /\ r + n = 0 * h + (r + n)
    BY <1>1
  <2>2. (r + n) % h = r + n
    BY <2>1, DivMod
  <2> QED
    BY <2>2
<1>2. CASE r + n >= h
  <2>1. r + n - h \in 0 .. h - 1 /\ r + n = 1 * h + (r + n - h)
    BY <1>2
  <2>2. (r + n) % h = r + n - h
    BY <2>1, DivMod
  <2> QED
    BY <2>2
<1> QED
  BY <1>1, <1>2

-----------------------------------------------------------------------------
(* Injections, to compare the sizes of sets of positions. *)

\* A is no larger than B, and the disjoint union.
A \preceq B == ExistsInjection(A, B)
A \uplus B == ({0} \X A) \cup ({1} \X B)

\* An injection, spelled out.
LEMMA InjectionExists ==
  ASSUME NEW A, NEW B
  PROVE  A \preceq B <=> \E f \in [A -> B] : \A x, y \in A : f[x] = f[y] => x = y
PROOF
  BY DEF \preceq, ExistsInjection, Injection, IsInjective

\* The order it makes.
LEMMA InjectionComposed ==
  ASSUME NEW A, NEW B, NEW C, A \preceq B, B \preceq C
  PROVE  A \preceq C
PROOF
<1>1. PICK f \in [A -> B] : \A x, y \in A : f[x] = f[y] => x = y
  BY InjectionExists
<1>2. PICK g \in [B -> C] : \A x, y \in B : g[x] = g[y] => x = y
  BY InjectionExists
<1> DEFINE h == [x \in A |-> g[f[x]]]
<1>3. h \in [A -> C]
  BY <1>1, <1>2
<1>4. \A x, y \in A : h[x] = h[y] => x = y
  BY <1>1, <1>2
<1> HIDE DEF h
<1> QED
  BY <1>3, <1>4, InjectionExists

LEMMA InjectionOfPart ==
  ASSUME NEW A, NEW B, A \subseteq B
  PROVE  A \preceq B
PROOF
<1> DEFINE f == [x \in A |-> x]
<1>1. f \in [A -> B] /\ \A x, y \in A : f[x] = f[y] => x = y
  OBVIOUS
<1> QED
  BY <1>1, InjectionExists

\* And its sizes.
LEMMA InjectionSizes ==
  ASSUME NEW A, NEW B, A \preceq B, IsFiniteSet(B)
  PROVE  IsFiniteSet(A) /\ Cardinality(A) <= Cardinality(B)
PROOF
<1>1. PICK f : f \in Injection(A, B)
  BY DEF \preceq, ExistsInjection
<1> QED
  BY <1>1, FS_Injection

\* What is no larger than nothing.
LEMMA NothingBelow ==
  ASSUME NEW A, NEW B, A \preceq B, B = {}
  PROVE  A = {}
PROOF
  BY InjectionExists

\* Injections side by side.
Tagged(F) == UNION {{i} \X F[i] : i \in DOMAIN F}

LEMMA InjectionsTagged ==
  ASSUME NEW A, NEW B, DOMAIN A = DOMAIN B, \A i \in DOMAIN A : A[i] \preceq B[i]
  PROVE  Tagged(A) \preceq Tagged(B)
PROOF
<1> DEFINE I == DOMAIN A
           Good(i, f) == f \in [A[i] -> B[i]] /\ \A x, y \in A[i] : f[x] = f[y] => x = y
           f(i) == CHOOSE g : Good(i, g)
           TA == UNION {{i} \X A[i] : i \in I}
           TB == UNION {{i} \X B[i] : i \in I}
           h == [p \in TA |-> <<p[1], f(p[1])[p[2]]>>]
<1>1. \A i \in I : Good(i, f(i))
  <2> SUFFICES ASSUME NEW i \in I
               PROVE  Good(i, f(i))
    OBVIOUS
  <2>1. \E g : Good(i, g)
    BY InjectionExists
  <2> HIDE DEF Good
  <2> QED
    BY <2>1
<1>2. \A p \in TA : p[1] \in I /\ p[2] \in A[p[1]] /\ p = <<p[1], p[2]>>
  OBVIOUS
<1>3. \A i \in I : \A y \in B[i] : <<i, y>> \in TB
  OBVIOUS
<1> HIDE DEF f, TA, TB
<1>4. \A p \in TA : f(p[1])[p[2]] \in B[p[1]]
  BY <1>1, <1>2
<1>5. \A p \in TA : h[p] \in TB
  BY <1>2, <1>3, <1>4
<1>6. h \in [TA -> TB]
  BY <1>5
<1>7. ASSUME NEW p \in TA, NEW q \in TA, h[p] = h[q]
      PROVE  p = q
  <2>1. p[1] = q[1] /\ f(p[1])[p[2]] = f(p[1])[q[2]]
    BY <1>7
  <2>2. p[2] \in A[p[1]] /\ q[2] \in A[p[1]] /\ p[1] \in I
    BY <1>2, <2>1
  <2>3. p[2] = q[2]
    BY <1>1, <2>1, <2>2
  <2> QED
    BY <1>2, <2>1, <2>3
<1> HIDE DEF h
<1>8. TA \preceq TB
  BY <1>6, <1>7, InjectionExists
<1> QED
  BY <1>8 DEF TA, TB, Tagged

\* Membership, in both directions.
LEMMA UnionMember ==
  ASSUME NEW A, NEW B, NEW x
  PROVE  /\ <<0, x>> \in A \uplus B <=> x \in A
         /\ <<1, x>> \in A \uplus B <=> x \in B
PROOF
  BY DEF \uplus

LEMMA UnionCases ==
  ASSUME NEW A, NEW B, NEW x \in A \uplus B
  PROVE  x = <<x[1], x[2]>> /\ ((x[1] = 0 /\ x[2] \in A) \/ (x[1] = 1 /\ x[2] \in B))
PROOF
<1>1. x \in {0} \X A \/ x \in {1} \X B
  BY DEF \uplus
<1>2. x \in {0} \X A => x = <<x[1], x[2]>> /\ x[1] = 0 /\ x[2] \in A
  OBVIOUS
<1>3. x \in {1} \X B => x = <<x[1], x[2]>> /\ x[1] = 1 /\ x[2] \in B
  OBVIOUS
<1> QED
  BY <1>1, <1>2, <1>3

\* A union grows with its parts, and the order of its parts does not matter.
LEMMA UnionGrows ==
  ASSUME NEW A, NEW B, NEW C, NEW D, A \preceq C, B \preceq D
  PROVE  A \uplus B \preceq C \uplus D
PROOF
<1>1. PICK f \in [A -> C] : \A x, y \in A : f[x] = f[y] => x = y
  BY InjectionExists
<1>2. PICK g \in [B -> D] : \A x, y \in B : g[x] = g[y] => x = y
  BY InjectionExists
<1> DEFINE S == A \uplus B
           T == C \uplus D
           h == [x \in S |-> IF x[1] = 0 THEN <<0, f[x[2]]>> ELSE <<1, g[x[2]]>>]
<1>3. \A x \in S : x = <<x[1], x[2]>> /\ ((x[1] = 0 /\ x[2] \in A) \/ (x[1] = 1 /\ x[2] \in B))
  BY UnionCases
<1>4. \A x \in A : <<0, f[x]>> \in T
  BY <1>1, UnionMember
<1>5. \A x \in B : <<1, g[x]>> \in T
  BY <1>2, UnionMember
<1> HIDE DEF S, T
<1>6. h \in [S -> T]
  <2>1. \A x \in S : (IF x[1] = 0 THEN <<0, f[x[2]]>> ELSE <<1, g[x[2]]>>) \in T
    BY <1>3, <1>4, <1>5
  <2> QED
    BY <2>1
<1>7. ASSUME NEW x \in S, NEW y \in S, h[x] = h[y]
      PROVE  x = y
  <2>1. CASE x[1] = 0
    <3>1. h[x] = <<0, f[x[2]]>>
      BY <2>1
    <3>2. y[1] = 0
      <4>1. y[1] = 1 => h[y] = <<1, g[y[2]]>>
        OBVIOUS
      <4>2. y[1] = 1 => h[x] # h[y]
        BY <3>1, <4>1
      <4> QED
        BY <1>3, <1>7, <4>2
    <3>3. h[y] = <<0, f[y[2]]>>
      BY <3>2
    <3>4. x[2] \in A /\ y[2] \in A /\ f[x[2]] = f[y[2]]
      BY <1>3, <1>7, <2>1, <3>1, <3>2, <3>3
    <3> QED
      BY <1>1, <1>3, <2>1, <3>2, <3>4
  <2>2. CASE x[1] = 1
    <3>1. h[x] = <<1, g[x[2]]>>
      BY <2>2
    <3>2. y[1] = 1
      <4>1. y[1] = 0 => h[y] = <<0, f[y[2]]>>
        OBVIOUS
      <4>2. y[1] = 0 => h[x] # h[y]
        BY <3>1, <4>1
      <4> QED
        BY <1>3, <1>7, <4>2
    <3>3. h[y] = <<1, g[y[2]]>>
      BY <3>2
    <3>4. x[2] \in B /\ y[2] \in B /\ g[x[2]] = g[y[2]]
      BY <1>3, <1>7, <2>2, <3>1, <3>2, <3>3
    <3> QED
      BY <1>2, <1>3, <2>2, <3>2, <3>4
  <2> QED
    BY <1>3, <2>1, <2>2
<1> HIDE DEF h
<1>8. S \preceq T
  BY <1>6, <1>7, InjectionExists
<1> QED
  BY <1>8 DEF S, T

LEMMA UnionLaws ==
  ASSUME NEW A, NEW B, NEW C
  PROVE  /\ A \preceq A \uplus B
         /\ B \preceq A \uplus B
         /\ B = {} => A \uplus B \preceq A
         /\ A = {} => A \uplus B \preceq B
         /\ A \uplus B \preceq B \uplus A
         /\ (A \uplus B) \uplus C \preceq A \uplus (B \uplus C)
         /\ A \uplus (B \uplus C) \preceq (A \uplus B) \uplus C
PROOF
<1> DEFINE S == A \uplus B
<1>0. /\ \A x \in S : x = <<x[1], x[2]>> /\ ((x[1] = 0 /\ x[2] \in A) \/ (x[1] = 1 /\ x[2] \in B))
      /\ \A x \in A : <<0, x>> \in S
      /\ \A x \in B : <<1, x>> \in S
  BY UnionMember, UnionCases
<1>1. A \preceq S
  <2> DEFINE h == [x \in A |-> <<0, x>>]
  <2> HIDE DEF S
  <2>1. h \in [A -> S] /\ \A x, y \in A : h[x] = h[y] => x = y
    BY <1>0
  <2> HIDE DEF h
  <2> QED
    BY <2>1, InjectionExists
<1>2. B \preceq S
  <2> DEFINE h == [x \in B |-> <<1, x>>]
  <2> HIDE DEF S
  <2>1. h \in [B -> S] /\ \A x, y \in B : h[x] = h[y] => x = y
    BY <1>0
  <2> HIDE DEF h
  <2> QED
    BY <2>1, InjectionExists
<1>3. ASSUME B = {} PROVE S \preceq A
  <2> DEFINE h == [x \in S |-> x[2]]
  <2> HIDE DEF S
  <2>1. h \in [S -> A] /\ \A x, y \in S : h[x] = h[y] => x = y
    BY <1>0, <1>3
  <2> HIDE DEF h
  <2> QED
    BY <2>1, InjectionExists
<1>4. ASSUME A = {} PROVE S \preceq B
  <2> DEFINE h == [x \in S |-> x[2]]
  <2> HIDE DEF S
  <2>1. h \in [S -> B] /\ \A x, y \in S : h[x] = h[y] => x = y
    BY <1>0, <1>4
  <2> HIDE DEF h
  <2> QED
    BY <2>1, InjectionExists
<1>5. S \preceq B \uplus A
  <2> DEFINE T == B \uplus A
             h == [x \in S |-> <<1 - x[1], x[2]>>]
  <2>1. /\ \A x \in B : <<0, x>> \in T
        /\ \A x \in A : <<1, x>> \in T
    BY UnionMember
  <2> HIDE DEF S, T
  <2>2. \A x \in S : /\ x[1] = 0 => <<1 - x[1], x[2]>> = <<1, x[2]>>
                     /\ x[1] = 1 => <<1 - x[1], x[2]>> = <<0, x[2]>>
    OBVIOUS
  <2>3. h \in [S -> T] /\ \A x \in S : h[x] = <<1 - x[1], x[2]>>
    BY <1>0, <2>1, <2>2
  <2> HIDE DEF h
  <2>4. ASSUME NEW x \in S, NEW y \in S, h[x] = h[y] PROVE x = y
    <3>1. PICK i, j : i = x[1] /\ j = y[1]
      OBVIOUS
    <3>2. 1 - i = 1 - j /\ x[2] = y[2]
      BY <2>3, <2>4, <3>1
    <3>3. i \in {0, 1} /\ j \in {0, 1}
      BY <1>0, <3>1
    <3>4. i = j
      BY <3>2, <3>3
    <3> QED
      BY <1>0, <3>1, <3>2, <3>4
  <2>5. S \preceq T
    BY <2>3, <2>4, InjectionExists
  <2> QED
    BY <2>5 DEF T
<1> DEFINE R == B \uplus C
           L == S \uplus C
           M == A \uplus R
<1>6. /\ \A x \in R : x = <<x[1], x[2]>> /\ ((x[1] = 0 /\ x[2] \in B) \/ (x[1] = 1 /\ x[2] \in C))
      /\ \A x \in B : <<0, x>> \in R
      /\ \A x \in C : <<1, x>> \in R
  BY UnionMember, UnionCases
<1> HIDE DEF S, R
<1>7. /\ \A x \in L : x = <<x[1], x[2]>> /\ ((x[1] = 0 /\ x[2] \in S) \/ (x[1] = 1 /\ x[2] \in C))
      /\ \A x \in S : <<0, x>> \in L
      /\ \A x \in C : <<1, x>> \in L
  BY UnionMember, UnionCases
<1>8. /\ \A x \in M : x = <<x[1], x[2]>> /\ ((x[1] = 0 /\ x[2] \in A) \/ (x[1] = 1 /\ x[2] \in R))
      /\ \A x \in A : <<0, x>> \in M
      /\ \A x \in R : <<1, x>> \in M
  BY UnionMember, UnionCases
<1> HIDE DEF L, M
<1> DEFINE f == [x \in L |-> IF x[1] = 1 THEN <<1, <<1, x[2]>> >>
                             ELSE IF x[2][1] = 0 THEN <<0, x[2][2]>> ELSE <<1, <<0, x[2][2]>> >>]
           g == [x \in M |-> IF x[1] = 0 THEN <<0, <<0, x[2]>> >>
                             ELSE IF x[2][1] = 0 THEN <<0, <<1, x[2][2]>> >> ELSE <<1, x[2][2]>>]
<1>9. ASSUME NEW x \in L
      PROVE  /\ f[x] \in M
             /\ g[f[x]] = x
  <2>1. CASE x[1] = 1
    <3>1. f[x] = <<1, <<1, x[2]>> >> /\ x[2] \in C /\ x = <<1, x[2]>>
      BY <1>7, <2>1
    <3>2. <<1, <<1, x[2]>> >> \in M
      BY <1>6, <1>8, <3>1
    <3>3. g[<<1, <<1, x[2]>> >>] = <<1, x[2]>>
      BY <3>2
    <3> QED
      BY <3>1, <3>2, <3>3
  <2>2. CASE x[1] = 0 /\ x[2][1] = 0
    <3>1. x[2] \in S /\ x = <<0, x[2]>> /\ f[x] = <<0, x[2][2]>>
      BY <1>7, <2>2
    <3>2. x[2][2] \in A /\ x[2] = <<0, x[2][2]>>
      BY <1>0, <2>2, <3>1
    <3>3. <<0, x[2][2]>> \in M
      BY <1>8, <3>2
    <3>4. g[<<0, x[2][2]>>] = <<0, <<0, x[2][2]>> >>
      BY <3>3
    <3> QED
      BY <3>1, <3>2, <3>3, <3>4
  <2>3. CASE x[1] = 0 /\ x[2][1] = 1
    <3>1. x[2] \in S /\ x = <<0, x[2]>> /\ f[x] = <<1, <<0, x[2][2]>> >>
      BY <1>7, <2>3
    <3>2. x[2][2] \in B /\ x[2] = <<1, x[2][2]>>
      BY <1>0, <2>3, <3>1
    <3>3. <<1, <<0, x[2][2]>> >> \in M
      BY <1>6, <1>8, <3>2
    <3>4. g[<<1, <<0, x[2][2]>> >>] = <<0, <<1, x[2][2]>> >>
      BY <3>3
    <3> QED
      BY <3>1, <3>2, <3>3, <3>4
  <2> QED
    BY <1>0, <1>7, <2>1, <2>2, <2>3
<1>10. ASSUME NEW x \in M
       PROVE  /\ g[x] \in L
              /\ f[g[x]] = x
  <2>1. CASE x[1] = 0
    <3>1. g[x] = <<0, <<0, x[2]>> >> /\ x[2] \in A /\ x = <<0, x[2]>>
      BY <1>8, <2>1
    <3>2. <<0, <<0, x[2]>> >> \in L
      BY <1>0, <1>7, <3>1
    <3>3. f[<<0, <<0, x[2]>> >>] = <<0, x[2]>>
      BY <3>2
    <3> QED
      BY <3>1, <3>2, <3>3
  <2>2. CASE x[1] = 1 /\ x[2][1] = 0
    <3>1. x[2] \in R /\ x = <<1, x[2]>> /\ g[x] = <<0, <<1, x[2][2]>> >>
      BY <1>8, <2>2
    <3>2. x[2][2] \in B /\ x[2] = <<0, x[2][2]>>
      BY <1>6, <2>2, <3>1
    <3>3. <<0, <<1, x[2][2]>> >> \in L
      BY <1>0, <1>7, <3>2
    <3>4. f[<<0, <<1, x[2][2]>> >>] = <<1, <<0, x[2][2]>> >>
      BY <3>3
    <3> QED
      BY <3>1, <3>2, <3>3, <3>4
  <2>3. CASE x[1] = 1 /\ x[2][1] = 1
    <3>1. x[2] \in R /\ x = <<1, x[2]>> /\ g[x] = <<1, x[2][2]>>
      BY <1>8, <2>3
    <3>2. x[2][2] \in C /\ x[2] = <<1, x[2][2]>>
      BY <1>6, <2>3, <3>1
    <3>3. <<1, x[2][2]>> \in L
      BY <1>7, <3>2
    <3>4. f[<<1, x[2][2]>>] = <<1, <<1, x[2][2]>> >>
      BY <3>3
    <3> QED
      BY <3>1, <3>2, <3>3, <3>4
  <2> QED
    BY <1>6, <1>8, <2>1, <2>2, <2>3
<1>11. f \in [L -> M] /\ g \in [M -> L]
  <2>1. \A x \in L : f[x] \in M
    BY <1>9
  <2>2. \A x \in M : g[x] \in L
    BY <1>10
  <2>3. f = [x \in L |-> f[x]] /\ g = [x \in M |-> g[x]]
    OBVIOUS
  <2> HIDE DEF f, g
  <2> QED
    BY <2>1, <2>2, <2>3
<1> HIDE DEF f, g
<1>12. L \preceq M /\ M \preceq L
  BY <1>9, <1>10, <1>11, InjectionExists
<1>13. L = S \uplus C /\ M = A \uplus R
  BY DEF L, M
<1> QED
  BY <1>1, <1>2, <1>3, <1>4, <1>5, <1>12, <1>13 DEF S, R

\* A part of a union that is empty has nothing.
LEMMA PartsBelow ==
  ASSUME NEW A, NEW B, NEW C, A \preceq B \uplus C
  PROVE  /\ B = {} => A \preceq C
         /\ C = {} => A \preceq B
PROOF
  BY UnionLaws, InjectionComposed

\* What moves out of a union, and in another order.
LEMMA Regroup ==
  ASSUME NEW A, NEW B, NEW C
  PROVE  /\ C \uplus (B \uplus A) \preceq A \uplus (B \uplus C)
         /\ (B \uplus A) \uplus C \preceq A \uplus (B \uplus C)
         /\ C \uplus A \preceq A \uplus (B \uplus C)
PROOF
<1>0. \A X : X \preceq X
  BY InjectionOfPart
<1>1. (B \uplus A) \uplus C \preceq A \uplus (B \uplus C)
  <2>1. B \uplus A \preceq A \uplus B
    BY UnionLaws
  <2>2. (B \uplus A) \uplus C \preceq (A \uplus B) \uplus C
    BY <1>0, <2>1, UnionGrows
  <2>3. (A \uplus B) \uplus C \preceq A \uplus (B \uplus C)
    BY UnionLaws
  <2> QED
    BY <2>2, <2>3, InjectionComposed
<1>2. C \uplus (B \uplus A) \preceq A \uplus (B \uplus C)
  <2>1. C \uplus (B \uplus A) \preceq (B \uplus A) \uplus C
    BY UnionLaws
  <2> QED
    BY <1>1, <2>1, InjectionComposed
<1>3. C \uplus A \preceq A \uplus (B \uplus C)
  <2>1. A \preceq B \uplus A
    BY UnionLaws
  <2>2. C \uplus A \preceq C \uplus (B \uplus A)
    BY <1>0, <2>1, UnionGrows
  <2> QED
    BY <1>2, <2>2, InjectionComposed
<1> QED
  BY <1>1, <1>2, <1>3

\* Of the parts, only one has any.
LEMMA OnlyPart ==
  ASSUME NEW S, NEW n \in DOMAIN S, \A i \in DOMAIN S : i # n => S[i] = {}
  PROVE  Tagged(S) \preceq S[n]
PROOF
<1> DEFINE A == Tagged(S)
           B == S[n]
           g == [x \in A |-> x[2]]
<1>1. \A x \in A : x = <<n, x[2]>> /\ x[2] \in B
  BY DEF Tagged
<1> HIDE DEF A, B
<1>2. g \in [A -> B] /\ \A x, y \in A : g[x] = g[y] => x = y
  BY <1>1
<1> QED
  BY <1>2, InjectionExists DEF A, B

\* One part gives what the others keep.
LEMMA TaggedGives ==
  ASSUME NEW A, NEW B, NEW w, NEW t \in DOMAIN A, DOMAIN B = DOMAIN A,
         \A u \in DOMAIN A : u # t => B[u] = A[u], B[t] \uplus w \preceq A[t]
  PROVE  Tagged(B) \uplus w \preceq Tagged(A)
PROOF
<1>1. PICK f \in [B[t] \uplus w -> A[t]] : \A x, y \in B[t] \uplus w : f[x] = f[y] => x = y
  BY InjectionExists
<1> DEFINE TA == Tagged(A)
           TB == Tagged(B)
           S == TB \uplus w
           h == [x \in S |-> IF x[1] = 1 THEN <<t, f[<<1, x[2]>>]>>
                             ELSE IF x[2][1] = t THEN <<t, f[<<0, x[2][2]>>]>> ELSE x[2]]
<1>2. /\ \A x \in TB : x = <<x[1], x[2]>> /\ x[1] \in DOMAIN A /\ x[2] \in B[x[1]]
      /\ \A u \in DOMAIN A : \A x \in A[u] : <<u, x>> \in TA
  BY DEF Tagged
<1>3. \A x \in S : x = <<x[1], x[2]>> /\ ((x[1] = 0 /\ x[2] \in TB) \/ (x[1] = 1 /\ x[2] \in w))
  BY UnionCases
<1>4. /\ \A x \in B[t] : <<0, x>> \in B[t] \uplus w
      /\ \A x \in w : <<1, x>> \in B[t] \uplus w
  BY UnionMember
<1> HIDE DEF TA, TB, S
<1> DEFINE Given(x, y) == x[1] = 1 /\ y = <<t, f[<<1, x[2]>>]>> /\ <<1, x[2]>> \in B[t] \uplus w
           Kept(x, y) == /\ x[1] = 0 /\ x[2] = <<t, x[2][2]>>
                         /\ y = <<t, f[<<0, x[2][2]>>]>> /\ <<0, x[2][2]>> \in B[t] \uplus w
           Else(x, y) == x[1] = 0 /\ y = x[2] /\ y[1] # t /\ y \in TA
<1>5. ASSUME NEW x \in S
      PROVE  Given(x, h[x]) \/ Kept(x, h[x]) \/ Else(x, h[x])
  <2>1. CASE x[1] = 1
    BY <1>3, <1>4, <2>1
  <2>2. CASE x[1] = 0 /\ x[2][1] = t
    <3>1. h[x] = <<t, f[<<0, x[2][2]>>]>>
      BY <2>2
    <3>2. x[2] = <<t, x[2][2]>> /\ x[2][2] \in B[t]
      BY <1>2, <1>3, <2>2
    <3>3. <<0, x[2][2]>> \in B[t] \uplus w
      BY <1>4, <3>2
    <3> QED
      BY <2>2, <3>1, <3>2, <3>3
  <2>3. CASE x[1] = 0 /\ x[2][1] # t
    <3>1. h[x] = x[2]
      BY <2>3
    <3>2. x[2] = <<x[2][1], x[2][2]>> /\ x[2][1] \in DOMAIN A /\ x[2][2] \in B[x[2][1]]
      BY <1>2, <1>3, <2>3
    <3>3. \A u \in DOMAIN A : \A z \in A[u] : <<u, z>> \in TA
      BY <1>2
    <3>4. A[x[2][1]] = B[x[2][1]]
      BY <2>3, <3>2
    <3>5. x[2] \in TA
      BY <3>2, <3>3, <3>4
    <3> QED
      BY <2>3, <3>1, <3>5
  <2> QED
    BY <1>3, <2>1, <2>2, <2>3
<1>6. h = [x \in S |-> h[x]]
  OBVIOUS
<1> HIDE DEF h
<1>7. \A x \in S : h[x] \in TA
  <2> SUFFICES ASSUME NEW x \in S
               PROVE  h[x] \in TA
    OBVIOUS
  <2>1. CASE Given(x, h[x])
    BY <1>1, <1>2, <2>1
  <2>2. CASE Kept(x, h[x])
    BY <1>1, <1>2, <2>2
  <2>3. CASE Else(x, h[x])
    BY <2>3
  <2> QED
    BY <1>5, <2>1, <2>2, <2>3
<1>8. ASSUME NEW x \in S, NEW y \in S, h[x] = h[y]
      PROVE  x = y
  <2>1. CASE Given(x, h[x]) /\ Given(y, h[y])
    <3>0. <<t, f[<<1, x[2]>>]>> = <<t, f[<<1, y[2]>>]>>
      BY <1>8, <2>1
    <3>1. f[<<1, x[2]>>] = f[<<1, y[2]>>]
      BY <3>0
    <3>2. <<1, x[2]>> = <<1, y[2]>>
      BY <1>1, <2>1, <3>1
    <3> QED
      BY <1>3, <2>1, <3>2
  <2>2. CASE Given(x, h[x]) /\ Kept(y, h[y])
    <3>0. <<t, f[<<1, x[2]>>]>> = <<t, f[<<0, y[2][2]>>]>>
      BY <1>8, <2>2
    <3>1. f[<<1, x[2]>>] = f[<<0, y[2][2]>>]
      BY <3>0
    <3>2. <<1, x[2]>> = <<0, y[2][2]>>
      BY <1>1, <2>2, <3>1
    <3> QED
      BY <3>2
  <2>3. CASE Kept(x, h[x]) /\ Given(y, h[y])
    <3>0. <<t, f[<<0, x[2][2]>>]>> = <<t, f[<<1, y[2]>>]>>
      BY <1>8, <2>3
    <3>1. f[<<0, x[2][2]>>] = f[<<1, y[2]>>]
      BY <3>0
    <3>2. <<0, x[2][2]>> = <<1, y[2]>>
      BY <1>1, <2>3, <3>1
    <3> QED
      BY <3>2
  <2>4. CASE Kept(x, h[x]) /\ Kept(y, h[y])
    <3>0. <<t, f[<<0, x[2][2]>>]>> = <<t, f[<<0, y[2][2]>>]>>
      BY <1>8, <2>4
    <3>1. f[<<0, x[2][2]>>] = f[<<0, y[2][2]>>]
      BY <3>0
    <3>2. <<0, x[2][2]>> = <<0, y[2][2]>>
      BY <1>1, <2>4, <3>1
    <3>3. x[2] = y[2] /\ x[1] = y[1]
      BY <2>4, <3>2
    <3> QED
      BY <1>3, <3>3
  <2>5. CASE Else(x, h[x]) /\ Else(y, h[y])
    BY <1>3, <1>8, <2>5
  <2>6. Else(x, h[x]) <=> Else(y, h[y])
    <3>1. \A z : Given(z, h[z]) \/ Kept(z, h[z]) => h[z][1] = t
      OBVIOUS
    <3>2. \A z : Else(z, h[z]) => h[z][1] # t
      OBVIOUS
    <3> QED
      BY <1>5, <1>8, <3>1, <3>2, ZenonT(30)
  <2> QED
    BY <1>5, <2>1, <2>2, <2>3, <2>4, <2>5, <2>6
<1>9. S \preceq TA
  BY <1>6, <1>7, <1>8, InjectionExists
<1> QED
  BY <1>9 DEF S, TA, TB

\* Every place of a concatenation is a place of one of its parts: f tells which.
Places(f, flat, seqs) ==
  /\ f \in [DOMAIN flat -> Nat \X Nat]
  /\ \A k \in DOMAIN flat : /\ f[k][1] \in DOMAIN seqs /\ f[k][2] \in DOMAIN seqs[f[k][1]]
                            /\ flat[k] = seqs[f[k][1]][f[k][2]] /\ f[k] = <<f[k][1], f[k][2]>>
  /\ \A k, l \in DOMAIN flat : f[k] = f[l] => k = l

LEMMA FlattenPlaces ==
  ASSUME NEW E, NEW seqs \in Seq(Seq(E)), NEW flat, flat = FlattenSeq(seqs)
  PROVE  flat \in Seq(E) /\ \E f : Places(f, flat, seqs)
PROOF
<1> DEFINE n == Len(seqs)
<1>1. n \in Nat /\ DOMAIN seqs = 1 .. n /\ \A i \in 1 .. n : seqs[i] \in Seq(E)
  BY ElementOfSeq, LenProperties
<1>2. PICK g \in [0 .. n -> Seq(E)] : /\ g[0] = <<>>
                                      /\ \A i \in 1 .. n : g[i] = g[i - 1] \o seqs[i]
                                      /\ flat = g[n]
  BY FlattenPrefixes
<1> DEFINE Maps(j, f) ==
             /\ f \in [1 .. Len(g[j]) -> Nat \X Nat]
             /\ \A k \in 1 .. Len(g[j]) : /\ f[k][1] \in 1 .. j /\ f[k][2] \in DOMAIN seqs[f[k][1]]
                                          /\ g[j][k] = seqs[f[k][1]][f[k][2]]
             /\ \A k, l \in 1 .. Len(g[j]) : f[k] = f[l] => k = l
           P == {j \in Nat : \E f : Maps(j, f)}
<1> HIDE DEF n
<1>3. 0 \in P
  <2> DEFINE e == [k \in 1 .. 0 |-> <<0, 0>>]
  <2>1. Len(g[0]) = 0
    BY <1>2
  <2>2. Maps(0, e)
    BY <2>1
  <2> HIDE DEF Maps
  <2> QED
    BY <2>2
<1>4. ASSUME NEW j \in 0 .. n - 1, j \in P
      PROVE  j + 1 \in P
  <2>1. PICK f : Maps(j, f)
    BY <1>4
  <2> DEFINE i == j + 1
             a == Len(g[j])
             b == Len(seqs[i])
             h == [k \in 1 .. a + b |-> IF k <= a THEN f[k] ELSE <<i, k - a>>]
  <2>2. i \in Nat /\ i \in 1 .. n /\ i - 1 = j /\ j \in 0 .. n /\ j \in Nat /\ (\A x \in 1 .. j : x \in 1 .. i /\ x # i)
        /\ i \in 1 .. i
    BY <1>1
  <2> HIDE DEF i
  <2>3. g[i] = g[j] \o seqs[i] /\ g[j] \in Seq(E) /\ seqs[i] \in Seq(E)
    BY <1>1, <1>2, <2>2
  <2>4. a \in Nat /\ b \in Nat /\ Len(g[i]) = a + b /\ DOMAIN seqs[i] = 1 .. b
        /\ \A k \in 1 .. a + b : g[i][k] = IF k <= a THEN g[j][k] ELSE seqs[i][k - a]
    <3>1. a \in Nat /\ b \in Nat /\ DOMAIN seqs[i] = 1 .. b
      BY <2>3, LenProperties
    <3>2. /\ Len(g[j] \o seqs[i]) = a + b
          /\ \A k \in 1 .. a + b : (g[j] \o seqs[i])[k] = IF k <= a THEN g[j][k] ELSE seqs[i][k - a]
      BY <2>3, ConcatProperties
    <3> QED
      BY <2>3, <3>1, <3>2
  <2> HIDE DEF a, b
  <2>5. \A k \in 1 .. a + b : /\ k <= a => k \in 1 .. a
                              /\ ~(k <= a) => k - a \in 1 .. b /\ k - a \in Nat
    BY <2>4
  <2>6. /\ f \in [1 .. a -> Nat \X Nat]
        /\ \A k \in 1 .. a : f[k][1] \in 1 .. j /\ f[k][2] \in DOMAIN seqs[f[k][1]] /\ g[j][k] = seqs[f[k][1]][f[k][2]]
        /\ \A k, l \in 1 .. a : f[k] = f[l] => k = l
    BY <2>1 DEF a
  <2>7. h \in [1 .. a + b -> Nat \X Nat]
    <3>1. \A k \in 1 .. a + b : (IF k <= a THEN f[k] ELSE <<i, k - a>>) \in Nat \X Nat
      BY <2>2, <2>5, <2>6
    <3> QED
      BY <3>1
  <2>8. ASSUME NEW k \in 1 .. a + b
        PROVE  /\ h[k][1] \in 1 .. i /\ h[k][2] \in DOMAIN seqs[h[k][1]]
               /\ g[i][k] = seqs[h[k][1]][h[k][2]]
    <3>1. CASE k <= a
      BY <2>2, <2>4, <2>5, <2>6, <3>1
    <3>2. CASE ~(k <= a)
      <4>1. h[k] = <<i, k - a>> /\ k - a \in 1 .. b
        BY <2>5, <3>2
      <4> QED
        BY <2>2, <2>4, <3>2, <4>1
    <3> QED
      BY <3>1, <3>2
  <2>9. ASSUME NEW k \in 1 .. a + b, NEW l \in 1 .. a + b, h[k] = h[l]
        PROVE  k = l
    <3>1. CASE k <= a /\ l <= a
      BY <2>5, <2>6, <2>9, <3>1
    <3>2. CASE k <= a /\ ~(l <= a)
      BY <2>2, <2>5, <2>6, <2>9, <3>2
    <3>3. CASE ~(k <= a) /\ l <= a
      BY <2>2, <2>5, <2>6, <2>9, <3>3
    <3>4. CASE ~(k <= a) /\ ~(l <= a)
      <4>1. k - a = l - a
        BY <2>9, <3>4
      <4> QED
        BY <2>4, <4>1
    <3> QED
      BY <3>1, <3>2, <3>3, <3>4
  <2> HIDE DEF h
  <2>10. Maps(i, h)
    BY <2>4, <2>7, <2>8, <2>9
  <2> HIDE DEF Maps
  <2> QED
    BY <2>2, <2>10 DEF i
<1> HIDE DEF P
<1>5. n \in P
  <2>1. \A j \in 0 .. n : j \in P
    BY <1>1, <1>3, <1>4, UpToInduction
  <2> QED
    BY <1>1, <2>1
<1>6. PICK f : Maps(n, f)
  BY <1>5 DEF P
<1>7. flat \in Seq(E) /\ DOMAIN flat = 1 .. Len(g[n])
  BY <1>1, <1>2, LenProperties
<1>8. /\ f \in [DOMAIN flat -> Nat \X Nat]
      /\ \A k \in DOMAIN flat : /\ f[k][1] \in 1 .. n /\ f[k][2] \in DOMAIN seqs[f[k][1]]
                                /\ g[n][k] = seqs[f[k][1]][f[k][2]]
      /\ \A k, l \in DOMAIN flat : f[k] = f[l] => k = l
  BY <1>6, <1>7
<1> HIDE DEF Maps
<1>9. \A k \in DOMAIN flat : flat[k] = seqs[f[k][1]][f[k][2]]
  BY <1>2, <1>8
<1>10. \A k \in DOMAIN flat : f[k] = <<f[k][1], f[k][2]>>
  BY <1>8
<1>11. Places(f, flat, seqs)
  BY <1>1, <1>8, <1>9, <1>10 DEF Places
<1> QED
  BY <1>7, <1>11

\* A set of natural numbers that has a member has a least one.
LEMMA LeastMember ==
  ASSUME NEW S, S \subseteq Nat, S # {}
  PROVE  \E n \in S : \A k \in S : n <= k
PROOF
<1> DEFINE R == OpToRel(<, Nat)
<1>1. IsWellFoundedOn(R, Nat)
  BY NatLessThanWellFounded
<1>2. \A i, j \in Nat : i < j => <<i, j>> \in R
  BY DEF OpToRel
<1> HIDE DEF R
<1>3. PICK n \in S : \A k \in S : <<k, n>> \notin R
  BY <1>1, WFMin
<1>4. \A k \in S : k \in Nat /\ n \in Nat /\ ~(k < n)
  BY <1>2, <1>3
<1> QED
  BY <1>4
=============================================================================
