---------------------- MODULE ParserAndAnalysisProofs ----------------------
(***************************************************************************)
(* What the parser of paths and the analysis scripts promise, for every    *)
(* text and for every file: the segments may be of any length and any      *)
(* number, the rows of any amounts and any number.                         *)
(*                                                                         *)
(* A text is parsed once, so that its properties are properties of         *)
(* from_string.  The pieces of a text are a flattened map, and a flattened *)
(* map of two sequences is that of one and that of the other; skipping the *)
(* empty segments skips nothing of it, and every leg written out is the    *)
(* segment it was read from.                                               *)
(*                                                                         *)
(* A file grows by a row at a time.  Recording is inductive: every row has *)
(* finite amounts, the notional above zero, and a time that is not before  *)
(* that of an earlier row.  Everything else is about one file: how often   *)
(* the flag has changed up to a row numbers the groups, the maximal runs   *)
(* of opportunities are the groups of opportunities, and what a group is   *)
(* summed up to lies between what its rows say.                            *)
(***************************************************************************)
EXTENDS MCTradeAnalysis, MCArbitragePath, DataProofs, SequenceTheorems

-----------------------------------------------------------------------------
(* Sequences put end to end.                                               *)

\* R[k] is the first k of the sequences, end to end.
Joins(R, n, seqs, S) ==
  /\ n \in Nat /\ R \in [0..n -> Seq(S)] /\ R[0] = <<>>
  /\ \A k \in 1..n : R[k] = R[k - 1] \o seqs[k]

JoinedBy(seqs, S, whole) == \E R : Joins(R, Len(seqs), seqs, S) /\ R[Len(seqs)] = whole

\* Any sequences can be put end to end.
LEMMA JoinsExist ==
  ASSUME NEW S, NEW seqs \in Seq(Seq(S))
  PROVE  \E R : Joins(R, Len(seqs), seqs, S)
<1>1. PICK n \in Nat : n = Len(seqs) /\ \A k \in 1..n : seqs[k] \in Seq(S)
  OBVIOUS
<1> DEFINE Bad == {k \in 0..n : ~\E R : Joins(R, k, seqs, S)}
<1>2. Bad = {}
  <2> SUFFICES ASSUME Bad # {} PROVE FALSE
    OBVIOUS
  <2>1. PICK k \in Bad : \A l \in Bad : k <= l
    <3>1. Bad \subseteq Nat
      OBVIOUS
    <3> HIDE DEF Bad
    <3> QED BY <3>1, LeastNat
  <2>2. CASE k = 0
    <3>1. Joins([l \in 0..0 |-> <<>>], 0, seqs, S)
      BY EmptySeq DEF Joins
    <3> QED BY <2>1, <2>2, <3>1
  <2>3. CASE k # 0
    <3>1. k - 1 \in 0..n /\ k - 1 \notin Bad /\ k \in 1..n
      BY <2>1, <2>3
    <3>2. PICK R : Joins(R, k - 1, seqs, S)
      BY <3>1
    <3> DEFINE Q == [l \in 0..k |-> IF l = k THEN R[k - 1] \o seqs[k] ELSE R[l]]
    <3>3. R[k - 1] \o seqs[k] \in Seq(S)
      <4>1. R[k - 1] \in Seq(S)
        BY <3>1, <3>2 DEF Joins
      <4> QED BY <1>1, <3>1, <4>1, ConcatProperties
    <3>4. Q \in [0..k -> Seq(S)] /\ Q[0] = <<>>
      <4>1. \A l \in 0..k : l # k => R[l] \in Seq(S)
        BY <3>1, <3>2 DEF Joins
      <4>2. R[0] = <<>> /\ 0 \in 0..k
        BY <3>1, <3>2 DEF Joins
      <4> QED BY <2>3, <3>3, <4>1, <4>2
    <3>5. ASSUME NEW l \in 1..k PROVE Q[l] = Q[l - 1] \o seqs[l]
      <4>1. l \in 0..k /\ l - 1 \in 0..k /\ l - 1 # k
        BY <3>1
      <4>2. CASE l = k
        BY <4>1, <4>2
      <4>3. CASE l # k
        <5>1. l \in 1..(k - 1)
          BY <3>1, <4>3
        <5>2. R[l] = R[l - 1] \o seqs[l]
          BY <3>2, <5>1 DEF Joins
        <5> QED BY <4>1, <4>3, <5>2
      <4> QED BY <4>2, <4>3
    <3>6. Joins(Q, k, seqs, S)
      <4>1. k \in Nat
        BY <3>1
      <4> HIDE DEF Q, Bad
      <4> QED BY <3>4, <3>5, <4>1 DEF Joins
    <3> QED BY <2>1, <3>6
  <2> QED BY <2>2, <2>3
<1>3. n \in 0..n
  OBVIOUS
<1> QED BY <1>1, <1>2, <1>3

\* FlattenSeq, whose recursion this is, ends where they end.
LEMMA Flattened ==
  ASSUME NEW S, NEW seqs \in Seq(Seq(S))
  PROVE  JoinedBy(seqs, S, FlattenSeq(seqs))
<1>1. PICK R : Joins(R, Len(seqs), seqs, S)
  BY JoinsExist
<1>2. PICK n \in Nat : n = Len(seqs) /\ DOMAIN seqs = 1..n /\ \A k \in 1..n : seqs[k] \in Seq(S)
  OBVIOUS
<1>3. \A k \in 1..n : R[k] = IF k = 1 THEN seqs[k] ELSE R[k - 1] \o seqs[k]
  <2>1. ASSUME NEW k \in 1..n PROVE R[k] = IF k = 1 THEN seqs[k] ELSE R[k - 1] \o seqs[k]
    <3>1. R[k] = R[k - 1] \o seqs[k]
      BY <1>1, <1>2 DEF Joins
    <3>2. k = 1 => R[k - 1] \o seqs[k] = seqs[k]
      <4> SUFFICES ASSUME k = 1 PROVE R[k - 1] \o seqs[k] = seqs[k]
        OBVIOUS
      <4>1. R[k - 1] = <<>>
        BY <1>1 DEF Joins
      <4> QED BY <1>2, <4>1, ConcatEmptySeq
    <3> QED BY <3>1, <3>2
  <2> QED BY <2>1
<1> DEFINE IsFlatten(f) == f = [i \in 1..n |-> IF i = 1 THEN seqs[i] ELSE f[i - 1] \o seqs[i]]
           flatten == CHOOSE f : IsFlatten(f)
<1>4. \E f : IsFlatten(f)
  <2> DEFINE Q == [i \in 1..n |-> R[i]]
  <2>1. \A i \in 1..n : Q[i] = IF i = 1 THEN seqs[i] ELSE Q[i - 1] \o seqs[i]
    <3>1. \A i \in 1..n : i # 1 => i - 1 \in 1..n
      OBVIOUS
    <3> QED BY <1>3, <3>1
  <2>2. Q = [i \in 1..n |-> Q[i]]
    OBVIOUS
  <2> HIDE DEF Q
  <2>3. Q = [i \in 1..n |-> IF i = 1 THEN seqs[i] ELSE Q[i - 1] \o seqs[i]]
    BY <2>1, <2>2
  <2> QED BY <2>3
<1>5. IsFlatten(flatten)
  <2> HIDE DEF IsFlatten
  <2> QED BY <1>4
<1>6. FlattenSeq(seqs) = IF n = 0 THEN seqs ELSE flatten[n]
  BY <1>2 DEF FlattenSeq
<1>7. \A i \in 1..n : flatten[i] = IF i = 1 THEN seqs[i] ELSE flatten[i - 1] \o seqs[i]
  <2> HIDE DEF flatten
  <2> QED BY <1>5
<1> HIDE DEF flatten
<1> DEFINE Bad == {k \in 1..n : flatten[k] # R[k]}
<1>8. Bad = {}
  <2> SUFFICES ASSUME Bad # {} PROVE FALSE
    OBVIOUS
  <2>1. PICK k \in Bad : \A l \in Bad : k <= l
    <3>1. Bad \subseteq Nat
      OBVIOUS
    <3> HIDE DEF Bad
    <3> QED BY <3>1, LeastNat
  <2>2. k # 1
    BY <1>3, <1>7, <2>1
  <2>3. k - 1 \in 1..n /\ k - 1 \notin Bad
    BY <2>1, <2>2
  <2> QED BY <1>3, <1>7, <2>1, <2>2, <2>3
<1>9. FlattenSeq(seqs) = R[n]
  <2>1. CASE n = 0
    <3>1. seqs = <<>> /\ R[0] = <<>>
      BY <1>1, <1>2, <2>1, EmptySeq DEF Joins
    <3> QED BY <1>6, <2>1, <3>1
  <2>2. CASE n # 0
    BY <1>6, <1>8, <2>2
  <2> QED BY <2>1, <2>2
<1> QED BY <1>1, <1>2, <1>9 DEF JoinedBy

\* As an operator of its own, which the provers leave alone.
Joined(a, b) == a \o b

\* What stands in two sequences put end to end.
LEMMA JoinedIs ==
  ASSUME NEW S, NEW a \in Seq(S), NEW b \in Seq(S)
  PROVE  /\ Joined(a, b) \in Seq(S) /\ Len(Joined(a, b)) = Len(a) + Len(b)
         /\ \A i \in 1..(Len(a) + Len(b)) :
              Joined(a, b)[i] = IF i <= Len(a) THEN a[i] ELSE b[i - Len(a)]
BY ConcatProperties DEF Joined

\* It does not matter which two of three are put together first.
LEMMA JoinedTwice ==
  ASSUME NEW S, NEW a \in Seq(S), NEW b \in Seq(S), NEW c \in Seq(S)
  PROVE  Joined(Joined(a, b), c) = Joined(a, Joined(b, c))
BY ConcatAssociative DEF Joined

\* The sequences of a and then those of b.
LEMMA FlattenConcat ==
  ASSUME NEW S, NEW a \in Seq(Seq(S)), NEW b \in Seq(Seq(S))
  PROVE  /\ FlattenSeq(Joined(a, b)) = Joined(FlattenSeq(a), FlattenSeq(b))
         /\ FlattenSeq(a) \in Seq(S)
<1>1. PICK n \in Nat, m \in Nat : n = Len(a) /\ m = Len(b)
  OBVIOUS
<1>0. PICK ab : ab = Joined(a, b)
  OBVIOUS
<1>2. /\ ab \in Seq(Seq(S)) /\ Len(ab) = n + m
      /\ \A k \in 1..n : ab[k] = a[k] /\ a[k] \in Seq(S)
      /\ \A k \in 1..m : ab[n + k] = b[k] /\ b[k] \in Seq(S)
  <2>1. /\ ab \in Seq(Seq(S)) /\ Len(ab) = n + m
        /\ \A i \in 1..(n + m) : ab[i] = IF i <= n THEN a[i] ELSE b[i - n]
    BY <1>0, <1>1, JoinedIs
  <2>2. ASSUME NEW k \in 1..m PROVE ab[n + k] = b[k]
    <3>1. PICK i \in 1..(n + m) : i = n + k /\ i - n = k /\ ~(i <= n)
      OBVIOUS
    <3> QED BY <2>1, <3>1
  <2> QED BY <1>1, <2>1, <2>2
<1>3. PICK A : Joins(A, n, a, S) /\ A[n] = FlattenSeq(a)
  BY <1>1, Flattened DEF JoinedBy
<1>4. PICK B : Joins(B, m, b, S) /\ B[m] = FlattenSeq(b)
  BY <1>1, Flattened DEF JoinedBy
<1>5. PICK R : Joins(R, n + m, ab, S) /\ R[n + m] = FlattenSeq(ab)
  BY <1>2, Flattened DEF JoinedBy
<1>6. A[n] \in Seq(S)
  BY <1>1, <1>3 DEF Joins
<1> DEFINE Bad == {k \in 0..n : R[k] # A[k]}
<1>7. Bad = {}
  <2> SUFFICES ASSUME Bad # {} PROVE FALSE
    OBVIOUS
  <2>1. PICK k \in Bad : \A l \in Bad : k <= l
    <3>1. Bad \subseteq Nat
      OBVIOUS
    <3> HIDE DEF Bad
    <3> QED BY <3>1, LeastNat
  <2>2. k # 0
    BY <1>3, <1>5, <2>1 DEF Joins
  <2>3. k - 1 \in 0..n /\ k - 1 \notin Bad /\ k \in 1..n /\ k \in 1..(n + m)
    BY <2>1, <2>2
  <2>4. R[k] = R[k - 1] \o ab[k] /\ A[k] = A[k - 1] \o a[k]
    BY <1>3, <1>5, <2>3 DEF Joins
  <2> QED BY <1>2, <2>1, <2>3, <2>4
<1> HIDE DEF Bad
<1>8. ASSUME NEW k \in 1..m PROVE R[n + k] = R[n + (k - 1)] \o b[k]
  <2>1. PICK l \in 1..(n + m) : l = n + k
    OBVIOUS
  <2>2. PICK j \in Nat : j = l - 1
    BY <2>1
  <2>3. j = n + (k - 1)
    BY <2>1, <2>2
  <2>4. R[l] = R[j] \o ab[l]
    BY <1>5, <2>2 DEF Joins
  <2>5. ab[l] = b[k]
    BY <1>2, <2>1
  <2> QED BY <2>1, <2>3, <2>4, <2>5
<1> DEFINE Differs(k) == R[n + k] # A[n] \o B[k]
           Worse == {k \in 0..m : Differs(k)}
<1>9. Worse = {}
  <2> SUFFICES ASSUME Worse # {} PROVE FALSE
    OBVIOUS
  <2>1. PICK k \in Worse : \A l \in Worse : k <= l
    <3> HIDE DEF Differs
    <3>1. Worse \subseteq Nat
      OBVIOUS
    <3> HIDE DEF Worse
    <3> QED BY <3>1, LeastNat
  <2>2. CASE k = 0
    <3>1. n \in 0..n /\ B[k] = <<>> /\ n + k = n
      BY <1>4, <2>2 DEF Joins
    <3>2. R[n + k] = A[n]
      BY <1>7, <3>1 DEF Bad
    <3>3. A[n] \o <<>> = A[n]
      BY <1>6, ConcatEmptySeq
    <3> QED BY <2>1, <3>1, <3>2, <3>3
  <2>3. CASE k # 0
    <3>1. /\ k - 1 \in 0..m /\ k - 1 \notin Worse /\ k \in 1..m
          /\ n + k \in 1..(n + m) /\ n + k - 1 = n + (k - 1)
      <4> HIDE DEF Differs
      <4> QED BY <2>1, <2>3
    <3>2. R[n + k] = R[n + (k - 1)] \o b[k] /\ B[k] = B[k - 1] \o b[k] /\ B[k - 1] \in Seq(S)
      <4> HIDE DEF Differs, Worse
      <4>1. R[n + k] = R[n + (k - 1)] \o b[k]
        BY <1>8, <3>1
      <4>2. B[k] = B[k - 1] \o b[k] /\ B[k - 1] \in Seq(S)
        BY <1>4, <3>1 DEF Joins
      <4> QED BY <4>1, <4>2
    <3>3. R[n + (k - 1)] = A[n] \o B[k - 1]
      BY <3>1
    <3>4. (A[n] \o B[k - 1]) \o b[k] = A[n] \o (B[k - 1] \o b[k])
      <4> HIDE DEF Differs, Worse
      <4>1. b[k] \in Seq(S)
        BY <1>2, <3>1
      <4>2. \A x, y, z \in Seq(S) : (x \o y) \o z = x \o (y \o z)
        BY ConcatAssociative
      <4> QED BY <1>6, <3>2, <4>1, <4>2
    <3> QED BY <2>1, <3>2, <3>3, <3>4
  <2> QED BY <2>2, <2>3
<1>10. m \in 0..m
  OBVIOUS
<1>11. R[n + m] = A[n] \o B[m]
  BY <1>9, <1>10
<1>12. FlattenSeq(ab) = Joined(FlattenSeq(a), FlattenSeq(b))
  BY <1>3, <1>4, <1>5, <1>11 DEF Joined
<1> QED BY <1>0, <1>3, <1>6, <1>12

\* One sequence put end to end is itself.
LEMMA FlattenOne ==
  ASSUME NEW S, NEW s \in Seq(S)
  PROVE  FlattenSeq(<<s>>) = s
<1>1. <<s>> \in Seq(Seq(S)) /\ Len(<<s>>) = 1 /\ <<s>>[1] = s
  OBVIOUS
<1>2. PICK R : Joins(R, 1, <<s>>, S) /\ R[1] = FlattenSeq(<<s>>)
  BY <1>1, Flattened DEF JoinedBy
<1>3. R[1] = R[0] \o <<s>>[1] /\ R[0] = <<>>
  <2>1. 1 \in 1..1 /\ 1 - 1 = 0
    OBVIOUS
  <2> QED BY <1>2, <2>1 DEF Joins
<1> QED BY <1>1, <1>2, <1>3, ConcatEmptySeq

\* at lists sequences among which all are that are not empty.
SkipsEmpty(seqs, at, m, I) ==
  /\ Lists(at, m, I) /\ I \subseteq 1..Len(seqs)
  /\ \A k \in 1..Len(seqs) : k \notin I => seqs[k] = <<>>

\* To leave out empty sequences makes no difference.
LEMMA FlattenSkipping ==
  ASSUME NEW S, NEW seqs \in Seq(Seq(S)), NEW at, NEW m, NEW I, SkipsEmpty(seqs, at, m, I)
  PROVE  FlattenSeq(Through(seqs, at, m)) = FlattenSeq(seqs)
<1>1. PICK n \in Nat : n = Len(seqs) /\ DOMAIN seqs = 1..n /\ \A k \in 1..n : seqs[k] \in Seq(S)
  OBVIOUS
<1>2. /\ m \in Nat /\ at \in [1..m -> I] /\ I \subseteq 1..n /\ Lists(at, m, I)
      /\ \A k \in 1..n : k \notin I => seqs[k] = <<>>
      /\ \A j \in 1..m : at[j] \in I /\ at[j] \in 1..n
  BY <1>1 DEF SkipsEmpty, Lists
<1>3. PICK few : few = Through(seqs, at, m)
  OBVIOUS
<1>4. few \in Seq(Seq(S)) /\ Len(few) = m /\ \A j \in 1..m : few[j] = seqs[at[j]]
  <2>1. \A j \in 1..m : seqs[at[j]] \in Seq(S)
    BY <1>1, <1>2
  <2> QED BY <1>2, <1>3, <2>1 DEF Through
<1>5. PICK R : Joins(R, n, seqs, S) /\ R[n] = FlattenSeq(seqs)
  BY <1>1, Flattened DEF JoinedBy
<1>6. PICK Q : Joins(Q, m, few, S) /\ Q[m] = FlattenSeq(few)
  BY <1>4, Flattened DEF JoinedBy
<1> DEFINE Between(j, k) == (j # 0 => at[j] <= k) /\ (j # m => k < at[j + 1])
           Bad == {k \in 0..n : \E j \in 0..m : Between(j, k) /\ R[k] # Q[j]}
<1>7. Bad = {}
  <2> SUFFICES ASSUME Bad # {} PROVE FALSE
    OBVIOUS
  <2>1. PICK k \in Bad : \A l \in Bad : k <= l
    <3>1. Bad \subseteq Nat
      OBVIOUS
    <3> HIDE DEF Bad
    <3> QED BY <3>1, LeastNat
  <2>2. PICK j \in 0..m : Between(j, k) /\ R[k] # Q[j]
    BY <2>1
  <2>3. CASE k = 0
    <3>1. j = 0
      <4>1. j # 0 => at[j] \in 1..n
        BY <1>2
      <4> QED BY <2>2, <2>3, <4>1
    <3>2. R[0] = <<>>
      BY <1>5 DEF Joins
    <3>3. Q[0] = <<>>
      BY <1>6 DEF Joins
    <3>4. R[0] # Q[0]
      BY <2>2, <2>3, <3>1
    <3> QED BY <3>2, <3>3, <3>4
  <2>4. CASE k # 0
    <3>1. k \in 1..n /\ k - 1 \in 0..n /\ k - 1 \notin Bad /\ k - 1 < k
      <4>1. k \in 0..n
        BY <2>1
      <4>2. k \in 1..n /\ k - 1 \in 0..n /\ k - 1 < k /\ ~(k <= k - 1)
        BY <2>4, <4>1
      <4> HIDE DEF Bad
      <4> QED BY <2>1, <4>2
    <3>2. R[k] = R[k - 1] \o seqs[k]
      BY <1>5, <3>1 DEF Joins
    <3>3. CASE k \in I
      <4>1. PICK l \in 1..m : at[l] = k
        BY <1>2, <3>3 DEF Lists
      <4>2. l = j
        <5>1. l < j => at[l] < at[j]
          BY <1>2 DEF Lists
        <5>2. j < l => at[j + 1] <= at[l]
          <6>1. j < l => j + 1 = l \/ (j + 1 \in 1..m /\ j + 1 < l)
            BY <1>2, SMTT(30)
          <6>2. \A i \in 1..m : at[i] \in Int
            BY <1>2
          <6> QED BY <6>1, <6>2, <1>2 DEF Lists
        <5>3. (j # 0 => j \in 1..m /\ at[j] \in Int) /\ (j # m => at[j + 1] \in Int)
          BY <1>2
        <5> QED BY <1>2, <2>2, <4>1, <5>1, <5>2, <5>3
      <4>3. j \in 1..m /\ j - 1 \in 0..m /\ Q[j] = Q[j - 1] \o seqs[k]
        <5>1. j \in 1..m /\ j - 1 \in 0..m
          BY <1>2, <4>2
        <5> QED BY <1>4, <1>6, <4>1, <4>2, <5>1 DEF Joins
      <4>4. Between(j - 1, k - 1)
        <5>1. j - 1 # 0 => at[j - 1] < at[j] /\ at[j - 1] \in Int
          BY <1>2, <4>3 DEF Lists
        <5>2. (j - 1) + 1 = j
          BY <4>3
        <5> QED BY <3>1, <4>1, <4>2, <5>1, <5>2
      <4>5. R[k - 1] = Q[j - 1]
        BY <3>1, <4>3, <4>4
      <4> QED BY <2>2, <3>2, <4>3, <4>5
    <3>4. CASE k \notin I
      <4>1. Between(j, k - 1)
        <5>1. j # 0 => at[j] # k /\ at[j] \in Int
          BY <1>2, <3>4
        <5>2. j # m => at[j + 1] \in Int
          BY <1>2
        <5> QED BY <2>2, <3>1, <5>1, <5>2
      <4>2. R[k - 1] = Q[j]
        BY <3>1, <4>1
      <4>3. R[k - 1] \in Seq(S) /\ seqs[k] = <<>>
        BY <1>2, <1>5, <3>1, <3>4 DEF Joins
      <4>4. R[k - 1] \o <<>> = R[k - 1]
        BY <4>3, ConcatEmptySeq
      <4> QED BY <2>2, <3>2, <4>2, <4>3, <4>4
    <3> QED BY <3>3, <3>4
  <2> QED BY <2>3, <2>4
<1>8. Between(m, n) /\ n \in 0..n /\ m \in 0..m
  <2>1. m # 0 => at[m] \in 1..n
    BY <1>2
  <2> QED BY <1>2, <2>1
<1>9. R[n] = Q[m]
  BY <1>7, <1>8
<1> QED BY <1>3, <1>5, <1>6, <1>9

-----------------------------------------------------------------------------
(* The pieces of a text.                                                   *)

\* G of each element.
Mapped(G, s) == [i \in 1..Len(s) |-> G[s[i]]]

CanMap(G, S, T, a) == G \in [S -> T] /\ a \in Seq(S)

\* What stands in a mapped sequence.
LEMMA MappedIs ==
  ASSUME NEW S, NEW T, NEW G, NEW a, CanMap(G, S, T, a)
  PROVE  /\ Mapped(G, a) \in Seq(T) /\ Len(Mapped(G, a)) = Len(a)
         /\ \A i \in 1..Len(a) : Mapped(G, a)[i] = G[a[i]]
<1>1. G \in [S -> T] /\ a \in Seq(S)
  BY DEF CanMap
<1>2. PICK n \in Nat : n = Len(a) /\ \A i \in 1..n : a[i] \in S
  BY <1>1
<1>3. Mapped(G, a) \in [1..n -> T]
  BY <1>1, <1>2 DEF Mapped
<1> QED BY <1>2, <1>3 DEF Mapped

\* The map of two sequences put end to end is that of one and that of the other.
LEMMA MapConcat ==
  ASSUME NEW S, NEW T, NEW G, NEW a, NEW b, CanMap(G, S, T, a), CanMap(G, S, T, b)
  PROVE  Mapped(G, Joined(a, b)) = Joined(Mapped(G, a), Mapped(G, b))
<1>1. a \in Seq(S) /\ b \in Seq(S)
  BY DEF CanMap
<1>2. PICK n \in Nat, m \in Nat : n = Len(a) /\ m = Len(b)
  BY <1>1
<1>3. PICK ab \in Seq(S) : ab = Joined(a, b)
  BY <1>1, JoinedIs
<1>4. Len(ab) = n + m /\ \A i \in 1..(n + m) : ab[i] = IF i <= n THEN a[i] ELSE b[i - n]
  BY <1>1, <1>2, <1>3, JoinedIs
<1>5. CanMap(G, S, T, ab)
  BY DEF CanMap
<1>6. PICK A \in Seq(T), B \in Seq(T), AB \in Seq(T) :
        A = Mapped(G, a) /\ B = Mapped(G, b) /\ AB = Mapped(G, ab)
  BY <1>5, MappedIs
<1>7. /\ Len(A) = n /\ \A i \in 1..n : A[i] = G[a[i]]
      /\ Len(B) = m /\ \A i \in 1..m : B[i] = G[b[i]]
      /\ Len(AB) = n + m /\ \A i \in 1..(n + m) : AB[i] = G[ab[i]]
  BY <1>2, <1>4, <1>5, <1>6, MappedIs
<1>8. PICK C \in Seq(T) : C = Joined(A, B)
  BY JoinedIs
<1>9. Len(C) = n + m /\ \A i \in 1..(n + m) : C[i] = IF i <= n THEN A[i] ELSE B[i - n]
  <2>1. Len(A) = n /\ Len(B) = m
    BY <1>7
  <2> QED BY <1>8, <2>1, JoinedIs
<1>10. ASSUME NEW i \in 1..(n + m) PROVE AB[i] = C[i]
  <2>1. CASE i <= n
    <3>1. i \in 1..n
      BY <2>1
    <3>2. ab[i] = a[i] /\ C[i] = A[i]
      BY <1>4, <1>9, <2>1
    <3>3. A[i] = G[a[i]] /\ AB[i] = G[ab[i]]
      BY <1>7, <3>1
    <3> QED BY <3>2, <3>3
  <2>2. CASE ~(i <= n)
    <3>1. i - n \in 1..m
      BY <2>2
    <3>2. ab[i] = b[i - n] /\ C[i] = B[i - n]
      BY <1>4, <1>9, <2>2
    <3>3. B[i - n] = G[b[i - n]] /\ AB[i] = G[ab[i]]
      BY <1>7, <3>1
    <3> QED BY <3>2, <3>3
  <2> QED BY <2>1, <2>2
<1>11. AB = C
  <2>1. Len(AB) = n + m /\ Len(C) = n + m
    BY <1>7, <1>9
  <2> QED BY <1>10, <2>1, SeqEqual
<1> QED BY <1>3, <1>6, <1>8, <1>11

\* One element is mapped to one.
LEMMA MapOne ==
  ASSUME NEW G, NEW x
  PROVE  Mapped(G, <<x>>) = <<G[x]>>
BY DEF Mapped

\* A flattened map of two sequences is that of one and that of the other.
LEMMA FlattenMapped ==
  ASSUME NEW S, NEW T, NEW G, NEW a, NEW b, CanMap(G, S, Seq(T), a), CanMap(G, S, Seq(T), b)
  PROVE  /\ FlattenSeq(Mapped(G, a)) \in Seq(T)
         /\ FlattenSeq(Mapped(G, Joined(a, b))) = Joined(FlattenSeq(Mapped(G, a)), FlattenSeq(Mapped(G, b)))
<1>1. PICK A \in Seq(Seq(T)), B \in Seq(Seq(T)) : A = Mapped(G, a) /\ B = Mapped(G, b)
  <2>1. Mapped(G, a) \in Seq(Seq(T)) /\ Mapped(G, b) \in Seq(Seq(T))
    BY MappedIs
  <2> QED BY <2>1
<1>2. Mapped(G, Joined(a, b)) = Joined(A, B)
  BY <1>1, MapConcat
<1>3. FlattenSeq(Joined(A, B)) = Joined(FlattenSeq(A), FlattenSeq(B)) /\ FlattenSeq(A) \in Seq(T)
  BY FlattenConcat
<1> QED BY <1>1, <1>2, <1>3

\* The provers do not know that "" is a string.
Piece   == STRING \cup {""}
Segment == Seq(Piece)

\* A sequence of one element, and the empty one.
LEMMA OneIs ==
  ASSUME NEW S, NEW x \in S
  PROVE  <<x>> \in Seq(S) /\ <<>> \in Seq(S) /\ Len(<<x>>) = 1 /\ <<x>>[1] = x
BY EmptySeq

Mark == [piece \in Piece |-> IF piece = "" THEN <<>> ELSE <<piece>>]

\* What is left of a segment without its empty pieces.
LEMMA NonEmptyIs ==
  ASSUME NEW a \in Segment
  PROVE  /\ NonEmpty(a) = FlattenSeq(Mapped(Mark, a))
         /\ NonEmpty(a) \in Segment
         /\ \A b \in Segment : NonEmpty(Joined(a, b)) = Joined(NonEmpty(a), NonEmpty(b))
<1>1. Mark \in [Piece -> Segment]
  <2>1. ASSUME NEW piece \in Piece PROVE (IF piece = "" THEN <<>> ELSE <<piece>>) \in Segment
    <3>1. <<>> \in Segment /\ <<piece>> \in Segment
      BY OneIs DEF Segment
    <3> QED BY <3>1
  <2> QED BY <2>1 DEF Mark
<1>2. ASSUME NEW s \in Segment PROVE NonEmpty(s) = FlattenSeq(Mapped(Mark, s))
  <2>1. PICK n \in Nat : n = Len(s) /\ DOMAIN s = 1..n /\ \A i \in 1..n : s[i] \in Piece
    BY DEF Segment
  <2>2. \A i \in 1..n : Mark[s[i]] = IF s[i] = "" THEN <<>> ELSE <<s[i]>>
    BY <2>1 DEF Mark
  <2>3. Mapped(Mark, s) = [i \in DOMAIN s |-> IF s[i] = "" THEN <<>> ELSE <<s[i]>>]
    BY <2>1, <2>2 DEF Mapped
  <2> QED BY <2>3 DEF NonEmpty
<1>3. FlattenSeq(Mapped(Mark, a)) \in Segment
  <2>1. CanMap(Mark, Piece, Seq(Piece), a)
    BY <1>1 DEF CanMap, Segment
  <2> QED BY <2>1, FlattenMapped DEF Segment
<1>4. ASSUME NEW b \in Segment PROVE NonEmpty(Joined(a, b)) = Joined(NonEmpty(a), NonEmpty(b))
  <2>1. Joined(a, b) \in Segment
    BY JoinedIs DEF Segment
  <2>2. FlattenSeq(Mapped(Mark, Joined(a, b))) = Joined(FlattenSeq(Mapped(Mark, a)), FlattenSeq(Mapped(Mark, b)))
    <3>1. CanMap(Mark, Piece, Seq(Piece), a) /\ CanMap(Mark, Piece, Seq(Piece), b)
      BY <1>1 DEF CanMap, Segment
    <3> QED BY <3>1, FlattenMapped
  <2> QED BY <1>2, <2>1, <2>2
<1> QED BY <1>2, <1>3, <1>4

\* An empty segment has no pieces.
LEMMA NoPiece == NonEmpty(<<"">>) = <<>>
<1>1. PICK none \in Piece : none = ""
  BY DEF Piece
<1>2. <<none>> \in Segment
  BY OneIs DEF Segment
<1>3. Mapped(Mark, <<none>>) = << <<>> >>
  <2>1. Mark[none] = <<>>
    BY <1>1 DEF Mark
  <2> QED BY <2>1, MapOne
<1>4. FlattenSeq(<< <<>> >>) = <<>>
  <2>1. <<>> \in Segment
    BY EmptySeq DEF Segment
  <2> QED BY <2>1, FlattenOne DEF Segment
<1> QED BY <1>1, <1>2, <1>3, <1>4, NonEmptyIs

Rest == [segment \in Segment |-> NonEmpty(segment)]

\* The pieces of a text are those of its parts, in order.
LEMMA PiecesAre ==
  ASSUME NEW a \in Seq(Segment)
  PROVE  /\ Pieces(a) = FlattenSeq(Mapped(Rest, a))
         /\ Pieces(a) \in Segment
         /\ \A b \in Seq(Segment) : Pieces(Joined(a, b)) = Joined(Pieces(a), Pieces(b))
<1>1. Rest \in [Segment -> Segment]
  BY NonEmptyIs DEF Rest
<1>2. ASSUME NEW s \in Seq(Segment) PROVE Pieces(s) = FlattenSeq(Mapped(Rest, s))
  <2>1. PICK n \in Nat : n = Len(s) /\ DOMAIN s = 1..n /\ \A i \in 1..n : s[i] \in Segment
    OBVIOUS
  <2>2. \A i \in 1..n : Rest[s[i]] = NonEmpty(s[i])
    BY <2>1 DEF Rest
  <2>3. Mapped(Rest, s) = [i \in DOMAIN s |-> NonEmpty(s[i])]
    BY <2>1, <2>2 DEF Mapped
  <2> QED BY <2>3 DEF Pieces
<1>3. FlattenSeq(Mapped(Rest, a)) \in Segment
  <2>1. CanMap(Rest, Segment, Seq(Piece), a)
    BY <1>1 DEF CanMap, Segment
  <2> QED BY <2>1, FlattenMapped DEF Segment
<1>4. ASSUME NEW b \in Seq(Segment) PROVE Pieces(Joined(a, b)) = Joined(Pieces(a), Pieces(b))
  <2>1. Joined(a, b) \in Seq(Segment)
    BY JoinedIs
  <2>2. FlattenSeq(Mapped(Rest, Joined(a, b))) = Joined(FlattenSeq(Mapped(Rest, a)), FlattenSeq(Mapped(Rest, b)))
    <3>1. CanMap(Rest, Segment, Seq(Piece), a) /\ CanMap(Rest, Segment, Seq(Piece), b)
      BY <1>1 DEF CanMap, Segment
    <3> QED BY <3>1, FlattenMapped
  <2> QED BY <1>2, <2>1, <2>2
<1> QED BY <1>2, <1>3, <1>4

\* The pieces of a text of one segment.
LEMMA PiecesOfOne ==
  ASSUME NEW s \in Segment
  PROVE  Pieces(<<s>>) = NonEmpty(s)
<1>1. <<s>> \in Seq(Segment)
  OBVIOUS
<1>2. Mapped(Rest, <<s>>) = <<NonEmpty(s)>>
  <2>1. Rest[s] = NonEmpty(s)
    BY DEF Rest
  <2> QED BY <2>1, MapOne
<1>3. FlattenSeq(<<NonEmpty(s)>>) = NonEmpty(s)
  BY NonEmptyIs, FlattenOne DEF Segment
<1> QED BY <1>1, <1>2, <1>3, PiecesAre

-----------------------------------------------------------------------------
(* The parser.                                                             *)

LegSegments(segments) == Selected(segments, {i \in DOMAIN segments : ~IsEmpty(segments[i])})

\* Skipping the empty segments skips no piece.
LEMMA LegSegmentsAre ==
  ASSUME NEW segments \in Seq(Segment)
  PROVE  LegSegments(segments) \in Seq(Segment) /\ Pieces(LegSegments(segments)) = Pieces(segments)
<1>1. PICK n \in Nat : n = Len(segments) /\ DOMAIN segments = 1..n /\ \A i \in 1..n : segments[i] \in Segment
  OBVIOUS
<1>2. PICK I \in SUBSET (1..n) : I = {i \in DOMAIN segments : ~IsEmpty(segments[i])}
  BY <1>1
<1>3. I \subseteq Nat /\ IsFiniteSet(I)
  <2>1. IsFiniteSet(1..n)
    BY FS_Interval
  <2>2. IsFiniteSet(I)
    BY <2>1, FS_Subset
  <2> QED BY <2>2
<1>4. PICK at, m : Lists(at, m, I)
  BY <1>3, AscendingLists
<1>5. m \in Nat /\ \A j \in 1..m : at[j] \in 1..n
  BY <1>2, <1>4 DEF Lists
<1>6. PICK legs : legs = LegSegments(segments) /\ legs = Through(segments, at, m)
  BY <1>2, <1>3, <1>4, SelectedIs DEF LegSegments
<1>7. legs \in Seq(Segment) /\ Len(legs) = m /\ \A j \in 1..m : legs[j] = segments[at[j]]
  <2>1. \A j \in 1..m : segments[at[j]] \in Segment
    BY <1>1, <1>5
  <2> QED BY <1>5, <1>6, <2>1 DEF Through
<1>8. Rest \in [Segment -> Seq(Piece)] /\ \A s \in Segment : Rest[s] = NonEmpty(s)
  BY NonEmptyIs DEF Rest, Segment
<1>9. PICK all \in Seq(Seq(Piece)) :
        /\ all = Mapped(Rest, segments) /\ Len(all) = n
        /\ \A i \in 1..n : all[i] = NonEmpty(segments[i])
  <2>1. CanMap(Rest, Segment, Seq(Piece), segments)
    BY <1>8 DEF CanMap
  <2> QED BY <1>1, <1>8, <2>1, MappedIs
<1>10. Mapped(Rest, legs) = Through(all, at, m)
  <2>1. \A j \in 1..m : Rest[legs[j]] = all[at[j]]
    BY <1>1, <1>5, <1>7, <1>8, <1>9
  <2> QED BY <1>7, <2>1 DEF Mapped, Through
<1>11. SkipsEmpty(all, at, m, I)
  <2>1. ASSUME NEW k \in 1..n, k \notin I PROVE all[k] = <<>>
    <3>1. segments[k] = <<"">>
      BY <1>1, <1>2, <2>1 DEF IsEmpty
    <3> QED BY <1>9, <3>1, NoPiece
  <2> QED BY <1>2, <1>4, <1>9, <2>1 DEF SkipsEmpty
<1>12. FlattenSeq(Mapped(Rest, legs)) = FlattenSeq(all)
  BY <1>10, <1>11, FlattenSkipping
<1> QED BY <1>6, <1>7, <1>9, <1>12, PiecesAre

SegmentOf(leg) == Append(leg.symbol, IF leg.requiresInversion THEN "SELL" ELSE "BUY")

\* A leg written out is the segment it was read from.
LEMMA LegWrittenOut ==
  ASSUME NEW s \in Segment, IsLeg(s)
  PROVE  SegmentOf(TradeLeg(s)) = s
<1>1. PICK n \in Nat : n = Len(s) /\ n >= 2
  <2>1. Len(s) >= 2
    BY DEF IsLeg
  <2>2. Len(s) \in Nat
    BY DEF Segment
  <2> QED BY <2>1, <2>2
<1>2. s[n] \in {"BUY", "SELL"} /\ Last(s) = s[n]
  BY <1>1 DEF IsLeg, Last, Actions
<1>3. SegmentOf(TradeLeg(s)) = Append(Front(s), s[n])
  <2>1. TradeLeg(s).symbol = Front(s) /\ TradeLeg(s).requiresInversion = (s[n] = "SELL")
    BY <1>2 DEF TradeLeg
  <2> QED BY <1>2, <2>1 DEF SegmentOf
<1>4. Append(Front(s), s[n]) = s
  <2>1. PICK d \in Nat : d = n - 1
    BY <1>1
  <2>2. \A i \in 1..n : s[i] \in Piece
    BY <1>1 DEF Segment
  <2>3. PICK f \in Segment : f = Front(s) /\ Len(f) = d /\ \A i \in 1..d : f[i] = s[i]
    <3>1. Front(s) = SubSeq(s, 1, d) /\ 1 \in Int /\ d \in Int /\ 1 <= d
      BY <1>1, <2>1 DEF Front
    <3>2. \A i \in 1..d : s[i] \in Piece
      BY <2>1, <2>2
    <3>3. /\ SubSeq(s, 1, d) \in Seq(Piece) /\ Len(SubSeq(s, 1, d)) = d - 1 + 1
          /\ \A i \in 1..(d - 1 + 1) : SubSeq(s, 1, d)[i] = s[1 + i - 1]
      BY <3>1, <3>2, SubSeqProperties
    <3>4. d - 1 + 1 = d /\ \A i \in 1..d : 1 + i - 1 = i
      OBVIOUS
    <3> QED BY <3>1, <3>3, <3>4 DEF Segment
  <2>4. PICK g \in Segment : g = Append(f, s[n]) /\ Len(g) = n /\ g[n] = s[n] /\ \A i \in 1..d : g[i] = f[i]
    <3>1. s[n] \in Piece /\ n = d + 1
      BY <1>1, <2>1, <2>2
    <3>2. f \in Seq(Piece) /\ Len(f) = d
      BY <2>3 DEF Segment
    <3>3. PICK g : g = Append(f, s[n])
      OBVIOUS
    <3>4. /\ g \in Seq(Piece) /\ Len(g) = d + 1 /\ g[d + 1] = s[n]
          /\ \A i \in 1..d : g[i] = f[i]
      BY <3>1, <3>2, <3>3, AppendProperties
    <3> QED BY <3>1, <3>3, <3>4 DEF Segment
  <2>5. \A i \in 1..n : g[i] = s[i]
    <3>1. \A i \in 1..n : i \in 1..d \/ i = n
      BY <1>1, <2>1
    <3> QED BY <2>3, <2>4, <3>1
  <2> QED BY <1>1, <2>3, <2>4, <2>5, SeqEqual DEF Segment
<1> QED BY <1>3, <1>4

\* What comes of these legs: their first three, if they are so many.
ParsesTo(out, base, legs) ==
  /\ out.kind = "path" =>
       /\ Len(legs) >= 3 /\ \A k \in 1..3 : IsLeg(legs[k]) /\ out.legs[k] = TradeLeg(legs[k])
       /\ out.startCurrency = base
  /\ Len(legs) >= 3 /\ (\A k \in 1..Len(legs) : IsLeg(legs[k])) => out.kind = "path"

\* Parse makes of the segments that are not empty what ParsesTo says.
LEMMA ParseIs ==
  ASSUME NEW base, NEW segments \in Seq(Segment), NEW out, out = Parse(base, segments)
  PROVE  ParsesTo(out, base, LegSegments(segments))
<1>1. PICK legs \in Seq(Segment) : legs = LegSegments(segments)
  BY LegSegmentsAre
<1>2. PICK n \in Nat : n = Len(legs) /\ DOMAIN legs = 1..n
  OBVIOUS
<1>3. PICK parsed : parsed = [i \in DOMAIN legs |-> TradeLeg(legs[i])]
  OBVIOUS
<1>4. Len(parsed) = n /\ \A i \in 1..n : parsed[i] = TradeLeg(legs[i])
  BY <1>2, <1>3
<1>5. out = IF \E i \in 1..n : ~IsLeg(legs[i]) THEN Throws ELSE Path(base, parsed)
  BY <1>1, <1>2, <1>3 DEF Parse, LegSegments
<1>6. n >= 3 => \A k \in 1..3 : k \in 1..n /\ SubSeq(parsed, 1, 3)[k] = parsed[k]
  OBVIOUS
<1>7. Throws.kind # "path"
  BY DEF Throws
<1>8. CASE n >= 3
  <2>1. Path(base, parsed) = [kind |-> "path", startCurrency |-> base, legs |-> SubSeq(parsed, 1, 3)]
    BY <1>2, <1>4, <1>8 DEF Path
  <2> QED BY <1>1, <1>2, <1>4, <1>5, <1>6, <1>7, <1>8, <2>1 DEF ParsesTo
<1>9. CASE ~(n >= 3)
  <2>1. Path(base, parsed).kind # "path"
    BY <1>2, <1>4, <1>9 DEF Path
  <2> QED BY <1>1, <1>2, <1>5, <1>7, <1>9, <2>1 DEF ParsesTo
<1> QED BY <1>8, <1>9

-----------------------------------------------------------------------------
(* What is accepted stands in the text.                                    *)

\* text splits at its first colon, behind the piece c, and segments follow.
SplitsAt(text, f, before, c, tail, after) ==
  /\ f \in 1..Len(text) /\ Len(text[f]) >= 2
  /\ \A i \in 1..Len(text) : Len(text[i]) >= 2 => f <= i
  /\ before \in Seq(Segment) /\ c \in Piece /\ tail \in Segment /\ after \in Seq(Segment)
  /\ before = SubSeq(text, 1, f - 1) /\ after = SubSeq(text, f + 1, Len(text))
  /\ tail = Tail(text[f]) /\ c = text[f][1]

\* Min of a set is the element that no other is below.
LEMMA LeastOf ==
  ASSUME NEW I, I \subseteq Nat, NEW x \in I, \A y \in I : x <= y
  PROVE  Min(I) = x
<1>1. \A y \in I : (\A z \in I : y <= z) <=> y = x
  OBVIOUS
<1> QED BY <1>1 DEF Min

\* from_string refuses a text without a colon and splits any other at its first.
LEMMA FromString ==
  ASSUME NEW text \in Seq(Segment)
  PROVE  \/ from_string(text) = Throws /\ \A i \in 1..Len(text) : ~(Len(text[i]) >= 2)
         \/ \E f, before, c, tail, after :
              /\ SplitsAt(text, f, before, c, tail, after)
              /\ from_string(text) = Parse(Append(before, <<c>>), Joined(<<tail>>, after))
<1>1. PICK n \in Nat : n = Len(text) /\ \A i \in 1..n : text[i] \in Segment /\ Len(text[i]) \in Nat
  BY DEF Segment
<1>2. PICK I \in SUBSET (1..n) : I = {i \in 1..n : Len(text[i]) >= 2}
  OBVIOUS
<1>3. SelectInSeq(text, LAMBDA segment : Len(segment) >= 2) = IF I # {} THEN Min(I) ELSE 0
  BY <1>1, <1>2 DEF SelectInSeq
<1>4. CASE I = {}
  <2>1. from_string(text) = Throws
    BY <1>3, <1>4 DEF from_string
  <2> QED BY <1>1, <1>2, <1>4, <2>1
<1>5. CASE I # {}
  <2>1. PICK f \in I : \A i \in I : f <= i
    <3>1. I \subseteq Nat
      OBVIOUS
    <3> QED BY <1>5, <3>1, LeastNat
  <2>2. Min(I) = f /\ f # 0 /\ f \in 1..n
    <3>1. I \subseteq Nat
      OBVIOUS
    <3>2. Min(I) = f
      BY <2>1, <3>1, LeastOf
    <3> QED BY <2>1, <3>2
  <2>3. PICK before, c, tail, after :
          /\ before = SubSeq(text, 1, f - 1) /\ after = SubSeq(text, f + 1, n)
          /\ tail = Tail(text[f]) /\ c = text[f][1]
    OBVIOUS
  <2>4. from_string(text) = Parse(Append(before, <<c>>), Joined(<<tail>>, after))
    BY <1>1, <1>3, <1>5, <2>2, <2>3 DEF from_string, Joined
  <2>5. Len(text[f]) >= 2 /\ text[f] \in Segment
    BY <1>1, <1>2, <2>2
  <2>6. before \in Seq(Segment) /\ after \in Seq(Segment)
    <3>1. /\ \A i \in 1..(f - 1) : text[i] \in Segment
          /\ \A i \in (f + 1)..n : text[i] \in Segment
      BY <1>1, <2>2
    <3>2. 1 \in Int /\ f - 1 \in Int /\ f + 1 \in Int /\ n \in Int
      BY <2>2
    <3> QED BY <2>3, <3>1, <3>2, SubSeqProperties
  <2>7. tail \in Segment /\ c \in Piece
    <3>1. text[f] # <<>> /\ text[f] \in Seq(Piece) /\ 1 \in 1..Len(text[f])
      BY <2>5, EmptySeq DEF Segment
    <3> QED BY <2>3, <3>1, HeadTailProperties, ElementOfSeq DEF Segment
  <2>8. SplitsAt(text, f, before, c, tail, after)
    BY <1>1, <1>2, <2>1, <2>2, <2>3, <2>5, <2>6, <2>7 DEF SplitsAt
  <2> QED BY <2>4, <2>8
<1> QED BY <1>4, <1>5

\* So the text is put together from these.
LEMMA TextSplit ==
  ASSUME NEW text \in Seq(Segment), NEW f, NEW before, NEW c, NEW tail, NEW after,
         SplitsAt(text, f, before, c, tail, after)
  PROVE  text = Joined(before, Joined(<<Joined(<<c>>, tail)>>, after))
<1>1. PICK n \in Nat : n = Len(text) /\ f \in 1..n /\ text[f] \in Segment /\ Len(text[f]) >= 2
  BY DEF SplitsAt
<1>2. Joined(<<c>>, tail) = text[f]
  <2>1. PICK s \in Seq(Piece) : s = text[f]
    BY <1>1 DEF Segment
  <2>2. 1 \in 1..Len(s) /\ Len(s) \in 1..Len(s) /\ s # <<>>
    BY <1>1, <2>1, EmptySeq
  <2>3. SubSeq(s, 1, Len(s)) = <<s[1]>> \o SubSeq(s, 1 + 1, Len(s))
    <3>1. Len(s) \in 1 .. Len(s) /\ 1 \in 1 .. Len(s)
      BY <2>2
    <3> QED BY <3>1, SubSeqRecursiveFirst
  <2>4. SubSeq(s, 1, Len(s)) = s /\ Tail(s) = SubSeq(s, 2, Len(s))
    BY <2>2, SubSeqFull, TailIsSubSeq
  <2>5. tail = Tail(s) /\ c = s[1]
    BY <2>1 DEF SplitsAt
  <2>6. 1 + 1 = 2
    OBVIOUS
  <2>7. s = <<c>> \o tail
    BY <2>3, <2>4, <2>5, <2>6
  <2> QED BY <2>1, <2>7 DEF Joined
<1>3. SubSeq(text, f, n) = <<text[f]>> \o SubSeq(text, f + 1, n)
  BY <1>1, SubSeqRecursiveFirst
<1>4. SubSeq(text, 1, f - 1) \o SubSeq(text, f - 1 + 1, n) = SubSeq(text, 1, n)
  <2>1. 1 \in 1..(n + 1) /\ f - 1 \in (1 - 1)..n /\ n \in (f - 1)..n
    BY <1>1
  <2> QED BY <1>1, <2>1, ConcatAdjacentSubSeq
<1>5. SubSeq(text, 1, n) = text
  BY <1>1, SubSeqFull
<1>6. f - 1 + 1 = f
  BY <1>1
<1> QED BY <1>1, <1>2, <1>3, <1>4, <1>5, <1>6 DEF SplitsAt, Joined

\* The pieces of a segment come before those of the segments behind it.
LEMMA PiecesBefore ==
  ASSUME NEW s \in Segment, NEW a \in Seq(Segment)
  PROVE  /\ Joined(<<s>>, a) \in Seq(Segment)
         /\ Pieces(Joined(<<s>>, a)) = Joined(NonEmpty(s), Pieces(a))
<1>1. PICK one \in Seq(Segment) : one = <<s>>
  BY OneIs
<1>2. Joined(one, a) \in Seq(Segment) /\ Pieces(Joined(one, a)) = Joined(Pieces(one), Pieces(a))
  BY JoinedIs, PiecesAre
<1>3. Pieces(one) = NonEmpty(s)
  BY <1>1, PiecesOfOne
<1> QED BY <1>1, <1>2, <1>3

\* The pieces of a text, put together from what it is split into.
LEMMA PiecesOfSplit ==
  ASSUME NEW before \in Seq(Segment), NEW c \in Piece, NEW tail \in Segment, NEW after \in Seq(Segment)
  PROVE  Pieces(Joined(before, Joined(<<Joined(<<c>>, tail)>>, after)))
           = Joined(Pieces(before), Joined(NonEmpty(<<c>>), Pieces(Joined(<<tail>>, after))))
<1>1. <<c>> \in Segment
  BY OneIs DEF Segment
<1>2. PICK s \in Segment : s = Joined(<<c>>, tail)
  BY <1>1, JoinedIs DEF Segment
<1>3. NonEmpty(s) = Joined(NonEmpty(<<c>>), NonEmpty(tail))
  BY <1>1, <1>2, NonEmptyIs
<1>4. PICK end \in Seq(Segment) : end = Joined(<<s>>, after)
  BY <1>1, PiecesBefore
<1>5. Pieces(end) = Joined(NonEmpty(s), Pieces(after))
  BY <1>1, <1>4, PiecesBefore
<1>6. Pieces(Joined(<<tail>>, after)) = Joined(NonEmpty(tail), Pieces(after))
  BY <1>1, PiecesBefore
<1>7. Pieces(Joined(before, end)) = Joined(Pieces(before), Pieces(end))
  BY PiecesAre
<1>8. /\ NonEmpty(<<c>>) \in Seq(Piece) /\ NonEmpty(tail) \in Seq(Piece) /\ Pieces(after) \in Seq(Piece)
  BY <1>1, NonEmptyIs, PiecesAre DEF Segment
<1>9. Joined(Joined(NonEmpty(<<c>>), NonEmpty(tail)), Pieces(after))
         = Joined(NonEmpty(<<c>>), Joined(NonEmpty(tail), Pieces(after)))
  BY <1>8, JoinedTwice
<1> QED BY <1>2, <1>3, <1>4, <1>5, <1>6, <1>7, <1>9

\* c is x and the m elements of b behind it.
PutBefore(x, b, m, S, c) ==
  x \in S /\ b \in Seq(S) /\ m \in Nat /\ Len(b) = m /\ c = Joined(<<x>>, b)

StandsBefore(x, b, m, S, c) ==
  c \in Seq(S) /\ Len(c) = m + 1 /\ c[1] = x /\ \A i \in 1..m : c[i + 1] = b[i]

\* To put an element before a sequence moves every other by one.
LEMMA BehindOne ==
  ASSUME NEW S, NEW x, NEW b, NEW m, NEW c, PutBefore(x, b, m, S, c)
  PROVE  StandsBefore(x, b, m, S, c)
<1> USE DEF PutBefore
<1>1. PICK a \in Seq(S) : a = <<x>> /\ Len(a) = 1 /\ a[1] = x
  BY OneIs
<1>2. PICK n \in Nat : n = 1
  OBVIOUS
<1>3. c = Joined(a, b) /\ Len(a) = n
  BY <1>1, <1>2
<1>4. c \in Seq(S) /\ Len(c) = n + m /\ \A i \in 1..(n + m) : c[i] = IF i <= n THEN a[i] ELSE b[i - n]
  <2>1. b \in Seq(S) /\ Len(b) = m
    OBVIOUS
  <2>2. /\ Joined(a, b) \in Seq(S) /\ Len(Joined(a, b)) = Len(a) + Len(b)
        /\ \A i \in 1..(Len(a) + Len(b)) :
             Joined(a, b)[i] = IF i <= Len(a) THEN a[i] ELSE b[i - Len(a)]
    BY <2>1, JoinedIs
  <2> QED BY <1>3, <2>1, <2>2
<1>5. c[1] = x
  <2>1. 1 \in 1..(n + m) /\ 1 <= n
    BY <1>2
  <2> QED BY <1>1, <1>4, <2>1
<1>6. ASSUME NEW i \in 1..m PROVE c[i + 1] = b[i]
  <2>1. i + 1 \in 1..(n + m) /\ ~(i + 1 <= n) /\ i + 1 - n = i
    BY <1>2
  <2> QED BY <1>4, <2>1
<1>7. n + m = m + 1
  BY <1>2
<1> QED BY <1>4, <1>5, <1>6, <1>7 DEF StandsBefore

\* What stands in a sequence of three.
LEMMA TupleOfThree ==
  ASSUME NEW S, NEW x \in S, NEW y \in S, NEW z \in S
  PROVE  /\ <<x, y, z>> \in Seq(S) /\ Len(<<x, y, z>>) = 3
         /\ <<x, y, z>>[1] = x /\ <<x, y, z>>[2] = y /\ <<x, y, z>>[3] = z
<1>1. <<x, y, z>> \in Seq(S)
  OBVIOUS
<1>2. Len(<<x, y, z>>) = 3
  OBVIOUS
<1>3. <<x, y, z>>[1] = x /\ <<x, y, z>>[2] = y /\ <<x, y, z>>[3] = z
  OBVIOUS
<1> QED BY <1>1, <1>2, <1>3

\* Three elements put end to end are the sequence of the three.
LEMMA ThreeAre ==
  ASSUME NEW S, NEW x \in S, NEW y \in S, NEW z \in S
  PROVE  Joined(<<x>>, Joined(<<y>>, <<z>>)) = <<x, y, z>> /\ Joined(<<y>>, <<z>>) \in Seq(S)
<1>1. PICK one \in Seq(S) : one = <<z>> /\ Len(one) = 1 /\ one[1] = z
  BY OneIs
<1>2. PICK two : two = Joined(<<y>>, one)
  OBVIOUS
<1>3. two \in Seq(S) /\ Len(two) = 2 /\ two[1] = y /\ two[2] = z
  <2>1. two \in Seq(S) /\ Len(two) = 1 + 1 /\ two[1] = y /\ \A i \in 1..1 : two[i + 1] = one[i]
    <3>1. PutBefore(y, one, 1, S, two)
      BY <1>1, <1>2 DEF PutBefore
    <3>2. StandsBefore(y, one, 1, S, two)
      BY <3>1, BehindOne
    <3> QED BY <3>2 DEF StandsBefore
  <2>2. 1 \in 1..1 /\ 1 + 1 = 2
    OBVIOUS
  <2> QED BY <1>1, <2>1, <2>2
<1>4. PICK all : all = Joined(<<x>>, two)
  OBVIOUS
<1>5. all \in Seq(S) /\ Len(all) = 3 /\ all[1] = x /\ all[2] = y /\ all[3] = z
  <2>1. all \in Seq(S) /\ Len(all) = 2 + 1 /\ all[1] = x /\ \A i \in 1..2 : all[i + 1] = two[i]
    <3>1. PutBefore(x, two, 2, S, all)
      BY <1>3, <1>4 DEF PutBefore
    <3>2. StandsBefore(x, two, 2, S, all)
      BY <3>1, BehindOne
    <3> QED BY <3>2 DEF StandsBefore
  <2>2. 1 \in 1..2 /\ 2 \in 1..2 /\ 1 + 1 = 2 /\ 2 + 1 = 3
    OBVIOUS
  <2> QED BY <1>3, <2>1, <2>2
<1>6. PICK three \in Seq(S) : three = <<x, y, z>>
  BY TupleOfThree
<1>7. Len(three) = 3 /\ three[1] = x /\ three[2] = y /\ three[3] = z
  BY <1>6, TupleOfThree
<1>8. \A i \in 1..3 : all[i] = three[i]
  <2>1. \A i \in 1..3 : i = 1 \/ i = 2 \/ i = 3
    OBVIOUS
  <2> QED BY <1>5, <1>7, <2>1
<1>9. all = three
  BY <1>5, <1>7, <1>8, SeqEqual
<1> QED BY <1>1, <1>2, <1>3, <1>4, <1>6, <1>9

\* The text of a path, put together in the same way.
LEMMA TextIs ==
  ASSUME NEW before \in Seq(Segment), NEW c \in Piece, NEW legs,
         NEW s1 \in Segment, NEW s2 \in Segment, NEW s3 \in Segment, IsLeg(s1), IsLeg(s2), IsLeg(s3),
         legs[1] = TradeLeg(s1), legs[2] = TradeLeg(s2), legs[3] = TradeLeg(s3)
  PROVE  Text(Append(before, <<c>>), legs)
           = Joined(before, Joined(<<Joined(<<c>>, s1)>>, Joined(<<s2>>, <<s3>>)))
<1>1. PICK start \in Segment : start = <<c>>
  BY OneIs DEF Segment
<1>2. PICK base : base = Append(before, start)
  OBVIOUS
<1>3. PICK n \in Nat : n = Len(before)
  OBVIOUS
<1>4. base \in Seq(Segment) /\ Len(base) = n + 1 /\ base[n + 1] = start /\ base = before \o <<start>>
  BY <1>2, <1>3, AppendProperties, AppendIsConcat
<1>5. Last(base) = start
  BY <1>4 DEF Last
<1>6. Front(base) = before
  <2>1. n + 1 - 1 = n
    BY <1>3
  <2>2. Front(base) = SubSeq(base, 1, n)
    BY <1>4, <2>1 DEF Front
  <2>3. SubSeq(base, 1, n) \in Seq(Segment) /\ Len(SubSeq(base, 1, n)) = n
        /\ \A i \in 1..n : SubSeq(base, 1, n)[i] = base[i]
    BY <1>3, <1>4
  <2>4. \A i \in 1..n : base[i] = before[i]
    BY <1>2, <1>3, AppendProperties
  <2> QED BY <1>3, <2>2, <2>3, <2>4, SeqEqual
<1>7. SegmentOf(legs[1]) = s1 /\ SegmentOf(legs[2]) = s2 /\ SegmentOf(legs[3]) = s3
  BY LegWrittenOut
<1>8. Text(base, legs) = Front(base) \o <<Last(base) \o SegmentOf(legs[1]), SegmentOf(legs[2]), SegmentOf(legs[3])>>
  BY DEF Text, SegmentOf
<1>9. Text(base, legs) = Joined(before, <<Joined(start, s1), s2, s3>>)
  BY <1>5, <1>6, <1>7, <1>8 DEF Joined
<1>10. Joined(start, s1) \in Segment
  BY JoinedIs DEF Segment
<1>11. <<Joined(start, s1), s2, s3>> = Joined(<<Joined(start, s1)>>, Joined(<<s2>>, <<s3>>))
  BY <1>10, ThreeAre
<1> QED BY <1>1, <1>2, <1>9, <1>11

\* What two sequences make end to end begins with the first.
LEMMA IsPrefixOfJoined ==
  ASSUME NEW S, NEW x \in Seq(S), NEW y \in Seq(S)
  PROVE  IsPrefix(x, Joined(x, y))
<1>1. PICK xy \in Seq(S), n \in Nat, m \in Nat :
        xy = Joined(x, y) /\ n = Len(x) /\ m = Len(y)
  BY JoinedIs
<1>2. Len(xy) = n + m /\ \A i \in 1..(n + m) : xy[i] = IF i <= n THEN x[i] ELSE y[i - n]
  BY <1>1, JoinedIs
<1>3. n <= n + m /\ \A i \in 1..n : xy[i] = x[i]
  BY <1>2
<1>4. SubSeq(xy, 1, n) = SubSeq(x, 1, n)
  <2>1. \A i \in 1..n : i \in 1..(n + m)
    OBVIOUS
  <2>2. SubSeq(xy, 1, n) \in Seq(S) /\ Len(SubSeq(xy, 1, n)) = n
        /\ \A i \in 1..n : SubSeq(xy, 1, n)[i] = xy[i]
    BY <1>1, <1>2, <2>1
  <2>3. SubSeq(x, 1, n) \in Seq(S) /\ Len(SubSeq(x, 1, n)) = n
        /\ \A i \in 1..n : SubSeq(x, 1, n)[i] = x[i]
    BY <1>1
  <2> QED BY <1>3, <2>2, <2>3, SeqEqual
<1> QED BY <1>1, <1>2, <1>3, <1>4 DEF IsPrefix

\* The pieces of an accepted text begin with those of the path.
LEMMA AcceptedStands ==
  ASSUME NEW text \in Seq(Segment), NEW out, out = from_string(text), out.kind = "path"
  PROVE  IsPrefix(Pieces(Text(out.startCurrency, out.legs)), Pieces(text))
<1>1. PICK f, before, c, tail, after :
        /\ SplitsAt(text, f, before, c, tail, after)
        /\ out = Parse(Append(before, <<c>>), Joined(<<tail>>, after))
  <2>1. Throws.kind # "path"
    BY DEF Throws
  <2> QED BY <2>1, FromString, ZenonT(40)
<1>2. before \in Seq(Segment) /\ c \in Piece /\ tail \in Segment /\ after \in Seq(Segment)
  BY <1>1 DEF SplitsAt
<1>3. PICK segments \in Seq(Segment) : segments = Joined(<<tail>>, after)
  BY <1>2, PiecesBefore
<1>4. PICK legs \in Seq(Segment) : legs = LegSegments(segments) /\ Pieces(legs) = Pieces(segments)
  BY LegSegmentsAre
<1>5. /\ Len(legs) >= 3 /\ \A k \in 1..3 : IsLeg(legs[k]) /\ out.legs[k] = TradeLeg(legs[k])
      /\ out.startCurrency = Append(before, <<c>>)
  <2>1. PICK base : base = Append(before, <<c>>) /\ out = Parse(base, segments)
    BY <1>1, <1>3
  <2>2. ParsesTo(out, base, legs)
    BY <1>4, <2>1, ParseIs
  <2> QED BY <2>1, <2>2 DEF ParsesTo
<1>6. PICK n \in Nat : n = Len(legs) /\ n >= 3
  BY <1>5
<1>7. PICK s1 \in Segment, s2 \in Segment, s3 \in Segment :
        s1 = legs[1] /\ s2 = legs[2] /\ s3 = legs[3]
  <2>1. 1 \in 1..n /\ 2 \in 1..n /\ 3 \in 1..n
    BY <1>6
  <2> QED BY <1>6, <2>1, ElementOfSeq
<1>8. PICK others \in Seq(Segment) : others = Joined(<<s2>>, <<s3>>)
  BY ThreeAre
<1>9. PICK first \in Seq(Segment), rest \in Seq(Segment) :
        first = Joined(<<s1>>, others) /\ legs = Joined(first, rest)
  <2>1. SubSeq(legs, 1, 3) \in Seq(Segment) /\ SubSeq(legs, 4, n) \in Seq(Segment)
    BY <1>6
  <2>2. SubSeq(legs, 1, 3) \o SubSeq(legs, 3 + 1, n) = SubSeq(legs, 1, n)
    <3>1. 1 \in 1..(n + 1) /\ 3 \in (1 - 1)..n /\ n \in 3..n
      BY <1>6
    <3> QED BY <1>6, <3>1, ConcatAdjacentSubSeq
  <2>3. SubSeq(legs, 1, n) = legs
    BY <1>6, SubSeqFull
  <2>4. SubSeq(legs, 1, 3) = <<s1, s2, s3>>
    <3>1. PICK part \in Seq(Segment) :
            part = SubSeq(legs, 1, 3) /\ Len(part) = 3 /\ \A i \in 1..3 : part[i] = legs[i]
      <4>1. Len(SubSeq(legs, 1, 3)) = 3 /\ \A i \in 1..3 : SubSeq(legs, 1, 3)[i] = legs[i]
        BY <1>6
      <4> QED BY <2>1, <4>1
    <3>2. PICK three \in Seq(Segment) : three = <<s1, s2, s3>>
      BY TupleOfThree
    <3>3. Len(three) = 3 /\ three[1] = s1 /\ three[2] = s2 /\ three[3] = s3
      BY <3>2, TupleOfThree
    <3>4. \A i \in 1..3 : part[i] = three[i]
      <4>1. \A i \in 1..3 : i = 1 \/ i = 2 \/ i = 3
        OBVIOUS
      <4> QED BY <1>7, <3>1, <3>3, <4>1
    <3> QED BY <3>1, <3>2, <3>3, <3>4, SeqEqual
  <2>5. <<s1, s2, s3>> = Joined(<<s1>>, others)
    BY <1>8, ThreeAre
  <2>6. 3 + 1 = 4
    OBVIOUS
  <2> QED BY <2>1, <2>2, <2>3, <2>4, <2>5, <2>6 DEF Joined
<1>10. Text(out.startCurrency, out.legs) = Joined(before, Joined(<<Joined(<<c>>, s1)>>, others))
  BY <1>2, <1>5, <1>7, <1>8, TextIs, SMTT(30)
<1>11. PICK B \in Segment, C \in Segment, F \in Segment, R \in Segment :
         B = Pieces(before) /\ C = NonEmpty(<<c>>) /\ F = Pieces(first) /\ R = Pieces(rest)
  <2>1. <<c>> \in Segment
    BY <1>2, OneIs DEF Segment
  <2> QED BY <1>2, <2>1, NonEmptyIs, PiecesAre
<1>12. Pieces(text) = Joined(B, Joined(C, Joined(F, R)))
  <2>1. Pieces(legs) = Joined(F, R)
    BY <1>9, <1>11, PiecesAre
  <2>2. text = Joined(before, Joined(<<Joined(<<c>>, tail)>>, after))
    BY <1>1, TextSplit
  <2>3. Pieces(text) = Joined(Pieces(before), Joined(NonEmpty(<<c>>), Pieces(Joined(<<tail>>, after))))
    BY <1>2, <2>2, PiecesOfSplit
  <2> QED BY <1>3, <1>4, <1>11, <2>1, <2>3
<1>13. Pieces(Text(out.startCurrency, out.legs)) = Joined(B, Joined(C, F))
  BY <1>2, <1>9, <1>10, <1>11, PiecesOfSplit
<1>14. Joined(B, Joined(C, Joined(F, R))) = Joined(Joined(B, Joined(C, F)), R)
  <2>1. PICK CF \in Segment : CF = Joined(C, F)
    BY JoinedIs DEF Segment
  <2>2. Joined(CF, R) = Joined(C, Joined(F, R)) /\ Joined(Joined(B, CF), R) = Joined(B, Joined(CF, R))
    BY <2>1, JoinedTwice DEF Segment
  <2> QED BY <2>1, <2>2
<1>15. PICK P \in Segment : P = Joined(B, Joined(C, F))
  BY JoinedIs DEF Segment
<1>16. IsPrefix(P, Joined(P, R))
  BY IsPrefixOfJoined DEF Segment
<1> QED BY <1>12, <1>13, <1>14, <1>15, <1>16

LegText(s) == Len(s) >= 2 /\ s[1] # "" /\ Last(s) \in {"BUY", "SELL"}

\* A segment of the documented form is a leg and is not skipped.
LEMMA LegTextIsLeg ==
  ASSUME NEW s, LegText(s)
  PROVE  IsLeg(s) /\ ~IsEmpty(s)
<1>1. Len(s) >= 2 /\ s[1] # "" /\ Last(s) \in {"BUY", "SELL"}
  BY DEF LegText
<1>2. ASSUME NEW x PROVE s # <<"", x>>
  <2>1. <<"", x>>[1] = ""
    OBVIOUS
  <2> QED BY <1>1, <2>1
<1>3. ~IsEmpty(s)
  <2>1. <<"">>[1] = ""
    OBVIOUS
  <2> QED BY <1>1, <2>1 DEF IsEmpty
<1> QED BY <1>1, <1>2, <1>3 DEF IsLeg, Actions

\* A text of the documented form is accepted.
LEMMA WellFormedIsAccepted ==
  ASSUME NEW text \in Seq(Segment), WellFormed(text)
  PROVE  from_string(text).kind = "path"
<1>1. /\ Len(text) = 3 /\ LegText(text[2]) /\ LegText(text[3])
      /\ Len(text[1]) >= 2 /\ LegText(Tail(text[1]))
  BY DEF WellFormed, LegText
<1>2. 1 \in 1..Len(text)
  BY <1>1
<1>3. PICK f, before, c, tail, after :
        /\ SplitsAt(text, f, before, c, tail, after)
        /\ from_string(text) = Parse(Append(before, <<c>>), Joined(<<tail>>, after))
  BY <1>1, <1>2, FromString
<1>4. f = 1
  <2>1. f \in 1..3 /\ (Len(text[1]) >= 2 => f <= 1)
    BY <1>1, <1>2, <1>3 DEF SplitsAt
  <2> QED BY <1>1, <2>1
<1>5. tail \in Segment /\ after \in Seq(Segment) /\ tail = Tail(text[1]) /\ after = SubSeq(text, 2, 3)
  <2>1. f + 1 = 2
    BY <1>4
  <2> QED BY <1>1, <1>3, <1>4, <2>1 DEF SplitsAt
<1>6. PICK segments \in Seq(Segment) : segments = Joined(<<tail>>, after)
  BY <1>5, PiecesBefore
<1>7. Len(segments) = 3 /\ segments[1] = tail /\ segments[2] = text[2] /\ segments[3] = text[3]
  <2>1. Len(after) = 2 /\ after[1] = text[2] /\ after[2] = text[3]
    BY <1>1, <1>5
  <2>2. Len(segments) = 2 + 1 /\ segments[1] = tail /\ \A i \in 1..2 : segments[i + 1] = after[i]
    <3>1. PutBefore(tail, after, 2, Segment, segments)
      BY <1>5, <1>6, <2>1 DEF PutBefore
    <3>2. StandsBefore(tail, after, 2, Segment, segments)
      BY <3>1, BehindOne
    <3> QED BY <3>2 DEF StandsBefore
  <2>3. 1 \in 1..2 /\ 2 \in 1..2 /\ 1 + 1 = 2 /\ 2 + 1 = 3
    OBVIOUS
  <2> QED BY <2>1, <2>2, <2>3
<1>8. \A k \in 1..3 : IsLeg(segments[k]) /\ ~IsEmpty(segments[k])
  <2>1. \A k \in 1..3 : k = 1 \/ k = 2 \/ k = 3
    OBVIOUS
  <2> QED BY <1>1, <1>5, <1>7, <2>1, LegTextIsLeg
<1>9. LegSegments(segments) = Part(segments, 1, 3)
  <2>1. {i \in DOMAIN segments : ~IsEmpty(segments[i])} = 1..3
    BY <1>7, <1>8
  <2>2. Selected(segments, 1..3) = Part(segments, 1, 3)
    <3>1. 1 \in Nat /\ 3 \in Nat /\ 1 <= 3 + 1
      OBVIOUS
    <3> QED BY <3>1, SelectedInterval
  <2> QED BY <2>1, <2>2 DEF LegSegments
<1>10. Len(Part(segments, 1, 3)) = 3 /\ \A k \in 1..3 : Part(segments, 1, 3)[k] = segments[k]
  <2>1. Part(segments, 1, 3) = [k \in 1..3 |-> segments[k]]
    <3>1. 3 + 1 - 1 = 3 /\ \A k \in 1..3 : k + 1 - 1 = k
      OBVIOUS
    <3> QED BY <3>1 DEF Part
  <2> QED BY <2>1
<1>11. PICK out : out = from_string(text) /\ out = Parse(Append(before, <<c>>), segments)
  BY <1>3, <1>6
<1>12. PICK legs : legs = LegSegments(segments)
  OBVIOUS
<1>13. ParsesTo(out, Append(before, <<c>>), legs)
  <2>1. PICK base : base = Append(before, <<c>>) /\ out = Parse(base, segments)
    BY <1>11
  <2>2. ParsesTo(out, base, legs)
    BY <1>12, <2>1, ParseIs
  <2> QED BY <2>1, <2>2
<1>14. Len(legs) = 3 /\ \A k \in 1..3 : IsLeg(legs[k])
  BY <1>8, <1>9, <1>10, <1>12
<1> QED BY <1>11, <1>13, <1>14 DEF ParsesTo

-----------------------------------------------------------------------------
(* The text given is parsed once.                                          *)

ParserState == str \in Seq(Segment) /\ outcome \in {Unparsed, from_string(str)}

\* The invariant of the parser: what is returned is what from_string makes of the text.
LEMMA ParserStateHolds == Parsing => []ParserState
<1>1. GivenText => ParserState
  <2> SUFFICES ASSUME GivenText PROVE ParserState
    OBVIOUS
  <2>1. PICK n \in 1..MaxSegments : str \in [1..n -> Segments]
    BY DEF GivenText
  <2>2. n \in Nat
    BY TextAssumption
  <2>3. \A segment \in Segments : segment \in Segment
    <3>1. STRING \subseteq Piece
      BY DEF Piece
    <3>2. ASSUME NEW segment \in Seq(STRING) PROVE segment \in Seq(Piece)
      <4>1. PICK n_ \in Nat : segment \in [1..n_ -> STRING]
        OBVIOUS
      <4>2. segment \in [1..n_ -> Piece]
        BY <3>1, <4>1
      <4> QED BY <4>2
    <3> QED BY <3>2, TextAssumption DEF Segment
  <2>4. str \in Seq(Segment)
    BY <2>1, <2>2, <2>3
  <2> QED BY <2>4 DEF GivenText, ParserState
<1>2. ParserState /\ [ParseText]_vars => ParserState'
  BY DEF ParserState, ParseText, vars
<1> QED BY <1>1, <1>2, PTL DEF Parsing

\* What is accepted begins with the text of the path returned, and a text of
\* the documented form is accepted.
THEOREM PathStands == Parsing => []PathStandsInText
<1>1. ParserState => PathStandsInText
  <2> SUFFICES ASSUME ParserState PROVE PathStandsInText
    OBVIOUS
  <2>1. str \in Seq(Segment) /\ (outcome = Unparsed \/ outcome = from_string(str))
    BY DEF ParserState
  <2>2. Unparsed.kind # "path"
    BY DEF Unparsed
  <2>3. ASSUME outcome.kind = "path"
        PROVE  IsPrefix(Pieces(Text(outcome.startCurrency, outcome.legs)), Pieces(str))
    BY <2>1, <2>2, <2>3, AcceptedStands
  <2>4. ASSUME WellFormed(str), outcome # Unparsed PROVE outcome.kind = "path"
    BY <2>1, <2>4, WellFormedIsAccepted
  <2> QED BY <2>3, <2>4 DEF PathStandsInText
<1> QED BY <1>1, ParserStateHolds, PTL

-----------------------------------------------------------------------------
(* The rows of a file.                                                     *)

Row == [isArbitrageOpportunity : BOOLEAN, unrealisedPnl : Finite,
        tradedNotional : Amounts, tickReceiveTime : Nat]

\* Rows come with times that never fall.
Recording ==
  /\ df \in Seq(Row)
  /\ \A i, j \in 1..Len(df) : i < j => df[i].tickReceiveTime <= df[j].tickReceiveTime

\* The inductive invariant: a row is never before the last one.
LEMMA RecordingHolds == Spec => []Recording
<1>1. Init => Recording
  BY DEF Init, Recording
<1>2. Recording /\ [Next]_df => Recording'
  <2> SUFFICES ASSUME Recording, [Next]_df PROVE Recording'
    OBVIOUS
  <2>1. PICK n \in Nat : n = Len(df) /\ DOMAIN df = 1..n
    BY DEF Recording
  <2>2. Now \in Nat /\ \A i \in 1..n : df[i].tickReceiveTime \in Nat /\ df[i].tickReceiveTime <= Now
    <3>1. CASE n = 0
      BY <2>1, <3>1 DEF Now, Recording
    <3>2. CASE n # 0
      <4>1. n \in 1..n /\ df # <<>> /\ Now = df[n].tickReceiveTime
        BY <2>1, <3>2 DEF Now, Last
      <4>2. \A i \in 1..n : df[i].tickReceiveTime \in Nat
        <5>1. \A i \in 1..n : df[i] \in Row
          BY <2>1 DEF Recording
        <5> QED BY <5>1 DEF Row
      <4>3. ASSUME NEW i \in 1..n PROVE df[i].tickReceiveTime <= df[n].tickReceiveTime
        <5>1. i < n \/ i = n
          OBVIOUS
        <5>2. i < n => df[i].tickReceiveTime <= df[n].tickReceiveTime
          BY <2>1, <4>1 DEF Recording
        <5>3. i = n => df[i].tickReceiveTime <= df[n].tickReceiveTime
          BY <4>2
        <5> QED BY <5>1, <5>2, <5>3
      <4> QED BY <4>1, <4>2, <4>3
    <3> QED BY <3>1, <3>2
  <2>3. ASSUME NEW opportunity \in BOOLEAN, NEW pnl \in Finite, NEW notional \in Amounts, NEW gap \in Nat,
               AppendRow(opportunity, pnl, notional, gap)
        PROVE  Recording'
    <3>1. PICK row : /\ row = [isArbitrageOpportunity |-> opportunity,
                               unrealisedPnl |-> pnl, tradedNotional |-> notional,
                               tickReceiveTime |-> Now + gap]
                     /\ df' = Append(df, row)
      BY <2>3 DEF AppendRow
    <3>2. row \in Row
      BY <2>2, <3>1 DEF Row
    <3>3. df' \in Seq(Row) /\ Len(df') = n + 1 /\ df'[n + 1] = row /\ \A i \in 1..n : df'[i] = df[i]
      BY <2>1, <3>1, <3>2 DEF Recording
    <3>4. row.tickReceiveTime = Now + gap
      BY <3>1
    <3>5. ASSUME NEW i \in 1..(n + 1), NEW j \in 1..(n + 1), i < j
          PROVE  df'[i].tickReceiveTime <= df'[j].tickReceiveTime
      <4>1. i \in 1..n
        BY <3>5
      <4>2. CASE j = n + 1
        BY <2>2, <3>3, <3>4, <4>1, <4>2
      <4>3. CASE j # n + 1
        <5>1. j \in 1..n
          BY <4>3
        <5> QED BY <2>1, <3>3, <3>5, <4>1, <5>1 DEF Recording
      <4> QED BY <4>2, <4>3
    <3> QED BY <3>3, <3>5 DEF Recording
  <2>4. CASE UNCHANGED df
    BY <2>4 DEF Recording
  <2>5. CASE Next
    <3>1. CASE \E pnl \in Pnls, notional \in Notionals, gap \in Gaps : AppendRow(TRUE, pnl, notional, gap)
      <4>1. PICK pnl \in Pnls, notional \in Notionals, gap \in Gaps : AppendRow(TRUE, pnl, notional, gap)
        BY <3>1
      <4>2. pnl \in Finite /\ notional \in Amounts /\ gap \in Nat
        BY RowAssumption
      <4> QED BY <2>3, <4>1, <4>2
    <3>2. CASE AppendRow(FALSE, Zero, One, 1)
      <4>1. FALSE \in BOOLEAN /\ Zero \in Finite /\ One \in Amounts /\ 1 \in Nat
        <5>1. Reduced(0, 1) \in Finite
          <6>1. 0 \in Int /\ 1 \in Positive
            BY ZeroIs
          <6> QED BY <6>1, ReducedIsFinite
        <5> QED BY <5>1, ZeroIs
      <4> HIDE DEF Recording
      <4> QED BY <2>3, <3>2, <4>1
    <3> QED BY <2>5, <3>1, <3>2 DEF Next
  <2> QED BY <2>4, <2>5
<1> QED BY <1>1, <1>2, PTL DEF Spec

-----------------------------------------------------------------------------
(* Runs of opportunities and groups of rows.                               *)

Opportunity(i) == df[i].isArbitrageOpportunity

\* The identifier that with_groups gives to row i.
GroupOf(i) == Cardinality({j \in 1..i : StartsGroup(df, j)})

\* The rows first..last are a run, and all that is in group n.
GroupRows(n, first, last) ==
  /\ first \in 1..Len(df) /\ last \in 1..Len(df) /\ first <= last /\ IsRun(first, last)
  /\ \A i \in 1..Len(df) : Opportunity(i) /\ GroupOf(i) = n <=> i \in first..last

\* The identifiers count the starts.
LEMMA Counting ==
  /\ GroupOf(0) = 0
  /\ \A i \in Nat : GroupOf(i) \in Nat
  /\ \A i \in Nat \ {0} : GroupOf(i) = IF StartsGroup(df, i) THEN GroupOf(i - 1) + 1 ELSE GroupOf(i - 1)
<1> DEFINE Starts(i) == {j \in 1..i : StartsGroup(df, j)}
<1>1. ASSUME NEW i \in Nat PROVE IsFiniteSet(Starts(i)) /\ GroupOf(i) = Cardinality(Starts(i)) /\ GroupOf(i) \in Nat
  <2>1. Starts(i) \in SUBSET (1..i) /\ IsFiniteSet(1..i)
    BY FS_Interval
  <2>2. IsFiniteSet(Starts(i))
    BY <2>1, FS_Subset
  <2> QED BY <2>2, FS_CardinalityType DEF GroupOf
<1>2. GroupOf(0) = 0
  <2>1. Starts(0) = {}
    OBVIOUS
  <2> QED BY <1>1, <2>1, FS_EmptySet
<1>3. ASSUME NEW i \in Nat \ {0}
      PROVE  GroupOf(i) = IF StartsGroup(df, i) THEN GroupOf(i - 1) + 1 ELSE GroupOf(i - 1)
  <2>1. i - 1 \in Nat /\ i \in Nat
    OBVIOUS
  <2>2. i \notin Starts(i - 1)
    BY <2>1
  <2>3. CASE StartsGroup(df, i)
    <3>1. Starts(i) = Starts(i - 1) \cup {i}
      BY <2>1, <2>3
    <3> HIDE DEF Starts
    <3>2. Cardinality(Starts(i)) = Cardinality(Starts(i - 1)) + 1
      BY <1>1, <2>1, <2>2, <3>1, FS_AddElement
    <3> QED BY <1>1, <2>1, <2>3, <3>2
  <2>4. CASE ~StartsGroup(df, i)
    <3>1. Starts(i) = Starts(i - 1)
      BY <2>1, <2>4
    <3> HIDE DEF Starts
    <3> QED BY <1>1, <2>1, <2>4, <3>1
  <2> QED BY <2>3, <2>4
<1> QED BY <1>1, <1>2, <1>3

\* The identifiers never fall.
LEMMA CountGrows ==
  ASSUME NEW i \in Nat, NEW j \in Nat, i <= j
  PROVE  GroupOf(i) <= GroupOf(j)
<1> DEFINE Starts(k) == {l \in 1..k : StartsGroup(df, l)}
<1>1. Starts(i) \in SUBSET Starts(j) /\ Starts(j) \in SUBSET (1..j) /\ IsFiniteSet(1..j)
  BY FS_Interval
<1>2. IsFiniteSet(Starts(j))
  BY <1>1, FS_Subset
<1>3. Cardinality(Starts(i)) <= Cardinality(Starts(j))
  BY <1>1, <1>2, FS_Subset
<1> QED BY <1>3 DEF GroupOf

\* Every identifier up to the last is that of a start.
LEMMA StartOfGroup ==
  ASSUME NEW m \in Nat, NEW n \in 1..GroupOf(m)
  PROVE  \E first \in 1..m : StartsGroup(df, first) /\ GroupOf(first) = n
<1> DEFINE T == {i \in Nat : n <= GroupOf(i)}
<1>1. GroupOf(m) \in Nat /\ n \in Nat /\ n >= 1
  BY Counting
<1>2. PICK i \in T : \A j \in T : i <= j
  <2>1. m \in T /\ T \subseteq Nat
    BY <1>1
  <2> HIDE DEF T
  <2> QED BY <2>1, LeastNat
<1>3. i \in Nat /\ n <= GroupOf(i) /\ i <= m
  BY <1>1, <1>2
<1>4. i # 0
  BY <1>1, <1>3, Counting
<1>5. i - 1 \in Nat /\ ~(n <= GroupOf(i - 1)) /\ GroupOf(i - 1) \in Nat
  <2>1. i - 1 \in Nat /\ i - 1 < i
    BY <1>3, <1>4
  <2>2. i - 1 \notin T
    <3> HIDE DEF T
    <3> QED BY <1>2, <1>3, <2>1
  <2> QED BY <2>1, <2>2, Counting
<1>6. GroupOf(i) = IF StartsGroup(df, i) THEN GroupOf(i - 1) + 1 ELSE GroupOf(i - 1)
  BY <1>3, <1>4, Counting
<1>7. StartsGroup(df, i) /\ GroupOf(i) = n
  BY <1>1, <1>3, <1>5, <1>6
<1> QED BY <1>3, <1>4, <1>7

\* Two starts are numbered like their places.
LEMMA StartsDiffer ==
  ASSUME NEW i \in Nat \ {0}, NEW j \in Nat \ {0}, StartsGroup(df, j), i < j
  PROVE  GroupOf(i) < GroupOf(j)
<1>1. i \in Nat /\ j - 1 \in Nat /\ i <= j - 1
  OBVIOUS
<1>2. GroupOf(i) <= GroupOf(j - 1) /\ GroupOf(i) \in Nat /\ GroupOf(j - 1) \in Nat
  BY <1>1, Counting, CountGrows
<1>3. GroupOf(j) = GroupOf(j - 1) + 1
  BY Counting
<1> QED BY <1>2, <1>3

\* A start opens a run, and the run is its group.
LEMMA RunFromStart ==
  ASSUME Recording, NEW first \in 1..Len(df), StartsGroup(df, first)
  PROVE  \E last \in 1..Len(df) : GroupRows(GroupOf(first), first, last)
<1>1. PICK n \in Nat : n = Len(df) /\ first \in 1..n /\ first \in Nat \ {0}
  BY DEF Recording
<1> DEFINE T == {i \in first..n : \A j \in first..i : Opportunity(j)}
<1>2. PICK last \in T : \A i \in T : i <= last
  <2>1. first \in T /\ T \in SUBSET (1..n)
    BY <1>1 DEF StartsGroup, Opportunity
  <2> HIDE DEF T
  <2> QED BY <1>1, <2>1, MaxOfInterval
<1>3. last \in 1..n /\ first <= last /\ \A j \in first..last : Opportunity(j)
  BY <1>1, <1>2
<1>4. last < n => ~Opportunity(last + 1)
  <2> SUFFICES ASSUME last < n, Opportunity(last + 1) PROVE FALSE
    OBVIOUS
  <2>1. \A j \in first..(last + 1) : j \in first..last \/ j = last + 1
    BY <1>1, <1>3
  <2>2. last + 1 \in T
    BY <1>1, <1>3, <2>1
  <2>3. last + 1 <= last
    <3> HIDE DEF T
    <3> QED BY <1>2, <2>2
  <2> QED BY <1>3, <2>3
<1> HIDE DEF T
<1>5. IsRun(first, last)
  <2>1. first > 1 => ~Opportunity(first - 1)
    BY DEF StartsGroup, Previous, Opportunity
  <2> QED BY <1>1, <1>3, <1>4, <2>1 DEF IsRun, Opportunity
<1>6. \A i \in first..last : GroupOf(i) = GroupOf(first)
  <2> DEFINE Bad == {i \in first..last : GroupOf(i) # GroupOf(first)}
  <2> SUFFICES ASSUME Bad # {} PROVE FALSE
    OBVIOUS
  <2>1. PICK k \in Bad : \A i \in Bad : k <= i
    <3>1. Bad \subseteq Nat
      BY <1>1
    <3> HIDE DEF Bad
    <3> QED BY <3>1, LeastNat
  <2>2. k \in first..last /\ GroupOf(k) # GroupOf(first) /\ k # first
    BY <2>1
  <2>3. k - 1 \in first..last /\ k \in Nat \ {0} /\ k > 1
    BY <1>1, <1>3, <2>2
  <2>4. GroupOf(k - 1) = GroupOf(first)
    <3>1. k - 1 \notin Bad
      <4> HIDE DEF Bad
      <4> QED BY <2>1, <2>3
    <3> QED BY <2>3, <3>1
  <2>5. ~StartsGroup(df, k)
    BY <1>3, <2>3 DEF StartsGroup, Previous, Opportunity
  <2> QED BY <2>2, <2>3, <2>4, <2>5, Counting
<1>7. ASSUME NEW i \in 1..n, Opportunity(i), GroupOf(i) = GroupOf(first) PROVE i \in first..last
  <2>1. ~(i < first)
    <3>1. i < first => GroupOf(i) < GroupOf(first)
      BY <1>1, StartsDiffer
    <3> QED BY <1>1, <1>7, <3>1, Counting
  <2>2. ASSUME i > last PROVE FALSE
    <3> DEFINE Later == {j \in (last + 1)..n : Opportunity(j)}
    <3>1. last \in Nat /\ last < n /\ i \in Later
      BY <1>3, <1>7, <2>2
    <3>2. PICK j \in Later : \A k \in Later : j <= k
      <4>1. Later \subseteq Nat
        BY <1>3
      <4> HIDE DEF Later
      <4> QED BY <3>1, <4>1, LeastNat
    <3>3. j \in (last + 1)..n /\ Opportunity(j) /\ j <= i
      BY <3>1, <3>2
    <3>4. j # last + 1
      BY <1>4, <3>1, <3>3
    <3>5. j - 1 \in (last + 1)..n /\ j - 1 < j
      BY <3>1, <3>3, <3>4
    <3>6. ~Opportunity(j - 1)
      <4>1. j - 1 \notin Later
        <5> HIDE DEF Later
        <5> QED BY <3>1, <3>2, <3>5
      <4> QED BY <3>5, <4>1
    <3>7. StartsGroup(df, j)
      BY <3>3, <3>6 DEF StartsGroup, Previous, Opportunity
    <3>8. j \in Nat \ {0} /\ first < j /\ j \in Nat /\ i \in Nat
      BY <1>1, <1>3, <3>1, <3>3
    <3>9. GroupOf(first) < GroupOf(j) /\ GroupOf(j) <= GroupOf(i)
      BY <1>1, <3>3, <3>7, <3>8, StartsDiffer, CountGrows
    <3>10. GroupOf(first) \in Nat /\ GroupOf(j) \in Nat
      BY <1>1, <3>8, Counting
    <3> QED BY <1>7, <3>9, <3>10
  <2> QED BY <1>1, <1>3, <2>1, <2>2
<1>8. GroupRows(GroupOf(first), first, last)
  <2>1. ASSUME NEW i \in 1..n PROVE Opportunity(i) /\ GroupOf(i) = GroupOf(first) <=> i \in first..last
    BY <1>3, <1>6, <1>7
  <2> QED BY <1>1, <1>3, <1>5, <2>1 DEF GroupRows
<1> QED BY <1>1, <1>3, <1>8

\* A run opens with a start and is its group.
LEMMA RunIsGroup ==
  ASSUME Recording, NEW first \in 1..Len(df), NEW last \in 1..Len(df), first <= last, IsRun(first, last)
  PROVE  StartsGroup(df, first) /\ GroupRows(GroupOf(first), first, last)
<1>1. PICK n \in Nat : n = Len(df)
  BY DEF Recording
<1>2. StartsGroup(df, first)
  BY <1>1 DEF IsRun, StartsGroup, Previous
<1>3. PICK end \in 1..n : GroupRows(GroupOf(first), first, end)
  BY <1>1, <1>2, RunFromStart
<1>4. first <= end /\ IsRun(first, end)
  BY <1>3 DEF GroupRows
<1>5. ~(last < end) /\ ~(end < last)
  <2>1. ASSUME NEW a \in 1..n, NEW b \in 1..n, first <= a, IsRun(first, a), IsRun(first, b) PROVE ~(a < b)
    <3> SUFFICES ASSUME a < b PROVE FALSE
      OBVIOUS
    <3>1. a < Len(df) /\ a + 1 \in first..b
      BY <1>1, <2>1
    <3> QED BY <2>1, <3>1 DEF IsRun
  <2> QED BY <1>1, <1>3, <1>4, <2>1
<1>6. last = end
  BY <1>1, <1>3, <1>5
<1> QED BY <1>2, <1>3, <1>6

\* The last identifier counts the groups.
Groups == GroupOf(Len(df))

\* Every identifier up to the last has rows.
LEMMA GroupHasRows ==
  ASSUME Recording, NEW n \in 1..Groups
  PROVE  \E first, last : GroupRows(n, first, last)
<1>1. Len(df) \in Nat
  BY DEF Recording
<1>2. PICK first \in 1..Len(df) : StartsGroup(df, first) /\ GroupOf(first) = n
  BY <1>1, StartOfGroup DEF Groups
<1>3. PICK last \in 1..Len(df) : GroupRows(n, first, last)
  BY <1>2, RunFromStart
<1> QED BY <1>3

\* Every row of an opportunity is in a group.
LEMMA InGroup ==
  ASSUME Recording, NEW i \in 1..Len(df), Opportunity(i)
  PROVE  GroupOf(i) \in 1..Groups
<1>1. PICK n \in Nat : n = Len(df) /\ Groups \in Nat
  BY Counting DEF Recording, Groups
<1>2. i \in Nat /\ GroupOf(i) \in Nat /\ GroupOf(i) <= Groups
  BY <1>1, Counting, CountGrows DEF Groups
<1> DEFINE T == {j \in 1..n : Opportunity(j)}
<1>3. PICK j \in T : \A k \in T : j <= k
  <2>1. i \in T /\ T \subseteq Nat
    BY <1>1
  <2> HIDE DEF T
  <2> QED BY <2>1, LeastNat
<1>4. j \in 1..n /\ Opportunity(j) /\ j <= i
  BY <1>1, <1>3
<1>5. StartsGroup(df, j)
  <2>1. ASSUME j > 1 PROVE ~Opportunity(j - 1)
    <3>1. j - 1 \in 1..n /\ ~(j <= j - 1)
      BY <1>4, <2>1
    <3>2. j - 1 \notin T
      <4> HIDE DEF T
      <4> QED BY <1>3, <3>1
    <3> QED BY <3>1, <3>2
  <2> QED BY <1>4, <2>1 DEF StartsGroup, Previous, Opportunity
<1>6. j \in Nat \ {0} /\ j \in Nat /\ GroupOf(j) >= 1 /\ GroupOf(j) <= GroupOf(i) /\ GroupOf(j) \in Nat
  <2>1. j \in Nat \ {0} /\ j \in Nat /\ j - 1 \in Nat
    BY <1>4
  <2>2. GroupOf(j) = GroupOf(j - 1) + 1 /\ GroupOf(j - 1) \in Nat
    BY <1>5, <2>1, Counting
  <2> QED BY <1>2, <1>4, <2>1, <2>2, CountGrows
<1> QED BY <1>1, <1>2, <1>6

-----------------------------------------------------------------------------
(* The groups are the runs.                                                *)

\* The rows of a group are a run.
LEMMA GroupIsRun ==
  ASSUME NEW n, NEW first, NEW last, GroupRows(n, first, last)
  PROVE  <<first, last>> \in Runs /\ GroupOf(first) = n
<1>1. first \in 1..Len(df) /\ last \in 1..Len(df) /\ first <= last /\ IsRun(first, last)
  BY DEF GroupRows
<1>2. first \in first..last
  BY <1>1
<1> QED BY <1>1, <1>2 DEF GroupRows, Runs

\* A run begins with a start and is the rows of its group.
LEMMA RunFacts ==
  ASSUME Recording, NEW run \in Runs
  PROVE  /\ run = <<run[1], run[2]>> /\ run[1] \in Nat \ {0} /\ run[1] \in 1..Len(df)
         /\ StartsGroup(df, run[1]) /\ GroupRows(GroupOf(run[1]), run[1], run[2])
         /\ GroupOf(run[1]) \in 1..Groups
<1>1. /\ run = <<run[1], run[2]>> /\ run[1] \in 1..Len(df) /\ run[2] \in 1..Len(df) /\ run[1] <= run[2]
      /\ IsRun(run[1], run[2])
  BY DEF Runs
<1>2. run[1] \in Nat \ {0}
  BY <1>1 DEF Recording
<1>3. StartsGroup(df, run[1]) /\ GroupRows(GroupOf(run[1]), run[1], run[2])
  BY <1>1, RunIsGroup
<1>4. Opportunity(run[1])
  BY <1>3 DEF StartsGroup, Opportunity
<1> QED BY <1>1, <1>2, <1>3, <1>4, InGroup

\* Runs come in the order of their groups, one to a group.
LEMMA RunsDiffer ==
  ASSUME Recording, NEW run \in Runs, NEW other \in Runs
  PROVE  /\ run[1] < other[1] <=> GroupOf(run[1]) < GroupOf(other[1])
         /\ GroupOf(run[1]) = GroupOf(other[1]) => run = other
<1>1. PICK a \in Nat \ {0}, b \in Nat \ {0} : a = run[1] /\ b = other[1]
  BY RunFacts
<1>2. StartsGroup(df, a) /\ StartsGroup(df, b) /\ GroupOf(a) \in Nat /\ GroupOf(b) \in Nat
  BY <1>1, RunFacts, Counting
<1>3. (a < b => GroupOf(a) < GroupOf(b)) /\ (b < a => GroupOf(b) < GroupOf(a))
  BY <1>2, StartsDiffer
<1>4. a < b <=> GroupOf(a) < GroupOf(b)
  BY <1>2, <1>3
<1>5. ASSUME GroupOf(a) = GroupOf(b) PROVE run = other
  <2>1. a = b
    BY <1>2, <1>3, <1>5
  <2>2. PICK c \in 1..Len(df), d \in 1..Len(df) : c = run[2] /\ d = other[2]
    BY DEF Runs
  <2>3. GroupRows(GroupOf(a), a, c) /\ GroupRows(GroupOf(a), a, d)
    BY <1>1, <2>1, <2>2, RunFacts
  <2>4. a <= c /\ a <= d /\ \A i \in 1..Len(df) : i \in a..c <=> i \in a..d
    BY <2>3 DEF GroupRows
  <2>5. c = d
    BY <2>2, <2>4
  <2> QED BY <1>1, <2>1, <2>2, <2>5, RunFacts
<1> QED BY <1>1, <1>4, <1>5

\* The runs whose groups come first are as many as these groups.
LEMMA FirstRuns ==
  ASSUME Recording, NEW k \in 0..Groups, NEW R, R \subseteq Runs,
         \A run \in Runs : run \in R <=> GroupOf(run[1]) <= k
  PROVE  Cardinality(R) = k
<1> DEFINE number == [run \in R |-> GroupOf(run[1])]
<1>1. Groups \in Nat /\ k \in Nat
  BY Counting DEF Recording, Groups
<1>2. ASSUME NEW run \in R PROVE number[run] \in 1..k
  <2>1. GroupOf(run[1]) \in 1..Groups /\ GroupOf(run[1]) <= k
    BY RunFacts
  <2> QED BY <1>1, <2>1
<1>3. number \in [R -> 1..k]
  BY <1>2
<1>4. ASSUME NEW run \in R, NEW other \in R, number[run] = number[other] PROVE run = other
  BY <1>4, RunsDiffer
<1>5. number \in Injection(R, 1..k)
  <2> HIDE DEF number
  <2> QED BY <1>3, <1>4 DEF Injection, IsInjective
<1>6. ASSUME NEW n \in 1..k PROVE \E run \in R : number[run] = n
  <2>1. n \in 1..Groups
    BY <1>1
  <2>2. PICK first, last : GroupRows(n, first, last)
    BY <2>1, GroupHasRows
  <2>3. <<first, last>> \in Runs /\ GroupOf(<<first, last>>[1]) = n
    BY <2>2, GroupIsRun
  <2>4. <<first, last>> \in R
    BY <2>3
  <2> QED BY <2>3, <2>4
<1>7. number \in Surjection(R, 1..k)
  <2> HIDE DEF number
  <2> QED BY <1>3, <1>6 DEF Surjection
<1>8. IsFiniteSet(1..k) /\ Cardinality(1..k) = k
  BY <1>1, FS_Interval
<1> HIDE DEF number
<1> QED BY <1>5, <1>7, <1>8, FS_Injection

\* There are as many runs as groups, and earlier runs as smaller identifiers.
LEMMA RunsAreCounted ==
  ASSUME Recording
  PROVE  /\ Cardinality(Runs) = Groups
         /\ \A run \in Runs : Cardinality({other \in Runs : other[1] < run[1]}) = GroupOf(run[1]) - 1
<1>1. Groups \in Nat
  BY Counting DEF Recording, Groups
<1>2. Cardinality(Runs) = Groups
  <2>1. Groups \in 0..Groups /\ \A run \in Runs : GroupOf(run[1]) <= Groups
    BY <1>1, RunFacts
  <2> QED BY <2>1, FirstRuns
<1>3. ASSUME NEW run \in Runs PROVE Cardinality({other \in Runs : other[1] < run[1]}) = GroupOf(run[1]) - 1
  <2>1. PICK k : k = GroupOf(run[1]) - 1
    OBVIOUS
  <2>2. GroupOf(run[1]) \in 1..Groups
    BY RunFacts
  <2>3. k \in 0..Groups
    BY <1>1, <2>1, <2>2
  <2>4. ASSUME NEW other \in Runs PROVE other[1] < run[1] <=> GroupOf(other[1]) <= k
    <3>1. GroupOf(other[1]) \in 1..Groups
      BY RunFacts
    <3>2. other[1] < run[1] <=> GroupOf(other[1]) < GroupOf(run[1])
      BY RunsDiffer
    <3> QED BY <1>1, <2>1, <2>2, <3>1, <3>2
  <2>5. PICK R : R = {other \in Runs : other[1] < run[1]}
    OBVIOUS
  <2>6. R \subseteq Runs /\ \A other \in Runs : other \in R <=> GroupOf(other[1]) <= k
    BY <2>4, <2>5
  <2>7. Cardinality(R) = k
    BY <2>3, <2>6, FirstRuns
  <2> QED BY <2>1, <2>5, <2>7
<1> QED BY <1>2, <1>3

\* The n-th run is the group with the identifier n + 1.
LEMMA NthRunIs ==
  ASSUME Recording, NEW n \in Nat
  PROVE  /\ n >= Groups => NthRun(n) = <<>>
         /\ \A first, last : GroupRows(n + 1, first, last) => NthRun(n) = SubSeq(df, first, last)
<1> DEFINE nth == {run \in Runs : Cardinality({other \in Runs : other[1] < run[1]}) = n}
<1>1. Groups \in Nat
  BY Counting DEF Recording, Groups
<1>2. ASSUME NEW run \in Runs PROVE run \in nth <=> GroupOf(run[1]) = n + 1
  <2>1. GroupOf(run[1]) \in 1..Groups /\ Cardinality({other \in Runs : other[1] < run[1]}) = GroupOf(run[1]) - 1
    BY RunFacts, RunsAreCounted
  <2> QED BY <1>1, <2>1
<1>3. NthRun(n) = IF nth = {} THEN <<>>
                  ELSE SubSeq(df, (CHOOSE run \in nth : TRUE)[1], (CHOOSE run \in nth : TRUE)[2])
  BY DEF NthRun
<1>4. nth \subseteq Runs
  OBVIOUS
<1> HIDE DEF nth
<1>5. ASSUME n >= Groups PROVE NthRun(n) = <<>>
  <2>1. ASSUME NEW run \in nth PROVE FALSE
    <3>1. GroupOf(run[1]) \in 1..Groups /\ GroupOf(run[1]) = n + 1
      BY <1>2, <1>4, <2>1, RunFacts
    <3> QED BY <1>1, <1>5, <3>1
  <2>2. nth = {}
    BY <2>1
  <2> QED BY <1>3, <2>2
<1>6. ASSUME NEW first, NEW last, GroupRows(n + 1, first, last)
      PROVE  NthRun(n) = SubSeq(df, first, last)
  <2>1. <<first, last>> \in Runs /\ GroupOf(first) = n + 1
    BY <1>6, GroupIsRun
  <2>2. <<first, last>> \in nth
    BY <1>2, <2>1
  <2>3. PICK run : run = CHOOSE x \in nth : TRUE
    OBVIOUS
  <2>4. run \in nth
    BY <2>2, <2>3
  <2>5. run = <<first, last>>
    <3>1. run \in Runs /\ GroupOf(run[1]) = GroupOf(<<first, last>>[1])
      BY <1>2, <1>4, <2>1, <2>4
    <3> QED BY <2>1, <3>1, RunsDiffer
  <2>6. NthRun(n) = SubSeq(df, run[1], run[2])
    BY <1>3, <2>2, <2>3
  <2>7. run[1] = first /\ run[2] = last
    BY <2>5
  <2> QED BY <2>6, <2>7
<1> QED BY <1>5, <1>6

-----------------------------------------------------------------------------
(* What the scripts take for the groups.                                   *)

Grouped == get_grouped_opportunity_path_df(df)

\* Row i as with_groups leaves it.
IsGroupedRow(row, i) ==
  /\ DOMAIN row = DOMAIN df[i] \cup {"group_id"}
  /\ row.group_id = GroupOf(i)
  /\ \A c \in DOMAIN df[i] : row[c] = df[i][c]

\* with_groups adds the identifier to a row and changes nothing else.
LEMMA WithGroups ==
  ASSUME Recording
  PROVE  /\ with_groups(df) \in [1..Len(df) -> {with_groups(df)[i] : i \in 1..Len(df)}]
         /\ \A i \in 1..Len(df) :
              /\ IsGroupedRow(with_groups(df)[i], i)
              /\ with_groups(df)[i].isArbitrageOpportunity = Opportunity(i)
<1>1. DOMAIN df = 1..Len(df) /\ \A i \in 1..Len(df) : df[i] \in Row
  BY DEF Recording
<1>2. ASSUME NEW i \in 1..Len(df)
      PROVE  /\ IsGroupedRow(with_groups(df)[i], i)
             /\ with_groups(df)[i].isArbitrageOpportunity = Opportunity(i)
  <2>1. with_groups(df)[i] = [c \in DOMAIN df[i] \cup {"group_id"} |->
                                IF c = "group_id" THEN GroupOf(i) ELSE df[i][c]]
    BY <1>1 DEF with_groups, GroupOf
  <2>2. "group_id" \notin DOMAIN df[i] /\ "isArbitrageOpportunity" \in DOMAIN df[i]
    <3>1. df[i] \in Row
      BY <1>1
    <3>2. DOMAIN df[i] = {"isArbitrageOpportunity", "unrealisedPnl", "tradedNotional", "tickReceiveTime"}
      BY <3>1 DEF Row
    <3> QED BY <3>2
  <2> QED BY <2>1, <2>2 DEF IsGroupedRow, Opportunity
<1>3. with_groups(df) \in [1..Len(df) -> {with_groups(df)[i] : i \in 1..Len(df)}]
  BY <1>1 DEF with_groups
<1> QED BY <1>2, <1>3

Opportunities == {i \in 1..Len(df) : Opportunity(i)}

\* What the filter keeps: the opportunities in order, with their identifiers.
LEMMA GroupedRows ==
  ASSUME Recording
  PROVE  \E n, at : Lists(at, n, Opportunities) /\ Grouped = Through(with_groups(df), at, n)
<1>1. DOMAIN with_groups(df) = 1..Len(df)
  BY WithGroups
<1>2. Grouped = Selected(with_groups(df), Opportunities)
  <2>1. Opportunities = {i \in DOMAIN with_groups(df) : with_groups(df)[i].isArbitrageOpportunity}
    BY <1>1, WithGroups DEF Opportunities
  <2> QED BY <2>1 DEF Grouped, get_grouped_opportunity_path_df, opportunities
<1>3. Opportunities \subseteq Nat /\ IsFiniteSet(Opportunities)
  <2>1. Len(df) \in Nat /\ Opportunities \in SUBSET (1..Len(df))
    BY DEF Recording, Opportunities
  <2>2. IsFiniteSet(1..Len(df))
    BY <2>1, FS_Interval
  <2>3. IsFiniteSet(Opportunities)
    BY <2>1, <2>2, FS_Subset
  <2>4. \A i \in 1..Len(df) : i \in Nat
    BY <2>1
  <2> QED BY <2>1, <2>3, <2>4
<1>4. PICK n, at : Lists(at, n, Opportunities)
  BY <1>3, AscendingLists
<1> QED BY <1>2, <1>3, <1>4, SelectedIs

\* The identifiers in use are the numbers from one to the last.
LEMMA IdsAreNumbers ==
  ASSUME Recording
  PROVE  GroupIds(Grouped) = [k \in 1..Groups |-> k]
<1>1. PICK n, at : Lists(at, n, Opportunities) /\ Grouped = Through(with_groups(df), at, n)
  BY GroupedRows
<1>2. /\ DOMAIN Grouped = 1..n /\ at \in [1..n -> Opportunities]
      /\ \A k \in 1..n : Grouped[k] = with_groups(df)[at[k]]
  BY <1>1 DEF Lists, Through
<1>3. \A k \in 1..n : Grouped[k].group_id = GroupOf(at[k])
  <2>1. \A k \in 1..n : at[k] \in 1..Len(df)
    BY <1>2 DEF Opportunities
  <2> QED BY <1>2, <2>1, WithGroups DEF IsGroupedRow
<1> DEFINE ids == {Grouped[k].group_id : k \in DOMAIN Grouped}
<1>4. ids = 1..Groups
  <2>1. ASSUME NEW k \in 1..n PROVE Grouped[k].group_id \in 1..Groups
    <3>1. at[k] \in 1..Len(df) /\ Opportunity(at[k])
      BY <1>2 DEF Opportunities
    <3> QED BY <1>3, <3>1, InGroup
  <2>2. ASSUME NEW id \in 1..Groups PROVE \E k \in 1..n : Grouped[k].group_id = id
    <3>1. PICK first, last : GroupRows(id, first, last)
      BY GroupHasRows
    <3>2. first \in 1..Len(df) /\ first \in first..last
      BY <3>1 DEF GroupRows
    <3>3. first \in Opportunities /\ GroupOf(first) = id
      BY <3>1, <3>2 DEF GroupRows, Opportunities
    <3>4. PICK k \in 1..n : at[k] = first
      BY <1>1, <3>3 DEF Lists
    <3> QED BY <1>3, <3>3, <3>4
  <2> QED BY <1>2, <2>1, <2>2
<1>5. Lists([k \in 1..Groups |-> k], Groups, 1..Groups)
  <2>1. Groups \in Nat
    BY Counting DEF Recording, Groups
  <2> QED BY <2>1 DEF Lists
<1>6. Ascending(1..Groups) = [k \in 1..Groups |-> k]
  <2>1. PICK g : g = [k \in 1..Groups |-> k]
    OBVIOUS
  <2>2. 1..Groups \subseteq Nat
    OBVIOUS
  <2> QED BY <1>5, <2>1, <2>2, OneList
<1> QED BY <1>4, <1>6 DEF GroupIds

\* The rows of a group are those of its run.
LEMMA RowsOfGroup ==
  ASSUME Recording, NEW id, NEW first, NEW last, GroupRows(id, first, last)
  PROVE  /\ OfGroup(Grouped, id) = [k \in 1..(last + 1 - first) |-> with_groups(df)[k + first - 1]]
         /\ \A k \in 1..(last + 1 - first) : k + first - 1 \in 1..Len(df)
<1>1. PICK n, at : Lists(at, n, Opportunities) /\ Grouped = Through(with_groups(df), at, n)
  BY GroupedRows
<1>2. /\ DOMAIN Grouped = 1..n /\ at \in [1..n -> Opportunities] /\ Opportunities \subseteq Nat
      /\ \A k \in 1..n : Grouped[k] = with_groups(df)[at[k]]
  BY <1>1 DEF Lists, Through, Opportunities, Recording
<1>3. \A k \in 1..n : at[k] \in 1..Len(df) /\ Opportunity(at[k]) /\ Grouped[k].group_id = GroupOf(at[k])
  <2>1. \A k \in 1..n : at[k] \in 1..Len(df) /\ Opportunity(at[k])
    BY <1>2 DEF Opportunities
  <2> QED BY <1>2, <2>1, WithGroups DEF IsGroupedRow
<1>4. first \in Nat /\ last \in Nat /\ first <= last + 1 /\ first..last \subseteq 1..Len(df)
  BY DEF GroupRows, Recording
<1>5. first..last \subseteq Opportunities
  BY <1>4 DEF GroupRows, Opportunities
<1>6. {k \in DOMAIN Grouped : Grouped[k].group_id = id} = {k \in 1..n : at[k] \in first..last}
  <2>1. \A k \in 1..n : GroupOf(at[k]) = id <=> at[k] \in first..last
    BY <1>3 DEF GroupRows
  <2> QED BY <1>2, <1>3, <2>1
<1>7. Grouped = Selected(with_groups(df), Opportunities)
  BY <1>1, <1>2, SelectedIs
<1>8. OfGroup(Grouped, id) = Selected(with_groups(df), first..last)
  <2>1. PICK K : K = {k \in 1..n : at[k] \in first..last}
    OBVIOUS
  <2>2. PICK wg, J : wg = with_groups(df) /\ J = first..last
    OBVIOUS
  <2>3. Selected(Selected(wg, Opportunities), K) = Selected(wg, J)
    <3>1. J \subseteq Opportunities /\ Opportunities \subseteq Nat /\ Lists(at, n, Opportunities)
      BY <1>1, <1>2, <1>5, <2>2
    <3>2. K = Places(at, n, J)
      BY <2>1, <2>2 DEF Places
    <3>3. Selected(Selected(wg, Opportunities), Places(at, n, J)) = Selected(wg, J)
      <4>1. PartLists(at, n, Opportunities, J)
        BY <3>1 DEF PartLists
      <4> QED BY <4>1, SelectedTwice
    <3> QED BY <3>2, <3>3
  <2> QED BY <1>6, <1>7, <2>1, <2>2, <2>3 DEF OfGroup
<1>9. Selected(with_groups(df), first..last) = [k \in 1..(last + 1 - first) |-> with_groups(df)[k + first - 1]]
  <2>1. PICK wg : wg = with_groups(df)
    OBVIOUS
  <2>2. Selected(wg, first..last) = Part(wg, first, last)
    BY <1>4, SelectedInterval
  <2> QED BY <2>1, <2>2 DEF Part
<1>10. \A k \in 1..(last + 1 - first) : k + first - 1 \in 1..Len(df)
  BY <1>4
<1> QED BY <1>8, <1>9, <1>10

\* A row with its identifier taken away is the row of the file.
LEMMA RowWithoutId ==
  ASSUME Recording, NEW i \in 1..Len(df), NEW row, IsGroupedRow(row, i)
  PROVE  [c \in DOMAIN row \ {"group_id"} |-> row[c]] = df[i]
<1>1. df[i] \in Row
  BY DEF Recording
<1>2. "group_id" \notin DOMAIN df[i] /\ df[i] = [c \in DOMAIN df[i] |-> df[i][c]]
  <2>1. df[i] = [isArbitrageOpportunity |-> df[i].isArbitrageOpportunity,
                 unrealisedPnl |-> df[i].unrealisedPnl, tradedNotional |-> df[i].tradedNotional,
                 tickReceiveTime |-> df[i].tickReceiveTime]
    BY <1>1 DEF Row
  <2>2. DOMAIN df[i] = {"isArbitrageOpportunity", "unrealisedPnl", "tradedNotional", "tickReceiveTime"}
    BY <1>1 DEF Row
  <2>3. df[i] = [c \in DOMAIN df[i] |-> df[i][c]]
    BY <2>1
  <2> QED BY <2>2, <2>3
<1>3. DOMAIN row \ {"group_id"} = DOMAIN df[i]
  BY <1>2 DEF IsGroupedRow
<1>4. \A c \in DOMAIN df[i] : row[c] = df[i][c]
  BY DEF IsGroupedRow
<1> QED BY <1>2, <1>3, <1>4

\* What the script returns for n is the n-th run.
LEMMA NthGroupIsRun ==
  ASSUME Recording, NEW n \in Nat
  PROVE  WithoutId(get_nth_opportunity_path_df(df, n)) = NthRun(n)
<1>1. Groups \in Nat
  BY Counting DEF Recording, Groups
<1>2. PICK ids : ids = GroupIds(Grouped) /\ ids = [k \in 1..Groups |-> k]
  BY IdsAreNumbers
<1>3. Len(ids) = Groups
  BY <1>1, <1>2
<1>4. get_nth_opportunity_path_df(df, n) = IF n >= Len(ids) THEN <<>> ELSE OfGroup(Grouped, ids[n + 1])
  BY <1>2 DEF get_nth_opportunity_path_df, Grouped
<1>5. CASE n >= Groups
  <2>1. get_nth_opportunity_path_df(df, n) = <<>> /\ NthRun(n) = <<>>
    BY <1>3, <1>4, <1>5, NthRunIs
  <2>2. WithoutId(<<>>) = <<>>
    BY DEF WithoutId
  <2> QED BY <2>1, <2>2
<1>6. CASE n < Groups
  <2>1. n + 1 \in 1..Groups
    BY <1>1, <1>6
  <2>2. PICK first, last : GroupRows(n + 1, first, last)
    BY <2>1, GroupHasRows
  <2>3. ids[n + 1] = n + 1
    BY <1>2, <2>1
  <2>4. PICK rows : rows = OfGroup(Grouped, n + 1)
    OBVIOUS
  <2>5. get_nth_opportunity_path_df(df, n) = rows
    BY <1>1, <1>3, <1>4, <1>6, <2>3, <2>4
  <2>6. /\ rows = [k \in 1..(last + 1 - first) |-> with_groups(df)[k + first - 1]]
        /\ \A k \in 1..(last + 1 - first) : k + first - 1 \in 1..Len(df)
    BY <2>2, <2>4, RowsOfGroup
  <2>7. ASSUME NEW k \in 1..(last + 1 - first)
        PROVE  [c \in DOMAIN rows[k] \ {"group_id"} |-> rows[k][c]] = df[k + first - 1]
    <3>1. PICK i \in 1..Len(df) : i = k + first - 1
      BY <2>6
    <3>2. IsGroupedRow(rows[k], i)
      BY <2>6, <3>1, WithGroups
    <3> QED BY <3>1, <3>2, RowWithoutId
  <2>8. WithoutId(rows) = [k \in 1..(last + 1 - first) |-> df[k + first - 1]]
    BY <2>6, <2>7 DEF WithoutId
  <2>9. NthRun(n) = SubSeq(df, first, last)
    BY <2>2, NthRunIs
  <2>10. SubSeq(df, first, last) = [k \in 1..(last + 1 - first) |-> df[k + first - 1]]
    <3>1. first \in Int /\ last \in Int
      BY <2>2 DEF GroupRows
    <3>2. SubSeq(df, first, last) = [k \in 1..(1 + last - first) |-> df[k + first - 1]]
      BY <3>1
    <3>3. 1 + last - first = last + 1 - first
      BY <3>1
    <3> QED BY <3>2, <3>3
  <2> QED BY <2>5, <2>8, <2>9, <2>10
<1> QED BY <1>1, <1>5, <1>6

\* The groups of the scripts are the runs of the file.
THEOREM GroupsMatchRuns == Spec => []GroupsAreRuns
<1>1. Recording => GroupsAreRuns
  <2> SUFFICES ASSUME Recording, NEW n \in 0..Len(df)
               PROVE  WithoutId(get_nth_opportunity_path_df(df, n)) = NthRun(n)
    BY DEF GroupsAreRuns
  <2>1. n \in Nat
    BY DEF Recording
  <2> QED BY <2>1, NthGroupIsRun
<1> QED BY <1>1, RecordingHolds, PTL

-----------------------------------------------------------------------------
(* Bins.                                                                   *)

\* Breaks in order.
AreBreaks(bins) ==
  /\ bins \in Seq(Finite)
  /\ \A i, j \in 1..Len(bins) : i <= j => AtMost(bins[i], bins[j])

\* The bin of a value is the first whose break the value does not exceed.
LEMMA CutIs ==
  ASSUME NEW bins, AreBreaks(bins), NEW v \in Finite
  PROVE  /\ cut(v, bins) \in 1..(Len(bins) + 1)
         /\ \A b \in 1..Len(bins) : cut(v, bins) <= b <=> AtMost(v, bins[b])
<1>1. PICK n \in Nat : n = Len(bins) /\ DOMAIN bins = 1..n /\ \A i \in 1..n : bins[i] \in Finite
  BY DEF AreBreaks
<1> DEFINE L == {i \in 1..n : Less(bins[i], v)}
<1>2. cut(v, bins) = 1 + Cardinality(L)
  BY <1>1 DEF cut
<1>3. IsFiniteSet(1..n) /\ Cardinality(1..n) = n /\ L \in SUBSET (1..n)
  <2>1. IsFiniteSet(1..n) /\ Cardinality(1..n) = n
    BY FS_Interval
  <2> QED BY <2>1
<1>4. IsFiniteSet(L) /\ Cardinality(L) \in Nat /\ Cardinality(L) <= n
  <2> HIDE DEF L
  <2>1. IsFiniteSet(L) /\ Cardinality(L) <= n
    BY <1>3, FS_Subset
  <2> QED BY <2>1, FS_CardinalityType
<1>5. ASSUME NEW b \in 1..n PROVE cut(v, bins) <= b <=> AtMost(v, bins[b])
  <2>1. AtMost(v, bins[b]) <=> ~Less(bins[b], v)
    BY <1>1, OrderIsTotal
  <2>2. ASSUME Less(bins[b], v) PROVE Cardinality(L) >= b
    <3>1. ASSUME NEW i \in 1..b PROVE i \in L
      <4>1. i \in 1..n /\ i <= b
        BY <1>1
      <4>2. AtMost(bins[i], bins[b])
        BY <1>1, <4>1 DEF AreBreaks
      <4>3. Less(bins[i], v)
        BY <1>1, <2>2, <4>1, <4>2, LessTransitive
      <4> QED BY <4>1, <4>3
    <3>2. 1..b \in SUBSET L /\ Cardinality(1..b) = b
      <4>1. Cardinality(1..b) = b
        BY <1>1, FS_Interval
      <4> QED BY <3>1, <4>1
    <3> HIDE DEF L
    <3>3. Cardinality(1..b) <= Cardinality(L)
      BY <1>4, <3>2, FS_Subset
    <3> QED BY <1>4, <3>2, <3>3
  <2>3. ASSUME ~Less(bins[b], v) PROVE Cardinality(L) <= b - 1
    <3>1. ASSUME NEW i \in L PROVE i \in 1..(b - 1)
      <4>1. i \in 1..n /\ Less(bins[i], v)
        OBVIOUS
      <4>2. ~(b <= i)
        <5> SUFFICES ASSUME b <= i PROVE FALSE
          OBVIOUS
        <5>1. AtMost(bins[b], bins[i])
          BY <1>1, <4>1 DEF AreBreaks
        <5> QED BY <1>1, <2>3, <4>1, <5>1, LessTransitive
      <4> QED BY <1>1, <4>1, <4>2
    <3>2. L \in SUBSET (1..(b - 1)) /\ IsFiniteSet(1..(b - 1)) /\ Cardinality(1..(b - 1)) = b - 1
      <4>1. IsFiniteSet(1..(b - 1)) /\ Cardinality(1..(b - 1)) = b - 1
        <5>1. PICK d \in Nat : d = b - 1
          BY <1>1
        <5>2. IsFiniteSet(1..d) /\ Cardinality(1..d) = d
          BY FS_Interval
        <5> QED BY <5>1, <5>2
      <4> HIDE DEF L
      <4> QED BY <3>1, <4>1
    <3> HIDE DEF L
    <3>3. Cardinality(L) <= Cardinality(1..(b - 1))
      BY <3>2, FS_Subset
    <3> QED BY <3>2, <3>3
  <2> HIDE DEF L
  <2> QED BY <1>1, <1>2, <1>4, <2>1, <2>2, <2>3
<1> HIDE DEF L
<1>6. cut(v, bins) \in 1..(n + 1)
  BY <1>1, <1>2, <1>4
<1> QED BY <1>1, <1>5, <1>6

\* The numbers c[1] to c[m]; those of them that are x, and those up to x.
Numbers(c, m)  == {c[i] : i \in 1..m}
Those(c, m, x) == {i \in 1..m : c[i] = x}
UpTo(c, m, x)  == {i \in 1..m : c[i] <= x}

CountsThose(f, c, m, g, k) == \A j \in 1..k : f[j] = Cardinality(Those(c, m, g[j]))

\* T adds up f, which counts how often each of the numbers g[1] to g[k] occurs.
AddsCounts(T, f, c, m, K, g, k) ==
  /\ m \in Nat /\ c \in [1..m -> Nat] /\ k \in 1..K /\ T \in [0..k -> Int]
  /\ Lists(g, K, Numbers(c, m)) /\ IsTotal(T, k, f) /\ CountsThose(f, c, m, g, k)

\* Adding up how often each number occurs counts the numbers so far.
LEMMA CountsAddUp ==
  ASSUME NEW m, NEW c, NEW K, NEW g, NEW k, NEW T, NEW f, AddsCounts(T, f, c, m, K, g, k)
  PROVE  T[k] = Cardinality(UpTo(c, m, g[k]))
<1> /\ m \in Nat /\ c \in [1..m -> Nat] /\ k \in 1..K /\ T \in [0..k -> Int]
    /\ Lists(g, K, Numbers(c, m)) /\ IsTotal(T, k, f) /\ CountsThose(f, c, m, g, k)
  BY DEF AddsCounts
<1>1. K \in Nat /\ k \in Nat /\ g \in [1..K -> {c[i] : i \in 1..m}]
  BY DEF Lists, Numbers
<1>2. \A j \in 1..K : g[j] \in Nat
  <2>1. \A x \in {c[i] : i \in 1..m} : x \in Nat
    OBVIOUS
  <2> QED BY <1>1, <2>1
<1>3. IsFiniteSet(1..m)
  BY FS_Interval
<1>4. ASSUME NEW x PROVE IsFiniteSet(Those(c, m, x)) /\ IsFiniteSet(UpTo(c, m, x))
  <2>1. Those(c, m, x) \in SUBSET (1..m) /\ UpTo(c, m, x) \in SUBSET (1..m)
    BY DEF Those, UpTo
  <2> QED BY <1>3, <2>1, FS_Subset
<1>5. \A j \in 1..K : Cardinality(UpTo(c, m, g[j])) \in Nat /\ Cardinality(Those(c, m, g[j])) \in Nat
  BY <1>4, FS_CardinalityType
<1>6. ASSUME NEW j \in 1..K
      PROVE  IF j = 1 THEN UpTo(c, m, g[j]) = Those(c, m, g[j])
             ELSE /\ UpTo(c, m, g[j]) = UpTo(c, m, g[j - 1]) \cup Those(c, m, g[j])
                  /\ UpTo(c, m, g[j - 1]) \cap Those(c, m, g[j]) = {}
  <2>1. ASSUME NEW i \in 1..m
        PROVE  \E l \in 1..K : g[l] = c[i] /\ (l < j <=> c[i] < g[j]) /\ (l = j <=> c[i] = g[j])
    <3>1. PICK l \in 1..K : g[l] = c[i]
      BY DEF Lists, Numbers
    <3>2. (l < j => g[l] < g[j]) /\ (j < l => g[j] < g[l])
      BY DEF Lists
    <3>3. g[l] \in Nat /\ g[j] \in Nat /\ l \in Int /\ j \in Int
      BY <1>1, <1>2
    <3> QED BY <3>1, <3>2, <3>3
  <2>2. CASE j = 1
    <3>1. ASSUME NEW i \in 1..m PROVE c[i] <= g[j] <=> c[i] = g[j]
      <4>1. PICK l \in 1..K : g[l] = c[i] /\ (l < j <=> c[i] < g[j]) /\ (l = j <=> c[i] = g[j])
        BY <2>1
      <4>2. c[i] \in Nat /\ g[j] \in Nat /\ ~(l < j)
        <5>1. g[j] \in Nat
          BY <1>2
        <5>2. ~(l < j)
          BY <1>1, <2>2
        <5> QED BY <5>1, <5>2
      <4> QED BY <4>1, <4>2
    <3> QED BY <2>2, <3>1 DEF UpTo, Those
  <2>3. CASE j # 1
    <3>1. j - 1 \in 1..K
      BY <1>1, <2>3
    <3>2. ASSUME NEW i \in 1..m
          PROVE  (c[i] <= g[j] <=> c[i] <= g[j - 1] \/ c[i] = g[j]) /\ ~(c[i] <= g[j - 1] /\ c[i] = g[j])
      <4>1. PICK l \in 1..K : g[l] = c[i] /\ (l < j <=> c[i] < g[j]) /\ (l = j <=> c[i] = g[j])
        BY <2>1
      <4>2. c[i] \in Nat /\ g[j] \in Nat /\ g[j - 1] \in Nat /\ g[j - 1] < g[j]
        <5>1. j - 1 < j
          BY <1>1
        <5> QED BY <1>2, <3>1, <5>1 DEF Lists
      <4>3. l < j => g[l] <= g[j - 1]
        <5>1. l < j - 1 => g[l] < g[j - 1]
          BY <3>1 DEF Lists
        <5>2. l < j => l < j - 1 \/ l = j - 1
          BY <1>1
        <5> QED BY <1>2, <3>1, <5>1, <5>2
      <4> QED BY <4>1, <4>2, <4>3
    <3>3. UpTo(c, m, g[j]) = UpTo(c, m, g[j - 1]) \cup Those(c, m, g[j])
      BY <3>2 DEF UpTo, Those
    <3>4. UpTo(c, m, g[j - 1]) \cap Those(c, m, g[j]) = {}
      BY <3>2 DEF UpTo, Those
    <3> QED BY <2>3, <3>3, <3>4
  <2> QED BY <2>2, <2>3
<1> DEFINE Bad == {j \in 1..k : T[j] # Cardinality(UpTo(c, m, g[j]))}
<1>7. ASSUME Bad # {} PROVE FALSE
  <2>1. PICK j \in Bad : \A l \in Bad : j <= l
    <3>1. Bad \subseteq Nat
      BY <1>1
    <3> HIDE DEF Bad
    <3> QED BY <1>7, <3>1, LeastNat
  <2>2. j \in 1..k /\ j \in 1..K /\ T[j] # Cardinality(UpTo(c, m, g[j]))
    BY <1>1, <2>1
  <2>3. T[j] = T[j - 1] + Cardinality(Those(c, m, g[j]))
    BY <2>2 DEF IsTotal, CountsThose
  <2>4. CASE j = 1
    <3>1. T[0] = 0 /\ j - 1 = 0
      BY <2>4 DEF IsTotal
    <3>2. UpTo(c, m, g[j]) = Those(c, m, g[j])
      BY <1>6, <2>2, <2>4
    <3> QED BY <1>5, <2>2, <2>3, <3>1, <3>2
  <2>5. CASE j # 1
    <3>1. j - 1 \in 1..k /\ j - 1 \in 1..K /\ j - 1 < j
      BY <1>1, <2>2, <2>5
    <3>2. T[j - 1] = Cardinality(UpTo(c, m, g[j - 1]))
      <4>1. j - 1 \notin Bad
        <5> HIDE DEF Bad
        <5> QED BY <2>1, <2>2, <3>1
      <4> QED BY <3>1, <4>1
    <3>3. /\ UpTo(c, m, g[j]) = UpTo(c, m, g[j - 1]) \cup Those(c, m, g[j])
          /\ UpTo(c, m, g[j - 1]) \cap Those(c, m, g[j]) = {}
      BY <1>6, <2>2, <2>5
    <3>4. PICK A, B : A = UpTo(c, m, g[j - 1]) /\ B = Those(c, m, g[j])
      OBVIOUS
    <3>5. IsFiniteSet(A) /\ IsFiniteSet(B) /\ A \cap B = {}
      BY <1>4, <3>3, <3>4
    <3>6. Cardinality(A \cup B) = Cardinality(A) + Cardinality(B) - Cardinality(A \cap B)
      BY <3>5, FS_Union
    <3>7. Cardinality(A \cap B) = 0
      BY <3>5, FS_EmptySet
    <3> QED BY <1>5, <2>2, <2>3, <3>1, <3>2, <3>3, <3>4, <3>6, <3>7
  <2> QED BY <2>4, <2>5
<1>8. k \in 1..k
  BY <1>1
<1> QED BY <1>7, <1>8

Categories(values, bins) == [i \in 1..Len(values) |-> cut(values[i], bins)]

\* The table has a row for each of the bins g[1] to g[K].
IsTable(values, bins, K, g) ==
  LET c     == Categories(values, bins)
      table == create_frequency_table_df(values, bins)
  IN  /\ Lists(g, K, Numbers(c, Len(values)))
      /\ Len(table) = K /\ DOMAIN table = 1..K
      /\ \A k \in 1..K : table[k].bin = g[k] /\ table[k].Total = Cardinality(UpTo(c, Len(values), g[k]))

\* The category of a value is a bin.
LEMMA CategoriesAre ==
  ASSUME NEW values \in Seq(Finite), NEW bins, AreBreaks(bins)
  PROVE  /\ Categories(values, bins) \in [1..Len(values) -> Nat]
         /\ \A i \in 1..Len(values) : Categories(values, bins)[i] \in 1..(Len(bins) + 1)
<1>1. \A i \in 1..Len(values) : values[i] \in Finite
  OBVIOUS
<1>2. Len(bins) \in Nat
  BY DEF AreBreaks
<1>3. \A i \in 1..Len(values) : cut(values[i], bins) \in 1..(Len(bins) + 1)
  BY <1>1, CutIs
<1>4. \A i \in 1..Len(values) : cut(values[i], bins) \in Nat
  BY <1>2, <1>3
<1> QED BY <1>3, <1>4 DEF Categories

\* What stands in the table: the bins in use in order, and their counts.
LEMMA FrequencyTable ==
  ASSUME NEW values \in Seq(Finite), NEW bins, AreBreaks(bins)
  PROVE  \E K, g : IsTable(values, bins, K, g)
<1> DEFINE c == Categories(values, bins)
           S == Numbers(c, Len(values))
<1>1. PICK m \in Nat : m = Len(values) /\ DOMAIN values = 1..m
  OBVIOUS
<1>2. c \in [1..m -> Nat]
  BY <1>1, CategoriesAre
<1>3. S \subseteq Nat /\ IsFiniteSet(S)
  <2>1. IsFiniteSet(1..m)
    BY FS_Interval
  <2>2. c \in Surjection(1..m, S)
    <3>1. c \in [1..m -> S] /\ \A x \in S : \E i \in 1..m : c[i] = x
      BY <1>1, <1>2 DEF Numbers
    <3> HIDE DEF c, S
    <3> QED BY <3>1 DEF Surjection
  <2>3. IsFiniteSet(S)
    <3> HIDE DEF c, S
    <3> QED BY <2>1, <2>2, FS_Surjection
  <2> QED BY <1>1, <1>2, <2>3 DEF Numbers
<1>4. PICK K, g : K = Cardinality(S) /\ g = Ascending(S) /\ Lists(g, K, S)
  BY <1>3, AscendingLists
<1>5. K \in Nat /\ g \in [1..K -> S] /\ DOMAIN g = 1..K
  BY <1>4 DEF Lists
<1> DEFINE frequencies == [k \in 1..K |-> Cardinality(Those(c, m, g[k]))]
<1>6. \A k \in 1..K : Cardinality(Those(c, m, g[k])) \in Nat
  <2>1. ASSUME NEW k \in 1..K PROVE Cardinality(Those(c, m, g[k])) \in Nat
    <3>1. Those(c, m, g[k]) \in SUBSET (1..m) /\ IsFiniteSet(1..m)
      BY FS_Interval DEF Those
    <3>2. IsFiniteSet(Those(c, m, g[k]))
      BY <3>1, FS_Subset
    <3> QED BY <3>2, FS_CardinalityType
  <2> QED BY <2>1
<1>7. frequencies \in Seq(Int) /\ Len(frequencies) = K /\ DOMAIN frequencies = 1..K
  <2> HIDE DEF c
  <2> QED BY <1>5, <1>6
<1>8. create_frequency_table_df(values, bins)
        = [k \in 1..K |-> [bin |-> g[k], Frequency |-> frequencies[k], Total |-> RunningTotal(frequencies)[k]]]
  <2> DEFINE cats == [i \in DOMAIN values |-> cut(values[i], bins)]
             present == Ascending({cats[i] : i \in DOMAIN cats})
             freqs == [k \in DOMAIN present |-> Cardinality({i \in DOMAIN values : cats[i] = present[k]})]
  <2>1. create_frequency_table_df(values, bins)
          = [k \in DOMAIN present |-> [bin |-> present[k], Frequency |-> freqs[k], Total |-> RunningTotal(freqs)[k]]]
    BY DEF create_frequency_table_df
  <2>2. cats = c
    BY <1>1 DEF Categories
  <2>3. present = g
    <3> HIDE DEF cats, c
    <3>1. {cats[i] : i \in DOMAIN cats} = S
      BY <1>1, <1>2, <2>2 DEF Numbers
    <3> QED BY <1>4, <3>1
  <2> HIDE DEF cats, present
  <2>4. freqs = frequencies
    <3>1. ASSUME NEW k \in 1..K
          PROVE  Cardinality({i \in DOMAIN values : cats[i] = present[k]}) = Cardinality(Those(c, m, g[k]))
      <4>1. {i \in DOMAIN values : cats[i] = present[k]} = Those(c, m, g[k])
        <5> HIDE DEF c
        <5> QED BY <1>1, <2>2, <2>3 DEF Those
      <4> QED BY <4>1
    <3>2. DOMAIN present = 1..K
      BY <1>5, <2>3
    <3> HIDE DEF c
    <3> QED BY <3>1, <3>2
  <2> HIDE DEF freqs, frequencies
  <2> QED BY <1>5, <2>1, <2>3, <2>4
<1>9. ASSUME NEW k \in 1..K PROVE RunningTotal(frequencies)[k] = Cardinality(UpTo(c, m, g[k]))
  <2>1. PICK front : front = SubSeq(frequencies, 1, k)
    OBVIOUS
  <2> HIDE DEF frequencies
  <2>2. front \in Seq(Int) /\ Len(front) = k /\ \A j \in 1..k : front[j] = frequencies[j]
    BY <1>5, <1>7, <2>1
  <2>3. PICK T \in [0..k -> Int] : IsTotal(T, k, front) /\ FoldLeft(+, 0, front) = T[k]
    BY <2>2, FoldedTotal
  <2>4. \A j \in 1..k : front[j] = Cardinality(Those(c, m, g[j]))
    <3>1. \A j \in 1..k : j \in 1..K
      BY <1>5
    <3> HIDE DEF c
    <3> QED BY <2>2, <3>1 DEF frequencies
  <2>5. T[k] = Cardinality(UpTo(c, m, g[k]))
    <3>1. CountsThose(front, c, m, g, k)
      BY <2>4 DEF CountsThose
    <3>2. Lists(g, K, Numbers(c, m))
      BY <1>1, <1>4
    <3>3. AddsCounts(T, front, c, m, K, g, k)
      <4> HIDE DEF c
      <4> QED BY <1>2, <2>3, <3>1, <3>2 DEF AddsCounts
    <3> HIDE DEF c
    <3> QED BY <3>3, CountsAddUp
  <2>6. RunningTotal(frequencies)[k] = FoldLeft(+, 0, front)
    BY <1>7, <2>1 DEF RunningTotal
  <2> QED BY <2>3, <2>5, <2>6
<1> HIDE DEF frequencies
<1>10. IsTable(values, bins, K, g)
  <2>1. PICK table : table = create_frequency_table_df(values, bins)
    OBVIOUS
  <2>2. Len(table) = K /\ DOMAIN table = 1..K /\ \A k \in 1..K : table[k].bin = g[k] /\ table[k].Total = RunningTotal(frequencies)[k]
    BY <1>5, <1>8, <2>1
  <2> QED BY <1>1, <1>4, <1>9, <2>1, <2>2 DEF IsTable
<1> QED BY <1>10

\* What TotalsAreCumulative says, of any values and breaks.
Cumulative(values, bins) ==
  LET table == create_frequency_table_df(values, bins)
  IN  /\ \A k \in DOMAIN table :
           table[k].Total =
             IF table[k].bin > Len(bins) THEN Len(values)
             ELSE Cardinality({n \in DOMAIN values : AtMost(values[n], bins[table[k].bin])})
      /\ table # <<>> => table[Len(table)].Total = Len(values)

\* A total counts the values up to the end of its bin.
LEMMA TableIsCumulative ==
  ASSUME NEW values \in Seq(Finite), NEW bins, AreBreaks(bins)
  PROVE  Cumulative(values, bins)
<1>1. PICK K, g : IsTable(values, bins, K, g)
  BY FrequencyTable
<1>2. PICK table : table = create_frequency_table_df(values, bins)
  OBVIOUS
<1>3. PICK m \in Nat : m = Len(values) /\ DOMAIN values = 1..m /\ \A i \in 1..m : values[i] \in Finite
  OBVIOUS
<1>4. PICK c \in [1..m -> Nat] :
        /\ c = Categories(values, bins)
        /\ \A i \in 1..m : c[i] = cut(values[i], bins) /\ c[i] \in 1..(Len(bins) + 1)
  BY <1>3, CategoriesAre DEF Categories
<1>5. /\ Lists(g, K, Numbers(c, m)) /\ Len(table) = K /\ DOMAIN table = 1..K
      /\ \A k \in 1..K : table[k].bin = g[k] /\ table[k].Total = Cardinality(UpTo(c, m, g[k]))
  BY <1>1, <1>2, <1>3, <1>4 DEF IsTable
<1>6. Cardinality(1..m) = m
  BY FS_Interval
<1>7. Len(bins) \in Nat
  BY DEF AreBreaks
<1>8. ASSUME NEW k \in 1..K PROVE g[k] \in 1..(Len(bins) + 1)
  <2>1. g[k] \in {c[i] : i \in 1..m}
    BY <1>5 DEF Lists, Numbers
  <2> QED BY <1>4, <2>1
<1>9. ASSUME NEW k \in 1..K
      PROVE  Cardinality(UpTo(c, m, g[k])) =
               IF g[k] > Len(bins) THEN m
               ELSE Cardinality({n \in 1..m : AtMost(values[n], bins[g[k]])})
  <2>1. CASE g[k] > Len(bins)
    <3>1. \A i \in 1..m : c[i] <= g[k]
      BY <1>4, <1>7, <1>8, <2>1
    <3>2. UpTo(c, m, g[k]) = 1..m
      BY <3>1 DEF UpTo
    <3> QED BY <1>6, <2>1, <3>2
  <2>2. CASE ~(g[k] > Len(bins))
    <3>1. g[k] \in 1..Len(bins)
      BY <1>7, <1>8, <2>2
    <3>2. \A i \in 1..m : c[i] <= g[k] <=> AtMost(values[i], bins[g[k]])
      BY <1>3, <1>4, <3>1, CutIs
    <3>3. UpTo(c, m, g[k]) = {n \in 1..m : AtMost(values[n], bins[g[k]])}
      BY <3>2 DEF UpTo
    <3> QED BY <2>2, <3>3
  <2> QED BY <2>1, <2>2
<1>10. ASSUME table # <<>> PROVE Cardinality(UpTo(c, m, g[K])) = m /\ K \in 1..K
  <2>1. K \in Nat
    BY <1>5 DEF Lists
  <2>2. K # 0
    <3>1. table = [k \in 1..K |-> table[k]]
      BY <1>2, <1>5 DEF create_frequency_table_df
    <3> QED BY <1>10, <3>1
  <2>3. K \in 1..K
    BY <2>1, <2>2
  <2>4. ASSUME NEW i \in 1..m PROVE c[i] <= g[K]
    <3>1. PICK k \in 1..K : g[k] = c[i]
      BY <1>5 DEF Lists, Numbers
    <3>2. k < K => g[k] < g[K]
      BY <1>5, <2>3 DEF Lists
    <3>3. k = K \/ k < K
      BY <2>1
    <3>4. g[k] \in Int /\ g[K] \in Int
      BY <1>7, <1>8, <2>3
    <3> QED BY <3>1, <3>2, <3>3, <3>4
  <2>5. UpTo(c, m, g[K]) = 1..m
    BY <2>4 DEF UpTo
  <2> QED BY <1>6, <2>3, <2>5
<1>11. ASSUME NEW k \in DOMAIN table
       PROVE  table[k].Total =
                IF table[k].bin > Len(bins) THEN Len(values)
                ELSE Cardinality({n \in DOMAIN values : AtMost(values[n], bins[table[k].bin])})
  <2>1. k \in 1..K /\ table[k].bin = g[k]
    BY <1>5
  <2>2. {n \in DOMAIN values : AtMost(values[n], bins[table[k].bin])}
          = {n \in 1..m : AtMost(values[n], bins[g[k]])}
    BY <1>3, <2>1
  <2> QED BY <1>3, <1>5, <1>9, <2>1, <2>2
<1>12. table # <<>> => table[Len(table)].Total = Len(values)
  BY <1>3, <1>5, <1>10
<1> QED BY <1>2, <1>11, <1>12 DEF Cumulative

\* The breaks of the script rise.
LEMMA BreaksAreBreaks == AreBreaks(Breaks)
<1> DEFINE w == <<0, 50, 100, 200>>
<1>1. Len(Breaks) = 4 /\ \A i \in 1..4 : Breaks[i] = Double(w[i]) /\ w[i] \in Int
  BY DEF Breaks
<1>2. \A i, j \in 1..4 : i <= j => w[i] <= w[j]
  OBVIOUS
<1> HIDE DEF w
<1>3. \A i \in 1..4 : Breaks[i] \in Finite
  BY <1>1, Whole
<1>4. Breaks \in Seq(Finite)
  <2>1. Double(0) \in Finite /\ Double(50) \in Finite /\ Double(100) \in Finite /\ Double(200) \in Finite
    BY Whole
  <2> QED BY <2>1 DEF Breaks
<1>5. ASSUME NEW i \in 1..4, NEW j \in 1..4, i <= j PROVE AtMost(Breaks[i], Breaks[j])
  <2>1. w[i] <= w[j] /\ w[i] \in Int /\ w[j] \in Int
    BY <1>1, <1>2, <1>5
  <2>2. AtMost(Double(w[i]), Double(w[j])) <=> w[i] <= w[j]
    BY <2>1, WholeSums
  <2> QED BY <1>1, <2>1, <2>2
<1> QED BY <1>1, <1>4, <1>5 DEF AreBreaks

-----------------------------------------------------------------------------
(* Summaries.                                                              *)

\* m rows of a file, at least one.
AreRows(group, m) ==
  /\ m \in Nat \ {0} /\ Len(group) = m /\ DOMAIN group = 1..m
  /\ \A k \in 1..m : /\ group[k].unrealisedPnl \in Finite /\ group[k].tradedNotional \in Amounts
                     /\ group[k].tickReceiveTime \in Nat

\* The n-th summary is that of the rows first..last.
IsSummary(n, first, last) ==
  \E group, m :
    /\ AreRows(group, m) /\ m = last + 1 - first /\ Summaries[n] = Summary(group)
    /\ \A k \in 1..m :
         /\ k + first - 1 \in 1..Len(df)
         /\ group[k].unrealisedPnl = df[k + first - 1].unrealisedPnl
         /\ group[k].tradedNotional = df[k + first - 1].tradedNotional
         /\ group[k].tickReceiveTime = df[k + first - 1].tickReceiveTime

\* What the summary of a run says, column by column.
LEMMA SummaryOfRun ==
  ASSUME Recording, NEW n \in 1..Groups, NEW first, NEW last, GroupRows(n, first, last)
  PROVE  IsSummary(n, first, last)
<1>1. PICK m \in Nat : m = last + 1 - first /\ m # 0 /\ first \in Nat /\ first # 0
  BY DEF GroupRows, Recording
<1>2. PICK group : group = OfGroup(Grouped, n)
  OBVIOUS
<1>3. /\ group = [k \in 1..m |-> with_groups(df)[k + first - 1]]
      /\ \A k \in 1..m : k + first - 1 \in 1..Len(df)
  BY <1>1, <1>2, RowsOfGroup
<1>4. ASSUME NEW k \in 1..m
      PROVE  /\ group[k].unrealisedPnl = df[k + first - 1].unrealisedPnl
             /\ group[k].tradedNotional = df[k + first - 1].tradedNotional
             /\ group[k].tickReceiveTime = df[k + first - 1].tickReceiveTime
             /\ df[k + first - 1] \in Row
  <2>1. PICK i \in 1..Len(df) : i = k + first - 1 /\ group[k] = with_groups(df)[i]
    BY <1>3
  <2>2. IsGroupedRow(group[k], i)
    BY <2>1, WithGroups
  <2>3. df[i] \in Row
    BY DEF Recording
  <2>4. DOMAIN df[i] = {"isArbitrageOpportunity", "unrealisedPnl", "tradedNotional", "tickReceiveTime"}
    BY <2>3 DEF Row
  <2> QED BY <2>1, <2>2, <2>3, <2>4 DEF IsGroupedRow
<1>5. AreRows(group, m)
  <2>1. Len(group) = m /\ DOMAIN group = 1..m
    BY <1>3
  <2>2. \A k \in 1..m : /\ group[k].unrealisedPnl \in Finite /\ group[k].tradedNotional \in Amounts
                        /\ group[k].tickReceiveTime \in Nat
    BY <1>4 DEF Row
  <2> QED BY <1>1, <2>1, <2>2 DEF AreRows
<1>6. Summaries[n] = Summary(group)
  <2>1. GroupIds(Grouped) = [k \in 1..Groups |-> k]
    BY IdsAreNumbers
  <2>2. Summaries = [k \in 1..Groups |-> Summary(OfGroup(Grouped, k))]
    BY <2>1 DEF Summaries, summarise_arbitrages_by_group, Grouped
  <2> QED BY <1>2, <2>2
<1> QED BY <1>1, <1>3, <1>4, <1>5, <1>6, ZenonT(40) DEF IsSummary

\* There is one summary for each group.
LEMMA SummariesAre ==
  ASSUME Recording
  PROVE  Groups \in Nat /\ DOMAIN Summaries = 1..Groups /\ Len(Summaries) = Groups
<1>1. Groups \in Nat
  BY Counting DEF Recording, Groups
<1>2. GroupIds(Grouped) = [k \in 1..Groups |-> k]
  BY IdsAreNumbers
<1>3. Summaries = [k \in 1..Groups |-> Summary(OfGroup(Grouped, k))]
  BY <1>2 DEF Summaries, summarise_arbitrages_by_group, Grouped
<1> QED BY <1>1, <1>3

\* A return is a finite number, because notionals are above zero.
LEMMA ReturnIsFinite ==
  ASSUME NEW row, row.unrealisedPnl \in Finite, row.tradedNotional \in Amounts
  PROVE  Return(row) \in Finite
<1>1. Double(100) \in Finite
  BY Whole
<1>2. Over(row.unrealisedPnl, row.tradedNotional) \in Finite
  BY AmountTerms, FiniteClosed
<1> QED BY <1>1, <1>2, FiniteClosed DEF Return

\* So is every return of the summaries.
LEMMA ReturnsAreFinite ==
  ASSUME Recording
  PROVE  Returns \in Seq(Finite)
<1>1. Groups \in Nat /\ DOMAIN Summaries = 1..Groups
  BY SummariesAre
<1>2. ASSUME NEW n \in 1..Groups PROVE Summaries[n].Return \in Finite
  <2>1. PICK first, last : GroupRows(n, first, last)
    BY GroupHasRows
  <2>2. PICK group, m : AreRows(group, m) /\ Summaries[n] = Summary(group)
    BY <2>1, SummaryOfRun DEF IsSummary
  <2>3. group[1].unrealisedPnl \in Finite /\ group[1].tradedNotional \in Amounts
    BY <2>2 DEF AreRows
  <2>4. Summaries[n].Return = Return(group[1])
    BY <2>2 DEF Summary
  <2> QED BY <2>3, <2>4, ReturnIsFinite
<1> QED BY <1>1, <1>2 DEF Returns

\* The totals of the table count the returns up to the ends of the bins.
THEOREM TotalsAreCounts == Spec => []TotalsAreCumulative
<1>1. Recording => TotalsAreCumulative
  <2> SUFFICES ASSUME Recording PROVE TotalsAreCumulative
    OBVIOUS
  <2>1. Cumulative(Returns, Breaks)
    BY ReturnsAreFinite, BreaksAreBreaks, TableIsCumulative
  <2> QED BY <2>1 DEF Cumulative, TotalsAreCumulative
<1> QED BY <1>1, RecordingHolds, PTL

\* The average return of a group lies between returns of its rows.
LEMMA MeanReturnBetween ==
  ASSUME NEW group, NEW m, AreRows(group, m)
  PROVE  \E i \in 1..m, j \in 1..m :
           AtMost(Return(group[i]), Summary(group).AverageReturn)
           /\ AtMost(Summary(group).AverageReturn, Return(group[j]))
<1> DEFINE p == [i \in 1..m |-> group[i].unrealisedPnl]
           v == [i \in 1..m |-> group[i].tradedNotional]
<1>1. m \in Nat \ {0} /\ DOMAIN group = 1..m
  BY DEF AreRows
<1>2. /\ p \in Seq(Finite) /\ Len(p) = m /\ v \in Seq(Finite) /\ Len(v) = m
      /\ \A i \in 1..m : /\ p[i] \in Finite /\ v[i] \in Amounts /\ v[i] \in Finite
                         /\ p[i] = group[i].unrealisedPnl /\ v[i] = group[i].tradedNotional
  <2>1. \A i \in 1..m : group[i].unrealisedPnl \in Finite /\ group[i].tradedNotional \in Amounts
    BY DEF AreRows
  <2>2. \A i \in 1..m : group[i].tradedNotional \in Finite
    BY <2>1, AmountTerms
  <2> QED BY <1>1, <2>1, <2>2
<1>3. Summary(group).AverageReturn = Times(Over(Mean(p), Mean(v)), Double(100))
  BY <1>1 DEF Summary, MeanReturn
<1> HIDE DEF p, v
<1>4. PICK P \in [0..m -> Finite] : IsSum(P, m, p) /\ FoldLeft(Plus, Zero, p) = P[m]
  BY <1>2, FoldedSum
<1>5. PICK V \in [0..m -> Finite] : IsSum(V, m, v) /\ FoldLeft(Plus, Zero, v) = V[m]
  BY <1>2, FoldedSum
<1>6. m \in 0..m /\ m \in Nat /\ m # 0 /\ m > 0 /\ m \in Int
  BY <1>1
<1>7. P[m] \in Finite /\ V[m] \in Amounts
  <2>1. V[m] \in Amounts
    BY <1>2, <1>5, <1>6, SumOfAmounts
  <2> QED BY <1>4, <1>6, <2>1
<1>8. PICK M \in Amounts : M = Double(m) /\ Mean(p) = Over(P[m], M) /\ Mean(v) = Over(V[m], M)
  BY <1>2, <1>4, <1>5, <1>6, Whole DEF Mean
<1>9. PICK a \in Finite, b \in Amounts, q \in Finite : a = Mean(p) /\ b = Mean(v) /\ q = Over(a, b)
  <2>1. Mean(p) \in Finite /\ Mean(v) \in Amounts
    BY <1>7, <1>8, AmountTerms, AmountsClosed, FiniteClosed
  <2> QED BY <2>1, AmountTerms, FiniteClosed
\* So q of all that was traded is all that was earned.
<1>10. Times(q, V[m]) = P[m]
  <2>1. M \in Finite /\ b \in Finite /\ V[m] \in Finite
    BY <1>7, AmountTerms
  <2>2. Times(b, q) = a
    BY <1>9, OverThenTimes
  <2>3. Times(M, a) = P[m]
    BY <1>7, <1>8, <1>9, OverThenTimes
  <2>4. Times(M, b) = V[m]
    BY <1>8, <1>9, <2>1, OverThenTimes
  <2>5. Times(Times(M, b), q) = Times(M, Times(b, q))
    BY <1>9, <2>1, TimesAssociates
  <2>6. Times(q, V[m]) = Times(V[m], q)
    BY <1>9, <2>1, TimesCommutes
  <2> QED BY <2>2, <2>3, <2>4, <2>5, <2>6
<1>11. PICK T, G : /\ T \in [0..m -> Finite] /\ IsSum(T, m, G)
                   /\ \A i \in 1..m : G[i] = Times(q, v[i])
                   /\ T[m] = P[m]
  <2>1. ScaledTo(q, m, v, Times(q, V[m]))
    BY <1>2, <1>5, <1>6, <1>9, ScaledSum
  <2> QED BY <1>10, <2>1 DEF ScaledTo
<1>12. \A i \in 1..m : p[i] \in Finite /\ G[i] \in Finite
  BY <1>2, <1>9, <1>11, FiniteClosed, ZenonT(40)
\* A row's return is above q if and only if it earned more than q of its notional.
<1>13. ASSUME NEW i \in 1..m
       PROVE  /\ AtMost(Return(group[i]), Summary(group).AverageReturn) <=> ~Less(G[i], p[i])
              /\ AtMost(Summary(group).AverageReturn, Return(group[i])) <=> ~Less(p[i], G[i])
  <2>1. PICK r \in Finite, h \in Amounts : r = Over(p[i], v[i]) /\ h = Double(100)
    <3>1. Over(p[i], v[i]) \in Finite
      BY <1>2, FiniteClosed
    <3> QED BY <3>1, Whole
  <2>2. Return(group[i]) = Times(r, h) /\ Summary(group).AverageReturn = Times(q, h)
    BY <1>2, <1>3, <1>9, <2>1 DEF Return
  <2>3. (AtMost(r, q) <=> AtMost(Times(r, h), Times(q, h))) /\ (AtMost(q, r) <=> AtMost(Times(q, h), Times(r, h)))
    BY <1>9, <2>1, TimesCancels
  <2>4. Times(r, v[i]) = p[i]
    <3>1. Times(v[i], r) = p[i]
      BY <1>2, <2>1, OverThenTimes
    <3> QED BY <1>2, <2>1, <3>1, TimesCommutes
  <2>5. (AtMost(r, q) <=> AtMost(p[i], G[i])) /\ (AtMost(q, r) <=> AtMost(G[i], p[i]))
    BY <1>2, <1>9, <1>11, <2>1, <2>4, TimesCancels
  <2>6. (AtMost(p[i], G[i]) <=> ~Less(G[i], p[i])) /\ (AtMost(G[i], p[i]) <=> ~Less(p[i], G[i]))
    BY <1>12, OrderIsTotal
  <2> QED BY <2>2, <2>3, <2>5, <2>6
<1>14. ~Less(P[m], P[m])
  BY <1>7, OrderIsTotal
<1>15. \E i \in 1..m : ~Less(G[i], p[i])
  <2> SUFFICES ASSUME \A i \in 1..m : Less(G[i], p[i]) PROVE FALSE
    OBVIOUS
  <2>1. AreSums(m, T, G, P, p)
    BY <1>4, <1>6, <1>11, <1>12 DEF AreSums
  <2> QED BY <1>6, <1>11, <1>14, <2>1, SumsInOrder
<1>16. \E i \in 1..m : ~Less(p[i], G[i])
  <2> SUFFICES ASSUME \A i \in 1..m : Less(p[i], G[i]) PROVE FALSE
    OBVIOUS
  <2>1. AreSums(m, P, p, T, G)
    BY <1>4, <1>6, <1>11, <1>12 DEF AreSums
  <2> QED BY <1>6, <1>11, <1>14, <2>1, SumsInOrder
<1> QED BY <1>13, <1>15, <1>16

Time(i) == df[i].tickReceiveTime

\* Times do not fall from a row to a later one.
LEMMA TimesRise ==
  ASSUME Recording
  PROVE  /\ Now \in Nat /\ \A i \in 1..Len(df) : Time(i) \in Nat /\ Time(i) <= Now
         /\ \A i, j \in 1..Len(df) : i <= j => Time(i) <= Time(j)
<1>1. PICK n \in Nat : n = Len(df) /\ DOMAIN df = 1..n
  BY DEF Recording
<1>2. \A i \in 1..n : Time(i) \in Nat
  <2>1. \A i \in 1..n : df[i] \in Row
    BY <1>1 DEF Recording
  <2> QED BY <2>1 DEF Row, Time
<1>3. ASSUME NEW i \in 1..n, NEW j \in 1..n, i <= j PROVE Time(i) <= Time(j)
  <2>1. i = j => Time(i) <= Time(j)
    BY <1>2
  <2>2. i < j => Time(i) <= Time(j)
    BY <1>1 DEF Recording, Time
  <2> QED BY <1>3, <2>1, <2>2
<1>4. CASE n = 0
  BY <1>1, <1>2, <1>3, <1>4 DEF Now, Recording
<1>5. CASE n # 0
  <2>1. n \in 1..n /\ Now = Time(n)
    BY <1>1, <1>5 DEF Now, Last, Time
  <2>2. \A i \in 1..n : Time(i) <= Time(n)
    BY <1>3, <2>1
  <2> QED BY <1>1, <1>2, <1>3, <2>1, <2>2
<1> QED BY <1>4, <1>5

\* The groups up to one have lasted no longer than the recording up to its end.
LEMMA DurationsFit ==
  ASSUME Recording
  PROVE  FoldLeft(+, 0, Durations) <= Now
<1>0. PICK total : total = FoldLeft(+, 0, Durations)
  OBVIOUS
<1> SUFFICES total <= Now
  BY <1>0
<1>1. PICK g \in Nat : g = Groups /\ DOMAIN Summaries = 1..g
  BY SummariesAre
<1>2. ASSUME NEW n \in 1..g, NEW first, NEW last, GroupRows(n, first, last)
      PROVE  Durations[n] = Time(last) - Time(first)
  <2>1. PICK group, m :
          /\ AreRows(group, m) /\ m = last + 1 - first /\ Summaries[n] = Summary(group)
          /\ \A k \in 1..m : group[k].tickReceiveTime = df[k + first - 1].tickReceiveTime
    BY <1>1, <1>2, SummaryOfRun DEF IsSummary
  <2>2. 1 \in 1..m /\ m \in 1..m /\ 1 + first - 1 = first /\ m + first - 1 = last /\ Len(group) = m
    BY <1>2, <2>1 DEF AreRows, GroupRows, Recording
  <2>3. Summaries[n].Duration = group[m].tickReceiveTime - group[1].tickReceiveTime
    BY <2>1, <2>2 DEF Summary, Last
  <2> QED BY <1>1, <2>1, <2>2, <2>3 DEF Durations, Time
<1>3. ASSUME NEW n \in 1..g, NEW first, NEW last, GroupRows(n, first, last)
      PROVE  /\ first \in 1..Len(df) /\ last \in 1..Len(df)
             /\ Time(first) \in Nat /\ Time(last) \in Nat /\ Time(last) <= Now
             /\ GroupOf(first) = n /\ GroupOf(last) = n
  BY <1>3, TimesRise DEF GroupRows, Recording
<1>4. Durations \in Seq(Int) /\ Len(Durations) = g
  <2>1. ASSUME NEW n \in 1..g PROVE Durations[n] \in Int
    <3>1. PICK first, last : GroupRows(n, first, last)
      BY <1>1, GroupHasRows
    <3> QED BY <1>2, <1>3, <3>1
  <2> QED BY <1>1, <2>1 DEF Durations
<1>5. PICK T \in [0..g -> Int] : IsTotal(T, g, Durations) /\ T[g] = total
  BY <1>0, <1>4, FoldedTotal
<1> DEFINE Bad == {n \in 1..g : \E first, last : GroupRows(n, first, last) /\ ~(T[n] <= Time(last))}
<1>6. Bad = {}
  <2> SUFFICES ASSUME Bad # {} PROVE FALSE
    OBVIOUS
  <2>1. PICK n \in Bad : \A l \in Bad : n <= l
    <3>1. Bad \subseteq Nat
      OBVIOUS
    <3> HIDE DEF Bad
    <3> QED BY <3>1, LeastNat
  <2>2. PICK first, last : GroupRows(n, first, last) /\ ~(T[n] <= Time(last))
    BY <2>1
  <2>3. T[n] = T[n - 1] + (Time(last) - Time(first)) /\ n \in 1..g
    BY <1>2, <1>5, <2>1, <2>2 DEF IsTotal
  <2>4. T[n - 1] <= Time(first)
    <3>1. CASE n = 1
      <4>1. T[n - 1] = 0
        BY <1>5, <3>1 DEF IsTotal
      <4> QED BY <1>3, <2>2, <2>3, <4>1
    <3>2. CASE n # 1
      <4>1. n - 1 \in 1..g /\ n - 1 \notin Bad /\ n - 1 < n
        BY <2>1, <2>3, <3>2
      <4>2. PICK f, l : GroupRows(n - 1, f, l)
        BY <1>1, <4>1, GroupHasRows
      <4>3. T[n - 1] <= Time(l)
        BY <4>1, <4>2
      <4>4. l \in 1..Len(df) /\ GroupOf(l) = n - 1 /\ Time(l) \in Nat
        BY <1>3, <4>1, <4>2
      <4>5. first \in 1..Len(df) /\ GroupOf(first) = n /\ Time(first) \in Nat
        BY <1>3, <2>2, <2>3
      <4>6. l <= first
        <5>1. first \in Nat /\ l \in Nat
          BY <4>4, <4>5
        <5>2. first <= l => GroupOf(first) <= GroupOf(l)
          BY <5>1, CountGrows
        <5> QED BY <2>3, <4>4, <4>5, <5>1, <5>2
      <4>7. Time(l) <= Time(first)
        BY <4>4, <4>5, <4>6, TimesRise
      <4>8. T[n - 1] \in Int
        BY <1>5, <4>1
      <4> QED BY <4>3, <4>4, <4>5, <4>7, <4>8
    <3> QED BY <3>1, <3>2
  <2>5. T[n - 1] \in Int /\ Time(last) \in Nat /\ Time(first) \in Nat
    BY <1>3, <1>5, <2>2, <2>3
  <2> QED BY <2>2, <2>3, <2>4, <2>5
<1>7. CASE g = 0
  <2>1. T[g] = 0 /\ Now \in Nat
    BY <1>5, <1>7, TimesRise DEF IsTotal
  <2> QED BY <1>5, <2>1
<1>8. CASE g # 0
  <2>1. g \in 1..g
    BY <1>8
  <2>2. PICK first, last : GroupRows(g, first, last)
    BY <1>1, <2>1, GroupHasRows
  <2>3. T[g] <= Time(last) /\ Time(last) <= Now /\ Time(last) \in Nat /\ T[g] \in Int /\ Now \in Nat
    BY <1>3, <1>5, <1>6, <2>1, <2>2, TimesRise
  <2> QED BY <1>5, <2>3
<1> QED BY <1>7, <1>8

\* The average return of a summary lies between the returns of its run.
LEMMA AverageBetween ==
  ASSUME Recording, NEW n \in DOMAIN Summaries
  PROVE  /\ \E i \in DOMAIN NthRun(n - 1) : AtMost(Return(NthRun(n - 1)[i]), Summaries[n].AverageReturn)
         /\ \E i \in DOMAIN NthRun(n - 1) : AtMost(Summaries[n].AverageReturn, Return(NthRun(n - 1)[i]))
<1>1. n \in 1..Groups /\ Groups \in Nat
  BY SummariesAre
<1>2. PICK first, last : GroupRows(n, first, last)
  BY <1>1, GroupHasRows
<1>3. PICK group, m :
        /\ AreRows(group, m) /\ m = last + 1 - first /\ Summaries[n] = Summary(group)
        /\ \A k \in 1..m :
             /\ group[k].unrealisedPnl = df[k + first - 1].unrealisedPnl
             /\ group[k].tradedNotional = df[k + first - 1].tradedNotional
  BY <1>1, <1>2, SummaryOfRun DEF IsSummary
<1>4. PICK run : run = NthRun(n - 1) /\ run = SubSeq(df, first, last)
  <2>1. n - 1 \in Nat /\ (n - 1) + 1 = n
    BY <1>1
  <2>2. NthRun(n - 1) = SubSeq(df, first, last)
    BY <1>2, <2>1, NthRunIs
  <2> QED BY <2>2
<1>5. /\ DOMAIN run = 1..m
      /\ \A k \in 1..m : run[k] = df[k + first - 1]
  <2>1. first \in 1..Len(df) /\ last \in 1..Len(df) /\ first <= last
    BY <1>2 DEF GroupRows
  <2>2. m = last + 1 - first
    BY <1>3
  <2>3. run = SubSeq(df, first, last)
    BY <1>4
  <2>4. df \in Seq(Row)
    BY DEF Recording
  <2> QED BY <2>1, <2>2, <2>3, <2>4
<1>6. \A k \in 1..m : Return(run[k]) = Return(group[k])
  BY <1>3, <1>5 DEF Return
<1> QED BY <1>3, <1>4, <1>5, <1>6, MeanReturnBetween

\* The summaries are of the runs: as many, with averages between the returns
\* of their rows, and together no longer than the recording.
THEOREM SummariesFitTheRuns == Spec => []SummariesFit
<1>1. Recording => SummariesFit
  <2> SUFFICES ASSUME Recording PROVE SummariesFit
    OBVIOUS
  <2>1. Len(Summaries) = Cardinality(Runs)
    BY SummariesAre, RunsAreCounted
  <2> QED BY <2>1, AverageBetween, DurationsFit DEF SummariesFit
<1> QED BY <1>1, RecordingHolds, PTL
=============================================================================
