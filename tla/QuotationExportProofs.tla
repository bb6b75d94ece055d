------------------------- MODULE QuotationExportProofs -------------------------
(***************************************************************************)
(* Proofs about QuotationExport: for every version the calculator can      *)
(* leave, a file has all priced lines, its pages follow one another, and   *)
(* its numbers explain the price.                                          *)
(*                                                                         *)
(* The files are made by recursion over sequences.  Induction is stated    *)
(* with a set of what has been reached instead of a property, and so is    *)
(* recursion with a function for its step: an instance of either is then a *)
(* matter of sets.                                                         *)
(***************************************************************************)
EXTENDS QuotationExport, SequenceTheorems, WellFoundedInduction, TLAPS

-----------------------------------------------------------------------------
(***************************************************************************)
(* Induction and recursion.                                                *)
(***************************************************************************)

\* A set of natural numbers that has an element has a least one.
LEMMA LeastNumber ==
    ASSUME NEW T \in SUBSET Nat, T # {}
    PROVE  \E n \in T : \A m \in T : n <= m
  <1>1. PICK n \in T : \A m \in T : <<m, n>> \notin OpToRel(<, Nat)
    BY NatLessThanWellFounded, WFMin, Zenon
  <1>2. ASSUME NEW m \in T
        PROVE n <= m
    <2>1. <<m, n>> \in Nat \X Nat
      OBVIOUS
    <2>2. m < n => <<m, n>> \in OpToRel(<, Nat)
      BY <2>1, Zenon DEF OpToRel
    <2>3. ~(m < n)
      BY <1>1, <2>2, Zenon
    <2> QED BY <2>3
  <1> QED BY <1>2

\* A set that has 0 and with each number the next has all up to n.
LEMMA Induction ==
    ASSUME NEW n \in Nat, NEW P,
           0 \in P, \A k \in 0..n : k # 0 /\ k - 1 \in P => k \in P
    PROVE  \A k \in 0..n : k \in P
  <1> DEFINE T == {k \in 0..n : k \notin P}
  <1> SUFFICES ASSUME T # {} PROVE FALSE
    OBVIOUS
  <1>1. PICK k \in T : \A m \in T : k <= m
    <2>1. T \in SUBSET Nat
      OBVIOUS
    <2> HIDE DEF T
    <2> QED BY <2>1, LeastNumber
  <1>2. k # 0 /\ k \in 0..n
    OBVIOUS
  <1>3. k - 1 \notin T
    BY <1>1, <1>2
  <1>4. k - 1 \in P
    BY <1>2, <1>3
  <1> QED BY <1>2, <1>4

\* A set that has the empty sequence and with each sequence those that are one
\* longer has all.
LEMMA SequenceInduction ==
    ASSUME NEW S, NEW P,
           <<>> \in P, \A s \in Seq(S), x \in S : s \in P => Append(s, x) \in P
    PROVE  \A s \in Seq(S) : s \in P
  <1> SUFFICES ASSUME NEW t \in Seq(S) PROVE t \in P
    OBVIOUS
  <1> DEFINE Q == {k \in Nat : \A s \in Seq(S) : Len(s) = k => s \in P}
  <1>1. 0 \in Q
    OBVIOUS
  <1>2. ASSUME NEW k \in 0..Len(t), k # 0, k - 1 \in Q
        PROVE k \in Q
    <2>1. ASSUME NEW s \in Seq(S), Len(s) = k
          PROVE s \in P
      <3>1. s # <<>>
        BY <1>2, <2>1
      <3>2. PICK u \in Seq(S), x \in S : s = Append(u, x)
        BY <3>1, SequenceEmptyOrAppend
      <3>3. Len(u) = k - 1
        BY <2>1, <3>2, AppendProperties
      <3>4. u \in P
        BY <1>2, <3>3
      <3> QED BY <3>2, <3>4
    <2> QED BY <1>2, <2>1
  <1> HIDE DEF Q
  <1>3. \A k \in 0..Len(t) : k \in Q
    <2>1. \A k \in 0..Len(t) : k # 0 /\ k - 1 \in Q => k \in Q
      BY <1>2
    <2>2. Len(t) \in Nat
      OBVIOUS
    <2> QED BY <1>1, <2>1, <2>2, Induction
  <1>4. Len(t) \in Q
    BY <1>3
  <1> QED BY <1>4 DEF Q

\* n steps from a.
Steps(n, a, step, g) ==
    \A i \in 0..n : g[i] = IF i = 0 THEN a ELSE step[<<i, g[i - 1]>>]

\* There is a function that takes n steps.
LEMMA Recursion ==
    ASSUME NEW n \in Nat, NEW S, NEW a \in S, NEW step \in [(1..n) \X S -> S]
    PROVE  \E g \in [0..n -> S] : Steps(n, a, step, g)
  <1> DEFINE P == {k \in 0..n : \E g \in [0..n -> S] : Steps(k, a, step, g)}
  <1>1. 0 \in P
    <2> DEFINE g == [i \in 0..n |-> a]
    <2>1. g \in [0..n -> S]
      OBVIOUS
    <2>2. Steps(0, a, step, g)
      BY DEF Steps
    <2> QED BY <2>1, <2>2
  <1>2. ASSUME NEW k \in 0..n, k # 0, k - 1 \in P
        PROVE k \in P
    <2>1. PICK g \in [0..n -> S] : Steps(k - 1, a, step, g)
      BY <1>2
    <2> DEFINE next == step[<<k, g[k - 1]>>]
               h == [i \in 0..n |-> IF i = k THEN next ELSE g[i]]
    <2>2. next \in S
      <3>1. k \in 1..n /\ g[k - 1] \in S
        BY <1>2
      <3> QED BY <3>1
    <2>3. h \in [0..n -> S]
      BY <2>2
    <2>4. Steps(k, a, step, h)
      <3>1. ASSUME NEW i \in 0..k
            PROVE h[i] = IF i = 0 THEN a ELSE step[<<i, h[i - 1]>>]
        <4>1. i # 0 => h[i - 1] = g[i - 1]
          BY <1>2
        <4>2. CASE i = k
          <5>1. h[i] = step[<<k, g[k - 1]>>]
            BY <4>2
          <5> QED BY <1>2, <4>1, <4>2, <5>1
        <4>3. CASE i # k
          <5>1. i \in 0..(k - 1) /\ h[i] = g[i]
            BY <1>2, <4>3
          <5>2. g[i] = IF i = 0 THEN a ELSE step[<<i, g[i - 1]>>]
            BY <2>1, <5>1 DEF Steps
          <5> QED BY <4>1, <5>1, <5>2
        <4> QED BY <4>2, <4>3
      <3> QED BY <3>1 DEF Steps
    <2> QED BY <2>3, <2>4
  <1> HIDE DEF P
  <1>3. \A k \in 0..n : k \in P
    <2>1. \A k \in 0..n : k # 0 /\ k - 1 \in P => k \in P
      BY <1>2
    <2> QED BY <1>1, <2>1, Induction
  <1>4. n \in P
    BY <1>3
  <1> QED BY <1>4 DEF P

-----------------------------------------------------------------------------
(***************************************************************************)
(* The operators on sequences.                                             *)
(***************************************************************************)

AtStep(s, I, g, i) ==
    IF i = 0 THEN <<>> ELSE IF i \in I THEN Append(g[i - 1], s[i]) ELSE g[i - 1]

\* What At selects, element by element.
LEMMA AtSteps ==
    ASSUME NEW S, NEW s \in Seq(S), NEW I
    PROVE  \E g \in [0..Len(s) -> Seq(S)] :
             /\ At(s, I) = g[Len(s)]
             /\ \A i \in 0..Len(s) : g[i] = AtStep(s, I, g, i)
  <1> DEFINE n == Len(s)
             Eq(f) == f = [i \in 0..n |-> AtStep(s, I, f, i)]
             at == CHOOSE f : Eq(f)
             step == [p \in (1..n) \X Seq(S) |-> IF p[1] \in I THEN Append(p[2], s[p[1]]) ELSE p[2]]
  <1>1. n \in Nat /\ <<>> \in Seq(S)
    OBVIOUS
  <1>2. step \in [(1..n) \X Seq(S) -> Seq(S)]
    <2>1. ASSUME NEW p \in (1..n) \X Seq(S)
          PROVE (IF p[1] \in I THEN Append(p[2], s[p[1]]) ELSE p[2]) \in Seq(S)
      <3>1. s[p[1]] \in S /\ p[2] \in Seq(S)
        BY ElementOfSeq
      <3> QED BY <3>1
    <2> QED BY <2>1
  <1>3. \E f : Eq(f)
    <2> HIDE DEF step
    <2>1. PICK g \in [0..n -> Seq(S)] : Steps(n, <<>>, step, g)
      BY <1>1, <1>2, Recursion
    <2>2. ASSUME NEW i \in 0..n
          PROVE g[i] = AtStep(s, I, g, i)
      <3>1. g[i] = IF i = 0 THEN <<>> ELSE step[<<i, g[i - 1]>>]
        BY <2>1 DEF Steps
      <3>2. CASE i = 0
        BY <3>1, <3>2 DEF AtStep
      <3>3. CASE i # 0
        <4>1. i \in 1..n /\ g[i - 1] \in Seq(S)
          BY <1>1, <2>1, <3>3
        <4>2. step[<<i, g[i - 1]>>] = IF i \in I THEN Append(g[i - 1], s[i]) ELSE g[i - 1]
          BY <4>1 DEF step
        <4> QED BY <3>1, <3>3, <4>2 DEF AtStep
      <3> QED BY <3>2, <3>3
    <2>3. Eq(g)
      BY <2>1, <2>2
    <2> QED BY <2>3
  <1>4. At(s, I) = at[n]
    BY DEF At, AtStep
  <1>5. Eq(at)
    <2> HIDE DEF Eq
    <2> QED BY <1>3
  <1> HIDE DEF at, step
  <1>6. \A i \in 0..n : at[i] = AtStep(s, I, at, i)
    BY <1>5
  <1>7. \A i \in 0..n : at[i] \in Seq(S)
    <2> DEFINE P == {i \in 0..n : at[i] \in Seq(S)}
    <2>1. 0 \in P
      <3>1. 0 \in 0..n
        BY <1>1
      <3>2. at[0] = <<>>
        BY <1>6, <3>1 DEF AtStep
      <3> QED BY <1>1, <3>1, <3>2
    <2>2. ASSUME NEW i \in 0..n, i # 0, i - 1 \in P
          PROVE i \in P
      <3>1. at[i] = IF i \in I THEN Append(at[i - 1], s[i]) ELSE at[i - 1]
        BY <1>6, <2>2 DEF AtStep
      <3>2. s[i] \in S
        BY <1>1, <2>2, ElementOfSeq
      <3>3. at[i - 1] \in Seq(S)
        BY <2>2
      <3>4. at[i] \in Seq(S)
        BY <3>1, <3>2, <3>3
      <3> QED BY <3>4
    <2> HIDE DEF P
    <2>3. \A i \in 0..n : i # 0 /\ i - 1 \in P => i \in P
      BY <2>2
    <2>4. \A i \in 0..n : i \in P
      BY <1>1, <2>1, <2>3, Induction
    <2> QED BY <2>4 DEF P
  <1>8. at \in [0..n -> Seq(S)]
    BY <1>5, <1>7
  <1> QED BY <1>4, <1>6, <1>8

\* What is picked from a sequence is a sequence of the same elements.
LEMMA AtType ==
    ASSUME NEW S, NEW s \in Seq(S), NEW I
    PROVE  At(s, I) \in Seq(S)
  <1>1. Len(s) \in Nat
    OBVIOUS
  <1> QED BY <1>1, AtSteps

\* Nothing is picked from the empty sequence.
LEMMA AtEmpty ==
    ASSUME NEW I
    PROVE  At(<<>>, I) = <<>>
  <1>1. ASSUME NEW S, NEW s \in Seq(S), s = <<>>
        PROVE At(s, I) = <<>>
    <2>1. Len(s) = 0 /\ 0 \in 0..Len(s)
      BY <1>1
    <2>2. PICK g \in [0..Len(s) -> Seq(S)] :
            At(s, I) = g[Len(s)] /\ \A i \in 0..Len(s) : g[i] = AtStep(s, I, g, i)
      BY AtSteps
    <2>3. g[0] = AtStep(s, I, g, 0)
      BY <2>1, <2>2
    <2> QED BY <2>1, <2>2, <2>3 DEF AtStep
  <1>2. <<>> \in Seq(Nat)
    OBVIOUS
  <1> QED BY <1>1, <1>2, Zenon

\* Only the places the sequence has matter, and one more place comes last.
LEMMA AtAppend ==
    ASSUME NEW S, NEW s \in Seq(S), NEW x \in S, NEW I, NEW J, I \cap DOMAIN s = J \cap DOMAIN s
    PROVE  At(Append(s, x), I) =
             IF Len(s) + 1 \in I THEN Append(At(s, J), x) ELSE At(s, J)
  <1> DEFINE n == Len(s)
             t == Append(s, x)
  <1>1. n \in Nat /\ t \in Seq(S) /\ Len(t) = n + 1 /\ t[n + 1] = x
    OBVIOUS
  <1>2. \A i \in 1..n : t[i] = s[i] /\ (i \in I <=> i \in J)
    OBVIOUS
  <1> HIDE DEF t
  <1>3. PICK g \in [0..n -> Seq(S)] : /\ At(s, J) = g[n]
                                      /\ \A i \in 0..n : g[i] = AtStep(s, J, g, i)
    BY AtSteps
  <1>4. PICK h \in [0..(n + 1) -> Seq(S)] : /\ At(t, I) = h[n + 1]
                                           /\ \A i \in 0..(n + 1) : h[i] = AtStep(t, I, h, i)
    BY <1>1, AtSteps
  <1>5. \A i \in 0..n : h[i] = g[i]
    <2> DEFINE P == {i \in 0..n : h[i] = g[i]}
    <2>1. 0 \in P
      BY <1>1, <1>3, <1>4 DEF AtStep
    <2>2. ASSUME NEW i \in 0..n, i # 0, i - 1 \in P
          PROVE i \in P
      <3>1. i \in 0..(n + 1) /\ i \in 1..n
        BY <1>1, <2>2
      <3>2. h[i] = AtStep(t, I, h, i) /\ g[i] = AtStep(s, J, g, i)
        BY <1>3, <1>4, <3>1
      <3>3. h[i - 1] = g[i - 1]
        BY <2>2
      <3>4. /\ h[i] = IF i \in I THEN Append(h[i - 1], t[i]) ELSE h[i - 1]
            /\ g[i] = IF i \in J THEN Append(g[i - 1], s[i]) ELSE g[i - 1]
        BY <2>2, <3>2 DEF AtStep
      <3>5. t[i] = s[i] /\ (i \in I <=> i \in J)
        BY <1>2, <3>1
      <3>6. h[i] = g[i]
        BY <3>3, <3>4, <3>5, Zenon
      <3> QED BY <3>6
    <2> HIDE DEF P
    <2>3. \A i \in 0..n : i # 0 /\ i - 1 \in P => i \in P
      BY <2>2
    <2>4. \A i \in 0..n : i \in P
      BY <1>1, <2>1, <2>3, Induction
    <2> QED BY <2>4 DEF P
  <1>6. h[n + 1] = IF n + 1 \in I THEN Append(h[n], t[n + 1]) ELSE h[n]
    <2>1. n + 1 \in 0..(n + 1) /\ n + 1 # 0 /\ n + 1 - 1 = n
      BY <1>1
    <2>2. h[n + 1] = AtStep(t, I, h, n + 1)
      BY <1>4, <2>1
    <2> QED BY <2>1, <2>2 DEF AtStep
  <1>7. h[n] = g[n]
    BY <1>1, <1>5
  <1> QED BY <1>1, <1>3, <1>4, <1>6, <1>7 DEF t

TotalStep(s, g, i) == IF i = 0 THEN 0 ELSE g[i - 1] + s[i]

\* A total is the last of its partial sums.
LEMMA TotalSteps ==
    ASSUME NEW s \in Seq(Int)
    PROVE  \E g \in [0..Len(s) -> Int] :
             /\ Total(s) = g[Len(s)]
             /\ \A i \in 0..Len(s) : g[i] = TotalStep(s, g, i)
  <1> DEFINE n == Len(s)
             Eq(f) == f = [i \in 0..n |-> TotalStep(s, f, i)]
             sum == CHOOSE f : Eq(f)
             step == [p \in (1..n) \X Int |-> p[2] + s[p[1]]]
  <1>1. n \in Nat /\ 0 \in Int /\ \A i \in 1..n : s[i] \in Int
    OBVIOUS
  <1>2. step \in [(1..n) \X Int -> Int]
    BY <1>1
  <1>3. \E f : Eq(f)
    <2> HIDE DEF step
    <2> HIDE DEF n
    <2>1. PICK g \in [0..n -> Int] : Steps(n, 0, step, g)
      BY <1>1, <1>2, Recursion, Zenon
    <2>2. ASSUME NEW i \in 0..n
          PROVE g[i] = TotalStep(s, g, i)
      <3>1. g[i] = IF i = 0 THEN 0 ELSE step[<<i, g[i - 1]>>]
        BY <2>1 DEF Steps
      <3>2. CASE i = 0
        BY <3>1, <3>2 DEF TotalStep
      <3>3. CASE i # 0
        <4>1. i \in 1..n /\ g[i - 1] \in Int
          BY <1>1, <2>1, <3>3
        <4>2. step[<<i, g[i - 1]>>] = g[i - 1] + s[i]
          BY <4>1 DEF step
        <4> QED BY <3>1, <3>3, <4>2 DEF TotalStep
      <3> QED BY <3>2, <3>3
    <2>3. Eq(g)
      BY <2>1, <2>2
    <2> QED BY <2>3
  <1>4. Total(s) = sum[n]
    BY DEF Total, TotalStep
  <1>5. Eq(sum)
    <2> HIDE DEF Eq
    <2> QED BY <1>3
  <1> HIDE DEF sum, step
  <1>6. \A i \in 0..n : sum[i] = TotalStep(s, sum, i)
    BY <1>5
  <1>7. \A i \in 0..n : sum[i] \in Int
    <2> DEFINE P == {i \in 0..n : sum[i] \in Int}
    <2>1. 0 \in P
      <3>1. 0 \in 0..n
        BY <1>1
      <3>2. sum[0] = 0
        BY <1>6, <3>1 DEF TotalStep
      <3> QED BY <3>1, <3>2
    <2>2. ASSUME NEW i \in 0..n, i # 0, i - 1 \in P
          PROVE i \in P
      <3>1. sum[i] = sum[i - 1] + s[i]
        BY <1>6, <2>2 DEF TotalStep
      <3>2. s[i] \in Int /\ sum[i - 1] \in Int
        BY <1>1, <2>2
      <3>3. sum[i] \in Int
        BY <3>1, <3>2
      <3> QED BY <3>3
    <2> HIDE DEF P
    <2>3. \A i \in 0..n : i # 0 /\ i - 1 \in P => i \in P
      BY <2>2
    <2>4. \A i \in 0..n : i \in P
      BY <1>1, <2>1, <2>3, Induction
    <2> QED BY <2>4 DEF P
  <1>8. sum \in [0..n -> Int]
    BY <1>5, <1>7
  <1> QED BY <1>4, <1>6, <1>8

\* Totals of integers are integers.
LEMMA TotalType ==
    ASSUME NEW s \in Seq(Int)
    PROVE  Total(s) \in Int
  <1>1. Len(s) \in Nat
    OBVIOUS
  <1> QED BY <1>1, TotalSteps

\* The total of nothing.
LEMMA TotalEmpty == Total(<<>>) = 0
  <1>1. ASSUME NEW s \in Seq(Int), s = <<>>
        PROVE Total(s) = 0
    <2>1. Len(s) = 0 /\ 0 \in 0..Len(s)
      BY <1>1
    <2>2. PICK g \in [0..Len(s) -> Int] :
            Total(s) = g[Len(s)] /\ \A i \in 0..Len(s) : g[i] = TotalStep(s, g, i)
      BY TotalSteps
    <2>3. g[0] = TotalStep(s, g, 0)
      BY <2>1, <2>2
    <2> QED BY <2>1, <2>2, <2>3 DEF TotalStep
  <1>2. <<>> \in Seq(Int)
    OBVIOUS
  <1> QED BY <1>1, <1>2, Zenon

\* One element more adds that element.
LEMMA TotalAppend ==
    ASSUME NEW s \in Seq(Int), NEW x \in Int
    PROVE  Total(Append(s, x)) = Total(s) + x
  <1> DEFINE n == Len(s)
             t == Append(s, x)
  <1>1. n \in Nat /\ t \in Seq(Int) /\ Len(t) = n + 1 /\ t[n + 1] = x
    OBVIOUS
  <1>2. \A i \in 1..n : t[i] = s[i]
    OBVIOUS
  <1> HIDE DEF t
  <1>3. PICK g \in [0..n -> Int] : /\ Total(s) = g[n]
                                   /\ \A i \in 0..n : g[i] = TotalStep(s, g, i)
    BY TotalSteps
  <1>4. PICK h \in [0..(n + 1) -> Int] : /\ Total(t) = h[n + 1]
                                         /\ \A i \in 0..(n + 1) : h[i] = TotalStep(t, h, i)
    BY <1>1, TotalSteps
  <1>5. \A i \in 0..n : h[i] = g[i]
    <2> DEFINE P == {i \in 0..n : h[i] = g[i]}
    <2>1. 0 \in P
      BY <1>1, <1>3, <1>4 DEF TotalStep
    <2>2. ASSUME NEW i \in 0..n, i # 0, i - 1 \in P
          PROVE i \in P
      <3>1. i \in 0..(n + 1) /\ i \in 1..n
        BY <1>1, <2>2
      <3>2. h[i] = TotalStep(t, h, i) /\ g[i] = TotalStep(s, g, i)
        BY <1>3, <1>4, <3>1
      <3>3. h[i - 1] = g[i - 1] /\ t[i] = s[i]
        BY <1>2, <2>2, <3>1
      <3>4. h[i] = g[i]
        BY <2>2, <3>2, <3>3, Zenon DEF TotalStep
      <3> QED BY <3>4
    <2> HIDE DEF P
    <2>3. \A i \in 0..n : i # 0 /\ i - 1 \in P => i \in P
      BY <2>2
    <2>4. \A i \in 0..n : i \in P
      BY <1>1, <2>1, <2>3, Induction
    <2> QED BY <2>4 DEF P
  <1>6. h[n + 1] = h[n] + x
    <2>1. n + 1 \in 0..(n + 1) /\ n + 1 # 0 /\ n + 1 - 1 = n
      BY <1>1
    <2>2. h[n + 1] = TotalStep(t, h, n + 1)
      BY <1>4, <2>1
    <2> QED BY <1>1, <2>1, <2>2 DEF TotalStep
  <1>7. h[n] = g[n]
    BY <1>1, <1>5
  <1> QED BY <1>3, <1>4, <1>6, <1>7 DEF t

FlattenStep(ss, g, i) == IF i = 1 THEN ss[i] ELSE g[i - 1] \o ss[i]

\* A flattened sequence is the last of its partial concatenations.
LEMMA FlattenSteps ==
    ASSUME NEW S, NEW ss \in Seq(Seq(S)), Len(ss) # 0
    PROVE  \E g \in [1..Len(ss) -> Seq(S)] :
             /\ FlattenSeq(ss) = g[Len(ss)]
             /\ \A i \in 1..Len(ss) : g[i] = FlattenStep(ss, g, i)
  <1> DEFINE n == Len(ss)
             Eq(f) == f = [i \in 1..n |-> FlattenStep(ss, f, i)]
             flat == CHOOSE f : Eq(f)
             step == [p \in (1..n) \X Seq(S) |-> p[2] \o ss[p[1]]]
  <1>1. n \in Nat /\ <<>> \in Seq(S) /\ \A i \in 1..n : ss[i] \in Seq(S)
    BY ElementOfSeq
  <1>2. step \in [(1..n) \X Seq(S) -> Seq(S)]
    BY <1>1
  <1>3. \E f : Eq(f)
    <2> HIDE DEF step
    <2>1. PICK g \in [0..n -> Seq(S)] : Steps(n, <<>>, step, g)
      BY <1>1, <1>2, Recursion
    <2> DEFINE h == [i \in 1..n |-> g[i]]
    <2>2. ASSUME NEW i \in 1..n
          PROVE h[i] = FlattenStep(ss, h, i)
      <3>1. /\ i \in 0..n /\ i # 0
            /\ g[i - 1] \in Seq(S) /\ ss[i] \in Seq(S)
        <4>1. i \in 0..n /\ i - 1 \in 0..n /\ i # 0
          BY <1>1
        <4>2. g[i - 1] \in Seq(S)
          BY <4>1
        <4> QED BY <1>1, <4>1, <4>2
      <3>2. g[i] = step[<<i, g[i - 1]>>]
        BY <2>1, <3>1 DEF Steps
      <3>3. step[<<i, g[i - 1]>>] = g[i - 1] \o ss[i]
        BY <3>1 DEF step
      <3>4. h[i] = g[i - 1] \o ss[i]
        BY <3>2, <3>3
      <3>5. CASE i = 1
        <4>1. 0 \in 0..n /\ i - 1 = 0
          BY <1>1, <3>5
        <4>2. g[0] = <<>>
          BY <2>1, <4>1, Zenon DEF Steps
        <4>3. <<>> \o ss[i] = ss[i]
          BY <3>1, ConcatEmptySeq
        <4>4. h[i] = ss[i]
          BY <3>4, <4>1, <4>2, <4>3, Zenon
        <4> QED BY <3>5, <4>4, Zenon DEF FlattenStep
      <3>6. CASE i # 1
        <4>1. h[i - 1] = g[i - 1]
          BY <1>1, <3>6
        <4> QED BY <3>4, <3>6, <4>1 DEF FlattenStep
      <3> QED BY <3>5, <3>6
    <2>3. Eq(h)
      BY <2>2
    <2> QED BY <2>3
  <1>4. FlattenSeq(ss) = flat[n]
    BY DEF FlattenSeq, FlattenStep
  <1>5. Eq(flat)
    <2> HIDE DEF Eq
    <2> QED BY <1>3
  <1> HIDE DEF flat, step
  <1>6. \A i \in 1..n : flat[i] = FlattenStep(ss, flat, i)
    BY <1>5
  <1>7. \A i \in 1..n : flat[i] \in Seq(S)
    <2> DEFINE P == {0} \cup {i \in 1..n : flat[i] \in Seq(S)}
    <2>1. 0 \in P
      OBVIOUS
    <2>2. ASSUME NEW i \in 0..n, i # 0, i - 1 \in P
          PROVE i \in P
      <3>1. i \in 1..n /\ ss[i] \in Seq(S)
        BY <1>1, <2>2
      <3>2. flat[i] = IF i = 1 THEN ss[i] ELSE flat[i - 1] \o ss[i]
        BY <1>6, <3>1 DEF FlattenStep
      <3>3. i # 1 => flat[i - 1] \in Seq(S)
        BY <2>2, <3>1
      <3>4. flat[i] \in Seq(S)
        BY <3>1, <3>2, <3>3
      <3> QED BY <3>1, <3>4
    <2> HIDE DEF P
    <2>3. \A i \in 0..n : i # 0 /\ i - 1 \in P => i \in P
      BY <2>2
    <2>4. \A i \in 0..n : i \in P
      BY <1>1, <2>1, <2>3, Induction
    <2> QED BY <1>1, <2>4 DEF P
  <1>8. flat \in [1..n -> Seq(S)]
    BY <1>5, <1>7
  <1> QED BY <1>4, <1>6, <1>8

\* Nothing, flattened.
LEMMA FlattenEmpty == FlattenSeq(<<>>) = <<>>
  BY DEF FlattenSeq

\* Flattening keeps the elements.
LEMMA FlattenType ==
    ASSUME NEW S, NEW ss \in Seq(Seq(S))
    PROVE  FlattenSeq(ss) \in Seq(S)
  <1>1. CASE Len(ss) = 0
    <2>1. ss = <<>> /\ <<>> \in Seq(S)
      BY <1>1
    <2> QED BY <2>1, FlattenEmpty, Zenon
  <1>2. CASE Len(ss) # 0
    <2>1. Len(ss) \in 1..Len(ss)
      BY <1>2
    <2>2. PICK g \in [1..Len(ss) -> Seq(S)] : FlattenSeq(ss) = g[Len(ss)]
      BY <1>2, FlattenSteps
    <2> QED BY <2>1, <2>2
  <1> QED BY <1>1, <1>2

\* One sequence more is appended to the flattened ones.
LEMMA FlattenAppend ==
    ASSUME NEW S, NEW ss \in Seq(Seq(S)), NEW x \in Seq(S)
    PROVE  FlattenSeq(Append(ss, x)) = FlattenSeq(ss) \o x
  <1> DEFINE n == Len(ss)
             t == Append(ss, x)
  <1>1. n \in Nat /\ t \in Seq(Seq(S)) /\ Len(t) = n + 1 /\ t[n + 1] = x
    OBVIOUS
  <1>2. \A i \in 1..n : t[i] = ss[i]
    OBVIOUS
  <1> HIDE DEF t
  <1>3. PICK h \in [1..(n + 1) -> Seq(S)] : /\ FlattenSeq(t) = h[n + 1]
                                            /\ \A i \in 1..(n + 1) : h[i] = FlattenStep(t, h, i)
    BY <1>1, FlattenSteps
  <1>4. h[n + 1] = FlattenStep(t, h, n + 1)
    BY <1>1, <1>3
  <1>5. CASE n = 0
    <2>1. ss = <<>>
      BY <1>5
    <2>2. <<>> \o x = x
      BY ConcatEmptySeq
    <2>3. h[n + 1] = x
      BY <1>1, <1>4, <1>5 DEF FlattenStep
    <2> QED BY <1>3, <2>1, <2>2, <2>3, FlattenEmpty DEF t
  <1>6. CASE n # 0
    <2>1. PICK g \in [1..n -> Seq(S)] : /\ FlattenSeq(ss) = g[n]
                                        /\ \A i \in 1..n : g[i] = FlattenStep(ss, g, i)
      BY <1>6, FlattenSteps
    <2>2. \A i \in 1..n : h[i] = g[i]
      <3> DEFINE P == {0} \cup {i \in 1..n : h[i] = g[i]}
      <3>1. 0 \in P
        OBVIOUS
      <3>2. ASSUME NEW i \in 0..n, i # 0, i - 1 \in P
            PROVE i \in P
        <4>1. i \in 1..(n + 1) /\ i \in 1..n
          BY <1>1, <3>2
        <4>2. h[i] = FlattenStep(t, h, i) /\ g[i] = FlattenStep(ss, g, i)
          BY <1>3, <2>1, <4>1
        <4>3. (i # 1 => h[i - 1] = g[i - 1]) /\ t[i] = ss[i]
          BY <1>2, <3>2, <4>1
        <4>4. h[i] = g[i]
          BY <4>2, <4>3, Zenon DEF FlattenStep
        <4> QED BY <4>1, <4>4
      <3> HIDE DEF P
      <3>3. \A i \in 0..n : i # 0 /\ i - 1 \in P => i \in P
        BY <3>2
      <3>4. \A i \in 0..n : i \in P
        BY <1>1, <3>1, <3>3, Induction
      <3> SUFFICES ASSUME NEW i \in 1..n PROVE h[i] = g[i]
        OBVIOUS
      <3>5. i \in P /\ i # 0
        BY <1>1, <3>4
      <3> QED BY <3>5 DEF P
    <2>3. h[n] = g[n]
      BY <1>1, <1>6, <2>2
    <2>4. n + 1 # 1 /\ n + 1 - 1 = n
      BY <1>1, <1>6
    <2>5. h[n + 1] = h[n] \o x
      <3> DEFINE m == n + 1
      <3>1. m # 1 /\ m - 1 = n /\ h[m] = FlattenStep(t, h, m) /\ t[m] = x
        BY <1>1, <1>4, <2>4
      <3> HIDE DEF m, n
      <3>2. h[m] = h[n] \o x
        BY <3>1 DEF FlattenStep
      <3> QED BY <3>2 DEF m
    <2> QED BY <1>3, <2>1, <2>3, <2>5 DEF t
  <1> QED BY <1>5, <1>6

\* Sequences from functions, and from what they contain.
LEMMA FunctionIsSeq ==
    ASSUME NEW n \in Nat, NEW S, NEW f \in [1..n -> S]
    PROVE  f \in Seq(S) /\ Len(f) = n
  BY SeqDef

\* A sequence is one over any set with its elements.
LEMMA SequenceOver ==
    ASSUME NEW s, Sequence(s), NEW S, \A i \in DOMAIN s : s[i] \in S
    PROVE  s \in Seq(S)
  <1>1. s \in Seq(Range(s))
    BY DEF Sequence
  <1>2. Range(s) \subseteq S
    BY DEF Range
  <1> QED BY <1>1, <1>2, SeqMonotonic

\* Appending to the second part appends to the whole.
LEMMA ConcatAppend ==
    ASSUME NEW S, NEW s \in Seq(S), NEW t \in Seq(S), NEW x \in S
    PROVE  s \o Append(t, x) = Append(s \o t, x)
  <1>1. /\ s \o Append(t, x) \in Seq(S)
        /\ Len(s \o Append(t, x)) = Len(s) + Len(t) + 1
    BY AppendProperties, ConcatProperties
  <1>2. /\ Append(s \o t, x) \in Seq(S)
        /\ Len(Append(s \o t, x)) = Len(s) + Len(t) + 1
    BY AppendProperties, ConcatProperties
  <1>3. ASSUME NEW i \in 1..(Len(s) + Len(t) + 1)
        PROVE (s \o Append(t, x))[i] = Append(s \o t, x)[i]
    OBVIOUS
  <1> QED BY <1>1, <1>2, <1>3, SeqEqual

\* Two sets with the same places select the same.
LEMMA AtSame ==
    ASSUME NEW S, NEW s \in Seq(S), NEW I, NEW J, I \cap DOMAIN s = J \cap DOMAIN s
    PROVE  At(s, I) = At(s, J)
  <1> DEFINE P == {u \in Seq(S) : \A A, B : A \cap DOMAIN u = B \cap DOMAIN u => At(u, A) = At(u, B)}
  <1>1. <<>> \in P
    BY AtEmpty
  <1>2. ASSUME NEW u \in Seq(S), NEW x \in S, u \in P
        PROVE Append(u, x) \in P
    <2>1. ASSUME NEW A, NEW B, A \cap DOMAIN Append(u, x) = B \cap DOMAIN Append(u, x)
          PROVE At(Append(u, x), A) = At(Append(u, x), B)
      <3>1. DOMAIN Append(u, x) = 1..(Len(u) + 1) /\ DOMAIN u = 1..Len(u)
        OBVIOUS
      <3>2. A \cap DOMAIN u = B \cap DOMAIN u /\ (Len(u) + 1 \in A <=> Len(u) + 1 \in B)
        BY <2>1, <3>1
      <3>3. At(Append(u, x), A) = IF Len(u) + 1 \in A THEN Append(At(u, B), x) ELSE At(u, B)
        BY <3>2, AtAppend
      <3>4. At(Append(u, x), B) = IF Len(u) + 1 \in B THEN Append(At(u, B), x) ELSE At(u, B)
        BY AtAppend
      <3> QED BY <3>2, <3>3, <3>4
    <2>2. Append(u, x) \in Seq(S)
      OBVIOUS
    <2> QED BY <2>1, <2>2
  <1> HIDE DEF P
  <1>3. \A u \in Seq(S), x \in S : u \in P => Append(u, x) \in P
    BY <1>2
  <1>4. \A u \in Seq(S) : u \in P
    BY <1>1, <1>3, SequenceInduction
  <1>5. s \in P
    BY <1>4
  <1> QED BY <1>5 DEF P

\* No place, no element.
LEMMA AtNone ==
    ASSUME NEW S, NEW s \in Seq(S), NEW I, I \cap DOMAIN s = {}
    PROVE  At(s, I) = <<>>
  <1> DEFINE P == {u \in Seq(S) : At(u, {}) = <<>>}
  <1>1. <<>> \in P
    BY AtEmpty
  <1>2. ASSUME NEW u \in Seq(S), NEW x \in S, u \in P
        PROVE Append(u, x) \in P
    <2>1. At(Append(u, x), {}) = At(u, {})
      BY AtAppend
    <2>2. Append(u, x) \in Seq(S)
      OBVIOUS
    <2> QED BY <1>2, <2>1, <2>2
  <1> HIDE DEF P
  <1>3. \A u \in Seq(S), x \in S : u \in P => Append(u, x) \in P
    BY <1>2
  <1>4. \A u \in Seq(S) : u \in P
    BY <1>1, <1>3, SequenceInduction
  <1>5. At(s, {}) = <<>>
    BY <1>4 DEF P
  <1>6. At(s, I) = At(s, {})
    BY AtSame
  <1> QED BY <1>5, <1>6

\* All places, all elements.
LEMMA AtAll ==
    ASSUME NEW S, NEW s \in Seq(S), NEW I, DOMAIN s \subseteq I
    PROVE  At(s, I) = s
  <1> DEFINE P == {u \in Seq(S) : At(u, DOMAIN u) = u}
  <1>1. <<>> \in P
    BY AtEmpty
  <1>2. ASSUME NEW u \in Seq(S), NEW x \in S, u \in P
        PROVE Append(u, x) \in P
    <2>1. DOMAIN Append(u, x) = 1..(Len(u) + 1) /\ DOMAIN u = 1..Len(u) /\ Len(u) \in Nat
      OBVIOUS
    <2>2. DOMAIN Append(u, x) \cap DOMAIN u = DOMAIN u \cap DOMAIN u /\ Len(u) + 1 \in DOMAIN Append(u, x)
      BY <2>1
    <2> DEFINE D == DOMAIN Append(u, x)
    <2> HIDE DEF D
    <2>3. At(Append(u, x), D) = Append(At(u, DOMAIN u), x)
      BY <2>2, AtAppend DEF D
    <2>4. Append(u, x) \in Seq(S)
      OBVIOUS
    <2> QED BY <1>2, <2>3, <2>4 DEF D
  <1> HIDE DEF P
  <1>3. \A u \in Seq(S), x \in S : u \in P => Append(u, x) \in P
    BY <1>2
  <1>4. \A u \in Seq(S) : u \in P
    BY <1>1, <1>3, SequenceInduction
  <1>5. At(s, DOMAIN s) = s
    BY <1>4 DEF P
  <1>6. At(s, I) = At(s, DOMAIN s)
    BY AtSame
  <1> QED BY <1>5, <1>6

\* Selection from what is one after the other.
LEMMA AtConcat ==
    ASSUME NEW S, NEW s \in Seq(S), NEW t \in Seq(S), NEW I,
           NEW J, \A i \in DOMAIN t : i \in J <=> Len(s) + i \in I
    PROVE  At(s \o t, I) = At(s, I) \o At(t, J)
  <1> DEFINE Rest(u) == {i \in DOMAIN u : Len(s) + i \in I}
             P == {u \in Seq(S) : At(s \o u, I) = At(s, I) \o At(u, Rest(u))}
  <1>1. <<>> \in P
    <2>1. At(s, I) \in Seq(S) /\ <<>> \in Seq(S)
      BY AtType
    <2>2. s \o <<>> = s /\ At(s, I) \o <<>> = At(s, I)
      BY <2>1, ConcatEmptySeq
    <2>3. At(<<>>, Rest(<<>>)) = <<>>
      BY AtEmpty
    <2> QED BY <2>1, <2>2, <2>3
  <1>2. ASSUME NEW u \in Seq(S), NEW x \in S, u \in P
        PROVE Append(u, x) \in P
    <2> DEFINE v == Append(u, x)
               m == Len(s) + Len(u) + 1
    <2>1. v \in Seq(S) /\ s \o u \in Seq(S) /\ Len(s \o u) = Len(s) + Len(u)
      BY AppendProperties, ConcatProperties
    <2>2. At(s \o v, I) = IF m \in I THEN Append(At(s \o u, I), x) ELSE At(s \o u, I)
      <3>1. s \o v = Append(s \o u, x)
        BY ConcatAppend
      <3>2. ASSUME NEW w \in Seq(S), Len(w) + 1 = m
            PROVE At(Append(w, x), I) = IF m \in I THEN Append(At(w, I), x) ELSE At(w, I)
        BY <3>2, AtAppend
      <3>3. Len(s \o u) + 1 = m
        BY <2>1
      <3> HIDE DEF m
      <3> QED BY <2>1, <3>1, <3>2, <3>3
    <2>3. At(v, Rest(v)) = IF m \in I THEN Append(At(u, Rest(u)), x) ELSE At(u, Rest(u))
      <3>1. DOMAIN v = 1..(Len(u) + 1) /\ DOMAIN u = 1..Len(u) /\ Len(u) \in Nat /\ Len(s) \in Nat
        OBVIOUS
      <3>2. Rest(v) \cap DOMAIN u = Rest(u) \cap DOMAIN u
        BY <3>1
      <3>3. Len(u) + 1 \in Rest(v) <=> m \in I
        BY <3>1
      <3> HIDE DEF Rest
      <3>4. At(v, Rest(v)) = IF Len(u) + 1 \in Rest(v) THEN Append(At(u, Rest(u)), x) ELSE At(u, Rest(u))
        BY <3>2, AtAppend
      <3> QED BY <3>3, <3>4
    <2> HIDE DEF m, v, Rest
    <2>4. At(s \o u, I) = At(s, I) \o At(u, Rest(u))
      BY <1>2 DEF Rest
    <2>5. At(s, I) \in Seq(S) /\ At(u, Rest(u)) \in Seq(S)
      BY AtType
    <2>6. At(s, I) \o Append(At(u, Rest(u)), x) = Append(At(s, I) \o At(u, Rest(u)), x)
      BY <2>5, ConcatAppend
    <2>7. At(s \o v, I) = At(s, I) \o At(v, Rest(v))
      BY <2>2, <2>3, <2>4, <2>6
    <2> QED BY <2>1, <2>7 DEF v, Rest
  <1> HIDE DEF P
  <1>3. \A u \in Seq(S), x \in S : u \in P => Append(u, x) \in P
    BY <1>2
  <1>4. \A u \in Seq(S) : u \in P
    BY <1>1, <1>3, SequenceInduction
  <1>5. t \in P
    BY <1>4
  <1>6. At(t, Rest(t)) = At(t, J)
    <2>1. Rest(t) \cap DOMAIN t = J \cap DOMAIN t
      OBVIOUS
    <2> HIDE DEF Rest
    <2> QED BY <2>1, AtSame
  <1> QED BY <1>5, <1>6 DEF P

-----------------------------------------------------------------------------
(***************************************************************************)
(* Heights of rows, and pages.                                             *)
(***************************************************************************)

\* A text takes some number of lines.
LEMMA LineCountType ==
    ASSUME NEW text, IsText(text), NEW perLine \in Nat \ {0}
    PROVE  EstimatedLineCount(text, perLine) \in Int
  <1> DEFINE ps == text.paragraphs
             count(p) == Larger(1, CeilDiv(SumOver(Estimate, p), 200 * perLine))
             counts == [i \in DOMAIN ps |-> count(ps[i])]
  <1>1. ASSUME NEW p, Sequence(p)
        PROVE SumOver(Estimate, p) \in Int
    <2> DEFINE widths == [i \in DOMAIN p |-> Estimate(p[i])]
    <2>1. Len(p) \in Nat /\ DOMAIN p = 1..Len(p)
      BY <1>1 DEF Sequence
    <2>2. widths \in [1..Len(p) -> Int]
      BY <2>1 DEF Estimate
    <2>3. widths \in Seq(Int)
      <3> HIDE DEF widths
      <3> QED BY <2>1, <2>2, FunctionIsSeq
    <2>4. SumOver(Estimate, p) = Total(widths)
      BY DEF SumOver
    <2> HIDE DEF widths
    <2> QED BY <2>3, <2>4, TotalType
  <1>2. ASSUME NEW n \in Int
        PROVE Larger(1, CeilDiv(n, 200 * perLine)) \in Int
    <2> DEFINE m == 200 * perLine
    <2>1. m \in Nat \ {0}
      OBVIOUS
    <2> HIDE DEF m
    <2>2. CeilDiv(n, m) \in Int
      BY <2>1 DEF CeilDiv
    <2> QED BY <2>2 DEF Larger, m
  <1>3. ps = <<>> => EstimatedLineCount(text, perLine) = 1
    BY DEF EstimatedLineCount
  <1>4. ps # <<>> => EstimatedLineCount(text, perLine) = Total(counts)
    BY DEF EstimatedLineCount, SumOver
  <1>5. Len(ps) \in Nat /\ DOMAIN ps = 1..Len(ps)
    BY DEF IsText, Sequence
  <1>6. counts \in [1..Len(ps) -> Int]
    <2>1. ASSUME NEW i \in DOMAIN ps
          PROVE count(ps[i]) \in Int
      <3>1. SumOver(Estimate, ps[i]) \in Int
        BY <1>1 DEF IsText
      <3> QED BY <1>2, <3>1
    <2> HIDE DEF count
    <2> QED BY <1>5, <2>1
  <1> HIDE DEF counts
  <1>7. Total(counts) \in Int
    BY <1>5, <1>6, FunctionIsSeq, TotalType
  <1> QED BY <1>3, <1>4, <1>7

\* pdfItemRowHeight is at least 30.
LEMMA ItemRowHeight ==
    ASSUME NEW l, IsText(l.name), IsText(l.note)
    PROVE  PdfItemRowHeight(l) \in Nat /\ PdfItemRowHeight(l) >= 30
  <1>1. EstimatedLineCount(l.name, 18) \in Int /\ EstimatedLineCount(l.note, 32) \in Int
    BY LineCountType
  <1> QED BY <1>1 DEF PdfItemRowHeight, Larger

Placements(R) == [placed : Seq([row : R, page : Int, top : Int]), page : Int, y : Int]

\* A row on a page.
Entry(row, page, top) == [row |-> row, page |-> page, top |-> top]

StartOf(page) == [placed |-> <<>>, page |-> page, y |-> Top]

LaidStep(page, rows, g, i) == IF i = 0 THEN StartOf(page) ELSE Placed(g[i - 1], rows[i])

\* Placing a row adds one entry, that of the row.
LEMMA PlacedType ==
    ASSUME NEW R, \A r \in R : r.height \in Int, NEW s \in Placements(R), NEW row \in R
    PROVE  /\ Placed(s, row) \in Placements(R)
           /\ \E page \in Int, top \in Int :
                Placed(s, row).placed = Append(s.placed, Entry(row, page, top))
  <1>1. ASSUME NEW page \in Int, NEW top \in Int
        PROVE /\ Drawn(s, row, page, top) \in Placements(R)
              /\ Drawn(s, row, page, top).placed = Append(s.placed, Entry(row, page, top))
    <2> DEFINE entry == Entry(row, page, top)
    <2>1. entry \in [row : R, page : Int, top : Int] /\ s.placed \in Seq([row : R, page : Int, top : Int])
      BY DEF Placements, Entry
    <2> HIDE DEF entry
    <2>2. Append(s.placed, entry) \in Seq([row : R, page : Int, top : Int])
      BY <2>1
    <2>3. top - row.height \in Int
      OBVIOUS
    <2> QED BY <2>2, <2>3 DEF Drawn, Placements, entry, Entry
  <1>2. s.page \in Int /\ s.y \in Int /\ s.page + 1 \in Int /\ Top \in Int
    BY DEF Placements, Top
  <1>3. CASE s.y - row.height < Bottom
    BY <1>1, <1>2, <1>3 DEF Placed
  <1>4. CASE ~(s.y - row.height < Bottom)
    BY <1>1, <1>2, <1>4 DEF Placed
  <1> QED BY <1>3, <1>4

\* What Laid places, row by row.
LEMMA LaidSteps ==
    ASSUME NEW R, \A r \in R : r.height \in Int, NEW rows \in Seq(R), NEW page \in Int
    PROVE  \E g \in [0..Len(rows) -> Placements(R)] :
             /\ Laid(page, rows) = g[Len(rows)]
             /\ \A i \in 0..Len(rows) : g[i] = LaidStep(page, rows, g, i)
  <1> DEFINE n == Len(rows)
             Eq(f) == f = [i \in 0..n |-> LaidStep(page, rows, f, i)]
             at == CHOOSE f : Eq(f)
             step == [p \in (1..n) \X Placements(R) |-> Placed(p[2], rows[p[1]])]
  <1>1. n \in Nat /\ StartOf(page) \in Placements(R) /\ \A i \in 1..n : rows[i] \in R
    BY ElementOfSeq DEF StartOf, Placements, Top
  <1>2. step \in [(1..n) \X Placements(R) -> Placements(R)]
    BY <1>1, PlacedType
  <1>3. \E f : Eq(f)
    <2> HIDE DEF step
    <2>1. PICK g \in [0..n -> Placements(R)] : Steps(n, StartOf(page), step, g)
      BY <1>1, <1>2, Recursion
    <2>2. ASSUME NEW i \in 0..n
          PROVE g[i] = LaidStep(page, rows, g, i)
      <3>1. g[i] = IF i = 0 THEN StartOf(page) ELSE step[<<i, g[i - 1]>>]
        BY <2>1 DEF Steps
      <3>2. CASE i = 0
        BY <3>1, <3>2 DEF LaidStep
      <3>3. CASE i # 0
        <4>1. i \in 1..n /\ g[i - 1] \in Placements(R)
          BY <1>1, <2>1, <3>3
        <4>2. step[<<i, g[i - 1]>>] = Placed(g[i - 1], rows[i])
          BY <4>1 DEF step
        <4> QED BY <3>1, <3>3, <4>2 DEF LaidStep
      <3> QED BY <3>2, <3>3
    <2>3. Eq(g)
      BY <2>1, <2>2
    <2> QED BY <2>3
  <1>4. Laid(page, rows) = at[n]
    BY DEF Laid, LaidStep, StartOf
  <1>5. Eq(at)
    <2> HIDE DEF Eq
    <2> QED BY <1>3
  <1> HIDE DEF at, step
  <1>6. \A i \in 0..n : at[i] = LaidStep(page, rows, at, i)
    BY <1>5
  <1>7. \A i \in 0..n : at[i] \in Placements(R)
    <2> DEFINE P == {i \in 0..n : at[i] \in Placements(R)}
    <2>1. 0 \in P
      <3>1. 0 \in 0..n
        BY <1>1
      <3>2. at[0] = StartOf(page)
        BY <1>6, <3>1 DEF LaidStep
      <3> QED BY <1>1, <3>1, <3>2
    <2>2. ASSUME NEW i \in 0..n, i # 0, i - 1 \in P
          PROVE i \in P
      <3>1. at[i] = Placed(at[i - 1], rows[i])
        BY <1>6, <2>2 DEF LaidStep
      <3>2. rows[i] \in R /\ at[i - 1] \in Placements(R)
        BY <1>1, <2>2
      <3>3. at[i] \in Placements(R)
        BY <3>1, <3>2, PlacedType
      <3> QED BY <3>3
    <2> HIDE DEF P
    <2>3. \A i \in 0..n : i # 0 /\ i - 1 \in P => i \in P
      BY <2>2
    <2>4. \A i \in 0..n : i \in P
      BY <1>1, <2>1, <2>3, Induction
    <2> QED BY <2>4 DEF P
  <1>8. at \in [0..n -> Placements(R)]
    BY <1>5, <1>7
  <1> QED BY <1>4, <1>6, <1>8

\* Rows are drawn in the order they have, and each once.
LEMMA LaidRows ==
    ASSUME NEW R, \A r \in R : r.height \in Int, NEW rows \in Seq(R), NEW page \in Int
    PROVE  /\ Laid(page, rows) \in Placements(R)
           /\ Len(Laid(page, rows).placed) = Len(rows)
           /\ \A j \in 1..Len(rows) : Laid(page, rows).placed[j].row = rows[j]
  <1> DEFINE n == Len(rows)
  <1>1. n \in Nat /\ \A i \in 1..n : rows[i] \in R
    BY ElementOfSeq
  <1>2. PICK g \in [0..n -> Placements(R)] :
          /\ Laid(page, rows) = g[n]
          /\ \A i \in 0..n : g[i] = LaidStep(page, rows, g, i)
    BY LaidSteps
  <1> DEFINE Reached(i) == Len(g[i].placed) = i /\ \A j \in 1..i : g[i].placed[j].row = rows[j]
             P == {i \in 0..n : Reached(i)}
  <1>3. 0 \in P
    <2>1. g[0] = StartOf(page) /\ 0 \in 0..n
      BY <1>1, <1>2 DEF LaidStep
    <2> QED BY <2>1 DEF StartOf
  <1>4. ASSUME NEW i \in 0..n, i # 0, i - 1 \in P
        PROVE i \in P
    <2> DEFINE s == g[i - 1]
               old == s.placed
    <2>1. i - 1 \in 0..n /\ rows[i] \in R /\ s \in Placements(R)
      BY <1>1, <1>4
    <2>2. g[i] = Placed(s, rows[i])
      BY <1>2, <1>4 DEF LaidStep
    <2>3. Len(old) = i - 1 /\ \A j \in 1..(i - 1) : old[j].row = rows[j]
      BY <1>4
    <2> HIDE DEF s
    <2>4. PICK p \in Int, top \in Int :
            g[i].placed = Append(old, Entry(rows[i], p, top))
      <3> DEFINE row == rows[i]
      <3>0. row \in R
        BY <2>1
      <3> HIDE DEF row
      <3>1. \E p \in Int, top \in Int : Placed(s, row).placed = Append(s.placed, Entry(row, p, top))
        BY <2>1, <3>0, PlacedType
      <3> QED BY <2>2, <3>1 DEF row
    <2> DEFINE entry == Entry(rows[i], p, top)
    <2>5. entry \in [row : R, page : Int, top : Int] /\ entry.row = rows[i]
      BY <2>1 DEF Entry
    <2>6. old \in Seq([row : R, page : Int, top : Int])
      BY <2>1 DEF Placements
    <2> HIDE DEF entry, old
    <2>7. /\ Len(Append(old, entry)) = i /\ Append(old, entry)[i] = entry
          /\ \A j \in 1..(i - 1) : Append(old, entry)[j] = old[j]
      BY <1>1, <2>3, <2>5, <2>6, AppendProperties
    <2>8. g[i].placed = Append(old, entry)
      BY <2>4 DEF entry
    <2>9. \A j \in 1..i : g[i].placed[j].row = rows[j]
      BY <1>1, <2>3, <2>5, <2>7, <2>8
    <2> QED BY <2>7, <2>8, <2>9
  <1> HIDE DEF P
  <1>5. \A i \in 0..n : i # 0 /\ i - 1 \in P => i \in P
    BY <1>4
  <1>6. \A i \in 0..n : i \in P
    BY <1>1, <1>3, <1>5, Induction
  <1>7. n \in P /\ g[n] \in Placements(R)
    BY <1>1, <1>6
  <1> QED BY <1>2, <1>7 DEF P

Low(p) == p.top - p.row.height

\* q comes right below p, or at the top of the next page for want of place.
Follows(p, q) ==
    \/ q.page = p.page /\ q.top = Low(p)
    \/ Low(p) - q.row.height < Bottom /\ q.page = p.page + 1 /\ q.top = Top

\* i rows are drawn, and what s says of the place for the next one.
OrderedTo(page, s, i) ==
    /\ Len(s.placed) = i
    /\ \A j \in 1..i : Low(s.placed[j]) >= Bottom
    /\ \A j \in 2..i : Follows(s.placed[j - 1], s.placed[j])
    /\ i = 0 => s.page = page /\ s.y = Top
    /\ i # 0 => /\ s.page = s.placed[i].page /\ s.y = Low(s.placed[i])
                /\ s.placed[1].page = page /\ s.placed[1].top = Top

\* A row no higher than a page keeps them so.
LEMMA OrderedStep ==
    ASSUME NEW R, \A r \in R : r.height \in 0..(Top - Bottom), NEW s \in Placements(R), NEW row \in R,
           NEW page \in Int, NEW i \in Nat, OrderedTo(page, s, i)
    PROVE  OrderedTo(page, Placed(s, row), i + 1)
  <1>1. row.height \in Int /\ 0 <= row.height /\ row.height <= Top - Bottom
    BY DEF Top, Bottom
  <1>2. /\ s.page \in Int /\ s.y \in Int
        /\ s.placed \in Seq([row : R, page : Int, top : Int]) /\ Len(s.placed) = i
    BY DEF Placements, OrderedTo
  <1>3. ASSUME NEW p \in Int, NEW top \in Int, top - row.height >= Bottom,
               i = 0 => p = page /\ top = Top,
               i # 0 => \/ p = s.page /\ top = s.y
                        \/ s.y - row.height < Bottom /\ p = s.page + 1 /\ top = Top
        PROVE OrderedTo(page, Drawn(s, row, p, top), i + 1)
    <2> DEFINE old == s.placed
               entry == [row |-> row, page |-> p, top |-> top]
               new == Append(old, entry)
               t == Drawn(s, row, p, top)
    <2>1. entry \in [row : R, page : Int, top : Int] /\ old \in Seq([row : R, page : Int, top : Int])
      BY <1>2
    <2>2. entry.row = row /\ entry.page = p /\ entry.top = top /\ Low(entry) = top - row.height
      BY DEF Low
    <2>3. t.placed = new /\ t.page = p /\ t.y = top - row.height
      BY DEF Drawn
    <2> HIDE DEF entry
    <2>4. Len(new) = i + 1 /\ new[i + 1] = entry /\ \A j \in 1..i : new[j] = old[j]
      BY <1>2, <2>1, AppendProperties
    <2>5. i # 0 => 1 \in 1..i /\ i \in 1..i
      OBVIOUS
    <2> HIDE DEF new, t
    <2>6. \A j \in 1..(i + 1) : Low(new[j]) >= Bottom
      <3>1. Low(new[i + 1]) >= Bottom
        BY <1>3, <2>2, <2>4
      <3>2. ASSUME NEW j \in 1..i PROVE Low(new[j]) >= Bottom
        BY <2>4 DEF OrderedTo
      <3> QED BY <3>1, <3>2
    <2>7. ASSUME NEW j \in 2..(i + 1)
          PROVE Follows(new[j - 1], new[j])
      <3>1. CASE j \in 2..i
        <4>1. new[j] = old[j] /\ new[j - 1] = old[j - 1]
          BY <2>4, <3>1
        <4>2. Follows(old[j - 1], old[j])
          BY <3>1 DEF OrderedTo
        <4> QED BY <4>1, <4>2
      <3>2. CASE j = i + 1
        <4>1. j - 1 = i /\ i # 0
          BY <3>2
        <4>2. new[j - 1] = old[i] /\ new[j] = entry
          BY <2>4, <2>5, <3>2, <4>1
        <4>3. s.page = old[i].page /\ s.y = Low(old[i])
          BY <4>1 DEF OrderedTo
        <4>4. Follows(old[i], entry)
          BY <1>3, <2>2, <4>1, <4>3 DEF Follows
        <4> QED BY <4>2, <4>4
      <3> QED BY <3>1, <3>2
    <2>8. t.page = new[i + 1].page /\ t.y = Low(new[i + 1])
      BY <2>2, <2>3, <2>4
    <2>9. new[1].page = page /\ new[1].top = Top
      <3>1. CASE i = 0
        <4>1. new[1] = entry
          BY <2>4, <3>1
        <4> QED BY <1>3, <2>2, <3>1, <4>1
      <3>2. CASE i # 0
        BY <2>4, <2>5, <3>2 DEF OrderedTo
      <3> QED BY <3>1, <3>2
    <2>10. i + 1 # 0
      OBVIOUS
    <2>11. OrderedTo(page, t, i + 1)
      BY <2>3, <2>4, <2>6, <2>7, <2>8, <2>9, <2>10 DEF OrderedTo
    <2> QED BY <2>11 DEF t
  <1>4. CASE s.y - row.height < Bottom
    <2>1. i # 0
      BY <1>1, <1>4 DEF OrderedTo, Top, Bottom
    <2>2. Placed(s, row) = Drawn(s, row, s.page + 1, Top) /\ s.page + 1 \in Int /\ Top \in Int
      BY <1>2, <1>4 DEF Placed, Top
    <2>3. Top - row.height >= Bottom
      BY <1>1 DEF Top, Bottom
    <2> QED BY <1>3, <1>4, <2>1, <2>2, <2>3
  <1>5. CASE ~(s.y - row.height < Bottom)
    <2>1. Placed(s, row) = Drawn(s, row, s.page, s.y)
      BY <1>5 DEF Placed
    <2>2. s.y - row.height >= Bottom
      BY <1>1, <1>2, <1>5 DEF Bottom
    <2>3. i = 0 => s.page = page /\ s.y = Top
      BY DEF OrderedTo
    <2> QED BY <1>2, <1>3, <2>1, <2>2, <2>3
  <1> QED BY <1>4, <1>5

\* Rows no higher than a page are laid out in order.
LEMMA LaidOrdered ==
    ASSUME NEW R, \A r \in R : r.height \in 0..(Top - Bottom), NEW rows \in Seq(R), NEW page \in Int
    PROVE  OrderedTo(page, Laid(page, rows), Len(rows))
  <1> DEFINE n == Len(rows)
  <1>1. n \in Nat /\ \A i \in 1..n : rows[i] \in R
    BY ElementOfSeq
  <1>2. \A r \in R : r.height \in Int
    <2> DEFINE H == 0..(Top - Bottom)
    <2>1. H \subseteq Int
      OBVIOUS
    <2> HIDE DEF H
    <2>2. \A r \in R : r.height \in H
      BY DEF H
    <2> QED BY <2>1, <2>2
  <1>3. PICK g \in [0..n -> Placements(R)] :
          /\ Laid(page, rows) = g[n]
          /\ \A i \in 0..n : g[i] = LaidStep(page, rows, g, i)
    BY <1>2, LaidSteps
  <1> DEFINE P == {i \in 0..n : OrderedTo(page, g[i], i)}
  <1>4. 0 \in P
    <2>1. g[0] = StartOf(page) /\ 0 \in 0..n
      BY <1>1, <1>3 DEF LaidStep
    <2>2. OrderedTo(page, StartOf(page), 0)
      BY DEF OrderedTo, StartOf
    <2> QED BY <2>1, <2>2
  <1>5. ASSUME NEW i \in 0..n, i # 0, i - 1 \in P
        PROVE i \in P
    <2>1. i - 1 \in 0..n /\ i - 1 \in Nat /\ i - 1 + 1 = i /\ rows[i] \in R
      BY <1>1, <1>5
    <2>2. g[i - 1] \in Placements(R) /\ OrderedTo(page, g[i - 1], i - 1)
      BY <1>5, <2>1
    <2>3. g[i] = Placed(g[i - 1], rows[i])
      BY <1>3, <1>5 DEF LaidStep
    <2>4. OrderedTo(page, Placed(g[i - 1], rows[i]), i - 1 + 1)
      BY <2>1, <2>2, OrderedStep
    <2>5. OrderedTo(page, g[i], i)
      BY <2>1, <2>3, <2>4
    <2> QED BY <2>5
  <1> HIDE DEF P
  <1>6. \A i \in 0..n : i # 0 /\ i - 1 \in P => i \in P
    BY <1>5
  <1>7. \A i \in 0..n : i \in P
    BY <1>1, <1>4, <1>6, Induction
  <1>8. n \in P
    BY <1>1, <1>7
  <1> QED BY <1>3, <1>8 DEF P

-----------------------------------------------------------------------------
(***************************************************************************)
(* Rows of a kind.                                                         *)
(***************************************************************************)

\* c is s and then t.
Joined(s, t, c) ==
    /\ Sequence(c) /\ Range(c) = Range(s) \cup Range(t)
    /\ Len(s) \in Nat /\ DOMAIN s = 1..Len(s)
    /\ Len(t) \in Nat /\ DOMAIN t = 1..Len(t)
    /\ Len(c) = Len(s) + Len(t) /\ DOMAIN c = 1..(Len(s) + Len(t))
    /\ \A i \in DOMAIN s : c[i] = s[i]
    /\ \A i \in DOMAIN t : c[Len(s) + i] = t[i]

\* The parts of a concatenation, by index.
LEMMA SequenceConcat ==
    ASSUME NEW s, Sequence(s), NEW t, Sequence(t)
    PROVE  Joined(s, t, s \o t)
  <1> DEFINE S == Range(s) \cup Range(t)
  <1>1. s \in Seq(S) /\ t \in Seq(S)
    BY SeqMonotonic DEF Sequence
  <1>2. s \o t \in Seq(S) /\ Range(s \o t) = S
    BY <1>1, ConcatProperties, RangeConcatenation
  <1> HIDE DEF S
  <1>3. Sequence(s \o t)
    BY <1>2, SeqOfRange DEF Sequence
  <1>4. Len(s \o t) = Len(s) + Len(t) /\ DOMAIN (s \o t) = 1..(Len(s) + Len(t))
    BY <1>1, <1>2, ConcatProperties, LenProperties
  <1>5. /\ Len(s) \in Nat /\ DOMAIN s = 1..Len(s)
        /\ Len(t) \in Nat /\ DOMAIN t = 1..Len(t)
    BY <1>1, LenProperties
  <1>6. \A i \in DOMAIN s : (s \o t)[i] = s[i]
    BY <1>1, <1>5, ConcatProperties
  <1>7. ASSUME NEW i \in DOMAIN t
        PROVE (s \o t)[Len(s) + i] = t[i]
    <2> DEFINE m == Len(s)
               n == Len(t)
               k == m + i
    <2>1. m \in Nat /\ n \in Nat /\ i \in 1..n
      BY <1>5
    <2> HIDE DEF m, n
    <2>2. k \in 1..(m + n) /\ ~(k <= m) /\ k - m = i
      BY <2>1
    <2> HIDE DEF k
    <2>3. \A j \in 1..(m + n) : (s \o t)[j] = IF j <= m THEN s[j] ELSE t[j - m]
      BY <1>1, ConcatProperties DEF m, n
    <2> QED BY <2>2, <2>3 DEF k, m
  <1> QED BY <1>2, <1>3, <1>4, <1>5, <1>6, <1>7 DEF S, Joined

\* A sequence of one element.
LEMMA SequenceOne ==
    ASSUME NEW x
    PROVE  Sequence(<<x>>) /\ Range(<<x>>) = {x} /\ <<x>>[1] = x /\ Len(<<x>>) = 1
  BY DEF Sequence, Range

\* The rows of a kind, part by part.
LEMMA OfKindConcat ==
    ASSUME NEW kind, NEW s, Sequence(s), NEW t, Sequence(t)
    PROVE  OfKind(kind, s \o t) = OfKind(kind, s) \o OfKind(kind, t)
  <1> DEFINE S == Range(s) \cup Range(t)
             c == s \o t
             I == {i \in DOMAIN c : c[i].kind = kind}
             A == {i \in DOMAIN s : s[i].kind = kind}
             B == {i \in DOMAIN t : t[i].kind = kind}
  <1>1. s \in Seq(S) /\ t \in Seq(S)
    BY SeqMonotonic DEF Sequence
  <1>2. Joined(s, t, c)
    BY SequenceConcat
  <1>3. OfKind(kind, c) = At(c, I) /\ OfKind(kind, s) = At(s, A) /\ OfKind(kind, t) = At(t, B)
    BY DEF OfKind, Where
  <1>4. At(c, I) = At(s \o t, I)
    OBVIOUS
  <1> HIDE DEF S, c
  <1>5. I \cap DOMAIN s = A \cap DOMAIN s
    BY <1>2 DEF Joined
  <1>6. \A i \in DOMAIN t : i \in B <=> Len(s) + i \in I
    <2>1. ASSUME NEW i \in DOMAIN t
          PROVE Len(s) + i \in DOMAIN c
      BY <1>2 DEF Joined
    <2>2. \A i \in DOMAIN t : c[Len(s) + i] = t[i]
      BY <1>2 DEF Joined
    <2> QED BY <2>1, <2>2
  <1> HIDE DEF I, A, B
  <1>7. At(s \o t, I) = At(s, I) \o At(t, B)
    BY <1>1, <1>6, AtConcat
  <1>8. At(s, I) = At(s, A)
    BY <1>1, <1>5, AtSame
  <1> QED BY <1>3, <1>4, <1>7, <1>8 DEF c

\* Rows that are all of the kind.
LEMMA OfKindAll ==
    ASSUME NEW kind, NEW s, Sequence(s), \A i \in DOMAIN s : s[i].kind = kind
    PROVE  OfKind(kind, s) = s
  <1> DEFINE I == {i \in DOMAIN s : s[i].kind = kind}
  <1>1. s \in Seq(Range(s)) /\ DOMAIN s \subseteq I
    BY DEF Sequence
  <1>2. OfKind(kind, s) = At(s, I)
    BY DEF OfKind, Where
  <1> HIDE DEF I
  <1> QED BY <1>1, <1>2, AtAll

\* Rows none of which is of the kind.
LEMMA OfKindNone ==
    ASSUME NEW kind, NEW s, Sequence(s), \A i \in DOMAIN s : s[i].kind # kind
    PROVE  OfKind(kind, s) = <<>>
  <1> DEFINE I == {i \in DOMAIN s : s[i].kind = kind}
  <1>1. s \in Seq(Range(s)) /\ I \cap DOMAIN s = {}
    BY DEF Sequence
  <1>2. OfKind(kind, s) = At(s, I)
    BY DEF OfKind, Where
  <1> HIDE DEF I
  <1> QED BY <1>1, <1>2, AtNone

\* What At selects is at one of the places.
LEMMA AtElements ==
    ASSUME NEW S, NEW s \in Seq(S), NEW I
    PROVE  \A k \in DOMAIN At(s, I) : \E i \in I \cap DOMAIN s : At(s, I)[k] = s[i]
  <1> DEFINE In(u) == \A k \in DOMAIN At(u, I) : \E i \in I \cap DOMAIN u : At(u, I)[k] = u[i]
             P == {u \in Seq(S) : In(u)}
  <1>1. <<>> \in P
    BY AtEmpty
  <1>2. ASSUME NEW u \in Seq(S), NEW x \in S, u \in P
        PROVE Append(u, x) \in P
    <2> DEFINE v == Append(u, x)
    <2>1. /\ v \in Seq(S) /\ DOMAIN v = 1..(Len(u) + 1) /\ DOMAIN u = 1..Len(u) /\ Len(u) \in Nat
          /\ v[Len(u) + 1] = x /\ \A i \in DOMAIN u : v[i] = u[i]
      OBVIOUS
    <2>2. At(v, I) = IF Len(u) + 1 \in I THEN Append(At(u, I), x) ELSE At(u, I)
      BY AtAppend
    <2>3. At(u, I) \in Seq(S)
      BY AtType
    <2> DEFINE old == At(u, I)
               new == At(v, I)
    <2>4. ASSUME NEW k \in DOMAIN old
          PROVE \E i \in I \cap DOMAIN v : old[k] = v[i]
      BY <1>2, <2>1
    <2> HIDE DEF old, v, new
    <2>5. ASSUME NEW k \in DOMAIN new
          PROVE \E i \in I \cap DOMAIN v : new[k] = v[i]
      <3>1. CASE Len(u) + 1 \notin I
        BY <2>2, <2>4, <2>5, <3>1 DEF old, new
      <3>2. CASE Len(u) + 1 \in I
        <4>1. new = Append(old, x) /\ old \in Seq(S)
          BY <2>2, <2>3, <3>2 DEF old, new
        <4>2. (k \in DOMAIN old /\ new[k] = old[k]) \/ new[k] = x
          BY <2>5, <4>1
        <4>3. Len(u) + 1 \in I \cap DOMAIN v
          BY <2>1, <3>2
        <4> QED BY <2>1, <2>4, <4>2, <4>3
      <3> QED BY <3>1, <3>2
    <2>6. In(v)
      BY <2>5 DEF new
    <2> QED BY <2>1, <2>6 DEF v
  <1> HIDE DEF P
  <1>3. \A u \in Seq(S), x \in S : u \in P => Append(u, x) \in P
    BY <1>2
  <1>4. \A u \in Seq(S) : u \in P
    BY <1>1, <1>3, SequenceInduction
  <1>5. s \in P
    BY <1>4
  <1> QED BY <1>5 DEF P


\* The rows of a section, part by part.
LEMMA OfSectionConcat ==
    ASSUME NEW k, NEW s, Sequence(s), NEW t, Sequence(t)
    PROVE  OfSection(k, s \o t) = OfSection(k, s) \o OfSection(k, t)
  <1> DEFINE S == Range(s) \cup Range(t)
             c == s \o t
             I == {i \in DOMAIN c : c[i].section = k}
             A == {i \in DOMAIN s : s[i].section = k}
             B == {i \in DOMAIN t : t[i].section = k}
  <1>1. s \in Seq(S) /\ t \in Seq(S)
    BY SeqMonotonic DEF Sequence
  <1>2. Joined(s, t, c)
    BY SequenceConcat
  <1>3. OfSection(k, c) = At(c, I) /\ OfSection(k, s) = At(s, A) /\ OfSection(k, t) = At(t, B)
    BY DEF OfSection, Where
  <1>4. At(c, I) = At(s \o t, I)
    OBVIOUS
  <1> HIDE DEF S, c
  <1>5. I \cap DOMAIN s = A \cap DOMAIN s
    BY <1>2 DEF Joined
  <1>6. \A i \in DOMAIN t : i \in B <=> Len(s) + i \in I
    <2>1. ASSUME NEW i \in DOMAIN t
          PROVE Len(s) + i \in DOMAIN c
      BY <1>2 DEF Joined
    <2>2. \A i \in DOMAIN t : c[Len(s) + i] = t[i]
      BY <1>2 DEF Joined
    <2> QED BY <2>1, <2>2
  <1> HIDE DEF I, A, B
  <1>7. At(s \o t, I) = At(s, I) \o At(t, B)
    BY <1>1, <1>6, AtConcat
  <1>8. At(s, I) = At(s, A)
    BY <1>1, <1>5, AtSame
  <1> QED BY <1>3, <1>4, <1>7, <1>8 DEF c

\* Rows that are all of the section.
LEMMA OfSectionAll ==
    ASSUME NEW k, NEW s, Sequence(s), \A i \in DOMAIN s : s[i].section = k
    PROVE  OfSection(k, s) = s
  <1> DEFINE I == {i \in DOMAIN s : s[i].section = k}
  <1>1. s \in Seq(Range(s)) /\ DOMAIN s \subseteq I
    BY DEF Sequence
  <1>2. OfSection(k, s) = At(s, I)
    BY DEF OfSection, Where
  <1> HIDE DEF I
  <1> QED BY <1>1, <1>2, AtAll

\* Rows none of which is of the section.
LEMMA OfSectionNone ==
    ASSUME NEW k, NEW s, Sequence(s), \A i \in DOMAIN s : s[i].section # k
    PROVE  OfSection(k, s) = <<>>
  <1> DEFINE I == {i \in DOMAIN s : s[i].section = k}
  <1>1. s \in Seq(Range(s)) /\ I \cap DOMAIN s = {}
    BY DEF Sequence
  <1>2. OfSection(k, s) = At(s, I)
    BY DEF OfSection, Where
  <1> HIDE DEF I
  <1> QED BY <1>1, <1>2, AtNone

\* An empty sequence adds nothing.
LEMMA EmptyConcat ==
    ASSUME NEW s, Sequence(s)
    PROVE  <<>> \o s = s /\ s \o <<>> = s /\ Sequence(<<>>) /\ Range(<<>>) = {}
  <1>1. s \in Seq(Range(s))
    BY DEF Sequence
  <1>2. <<>> \o s = s /\ s \o <<>> = s
    BY <1>1, ConcatEmptySeq
  <1>3. Range(<<>>) = {} /\ Sequence(<<>>)
    BY DEF Range, Sequence
  <1> QED BY <1>2, <1>3

\* A sequence that is longer by one.
LEMMA LongerByOne ==
    ASSUME NEW S, NEW s \in Seq(S), NEW x \in S, NEW t \in Seq(S), Len(t) = Len(s) + 1,
           \A i \in 1..Len(s) : t[i] = s[i], t[Len(s) + 1] = x
    PROVE  t = Append(s, x)
  <1>1. Append(s, x) \in Seq(S) /\ Len(Append(s, x)) = Len(t) /\ Len(s) \in Nat
    OBVIOUS
  <1>2. \A i \in 1..Len(t) : t[i] = Append(s, x)[i]
    OBVIOUS
  <1> QED BY <1>1, <1>2, SeqEqual

\* One part more, at the end.
LEMMA FlattenLonger ==
    ASSUME NEW n \in Nat, NEW p, p = [i \in 1..n |-> p[i]],
           NEW q, q = [i \in 1..(n + 1) |-> q[i]],
           \A i \in 1..n : q[i] = p[i], \A i \in 1..(n + 1) : Sequence(q[i])
    PROVE  FlattenSeq(q) = FlattenSeq(p) \o q[n + 1]
  <1> DEFINE T == UNION {Range(q[i]) : i \in 1..(n + 1)}
             U == Seq(T)
             x == q[n + 1]
  <1>1. \A i \in 1..(n + 1) : q[i] \in U
    <2>1. ASSUME NEW i \in 1..(n + 1)
          PROVE q[i] \in Seq(T)
      <3>1. q[i] \in Seq(Range(q[i])) /\ Range(q[i]) \subseteq T
        BY DEF Sequence
      <3> HIDE DEF T
      <3> QED BY <3>1, SeqMonotonic
    <2> QED BY <2>1
  <1> HIDE DEF U
  <1>2. p \in Seq(U) /\ Len(p) = n
    <2>1. \A i \in 1..n : p[i] \in U
      BY <1>1
    <2>2. p \in [1..n -> U]
      BY <2>1
    <2> QED BY <2>2, FunctionIsSeq
  <1>3. q \in Seq(U) /\ Len(q) = n + 1 /\ x \in U
    <2>1. q \in [1..(n + 1) -> U] /\ n + 1 \in Nat /\ n + 1 \in 1..(n + 1)
      BY <1>1
    <2>2. x \in U
      BY <1>1, <2>1
    <2> DEFINE m == n + 1
    <2> HIDE DEF m
    <2>3. q \in [1..m -> U] /\ m \in Nat
      BY <2>1 DEF m
    <2>4. q \in Seq(U) /\ Len(q) = m
      BY <2>3, FunctionIsSeq
    <2> QED BY <2>2, <2>4 DEF m
  <1>4. q = Append(p, x)
    <2>1. /\ Len(q) = Len(p) + 1 /\ q[Len(p) + 1] = x
          /\ \A i \in 1..Len(p) : q[i] = p[i]
      BY <1>2, <1>3
    <2> HIDE DEF x
    <2> QED BY <1>2, <1>3, <2>1, LongerByOne
  <1> HIDE DEF x, T
  <1>5. FlattenSeq(Append(p, x)) = FlattenSeq(p) \o x
    BY <1>2, <1>3, FlattenAppend DEF U
  <1> QED BY <1>4, <1>5 DEF x

\* A function on 1..n is a sequence.
LEMMA MapSequence ==
    ASSUME NEW n \in Nat, NEW g, g = [j \in 1..n |-> g[j]]
    PROVE  Sequence(g) /\ Len(g) = n /\ DOMAIN g = 1..n
  <1>1. g \in [1..n -> Range(g)]
    BY DEF Range
  <1> DEFINE S == Range(g)
  <1> HIDE DEF S
  <1>2. g \in Seq(S) /\ Len(g) = n
    BY <1>1, FunctionIsSeq DEF S
  <1> QED BY <1>1, <1>2 DEF S, Sequence

-----------------------------------------------------------------------------
(***************************************************************************)
(* The rows of a section.                                                  *)
(***************************************************************************)

IsLineRow(row, i, j, l) ==
    /\ row.kind = "line" /\ row.section = i /\ row.number = j
    /\ row.item = l.item /\ row.amount = Shown(l.amount)

\* The rows of lines are as many as the lines, one for each.
LEMMA LineRowsOf ==
    ASSUME NEW f, NEW i, NEW lines, Sequence(lines)
    PROVE  /\ Sequence(LineRows(f, i, lines))
           /\ Len(LineRows(f, i, lines)) = Len(lines)
           /\ Len(lines) \in Nat
           /\ DOMAIN lines = 1..Len(lines)
           /\ DOMAIN LineRows(f, i, lines) = 1..Len(lines)
           /\ \A j \in DOMAIN lines : IsLineRow(LineRows(f, i, lines)[j], i, j, lines[j])
  <1> DEFINE n == Len(lines)
             rows == LineRows(f, i, lines)
             row(j) == IF f = "PDF" THEN PdfLine(i, j, lines[j]) ELSE SheetLine(i, j, lines[j])
  <1>1. n \in Nat /\ DOMAIN lines = 1..n
    BY DEF Sequence
  <1>2. rows = [j \in 1..n |-> row(j)]
    BY <1>1 DEF LineRows
  <1>3. ASSUME NEW j \in DOMAIN lines
        PROVE IsLineRow(row(j), i, j, lines[j])
    BY DEF IsLineRow, PdfLine, SheetLine
  <1> HIDE DEF rows, row
  <1>4. rows = [j \in 1..n |-> rows[j]]
    BY <1>2
  <1>5. Sequence(rows) /\ Len(rows) = n /\ DOMAIN rows = 1..n
    BY <1>1, <1>4, MapSequence
  <1>6. \A j \in DOMAIN lines : IsLineRow(rows[j], i, j, lines[j])
    BY <1>1, <1>2, <1>3
  <1> QED BY <1>1, <1>5, <1>6 DEF rows

IsRowsOf(f, i, s, rows) ==
    LET n == Len(s.lines) IN
    /\ Sequence(rows)
    /\ n \in Nat /\ DOMAIN rows = 1..(n + 2)
    /\ rows[1] = Heading(i, s.name)
    /\ \A j \in 1..n : rows[j + 1] = LineRows(f, i, s.lines)[j]
    /\ rows[n + 2] = Subtotal(i, Shown(s.subtotal))

\* A section has a heading, its lines in order and a subtotal.
LEMMA SectionShape ==
    ASSUME NEW f, NEW i, NEW s, Sequence(s.lines)
    PROVE  IsRowsOf(f, i, s, RowsOfSection(f, i, s))
  <1> DEFINE n == Len(s.lines)
             h == <<Heading(i, s.name)>>
             lines == LineRows(f, i, s.lines)
             b == <<Subtotal(i, Shown(s.subtotal))>>
             u == h \o lines
             rows == u \o b
  <1>1. Sequence(lines) /\ Len(lines) = n /\ n \in Nat /\ DOMAIN lines = 1..n
    BY LineRowsOf
  <1>2. Sequence(h) /\ Len(h) = 1 /\ h[1] = Heading(i, s.name) /\ DOMAIN h = {1}
    BY SequenceOne DEF Heading
  <1>3. Sequence(b) /\ Len(b) = 1 /\ b[1] = Subtotal(i, Shown(s.subtotal)) /\ DOMAIN b = {1}
    BY SequenceOne DEF Subtotal
  <1>4. RowsOfSection(f, i, s) = rows
    BY DEF RowsOfSection
  <1> HIDE DEF h, lines, b, n
  <1>5. Joined(h, lines, u)
    BY <1>1, <1>2, SequenceConcat
  <1> HIDE DEF u
  <1>6. Joined(u, b, rows)
    BY <1>3, <1>5, SequenceConcat DEF Joined
  <1> HIDE DEF rows
  <1>7. /\ Sequence(rows) /\ Len(u) = n + 1 /\ DOMAIN rows = 1..(n + 2)
        /\ DOMAIN u = 1..(n + 1)
    BY <1>1, <1>2, <1>3, <1>5, <1>6 DEF Joined
  <1>8. rows[1] = h[1]
    BY <1>1, <1>2, <1>5, <1>6, <1>7 DEF Joined
  <1>9. ASSUME NEW j \in 1..n
        PROVE rows[j + 1] = lines[j]
    <2>1. u[1 + j] = lines[j]
      BY <1>1, <1>2, <1>5 DEF Joined
    <2>2. 1 + j = j + 1 /\ j + 1 \in DOMAIN u
      BY <1>1, <1>7
    <2> QED BY <1>6, <2>1, <2>2 DEF Joined
  <1>10. rows[n + 2] = b[1]
    <2>1. rows[Len(u) + 1] = b[1]
      BY <1>3, <1>6 DEF Joined
    <2>2. Len(u) + 1 = n + 2
      BY <1>1, <1>7
    <2> QED BY <2>1, <2>2
  <1> QED BY <1>1, <1>2, <1>3, <1>4, <1>7, <1>8, <1>9, <1>10 DEF IsRowsOf, n, lines

\* The rows of a kind, of a section.
LEMMA SectionKinds ==
    ASSUME NEW f, NEW i, NEW s, Sequence(s.lines)
    PROVE  LET rows == RowsOfSection(f, i, s) IN
           /\ OfKind("line", rows) = LineRows(f, i, s.lines)
           /\ OfKind("subtotal", rows) = <<Subtotal(i, Shown(s.subtotal))>>
           /\ OfKind("summary", rows) = <<>>
  <1> DEFINE h == <<Heading(i, s.name)>>
             lines == LineRows(f, i, s.lines)
             b == <<Subtotal(i, Shown(s.subtotal))>>
             u == h \o lines
  <1>1. Sequence(lines) /\ \A j \in DOMAIN lines : lines[j].kind = "line"
    BY LineRowsOf DEF IsLineRow
  <1>2. Sequence(h) /\ \A j \in DOMAIN h : h[j].kind = "heading"
    BY SequenceOne DEF Heading
  <1>3. Sequence(b) /\ \A j \in DOMAIN b : b[j].kind = "subtotal"
    BY SequenceOne DEF Subtotal
  <1>4. RowsOfSection(f, i, s) = u \o b
    BY DEF RowsOfSection
  <1> HIDE DEF h, lines, b
  <1>5. Sequence(u)
    BY <1>1, <1>2, SequenceConcat DEF Joined
  <1>6. ASSUME NEW kind
        PROVE OfKind(kind, u \o b) = (OfKind(kind, h) \o OfKind(kind, lines)) \o OfKind(kind, b)
    <2>1. OfKind(kind, u) = OfKind(kind, h) \o OfKind(kind, lines)
      BY <1>1, <1>2, OfKindConcat
    <2> HIDE DEF u
    <2>2. OfKind(kind, u \o b) = OfKind(kind, u) \o OfKind(kind, b)
      BY <1>3, <1>5, OfKindConcat
    <2> QED BY <2>1, <2>2
  <1> HIDE DEF u
  <1>7. OfKind("line", u \o b) = lines
    <2>1. OfKind("line", h) = <<>> /\ OfKind("line", b) = <<>>
      BY <1>2, <1>3, OfKindNone
    <2>2. OfKind("line", lines) = lines
      BY <1>1, OfKindAll
    <2>3. (<<>> \o lines) \o <<>> = lines
      BY <1>1, EmptyConcat
    <2> QED BY <1>6, <2>1, <2>2, <2>3, Zenon
  <1>8. OfKind("subtotal", u \o b) = b
    <2>1. OfKind("subtotal", h) = <<>> /\ OfKind("subtotal", lines) = <<>>
      BY <1>1, <1>2, OfKindNone
    <2>2. OfKind("subtotal", b) = b
      BY <1>3, OfKindAll
    <2>3. (<<>> \o <<>>) \o b = b
      BY <1>3, EmptyConcat
    <2> QED BY <1>6, <2>1, <2>2, <2>3, Zenon
  <1>9. OfKind("summary", u \o b) = <<>>
    <2>1. OfKind("summary", h) = <<>> /\ OfKind("summary", lines) = <<>> /\ OfKind("summary", b) = <<>>
      BY <1>1, <1>2, <1>3, OfKindNone
    <2>2. (<<>> \o <<>>) \o <<>> = <<>>
      BY <1>3, EmptyConcat
    <2> QED BY <1>6, <2>1, <2>2, Zenon
  <1> QED BY <1>4, <1>7, <1>8, <1>9 DEF lines, b

\* The rows of a section are in order.
LEMMA SectionInOrder ==
    ASSUME NEW f, NEW i, NEW s, Sequence(s.lines)
    PROVE  InOrder(RowsOfSection(f, i, s))
  <1> DEFINE n == Len(s.lines)
             rows == RowsOfSection(f, i, s)
             lines == LineRows(f, i, s.lines)
  <1>1. /\ n \in Nat /\ DOMAIN rows = 1..(n + 2)
        /\ rows[1] = Heading(i, s.name)
        /\ \A j \in 1..n : rows[j + 1] = lines[j]
        /\ rows[n + 2] = Subtotal(i, Shown(s.subtotal))
    BY SectionShape DEF IsRowsOf
  <1>2. \A j \in 1..n : lines[j].kind = "line" /\ lines[j].section = i /\ lines[j].number = j
    BY LineRowsOf DEF IsLineRow
  <1> HIDE DEF n, rows, lines
  <1>3. /\ rows[1].kind = "heading" /\ rows[1].section = i
        /\ rows[n + 2].kind = "subtotal"
        /\ \A k \in 2..(n + 1) : rows[k].kind = "line" /\ rows[k].section = i /\ rows[k].number = k - 1
    <2>1. ASSUME NEW k \in 2..(n + 1)
          PROVE rows[k].kind = "line" /\ rows[k].section = i /\ rows[k].number = k - 1
      <3>1. k - 1 \in 1..n /\ k - 1 + 1 = k
        BY <1>1
      <3>2. rows[k] = lines[k - 1]
        BY <1>1, <3>1
      <3> QED BY <1>2, <3>1, <3>2
    <2> QED BY <1>1, <2>1 DEF Heading, Subtotal
  <1>4. ASSUME NEW k \in DOMAIN rows, rows[k].kind = "line"
        PROVE /\ k - 1 \in DOMAIN rows /\ k + 1 \in DOMAIN rows
              /\ rows[k - 1].kind \in {"heading", "line"}
              /\ rows[k - 1].section = rows[k].section
              /\ rows[k].number = IF rows[k - 1].kind = "line" THEN rows[k - 1].number + 1 ELSE 1
              /\ rows[k + 1].kind \in {"line", "subtotal"}
    <2>1. k \in 2..(n + 1)
      <3>1. k # 1 /\ k # n + 2 /\ k \in 1..(n + 2)
        BY <1>1, <1>3, <1>4
      <3> QED BY <1>1, <3>1
    <2>2. rows[k].section = i /\ rows[k].number = k - 1
      BY <1>3, <2>1
    <2>3. k - 1 \in 1..(n + 2) /\ k + 1 \in 1..(n + 2)
      BY <1>1, <2>1
    <2>4. rows[k + 1].kind \in {"line", "subtotal"}
      <3>1. k + 1 \in 2..(n + 1) \/ k + 1 = n + 2
        BY <1>1, <2>1
      <3> QED BY <1>3, <3>1
    <2>5. CASE k = 2
      <3>1. k - 1 = 1
        BY <2>5
      <3> QED BY <1>1, <1>3, <2>2, <2>3, <2>4, <2>5, <3>1
    <2>6. CASE k # 2
      <3>1. k - 1 \in 2..(n + 1) /\ k - 1 - 1 + 1 = k - 1
        BY <1>1, <2>1, <2>6
      <3>2. rows[k - 1].kind = "line" /\ rows[k - 1].section = i /\ rows[k - 1].number = k - 1 - 1
        BY <1>3, <3>1
      <3> QED BY <1>1, <2>2, <2>3, <2>4, <3>1, <3>2
    <2> QED BY <2>5, <2>6
  <1>5. InOrder(rows)
    BY <1>4 DEF InOrder
  <1> QED BY <1>5 DEF rows

\* Lists in order stay so one after the other.
LEMMA InOrderConcat ==
    ASSUME NEW s, Sequence(s), InOrder(s), NEW t, Sequence(t), InOrder(t)
    PROVE  InOrder(s \o t)
  <1> DEFINE m == Len(s)
             n == Len(t)
             c == s \o t
  <1>1. /\ m \in Nat /\ n \in Nat /\ DOMAIN s = 1..m /\ DOMAIN t = 1..n /\ DOMAIN c = 1..(m + n)
        /\ \A i \in DOMAIN s : c[i] = s[i]
        /\ \A i \in DOMAIN t : c[m + i] = t[i]
    <2>1. Joined(s, t, c)
      BY SequenceConcat
    <2> HIDE DEF c
    <2> QED BY <2>1 DEF Joined
  <1> HIDE DEF m, n, c
  <1>2. ASSUME NEW k \in DOMAIN c, c[k].kind = "line"
        PROVE /\ k - 1 \in DOMAIN c /\ k + 1 \in DOMAIN c
              /\ c[k - 1].kind \in {"heading", "line"}
              /\ c[k - 1].section = c[k].section
              /\ c[k].number = IF c[k - 1].kind = "line" THEN c[k - 1].number + 1 ELSE 1
              /\ c[k + 1].kind \in {"line", "subtotal"}
    <2>1. CASE k \in 1..m
      <3>1. k \in DOMAIN s /\ c[k] = s[k]
        BY <1>1, <2>1
      <3>2. /\ k - 1 \in DOMAIN s /\ k + 1 \in DOMAIN s
            /\ s[k - 1].kind \in {"heading", "line"}
            /\ s[k - 1].section = s[k].section
            /\ s[k].number = IF s[k - 1].kind = "line" THEN s[k - 1].number + 1 ELSE 1
            /\ s[k + 1].kind \in {"line", "subtotal"}
        BY <1>2, <3>1 DEF InOrder
      <3>3. c[k - 1] = s[k - 1] /\ c[k + 1] = s[k + 1]
        BY <1>1, <3>2
      <3>4. k - 1 \in DOMAIN c /\ k + 1 \in DOMAIN c
        BY <1>1, <3>2
      <3> QED BY <3>1, <3>2, <3>3, <3>4
    <2>2. CASE k \notin 1..m
      <3> DEFINE j == k - m
      <3>1. /\ j \in DOMAIN t /\ m + j = k
            /\ j - 1 \in DOMAIN t => m + (j - 1) = k - 1
            /\ j + 1 \in DOMAIN t => m + (j + 1) = k + 1
        BY <1>1, <2>2
      <3> HIDE DEF j
      <3>2. c[k] = t[j]
        BY <1>1, <3>1
      <3>3. /\ j - 1 \in DOMAIN t /\ j + 1 \in DOMAIN t
            /\ t[j - 1].kind \in {"heading", "line"}
            /\ t[j - 1].section = t[j].section
            /\ t[j].number = IF t[j - 1].kind = "line" THEN t[j - 1].number + 1 ELSE 1
            /\ t[j + 1].kind \in {"line", "subtotal"}
        BY <1>2, <3>1, <3>2 DEF InOrder
      <3>4. c[k - 1] = t[j - 1]
        BY <1>1, <3>1, <3>3
      <3>5. c[k + 1] = t[j + 1]
        BY <1>1, <3>1, <3>3
      <3>6. k - 1 \in DOMAIN c /\ k + 1 \in DOMAIN c
        BY <1>1, <3>1, <3>3
      <3> QED BY <3>2, <3>3, <3>4, <3>5, <3>6
    <2> QED BY <2>1, <2>2
  <1> QED BY <1>2 DEF InOrder, c

\* Rows of which none is a line are in order.
LEMMA InOrderOther ==
    ASSUME NEW s, \A i \in DOMAIN s : s[i].kind # "line"
    PROVE  InOrder(s)
  BY DEF InOrder

-----------------------------------------------------------------------------
(***************************************************************************)
(* The rows of all sections.                                               *)
(***************************************************************************)

\* The rows of a kind are a sequence.
LEMMA OfKindSequence ==
    ASSUME NEW kind, NEW s, Sequence(s)
    PROVE  Sequence(OfKind(kind, s))
  <1> DEFINE I == {i \in DOMAIN s : s[i].kind = kind}
             S == Range(s)
  <1>1. s \in Seq(S)
    BY DEF Sequence
  <1>2. OfKind(kind, s) = At(s, I)
    BY DEF OfKind, Where
  <1> HIDE DEF I, S
  <1>3. At(s, I) \in Seq(S)
    BY <1>1, AtType
  <1> QED BY <1>2, <1>3, SeqOfRange DEF Sequence

\* The items of lines or of their rows, one by one.
LEMMA ItemsOf ==
    ASSUME NEW s, Sequence(s)
    PROVE  /\ Sequence(Items(s)) /\ Len(Items(s)) = Len(s) /\ DOMAIN Items(s) = DOMAIN s
           /\ \A i \in DOMAIN s : Items(s)[i] = s[i].item
  <1> DEFINE n == Len(s)
             g == Items(s)
  <1>1. n \in Nat /\ DOMAIN s = 1..n
    BY DEF Sequence
  <1>2. g = [i \in 1..n |-> s[i].item]
    BY <1>1 DEF Items
  <1> HIDE DEF n, g
  <1>3. g = [i \in 1..n |-> g[i]]
    BY <1>2
  <1>4. Sequence(g) /\ Len(g) = n /\ DOMAIN g = 1..n
    BY <1>1, <1>3, MapSequence
  <1> QED BY <1>1, <1>2, <1>4 DEF g, n

\* What is as long and has the same elements is the same.
LEMMA SameSequence ==
    ASSUME NEW s, Sequence(s), NEW t, Sequence(t), Len(s) = Len(t),
           \A i \in 1..Len(s) : s[i] = t[i]
    PROVE  s = t
  <1> DEFINE S == Range(s) \cup Range(t)
  <1>1. s \in Seq(S) /\ t \in Seq(S)
    BY SeqMonotonic DEF Sequence
  <1> HIDE DEF S
  <1> QED BY <1>1, SeqEqual

\* The items of two lists are those of the first and of the second.
LEMMA ItemsConcat ==
    ASSUME NEW s, Sequence(s), NEW t, Sequence(t)
    PROVE  Items(s \o t) = Items(s) \o Items(t)
  <1> DEFINE m == Len(s)
             n == Len(t)
             c == s \o t
             p == Items(s)
             q == Items(t)
             d == p \o q
  <1>1. Joined(s, t, c)
    BY SequenceConcat
  <1>2. Sequence(p) /\ Len(p) = m /\ \A i \in DOMAIN s : p[i] = s[i].item
    BY ItemsOf
  <1>3. Sequence(q) /\ Len(q) = n /\ \A i \in DOMAIN t : q[i] = t[i].item
    BY ItemsOf
  <1> HIDE DEF c, p, q
  <1>4. Joined(p, q, d)
    BY <1>2, <1>3, SequenceConcat
  <1>5. Sequence(Items(c)) /\ Len(Items(c)) = m + n /\ \A i \in DOMAIN c : Items(c)[i] = c[i].item
    <2>1. Sequence(c) /\ Len(c) = m + n
      BY <1>1 DEF Joined
    <2> QED BY <2>1, ItemsOf
  <1> DEFINE e == Items(c)
  <1> HIDE DEF d, e
  <1>6. /\ Sequence(d) /\ Len(d) = m + n /\ m \in Nat /\ n \in Nat
        /\ DOMAIN s = 1..m /\ DOMAIN t = 1..n /\ DOMAIN c = 1..(m + n)
        /\ DOMAIN p = 1..m /\ DOMAIN q = 1..n
    BY <1>1, <1>2, <1>3, <1>4 DEF Joined
  <1>7. \A i \in 1..m : c[i] = s[i] /\ d[i] = p[i]
    BY <1>1, <1>4, <1>6 DEF Joined
  <1>8. \A i \in 1..n : c[m + i] = t[i] /\ d[m + i] = q[i]
    BY <1>1, <1>2, <1>4, <1>6 DEF Joined
  <1> HIDE DEF m, n
  <1>9. ASSUME NEW k \in 1..(m + n)
        PROVE e[k] = d[k]
    <2>1. e[k] = c[k].item
      BY <1>5, <1>6 DEF e
    <2>2. CASE k \in 1..m
      BY <1>2, <1>6, <1>7, <2>1, <2>2
    <2>3. CASE k \notin 1..m
      <3> DEFINE j == k - m
      <3>1. j \in 1..n /\ m + j = k
        BY <1>6, <2>3
      <3> HIDE DEF j
      <3>2. c[k] = t[j] /\ d[k] = q[j]
        BY <1>8, <3>1
      <3> QED BY <1>3, <1>6, <2>1, <3>1, <3>2
    <2> QED BY <2>2, <2>3
  <1>10. e = d
    BY <1>5, <1>6, <1>9, SameSequence DEF e
  <1> QED BY <1>10 DEF e, d, c, p, q

SectionItems(secs) == FlattenSeq([i \in DOMAIN secs |-> Items(secs[i].lines)])

\* One section more adds its items.
LEMMA SectionItemsAppend ==
    ASSUME NEW S, \A s \in S : Sequence(s.lines), NEW secs \in Seq(S), NEW x \in S
    PROVE  SectionItems(Append(secs, x)) = SectionItems(secs) \o Items(x.lines)
  <1> DEFINE n == Len(secs)
             t == Append(secs, x)
             p == [i \in 1..n |-> Items(secs[i].lines)]
             q == [i \in 1..(n + 1) |-> Items(t[i].lines)]
  <1>1. n \in Nat /\ DOMAIN secs = 1..n /\ DOMAIN t = 1..(n + 1)
    OBVIOUS
  <1>2. (\A i \in 1..n : t[i] = secs[i]) /\ t[n + 1] = x /\ \A i \in 1..(n + 1) : t[i] \in S
    OBVIOUS
  <1>3. SectionItems(t) = FlattenSeq(q) /\ SectionItems(secs) = FlattenSeq(p)
    BY <1>1 DEF SectionItems
  <1> HIDE DEF n, t
  <1>4. /\ p = [i \in 1..n |-> p[i]] /\ q = [i \in 1..(n + 1) |-> q[i]]
        /\ \A i \in 1..n : q[i] = p[i]
        /\ q[n + 1] = Items(x.lines)
    BY <1>1, <1>2
  <1>5. \A i \in 1..(n + 1) : Sequence(q[i])
    <2>1. ASSUME NEW i \in 1..(n + 1)
          PROVE Sequence(q[i])
      <3>1. Sequence(t[i].lines)
        BY <1>2
      <3>2. Sequence(Items(t[i].lines))
        BY <3>1, ItemsOf
      <3> QED BY <3>2
    <2> QED BY <2>1
  <1> HIDE DEF p, q
  <1>6. FlattenSeq(q) = FlattenSeq(p) \o q[n + 1]
    BY <1>1, <1>4, <1>5, FlattenLonger
  <1> QED BY <1>3, <1>4, <1>6 DEF t

\* One section more adds its rows, with the next number.
LEMMA SectionRowsAppend ==
    ASSUME NEW f, NEW S, \A s \in S : Sequence(s.lines), NEW secs \in Seq(S), NEW x \in S
    PROVE  SectionRows(f, Append(secs, x)) =
             SectionRows(f, secs) \o RowsOfSection(f, Len(secs) + 1, x)
  <1> DEFINE n == Len(secs)
             t == Append(secs, x)
             p == [i \in 1..n |-> RowsOfSection(f, i, secs[i])]
             q == [i \in 1..(n + 1) |-> RowsOfSection(f, i, t[i])]
  <1>1. n \in Nat /\ DOMAIN secs = 1..n /\ DOMAIN t = 1..(n + 1)
    OBVIOUS
  <1>2. (\A i \in 1..n : t[i] = secs[i]) /\ t[n + 1] = x /\ \A i \in 1..(n + 1) : t[i] \in S
    OBVIOUS
  <1>3. SectionRows(f, t) = FlattenSeq(q) /\ SectionRows(f, secs) = FlattenSeq(p)
    BY <1>1 DEF SectionRows
  <1> HIDE DEF n, t
  <1>4. /\ p = [i \in 1..n |-> p[i]] /\ q = [i \in 1..(n + 1) |-> q[i]]
        /\ \A i \in 1..n : q[i] = p[i]
        /\ q[n + 1] = RowsOfSection(f, n + 1, x)
    BY <1>1, <1>2
  <1>5. \A i \in 1..(n + 1) : Sequence(q[i])
    <2>1. ASSUME NEW i \in 1..(n + 1)
          PROVE Sequence(q[i])
      <3>1. Sequence(t[i].lines)
        BY <1>2
      <3>2. Sequence(RowsOfSection(f, i, t[i]))
        BY <3>1, SectionShape DEF IsRowsOf
      <3> QED BY <3>2
    <2> QED BY <2>1
  <1> HIDE DEF p, q
  <1>6. FlattenSeq(q) = FlattenSeq(p) \o q[n + 1]
    BY <1>1, <1>4, <1>5, FlattenLonger
  <1> QED BY <1>3, <1>4, <1>6 DEF t, n

\* Without a section there are no rows.
LEMMA NoSections ==
    ASSUME NEW f, NEW secs, secs = <<>>
    PROVE  SectionRows(f, secs) = <<>> /\ SectionItems(secs) = <<>>
  <1>1. DOMAIN secs = {}
    OBVIOUS
  <1>2. [i \in DOMAIN secs |-> RowsOfSection(f, i, secs[i])] = <<>>
    BY <1>1
  <1>3. [i \in DOMAIN secs |-> Items(secs[i].lines)] = <<>>
    BY <1>1
  <1> QED BY <1>2, <1>3, FlattenEmpty DEF SectionRows, SectionItems

\* What the rows say of the sections they list.
Listed(f, secs) ==
    LET rows == SectionRows(f, secs)
        lines == OfKind("line", rows)
        subtotals == OfKind("subtotal", rows) IN
    /\ Sequence(rows) /\ InOrder(rows) /\ OfKind("summary", rows) = <<>>
    /\ Items(lines) = SectionItems(secs)
    /\ \A i \in 1..Len(secs) : OfSection(i, lines) = LineRows(f, i, secs[i].lines)
    /\ \A j \in DOMAIN lines : lines[j].section \in 1..Len(secs)
    /\ Len(subtotals) = Len(secs)
    /\ \A i \in 1..Len(secs) : subtotals[i] = Subtotal(i, Shown(secs[i].subtotal))

\* One section more is listed like those before it.
LEMMA ListedStep ==
    ASSUME NEW f, NEW S, \A s \in S : Sequence(s.lines), NEW secs \in Seq(S), NEW x \in S,
           Listed(f, secs)
    PROVE  Listed(f, Append(secs, x))
  <1> DEFINE n == Len(secs)
             m == n + 1
             t == Append(secs, x)
             rows == SectionRows(f, secs)
             lines == OfKind("line", rows)
             subtotals == OfKind("subtotal", rows)
             more == RowsOfSection(f, m, x)
             moreLines == LineRows(f, m, x.lines)
             all == rows \o more
             allLines == lines \o moreLines
  <1>1. n \in Nat /\ m \in Nat /\ Len(t) = m /\ t[m] = x /\ \A i \in 1..n : t[i] = secs[i]
    OBVIOUS
  <1>2. SectionRows(f, t) = all
    BY SectionRowsAppend
  <1>3. /\ Sequence(rows) /\ InOrder(rows) /\ OfKind("summary", rows) = <<>>
        /\ Items(lines) = SectionItems(secs)
        /\ \A i \in 1..n : OfSection(i, lines) = LineRows(f, i, secs[i].lines)
        /\ \A j \in DOMAIN lines : lines[j].section \in 1..n
        /\ Len(subtotals) = n
        /\ \A i \in 1..n : subtotals[i] = Subtotal(i, Shown(secs[i].subtotal))
    BY DEF Listed
  <1>4. SectionItems(t) = SectionItems(secs) \o Items(x.lines)
    BY SectionItemsAppend
  <1>5. Sequence(x.lines)
    OBVIOUS
  <1>6. /\ Sequence(moreLines) /\ DOMAIN moreLines = DOMAIN x.lines
        /\ \A j \in DOMAIN x.lines : IsLineRow(moreLines[j], m, j, x.lines[j])
    BY <1>5, LineRowsOf
  <1> HIDE DEF n, t, rows
  <1>7. Sequence(more) /\ InOrder(more)
    BY <1>5, SectionShape, SectionInOrder DEF IsRowsOf
  <1>8. /\ OfKind("line", more) = moreLines
        /\ OfKind("subtotal", more) = <<Subtotal(m, Shown(x.subtotal))>>
        /\ OfKind("summary", more) = <<>>
    BY <1>5, SectionKinds
  <1> HIDE DEF m, more, moreLines
  <1>9. Sequence(all) /\ InOrder(all)
    BY <1>3, <1>7, SequenceConcat, InOrderConcat DEF Joined
  <1>10. OfKind("summary", all) = <<>>
    <2>1. OfKind("summary", all) = OfKind("summary", rows) \o OfKind("summary", more)
      BY <1>3, <1>7, OfKindConcat
    <2>2. <<>> \o <<>> = <<>>
      BY <1>5, EmptyConcat
    <2> QED BY <1>3, <1>8, <2>1, <2>2
  <1>11. OfKind("line", all) = allLines
    BY <1>3, <1>7, <1>8, OfKindConcat
  <1>12. Sequence(lines)
    BY <1>3, OfKindSequence
  <1> HIDE DEF lines
  <1>13. Items(allLines) = SectionItems(t)
    <2>1. Items(allLines) = Items(lines) \o Items(moreLines)
      BY <1>6, <1>12, ItemsConcat
    <2>2. Items(moreLines) = Items(x.lines)
      BY <1>6 DEF Items, IsLineRow
    <2> QED BY <1>3, <1>4, <2>1, <2>2
  <1>14. Joined(lines, moreLines, allLines)
    BY <1>6, <1>12, SequenceConcat
  <1>15. ASSUME NEW i \in 1..m
         PROVE OfSection(i, allLines) = LineRows(f, i, t[i].lines)
    <2>1. OfSection(i, allLines) = OfSection(i, lines) \o OfSection(i, moreLines)
      BY <1>6, <1>12, OfSectionConcat
    <2>2. CASE i \in 1..n
      <3>1. \A j \in DOMAIN moreLines : moreLines[j].section # i
        BY <1>1, <1>6, <2>2 DEF IsLineRow, m
      <3>2. OfSection(i, moreLines) = <<>>
        BY <1>6, <3>1, OfSectionNone
      <3>3. OfSection(i, lines) = LineRows(f, i, t[i].lines)
        BY <1>1, <1>3, <2>2
      <3>4. Sequence(t[i].lines)
        <4>1. secs[i] \in S
          BY <2>2, ElementOfSeq DEF n
        <4> QED BY <1>1, <2>2, <4>1
      <3> DEFINE u == LineRows(f, i, t[i].lines)
      <3>5. Sequence(u)
        BY <3>4, LineRowsOf
      <3> HIDE DEF u
      <3>6. u \o <<>> = u
        BY <3>5, EmptyConcat
      <3> QED BY <2>1, <3>2, <3>3, <3>6 DEF u
    <2>3. CASE i \notin 1..n
      <3>1. i = m
        BY <1>1, <2>3 DEF m
      <3>2. \A j \in DOMAIN lines : lines[j].section # i
        BY <1>3, <2>3
      <3>3. OfSection(i, lines) = <<>>
        BY <1>12, <3>2, OfSectionNone
      <3>4. \A j \in DOMAIN moreLines : moreLines[j].section = i
        BY <1>6, <3>1 DEF IsLineRow
      <3>5. OfSection(i, moreLines) = moreLines
        BY <1>6, <3>4, OfSectionAll
      <3>6. <<>> \o moreLines = moreLines
        BY <1>6, EmptyConcat
      <3>7. moreLines = LineRows(f, i, t[i].lines)
        BY <1>1, <3>1 DEF moreLines
      <3> QED BY <2>1, <3>3, <3>5, <3>6, <3>7
    <2> QED BY <2>2, <2>3
  <1>16. ASSUME NEW j \in DOMAIN allLines
         PROVE allLines[j].section \in 1..m
    <2> DEFINE a == Len(lines)
               b == Len(moreLines)
    <2>1. /\ a \in Nat /\ b \in Nat /\ DOMAIN lines = 1..a /\ DOMAIN moreLines = 1..b /\ j \in 1..(a + b)
          /\ \A k \in DOMAIN lines : allLines[k] = lines[k]
          /\ \A k \in DOMAIN moreLines : allLines[a + k] = moreLines[k]
      BY <1>14, <1>16 DEF Joined
    <2> HIDE DEF a, b, allLines
    <2>2. CASE j \in 1..a
      <3>1. allLines[j].section \in 1..n
        BY <1>3, <2>1, <2>2
      <3> QED BY <1>1, <3>1 DEF m
    <2>3. CASE j \notin 1..a
      <3> DEFINE k == j - a
      <3>1. k \in 1..b /\ a + k = j
        BY <2>1, <2>3
      <3> HIDE DEF k
      <3>2. allLines[j] = moreLines[k] /\ moreLines[k].section = m
        BY <1>6, <2>1, <3>1 DEF IsLineRow
      <3> QED BY <1>1, <3>2 DEF m
    <2> QED BY <2>2, <2>3
  <1>17. /\ Len(OfKind("subtotal", all)) = m
         /\ \A i \in 1..m : OfKind("subtotal", all)[i] = Subtotal(i, Shown(t[i].subtotal))
    <2> DEFINE last == <<Subtotal(m, Shown(x.subtotal))>>
               subs == subtotals \o last
    <2>1. OfKind("subtotal", all) = subs
      <3>1. OfKind("subtotal", all) = OfKind("subtotal", rows) \o OfKind("subtotal", more)
        BY <1>3, <1>7, OfKindConcat
      <3> QED BY <1>8, <3>1, Zenon
    <2>2. Sequence(last) /\ Len(last) = 1 /\ last[1] = Subtotal(m, Shown(x.subtotal))
      BY SequenceOne
    <2>3. Sequence(subtotals)
      BY <1>3, OfKindSequence
    <2> HIDE DEF last, subtotals
    <2>4. Joined(subtotals, last, subs)
      BY <2>2, <2>3, SequenceConcat
    <2> HIDE DEF subs
    <2>5. Len(subs) = n + 1 /\ \A i \in 1..n : subs[i] = subtotals[i]
      BY <1>3, <2>2, <2>4 DEF Joined, subtotals
    <2>6. subs[n + 1] = last[1]
      BY <1>3, <2>2, <2>4 DEF Joined, subtotals
    <2>7. ASSUME NEW i \in 1..m
          PROVE subs[i] = Subtotal(i, Shown(t[i].subtotal))
      <3>1. CASE i \in 1..n
        BY <1>1, <1>3, <2>5, <3>1 DEF subtotals
      <3>2. CASE i \notin 1..n
        <4>1. i = m /\ m = n + 1
          BY <1>1, <3>2 DEF m
        <4> QED BY <1>1, <2>2, <2>6, <4>1
      <3> QED BY <3>1, <3>2
    <2> QED BY <2>1, <2>5, <2>7 DEF m
  <1> HIDE DEF all, allLines
  <1>18. Listed(f, t)
    BY <1>1, <1>2, <1>9, <1>10, <1>11, <1>13, <1>15, <1>16, <1>17 DEF Listed
  <1> QED BY <1>18 DEF t

\* The sections are listed, however many they are.
LEMMA AllListed ==
    ASSUME NEW f, NEW S, \A s \in S : Sequence(s.lines), NEW secs \in Seq(S)
    PROVE  Listed(f, secs)
  <1> DEFINE P == {u \in Seq(S) : Listed(f, u)}
  <1>1. <<>> \in P
    <2>1. ASSUME NEW u \in Seq(S), u = <<>>
          PROVE Listed(f, u)
      <3>1. SectionRows(f, u) = <<>> /\ SectionItems(u) = <<>> /\ Len(u) = 0
        BY <2>1, NoSections
      <3>2. Sequence(<<>>) /\ InOrder(<<>>)
        BY EmptyConcat, InOrderOther DEF Sequence
      <3>3. OfKind("summary", <<>>) = <<>> /\ OfKind("line", <<>>) = <<>> /\ OfKind("subtotal", <<>>) = <<>>
        BY <3>2, OfKindNone
      <3>4. Items(<<>>) = <<>>
        BY DEF Items
      <3> QED BY <3>1, <3>2, <3>3, <3>4 DEF Listed
    <2>2. <<>> \in Seq(S)
      OBVIOUS
    <2> QED BY <2>1, <2>2
  <1>2. ASSUME NEW u \in Seq(S), NEW x \in S, u \in P
        PROVE Append(u, x) \in P
    <2>1. Listed(f, Append(u, x))
      BY <1>2, ListedStep
    <2>2. Append(u, x) \in Seq(S)
      OBVIOUS
    <2> QED BY <2>1, <2>2
  <1> HIDE DEF P
  <1>3. \A u \in Seq(S), x \in S : u \in P => Append(u, x) \in P
    BY <1>2
  <1>4. \A u \in Seq(S) : u \in P
    BY <1>1, <1>3, SequenceInduction
  <1>5. secs \in P
    BY <1>4
  <1> QED BY <1>5 DEF P

-----------------------------------------------------------------------------
(***************************************************************************)
(* The sections of a version.                                              *)
(***************************************************************************)

SectionsOf(S) == {Section(s) : s \in S}

\* exportSections keeps a line if and only if it has an amount.
LEMMA SectionLines ==
    ASSUME None \notin Int, NEW s, CalculatedScope(s)
    PROVE  /\ Section(s).name = s.name /\ Section(s).subtotal = s.subtotal
           /\ Section(s).lines = Where(s.lines, LAMBDA l : l.amount # None)
           /\ Sequence(Section(s).lines)
           /\ \A k \in DOMAIN Section(s).lines : \E j \in DOMAIN s.lines :
                /\ Section(s).lines[k] = s.lines[j]
                /\ s.lines[j].amount \in Nat
  <1> DEFINE I == {j \in DOMAIN s.lines : IsExported(s.lines[j])}
             J == {j \in DOMAIN s.lines : s.lines[j].amount # None}
             lines == s.lines
             T == Range(lines)
  <1>1. I = J
    BY DEF CalculatedScope, IsExported
  <1>2. Where(s.lines, LAMBDA l : l.amount # None) = At(lines, J)
    BY DEF Where
  <1>3. /\ Section(s).name = s.name /\ Section(s).subtotal = s.subtotal
        /\ Section(s).lines = At(lines, I)
    BY DEF Section, Where
  <1>4. \A j \in J : j \in DOMAIN lines /\ lines[j].amount \in Nat
    BY DEF CalculatedScope
  <1>5. lines \in Seq(T)
    BY DEF CalculatedScope, Sequence
  <1> HIDE DEF I, J, lines, T
  <1>6. At(lines, J) \in Seq(T)
    BY <1>5, AtType
  <1>7. \A k \in DOMAIN At(lines, J) : \E j \in J \cap DOMAIN lines : At(lines, J)[k] = lines[j]
    BY <1>5, AtElements
  <1>8. Sequence(At(lines, J))
    BY <1>6, SeqOfRange DEF Sequence
  <1>9. \A k \in DOMAIN At(lines, J) : \E j \in DOMAIN lines : At(lines, J)[k] = lines[j] /\ lines[j].amount \in Nat
    BY <1>4, <1>7
  <1> QED BY <1>1, <1>2, <1>3, <1>8, <1>9 DEF lines

\* One scope more adds its section if that has a line.
LEMMA SectionsAppend ==
    ASSUME NEW S, NEW scopes \in Seq(S), NEW s \in S
    PROVE  /\ ExportSections(scopes) \in Seq(SectionsOf(S))
           /\ ExportSections(Append(scopes, s)) =
                IF Section(s).lines # <<>> THEN Append(ExportSections(scopes), Section(s))
                ELSE ExportSections(scopes)
  <1> DEFINE n == Len(scopes)
             t == Append(scopes, s)
             T == SectionsOf(S)
             p == [i \in 1..n |-> Section(scopes[i])]
             q == [i \in 1..(n + 1) |-> Section(t[i])]
             I == {i \in DOMAIN q : q[i].lines # <<>>}
             J == {i \in DOMAIN p : p[i].lines # <<>>}
             x == Section(s)
  <1>1. n \in Nat /\ DOMAIN scopes = 1..n /\ DOMAIN t = 1..(n + 1)
    OBVIOUS
  <1>2. /\ \A i \in 1..n : t[i] = scopes[i]
        /\ t[n + 1] = s /\ \A i \in 1..(n + 1) : t[i] \in S
        /\ \A i \in 1..n : scopes[i] \in S
    OBVIOUS
  <1>3. ExportSections(scopes) = At(p, J) /\ ExportSections(t) = At(q, I)
    BY <1>1 DEF ExportSections, Where
  <1> HIDE DEF n, t
  <1>4. \A i \in 1..(n + 1) : q[i] \in T
    BY <1>2 DEF SectionsOf
  <1>5. \A i \in 1..n : q[i] = p[i]
    BY <1>1, <1>2
  <1>6. q[n + 1] = x /\ x \in T
    BY <1>1, <1>2 DEF SectionsOf
  <1>7. p \in Seq(T) /\ Len(p) = n /\ DOMAIN p = 1..n
    <2>1. \A i \in 1..n : p[i] \in T
      BY <1>2 DEF SectionsOf
    <2>2. p \in [1..n -> T]
      BY <2>1
    <2> HIDE DEF p, T
    <2> QED BY <1>1, <2>2, FunctionIsSeq
  <1>8. q \in Seq(T) /\ Len(q) = n + 1 /\ DOMAIN q = 1..(n + 1)
    <2> DEFINE m == n + 1
    <2>1. m \in Nat /\ q \in [1..m -> T]
      BY <1>1, <1>4
    <2> HIDE DEF q, T, m
    <2>2. q \in Seq(T) /\ Len(q) = m /\ DOMAIN q = 1..m
      BY <2>1, FunctionIsSeq
    <2> QED BY <2>2 DEF m
  <1> HIDE DEF p, q, T, x
  <1>9. q = Append(p, x)
    <2>1. Len(q) = Len(p) + 1 /\ q[Len(p) + 1] = x /\ \A i \in 1..Len(p) : q[i] = p[i]
      BY <1>5, <1>6, <1>7, <1>8
    <2> QED BY <1>6, <1>7, <1>8, <2>1, LongerByOne
  <1>10. I \cap DOMAIN p = J \cap DOMAIN p /\ (n + 1 \in I <=> x.lines # <<>>)
    BY <1>1, <1>5, <1>6, <1>7, <1>8
  <1> HIDE DEF I, J
  <1>11. At(Append(p, x), I) = IF Len(p) + 1 \in I THEN Append(At(p, J), x) ELSE At(p, J)
    BY <1>6, <1>7, <1>10, AtAppend
  <1>12. At(p, J) \in Seq(T)
    BY <1>7, AtType
  <1> QED BY <1>3, <1>7, <1>9, <1>10, <1>11, <1>12 DEF t, x, T

Subtotals(scopes) == [i \in DOMAIN scopes |-> scopes[i].subtotal]

\* A sum with one more.
LEMMA TotalLonger ==
    ASSUME NEW n \in Nat, NEW p, p = [i \in 1..n |-> p[i]],
           NEW q, q = [i \in 1..(n + 1) |-> q[i]],
           \A i \in 1..n : q[i] = p[i], \A i \in 1..(n + 1) : q[i] \in Int
    PROVE  p \in Seq(Int) /\ Len(p) = n /\ q = Append(p, q[n + 1]) /\ Total(q) = Total(p) + q[n + 1]
  <1> DEFINE x == q[n + 1]
             m == n + 1
  <1>1. p \in Seq(Int) /\ Len(p) = n
    <2>1. \A i \in 1..n : p[i] \in Int
      OBVIOUS
    <2>2. p \in [1..n -> Int]
      BY <2>1
    <2> QED BY <2>2, FunctionIsSeq
  <1>2. q \in [1..m -> Int] /\ m \in Nat /\ x \in Int
    OBVIOUS
  <1> HIDE DEF m
  <1>3. q \in Seq(Int) /\ Len(q) = m
    BY <1>2, FunctionIsSeq
  <1>4. q = Append(p, x)
    <2>1. Len(q) = Len(p) + 1 /\ q[Len(p) + 1] = x /\ \A i \in 1..Len(p) : q[i] = p[i]
      BY <1>1, <1>3 DEF m
    <2> HIDE DEF x
    <2> QED BY <1>1, <1>2, <1>3, <2>1, LongerByOne
  <1> HIDE DEF x
  <1>5. Total(Append(p, x)) = Total(p) + x
    BY <1>1, <1>2, TotalAppend
  <1> QED BY <1>1, <1>4, <1>5 DEF x

\* One scope or section more adds its subtotal.
LEMMA SubtotalsAppend ==
    ASSUME NEW S, \A s \in S : s.subtotal \in Int, NEW u \in Seq(S), NEW x \in S
    PROVE  Total(Subtotals(Append(u, x))) = Total(Subtotals(u)) + x.subtotal
  <1> DEFINE n == Len(u)
             t == Append(u, x)
             p == Subtotals(u)
             q == Subtotals(t)
  <1>1. n \in Nat /\ DOMAIN u = 1..n /\ DOMAIN t = 1..(n + 1)
    OBVIOUS
  <1>2. /\ \A i \in 1..n : t[i] = u[i]
        /\ t[n + 1] = x /\ \A i \in 1..(n + 1) : t[i] \in S
    OBVIOUS
  <1> HIDE DEF n, t
  <1>3. p = [i \in 1..n |-> u[i].subtotal] /\ q = [i \in 1..(n + 1) |-> t[i].subtotal]
    BY <1>1 DEF Subtotals
  <1> HIDE DEF p, q
  <1>4. /\ p = [i \in 1..n |-> p[i]] /\ q = [i \in 1..(n + 1) |-> q[i]]
        /\ \A i \in 1..n : q[i] = p[i]
        /\ \A i \in 1..(n + 1) : q[i] \in Int
        /\ q[n + 1] = x.subtotal
    BY <1>1, <1>2, <1>3
  <1>5. Total(q) = Total(p) + q[n + 1]
    BY <1>1, <1>4, TotalLonger
  <1> QED BY <1>4, <1>5 DEF p, q, t

LineAmounts(lines) == [j \in DOMAIN lines |-> AmountOf(lines[j])]

\* One line more adds its amount.
LEMMA LineAmountsAppend ==
    ASSUME NEW S, \A l \in S : AmountOf(l) \in Int, NEW u \in Seq(S), NEW x \in S
    PROVE  Total(LineAmounts(Append(u, x))) = Total(LineAmounts(u)) + AmountOf(x)
  <1> DEFINE n == Len(u)
             t == Append(u, x)
             p == LineAmounts(u)
             q == LineAmounts(t)
  <1>1. n \in Nat /\ DOMAIN u = 1..n /\ DOMAIN t = 1..(n + 1)
    OBVIOUS
  <1>2. /\ \A i \in 1..n : t[i] = u[i]
        /\ t[n + 1] = x /\ \A i \in 1..(n + 1) : t[i] \in S
    OBVIOUS
  <1> HIDE DEF n, t
  <1>3. p = [i \in 1..n |-> AmountOf(u[i])] /\ q = [i \in 1..(n + 1) |-> AmountOf(t[i])]
    BY <1>1 DEF LineAmounts
  <1> HIDE DEF p, q
  <1>4. /\ p = [i \in 1..n |-> p[i]] /\ q = [i \in 1..(n + 1) |-> q[i]]
        /\ \A i \in 1..n : q[i] = p[i]
        /\ \A i \in 1..(n + 1) : q[i] \in Int
        /\ q[n + 1] = AmountOf(x)
    BY <1>1, <1>2, <1>3
  <1>5. Total(q) = Total(p) + q[n + 1]
    BY <1>1, <1>4, TotalLonger
  <1> QED BY <1>4, <1>5 DEF p, q, t

\* Lines without an amount add nothing.
LEMMA AmountsSelected ==
    ASSUME NEW S, \A l \in S : AmountOf(l) \in Int, NEW lines \in Seq(S)
    PROVE  Total(LineAmounts(Where(lines, LAMBDA l : l.amount # None))) = Total(LineAmounts(lines))
  <1> DEFINE On(u) == {j \in DOMAIN u : u[j].amount # None}
             P == {u \in Seq(S) : Total(LineAmounts(At(u, On(u)))) = Total(LineAmounts(u))}
  <1>1. <<>> \in P
    <2>1. ASSUME NEW I PROVE At(<<>>, I) = <<>>
      BY AtEmpty
    <2> QED BY <2>1
  <1>2. ASSUME NEW u \in Seq(S), NEW x \in S, u \in P
        PROVE Append(u, x) \in P
    <2> DEFINE v == Append(u, x)
               a == At(u, On(u))
    <2>1. /\ v \in Seq(S) /\ DOMAIN v = 1..(Len(u) + 1) /\ DOMAIN u = 1..Len(u) /\ Len(u) \in Nat
          /\ v[Len(u) + 1] = x /\ \A i \in DOMAIN u : v[i] = u[i]
      OBVIOUS
    <2>2. Total(LineAmounts(v)) = Total(LineAmounts(u)) + AmountOf(x)
      BY LineAmountsAppend
    <2>3. Total(LineAmounts(a)) = Total(LineAmounts(u))
      BY <1>2
    <2> HIDE DEF v
    <2>4. On(v) \cap DOMAIN u = On(u) \cap DOMAIN u /\ (Len(u) + 1 \in On(v) <=> x.amount # None)
      BY <2>1
    <2> HIDE DEF On
    <2>5. At(v, On(v)) = IF Len(u) + 1 \in On(v) THEN Append(a, x) ELSE a
      BY <2>4, AtAppend DEF v
    <2>6. a \in Seq(S)
      BY AtType
    <2> HIDE DEF a
    <2>7. CASE x.amount # None
      <3>1. Total(LineAmounts(Append(a, x))) = Total(LineAmounts(a)) + AmountOf(x)
        BY <2>6, LineAmountsAppend
      <3>2. Total(LineAmounts(At(v, On(v)))) = Total(LineAmounts(v))
        BY <2>2, <2>3, <2>4, <2>5, <2>7, <3>1
      <3> QED BY <2>1, <3>2 DEF v, On
    <2>8. CASE x.amount = None
      <3>1. AmountOf(x) = 0 /\ Total(LineAmounts(u)) \in Int
        <4>1. LineAmounts(u) \in [1..Len(u) -> Int]
          <5>1. \A i \in 1..Len(u) : u[i] \in S
            OBVIOUS
          <5> QED BY <2>1, <5>1 DEF LineAmounts
        <4> DEFINE w == LineAmounts(u)
        <4> HIDE DEF w
        <4>2. w \in Seq(Int)
          BY <2>1, <4>1, FunctionIsSeq DEF w
        <4>3. Total(w) \in Int
          BY <4>2, TotalType
        <4> QED BY <2>8, <4>3 DEF AmountOf, w
      <3>2. Total(LineAmounts(At(v, On(v)))) = Total(LineAmounts(v))
        BY <2>2, <2>3, <2>4, <2>5, <2>8, <3>1
      <3> QED BY <2>1, <3>2 DEF v, On
    <2> QED BY <2>7, <2>8
  <1> HIDE DEF P
  <1>3. \A u \in Seq(S), x \in S : u \in P => Append(u, x) \in P
    BY <1>2
  <1>4. \A u \in Seq(S) : u \in P
    BY <1>1, <1>3, SequenceInduction
  <1>5. lines \in P
    BY <1>4
  <1> QED BY <1>5 DEF P, Where

\* What is mapped to integers is summed to one.
LEMMA SubtotalsType ==
    ASSUME NEW S, \A s \in S : s.subtotal \in Int, NEW u \in Seq(S)
    PROVE  Subtotals(u) \in Seq(Int) /\ Len(Subtotals(u)) = Len(u) /\ Total(Subtotals(u)) \in Int
  <1> DEFINE p == Subtotals(u)
  <1>1. Len(u) \in Nat /\ \A i \in 1..Len(u) : u[i] \in S
    BY ElementOfSeq
  <1>2. p \in [1..Len(u) -> Int]
    BY <1>1 DEF Subtotals
  <1> HIDE DEF p
  <1>3. p \in Seq(Int) /\ Len(p) = Len(u)
    BY <1>1, <1>2, FunctionIsSeq
  <1>4. Total(p) \in Int
    BY <1>3, TotalType
  <1> QED BY <1>3, <1>4 DEF p

\* The items of sections are a sequence.
LEMMA ItemsSequence ==
    ASSUME NEW S, \A s \in S : Sequence(s.lines), NEW secs \in Seq(S)
    PROVE  Sequence(SectionItems(secs))
  <1> DEFINE n == Len(secs)
             T == UNION {Range(Items(secs[i].lines)) : i \in 1..n}
             U == Seq(T)
             p == [i \in DOMAIN secs |-> Items(secs[i].lines)]
  <1>1. n \in Nat /\ DOMAIN secs = 1..n /\ \A i \in 1..n : Sequence(secs[i].lines)
    BY ElementOfSeq
  <1>2. ASSUME NEW i \in 1..n
        PROVE Items(secs[i].lines) \in Seq(T)
    <2> DEFINE w == Items(secs[i].lines)
    <2>1. Sequence(w)
      BY <1>1, ItemsOf
    <2>2. Range(w) \subseteq T
      OBVIOUS
    <2> HIDE DEF w, T
    <2>3. w \in Seq(T)
      BY <2>1, <2>2, SeqMonotonic DEF Sequence
    <2> QED BY <2>3 DEF w
  <1> HIDE DEF U
  <1>3. p \in [1..n -> U]
    BY <1>1, <1>2 DEF U
  <1> HIDE DEF p, n, T
  <1>4. p \in Seq(U)
    BY <1>1, <1>3, FunctionIsSeq
  <1>5. FlattenSeq(p) \in Seq(T)
    BY <1>4, FlattenType DEF U
  <1> QED BY <1>5, SeqOfRange DEF Sequence, SectionItems, p

\* The scopes of a version, and what is exported of them.
Exported(scopes, secs) ==
    /\ SectionItems(secs) = PricedItems(scopes)
    /\ Total(Subtotals(secs)) = Total(Subtotals(scopes))

\* One scope more adds the items of its section.
LEMMA PricedItemsAppend ==
    ASSUME None \notin Int, NEW S, \A s \in S : CalculatedScope(s), NEW u \in Seq(S), NEW x \in S
    PROVE  PricedItems(Append(u, x)) = PricedItems(u) \o Items(Section(x).lines)
  <1> DEFINE n == Len(u)
             t == Append(u, x)
             part(s) == Items(Where(s.lines, LAMBDA l : l.amount # None))
             p == [i \in 1..n |-> part(u[i])]
             q == [i \in 1..(n + 1) |-> part(t[i])]
  <1>1. n \in Nat /\ DOMAIN u = 1..n /\ DOMAIN t = 1..(n + 1)
    OBVIOUS
  <1>2. (\A i \in 1..n : t[i] = u[i]) /\ t[n + 1] = x /\ \A i \in 1..(n + 1) : t[i] \in S
    OBVIOUS
  <1>3. PricedItems(t) = FlattenSeq(q) /\ PricedItems(u) = FlattenSeq(p)
    BY <1>1 DEF PricedItems
  <1>4. ASSUME NEW s \in S
        PROVE part(s) = Items(Section(s).lines) /\ Sequence(part(s))
    <2>1. /\ Section(s).lines = Where(s.lines, LAMBDA l : l.amount # None)
          /\ Sequence(Section(s).lines)
      BY SectionLines
    <2>2. Sequence(Items(Section(s).lines))
      BY <2>1, ItemsOf
    <2> QED BY <2>1, <2>2
  <1> HIDE DEF n, t, part
  <1>5. /\ p = [i \in 1..n |-> p[i]] /\ q = [i \in 1..(n + 1) |-> q[i]]
        /\ \A i \in 1..n : q[i] = p[i]
        /\ q[n + 1] = Items(Section(x).lines)
    BY <1>1, <1>2, <1>4
  <1>6. \A i \in 1..(n + 1) : Sequence(q[i])
    BY <1>2, <1>4
  <1> HIDE DEF p, q
  <1>7. FlattenSeq(q) = FlattenSeq(p) \o q[n + 1]
    BY <1>1, <1>5, <1>6, FlattenLonger
  <1> QED BY <1>3, <1>5, <1>7 DEF t

\* The subtotal of a scope is the sum of what is exported of it.
LEMMA SectionSubtotal ==
    ASSUME None \notin Int, NEW s, CalculatedScope(s)
    PROVE  s.subtotal = Total(LineAmounts(Section(s).lines)) /\ s.subtotal \in Int
  <1> DEFINE lines == s.lines
             S == Range(lines)
  <1>1. lines \in Seq(S)
    BY DEF CalculatedScope, Sequence
  <1>2. \A l \in S : AmountOf(l) \in Int
    BY DEF CalculatedScope, AmountOf, Range
  <1>3. s.subtotal = Total(LineAmounts(lines))
    BY DEF CalculatedScope, LineAmounts
  <1>4. Section(s).lines = Where(lines, LAMBDA l : l.amount # None)
    BY SectionLines
  <1> HIDE DEF lines, S
  <1>5. Total(LineAmounts(Where(lines, LAMBDA l : l.amount # None))) = Total(LineAmounts(lines))
    BY <1>1, <1>2, AmountsSelected
  <1>6. LineAmounts(lines) \in [1..Len(lines) -> Int] /\ Len(lines) \in Nat
    <2>1. \A i \in 1..Len(lines) : lines[i] \in S
      BY <1>1, ElementOfSeq
    <2> QED BY <1>1, <1>2, <2>1 DEF LineAmounts
  <1> DEFINE w == LineAmounts(lines)
  <1> HIDE DEF w
  <1>7. w \in Seq(Int)
    BY <1>6, FunctionIsSeq DEF w
  <1>8. Total(w) \in Int
    BY <1>7, TotalType
  <1> QED BY <1>3, <1>4, <1>5, <1>8 DEF w

\* The sections of the exporter have the priced lines of the scopes, and
\* their sum.
LEMMA ScopesExported ==
    ASSUME None \notin Int, NEW S, \A s \in S : CalculatedScope(s), NEW scopes \in Seq(S)
    PROVE  Exported(scopes, ExportSections(scopes))
  <1> DEFINE P == {u \in Seq(S) : Exported(u, ExportSections(u))}
             T == SectionsOf(S)
  <1>1. \A s \in S : s.subtotal \in Int
    BY SectionSubtotal
  <1>2. ASSUME NEW s \in S
        PROVE Sequence(Section(s).lines) /\ Section(s).subtotal = s.subtotal
    BY SectionLines
  <1>3. \A x \in T : Sequence(x.lines) /\ x.subtotal \in Int
    BY <1>1, <1>2 DEF SectionsOf
  <1>4. <<>> \in P
    <2>1. ASSUME NEW u \in Seq(S), u = <<>>
          PROVE Exported(u, ExportSections(u))
      <3>1. DOMAIN u = {}
        BY <2>1
      <3>2. [i \in DOMAIN u |-> Section(u[i])] = <<>>
        BY <3>1
      <3>3. ExportSections(u) = At(<<>>, {i \in DOMAIN <<>> : <<>>[i].lines # <<>>})
        BY <3>2 DEF ExportSections, Where
      <3> DEFINE I == {i \in DOMAIN <<>> : <<>>[i].lines # <<>>}
      <3> HIDE DEF I
      <3>4. At(<<>>, I) = <<>>
        BY AtEmpty
      <3>5. ExportSections(u) = <<>>
        BY <3>3, <3>4 DEF I
      <3>6. SectionItems(<<>>) = <<>>
        BY NoSections
      <3>7. [i \in DOMAIN u |-> Items(Where(u[i].lines, LAMBDA l : l.amount # None))] = <<>>
        BY <3>1
      <3>8. PricedItems(u) = <<>>
        BY <3>7, FlattenEmpty DEF PricedItems
      <3> QED BY <2>1, <3>5, <3>6, <3>8 DEF Exported
    <2>2. <<>> \in Seq(S)
      OBVIOUS
    <2> QED BY <2>1, <2>2
  <1>5. ASSUME NEW u \in Seq(S), NEW x \in S, u \in P
        PROVE Append(u, x) \in P
    <2> DEFINE secs == ExportSections(u)
               t == Append(u, x)
               y == Section(x)
    <2>1. /\ secs \in Seq(T)
          /\ ExportSections(t) = IF y.lines # <<>> THEN Append(secs, y) ELSE secs
      BY SectionsAppend
    <2>2. PricedItems(t) = PricedItems(u) \o Items(y.lines)
      BY PricedItemsAppend
    <2>3. Total(Subtotals(t)) = Total(Subtotals(u)) + x.subtotal
      BY <1>1, SubtotalsAppend
    <2>4. y \in T /\ y.subtotal = x.subtotal /\ Sequence(y.lines)
      BY <1>2 DEF SectionsOf
    <2>5. SectionItems(secs) = PricedItems(u) /\ Total(Subtotals(secs)) = Total(Subtotals(u))
      BY <1>5 DEF Exported
    <2>6. x.subtotal = Total(LineAmounts(y.lines))
      BY SectionSubtotal
    <2> HIDE DEF secs, t, y, T
    <2>7. CASE y.lines # <<>>
      <3>1. SectionItems(Append(secs, y)) = SectionItems(secs) \o Items(y.lines)
        BY <1>3, <2>1, <2>4, SectionItemsAppend
      <3>2. Total(Subtotals(Append(secs, y))) = Total(Subtotals(secs)) + y.subtotal
        BY <1>3, <2>1, <2>4, SubtotalsAppend
      <3>3. Exported(t, ExportSections(t))
        BY <2>1, <2>2, <2>3, <2>4, <2>5, <2>7, <3>1, <3>2 DEF Exported
      <3> QED BY <3>3 DEF t
    <2>8. CASE y.lines = <<>>
      <3>1. Items(y.lines) = <<>>
        BY <2>8 DEF Items
      <3>2. LineAmounts(y.lines) = <<>>
        BY <2>8 DEF LineAmounts
      <3>3. x.subtotal = 0
        BY <2>6, <3>2, TotalEmpty
      <3>4. PricedItems(u) \o <<>> = PricedItems(u)
        <4> DEFINE rows == SectionItems(secs)
        <4>1. Sequence(rows)
          BY <1>3, <2>1, ItemsSequence
        <4> HIDE DEF rows
        <4>2. rows \o <<>> = rows
          BY <4>1, EmptyConcat
        <4> QED BY <2>5, <4>2 DEF rows
      <3>5. Total(Subtotals(u)) \in Int
        BY <1>1, SubtotalsType
      <3>6. Exported(t, ExportSections(t))
        <4>1. ExportSections(t) = secs
          BY <2>1, <2>8
        <4>2. PricedItems(t) = PricedItems(u)
          BY <2>2, <3>1, <3>4, Zenon
        <4>3. Total(Subtotals(t)) = Total(Subtotals(u))
          BY <2>3, <3>3, <3>5
        <4> QED BY <2>5, <4>1, <4>2, <4>3 DEF Exported
      <3> QED BY <3>6 DEF t
    <2> QED BY <2>7, <2>8
  <1> HIDE DEF P
  <1>6. \A u \in Seq(S), x \in S : u \in P => Append(u, x) \in P
    BY <1>5
  <1>7. \A u \in Seq(S) : u \in P
    BY <1>4, <1>6, SequenceInduction
  <1>8. scopes \in P
    BY <1>7
  <1> QED BY <1>8 DEF P

-----------------------------------------------------------------------------
(***************************************************************************)
(* Rounded sums.                                                           *)
(***************************************************************************)

ShownOf(a) == [i \in DOMAIN a |-> Shown(a[i])]

\* m and n are apart by no more than k.
Near(m, n, k) == m <= n + k /\ n <= m + k

\* Rounding to two decimals.
LEMMA Rounded ==
    ASSUME NEW n \in Int
    PROVE  Shown(n) \in Int /\ Near(100 * Shown(n), n, 50)
  BY DEF Shown, Near

\* A sum of rounded numbers is off by at most half a unit for each.
LEMMA RoundedSum ==
    ASSUME NEW a \in Seq(Int)
    PROVE  /\ ShownOf(a) \in Seq(Int) /\ Len(ShownOf(a)) = Len(a)
           /\ Total(ShownOf(a)) \in Int /\ Total(a) \in Int
           /\ Near(100 * Total(ShownOf(a)), Total(a), 50 * Len(a))
  <1> DEFINE P == {u \in Seq(Int) : Near(100 * Total(ShownOf(u)), Total(u), 50 * Len(u))}
  <1>0. \A n \in Int : Shown(n) \in Int
    BY Rounded
  <1>1. ASSUME NEW u \in Seq(Int)
        PROVE ShownOf(u) \in Seq(Int) /\ Len(ShownOf(u)) = Len(u)
    <2> DEFINE p == ShownOf(u)
    <2>1. Len(u) \in Nat /\ DOMAIN u = 1..Len(u)
      OBVIOUS
    <2>2. ASSUME NEW i \in 1..Len(u) PROVE Shown(u[i]) \in Int
      <3>1. u[i] \in Int
        OBVIOUS
      <3> QED BY <1>0, <3>1, Zenon
    <2>3. p \in [1..Len(u) -> Int]
      BY <2>1, <2>2 DEF ShownOf
    <2> HIDE DEF p
    <2>4. p \in Seq(Int) /\ Len(p) = Len(u)
      BY <2>1, <2>3, FunctionIsSeq
    <2> QED BY <2>4 DEF p
  <1>2. <<>> \in P
    <2>1. ASSUME NEW u \in Seq(Int), u = <<>>
          PROVE Near(100 * Total(ShownOf(u)), Total(u), 50 * Len(u))
      <3>1. ShownOf(u) = <<>> /\ Len(u) = 0
        BY <2>1 DEF ShownOf
      <3>2. Total(u) = 0 /\ Total(ShownOf(u)) = 0
        BY <2>1, <3>1, TotalEmpty
      <3> QED BY <3>1, <3>2 DEF Near
    <2>2. <<>> \in Seq(Int)
      OBVIOUS
    <2> QED BY <2>1, <2>2
  <1>3. ASSUME NEW u \in Seq(Int), NEW x \in Int, u \in P
        PROVE Append(u, x) \in P
    <2> DEFINE n == Len(u)
               t == Append(u, x)
               p == ShownOf(u)
               q == ShownOf(t)
    <2>1. /\ n \in Nat /\ DOMAIN u = 1..n /\ DOMAIN t = 1..(n + 1) /\ t \in Seq(Int) /\ Len(t) = n + 1
          /\ (\A i \in 1..n : t[i] = u[i]) /\ t[n + 1] = x /\ \A i \in 1..(n + 1) : t[i] \in Int
      OBVIOUS
    <2>2. Total(t) = Total(u) + x
      BY TotalAppend
    <2>3. Near(100 * Total(p), Total(u), 50 * n)
      BY <1>3
    <2>4. Total(u) \in Int /\ Total(p) \in Int
      BY <1>1, TotalType
    <2> HIDE DEF n, t
    <2>5. p = [i \in 1..n |-> Shown(u[i])] /\ q = [i \in 1..(n + 1) |-> Shown(t[i])]
      BY <2>1 DEF ShownOf
    <2> HIDE DEF p, q
    <2>10. ASSUME NEW i \in 1..(n + 1) PROVE Shown(t[i]) \in Int
      <3>1. t[i] \in Int
        BY <2>1
      <3> QED BY <1>0, <3>1, Zenon
    <2>6. /\ p = [i \in 1..n |-> p[i]] /\ q = [i \in 1..(n + 1) |-> q[i]]
          /\ \A i \in 1..n : q[i] = p[i]
          /\ \A i \in 1..(n + 1) : q[i] \in Int
          /\ q[n + 1] = Shown(x)
      BY <2>10, <2>1, <2>5
    <2>7. Total(q) = Total(p) + q[n + 1]
      <3>1. n \in Nat
        BY <2>1
      <3> QED BY <2>6, <3>1, TotalLonger
    <2>8. Near(100 * Total(q), Total(t), 50 * (n + 1))
      <3> DEFINE y == Shown(x)
      <3>1. y \in Int /\ Near(100 * y, x, 50)
        BY Rounded
      <3>2. Total(q) = Total(p) + y
        BY <2>6, <2>7
      <3> DEFINE c == Total(p)
                 d == Total(u)
      <3>3. n \in Nat /\ c \in Int /\ d \in Int /\ Near(100 * c, d, 50 * n)
        BY <2>1, <2>3, <2>4
      <3>4. Total(q) = c + y /\ Total(t) = d + x
        BY <2>2, <3>2
      <3> HIDE DEF y, c, d
      <3>5. Near(100 * (c + y), d + x, 50 * (n + 1))
        BY <3>1, <3>3 DEF Near
      <3> QED BY <3>4, <3>5
    <2>9. t \in P
      BY <2>1, <2>8 DEF q
    <2> QED BY <2>9 DEF t
  <1> HIDE DEF P
  <1>4. \A u \in Seq(Int), x \in Int : u \in P => Append(u, x) \in P
    BY <1>3
  <1>5. \A u \in Seq(Int) : u \in P
    BY <1>2, <1>4, SequenceInduction
  <1>6. a \in P
    BY <1>5
  <1>7. Near(100 * Total(ShownOf(a)), Total(a), 50 * Len(a))
    BY <1>6 DEF P
  <1> QED BY <1>1, <1>7, TotalType

\* The sum of what is shown, and what is shown of the sum.
LEMMA SumShown ==
    ASSUME NEW a \in Seq(Int)
    PROVE  2 * Distance(Total(ShownOf(a)), Shown(Total(a))) <= Len(a) + 1
  <1> DEFINE m == Total(ShownOf(a))
             n == Total(a)
             s == Shown(n)
             k == Len(a)
  <1>1. m \in Int /\ n \in Int /\ k \in Nat /\ Near(100 * m, n, 50 * k)
    BY RoundedSum
  <1>2. s \in Int /\ Near(100 * s, n, 50)
    BY <1>1, Rounded
  <1> HIDE DEF m, n, s, k
  <1>3. 2 * Distance(m, s) <= k + 1
    BY <1>1, <1>2 DEF Near, Distance
  <1> QED BY <1>3 DEF m, n, s, k

\* Totals of natural numbers are natural numbers.
LEMMA TotalNatural ==
    ASSUME NEW a \in Seq(Nat)
    PROVE  Total(a) \in Nat
  <1> DEFINE P == {u \in Seq(Nat) : Total(u) \in Nat}
  <1>1. <<>> \in P
    BY TotalEmpty
  <1>2. ASSUME NEW u \in Seq(Nat), NEW x \in Nat, u \in P
        PROVE Append(u, x) \in P
    <2>1. u \in Seq(Int) /\ Append(u, x) \in Seq(Nat)
      BY SeqMonotonic
    <2>2. Total(Append(u, x)) = Total(u) + x
      BY <2>1, TotalAppend
    <2> QED BY <1>2, <2>1, <2>2
  <1> HIDE DEF P
  <1>3. \A u \in Seq(Nat), x \in Nat : u \in P => Append(u, x) \in P
    BY <1>2
  <1>4. \A u \in Seq(Nat) : u \in P
    BY <1>1, <1>3, SequenceInduction
  <1>5. a \in P
    BY <1>4
  <1> QED BY <1>5 DEF P

\* The amounts of a section and its subtotal.
LEMMA SectionExplained ==
    ASSUME None \notin Int, NEW f, NEW i, NEW s, CalculatedScope(s)
    PROVE  LET lines == LineRows(f, i, Section(s).lines) IN
           2 * Distance(Amounts(lines), Shown(s.subtotal)) <= Len(lines) + 1
  <1> DEFINE x == Section(s).lines
             rows == LineRows(f, i, x)
             a == LineAmounts(x)
  <1>1. Sequence(x) /\ \A k \in DOMAIN x : x[k].amount \in Nat
    BY SectionLines
  <1>2. s.subtotal = Total(a)
    BY SectionSubtotal
  <1> HIDE DEF x
  <1>3. /\ Sequence(rows) /\ Len(rows) = Len(x) /\ Len(x) \in Nat
        /\ DOMAIN x = 1..Len(x) /\ DOMAIN rows = 1..Len(x)
        /\ \A j \in DOMAIN x : IsLineRow(rows[j], i, j, x[j])
    BY <1>1, LineRowsOf
  <1>4. \A j \in DOMAIN x : a[j] = x[j].amount /\ a[j] \in Int
    BY <1>1 DEF LineAmounts, AmountOf
  <1>5. DOMAIN a = 1..Len(x) /\ a \in [1..Len(x) -> Int]
    <2>1. \A j \in DOMAIN x : AmountOf(x[j]) \in Int
      BY <1>1 DEF AmountOf
    <2> QED BY <1>3, <2>1 DEF LineAmounts
  <1> HIDE DEF a, rows
  <1>6. a \in Seq(Int) /\ Len(a) = Len(x)
    BY <1>3, <1>5, FunctionIsSeq
  <1>7. Amounts(rows) = Total(ShownOf(a))
    <2>1. Amounts(rows) = Total([j \in DOMAIN rows |-> rows[j].amount])
      BY DEF Amounts, SumOver
    <2>2. ShownOf(a) = [j \in 1..Len(x) |-> Shown(a[j])]
      BY <1>5 DEF ShownOf
    <2>3. \A j \in 1..Len(x) : rows[j].amount = Shown(a[j])
      BY <1>3, <1>4 DEF IsLineRow
    <2> QED BY <1>3, <2>1, <2>2, <2>3
  <1>8. 2 * Distance(Total(ShownOf(a)), Shown(Total(a))) <= Len(a) + 1
    BY <1>6, SumShown
  <1> QED BY <1>2, <1>3, <1>6, <1>7, <1>8 DEF rows, x

-----------------------------------------------------------------------------
(***************************************************************************)
(* The summary.                                                            *)
(***************************************************************************)

Plain(q) ==
    <<SummaryRow(1, "direct", q.direct), SummaryRow(2, "fee", q.fee),
      SummaryRow(3, "tax", Tax(q)), SummaryRow(4, "total", Taxable(q) + Tax(q))>>

Adjusted(q) ==
    <<SummaryRow(1, "direct", q.direct), SummaryRow(2, "fee", q.fee),
      SummaryRow(3, "discount", Taxable(q) - Before(q)),
      SummaryRow(4, "tax", Tax(q)), SummaryRow(5, "total", Taxable(q) + Tax(q))>>

\* The two forms of the summary.
LEMMA SummaryRows ==
    ASSUME NEW q
    PROVE  Summary(q) = IF AdjustmentApproved(q) THEN Adjusted(q) ELSE Plain(q)
  BY Zenon DEF Summary, Adjusted, Plain

\* s is the summary of q, as it is shown.
IsSummary(q, s) ==
    LET n == IF AdjustmentApproved(q) THEN 5 ELSE 4 IN
    /\ Sequence(s) /\ Len(s) = n /\ DOMAIN s = 1..n
    /\ \A i \in 1..n : s[i].kind = "summary" /\ s[i].number = i /\ s[i].height = 22
    /\ s[1].amount = Shown(q.direct) /\ s[2].amount = Shown(q.fee)
    /\ n = 5 => s[3].amount = Shown(Taxable(q) - Before(q))
    /\ s[n - 1].amount = Shown(Tax(q))
    /\ s[n].amount = Shown(Taxable(q) + Tax(q))

\* The summary of a file, row by row.
LEMMA ShownSummaryRows ==
    ASSUME NEW q
    PROVE  IsSummary(q, ShownSummary(q))
  <1> DEFINE t == Summary(q)
             s == ShownSummary(q)
             n == IF AdjustmentApproved(q) THEN 5 ELSE 4
  <1>1. /\ DOMAIN t = 1..n
        /\ \A i \in 1..n : \E label, amount : t[i] = SummaryRow(i, label, amount)
        /\ t[1].amount = q.direct /\ t[2].amount = q.fee
        /\ n = 5 => t[3].amount = Taxable(q) - Before(q)
        /\ t[n - 1].amount = Tax(q) /\ t[n].amount = Taxable(q) + Tax(q)
    <2>1. CASE AdjustmentApproved(q)
      <3>1. t = Adjusted(q) /\ n = 5
        BY <2>1, SummaryRows
      <3> DEFINE u == Adjusted(q)
      <3>2. /\ DOMAIN u = 1..5
            /\ u[1] = SummaryRow(1, "direct", q.direct)
            /\ u[2] = SummaryRow(2, "fee", q.fee)
            /\ u[3] = SummaryRow(3, "discount", Taxable(q) - Before(q))
            /\ u[4] = SummaryRow(4, "tax", Tax(q))
            /\ u[5] = SummaryRow(5, "total", Taxable(q) + Tax(q))
        BY DEF Adjusted
      <3> HIDE DEF u
      <3>3. \A i \in 1..5 : \E label, amount : u[i] = SummaryRow(i, label, amount)
        <4> SUFFICES ASSUME NEW i \in 1..5 PROVE \E label, amount : u[i] = SummaryRow(i, label, amount)
          OBVIOUS
        <4>1. i = 1 \/ i = 2 \/ i = 3 \/ i = 4 \/ i = 5
          OBVIOUS
        <4> QED BY <3>2, <4>1, Zenon
      <3>4. /\ u[1].amount = q.direct /\ u[2].amount = q.fee
            /\ u[3].amount = Taxable(q) - Before(q)
            /\ u[4].amount = Tax(q) /\ u[5].amount = Taxable(q) + Tax(q)
        BY <3>2 DEF SummaryRow
      <3>5. 5 - 1 = 4
        OBVIOUS
      <3> HIDE DEF t, n
      <3> QED BY <3>1, <3>2, <3>3, <3>4, <3>5 DEF u
    <2>2. CASE ~AdjustmentApproved(q)
      <3>1. t = Plain(q) /\ n = 4
        BY <2>2, SummaryRows
      <3> DEFINE u == Plain(q)
      <3>2. /\ DOMAIN u = 1..4
            /\ u[1] = SummaryRow(1, "direct", q.direct)
            /\ u[2] = SummaryRow(2, "fee", q.fee)
            /\ u[3] = SummaryRow(3, "tax", Tax(q))
            /\ u[4] = SummaryRow(4, "total", Taxable(q) + Tax(q))
        BY DEF Plain
      <3> HIDE DEF u
      <3>3. \A i \in 1..4 : \E label, amount : u[i] = SummaryRow(i, label, amount)
        <4> SUFFICES ASSUME NEW i \in 1..4 PROVE \E label, amount : u[i] = SummaryRow(i, label, amount)
          OBVIOUS
        <4>1. i = 1 \/ i = 2 \/ i = 3 \/ i = 4
          OBVIOUS
        <4> QED BY <3>2, <4>1, Zenon
      <3>4. /\ u[1].amount = q.direct /\ u[2].amount = q.fee
            /\ u[3].amount = Tax(q) /\ u[4].amount = Taxable(q) + Tax(q)
        BY <3>2 DEF SummaryRow
      <3>5. 4 - 1 = 3 /\ 4 # 5
        OBVIOUS
      <3> HIDE DEF t, n
      <3> QED BY <3>1, <3>2, <3>3, <3>4, <3>5 DEF u
    <2> QED BY <2>1, <2>2
  <1>2. n \in Nat /\ {1, 2, n - 1, n} \subseteq 1..n /\ (n = 5 => 3 \in 1..n)
    OBVIOUS
  <1>3. s = [i \in 1..n |-> [t[i] EXCEPT !.amount = Shown(@)]]
    BY <1>1 DEF ShownSummary
  <1> HIDE DEF t, s, n
  <1>4. ASSUME NEW i \in 1..n
        PROVE /\ s[i].kind = "summary" /\ s[i].number = i /\ s[i].height = 22
              /\ s[i].amount = Shown(t[i].amount)
    <2>1. PICK label, amount : t[i] = SummaryRow(i, label, amount)
      BY <1>1
    <2>2. s[i] = [t[i] EXCEPT !.amount = Shown(t[i].amount)]
      BY <1>3
    <2> QED BY <2>1, <2>2 DEF SummaryRow
  <1>5. s = [i \in 1..n |-> s[i]]
    BY <1>3
  <1>6. Sequence(s) /\ Len(s) = n /\ DOMAIN s = 1..n
    BY <1>2, <1>5, MapSequence
  <1>7. /\ s[1].amount = Shown(q.direct) /\ s[2].amount = Shown(q.fee)
        /\ n = 5 => s[3].amount = Shown(Taxable(q) - Before(q))
        /\ s[n - 1].amount = Shown(Tax(q))
        /\ s[n].amount = Shown(Taxable(q) + Tax(q))
    BY <1>1, <1>2, <1>4
  <1>8. IsSummary(q, s)
    BY <1>4, <1>6, <1>7 DEF IsSummary, n
  <1> QED BY <1>8 DEF s

-----------------------------------------------------------------------------
(***************************************************************************)
(* The list of lines of a file.                                            *)
(***************************************************************************)

ListOf(f, q) == IF f = "PDF" THEN PdfRows(q) ELSE QuotationRows("XLSX", q)

\* The rows above the lists and above the summary.
LEMMA HeadRows ==
    /\ Sequence(PdfHead) /\ Len(PdfHead) = 3 /\ DOMAIN PdfHead = 1..3
    /\ \A i \in 1..3 : PdfHead[i].kind \in {"title", "customer", "columns"} /\ PdfHead[i].height \in {28, 30, 34}
    /\ Sequence(SummaryHeading) /\ DOMAIN SummaryHeading = {1}
    /\ SummaryHeading[1].kind = "summaryHeading" /\ SummaryHeading[1].height = 22
  <1>1. DOMAIN PdfHead = 1..3 /\ PdfHead = [i \in 1..3 |-> PdfHead[i]] /\ 3 \in Nat
    BY DEF PdfHead
  <1>2. Sequence(PdfHead) /\ Len(PdfHead) = 3
    BY <1>1, MapSequence
  <1>3. ASSUME NEW i \in 1..3
        PROVE PdfHead[i].kind \in {"title", "customer", "columns"} /\ PdfHead[i].height \in {28, 30, 34}
    BY DEF PdfHead, Full
  <1>4. /\ Sequence(SummaryHeading) /\ DOMAIN SummaryHeading = {1}
        /\ SummaryHeading[1].kind = "summaryHeading" /\ SummaryHeading[1].height = 22
    BY SequenceOne DEF SummaryHeading, Full
  <1> QED BY <1>1, <1>2, <1>3, <1>4

\* The list is that of the sections and the summary.
LEMMA ListRows ==
    ASSUME NEW f \in Formats, NEW q, Sequence(SectionRows(f, ExportSections(q.scopes))),
           InOrder(SectionRows(f, ExportSections(q.scopes))),
           OfKind("summary", SectionRows(f, ExportSections(q.scopes))) = <<>>
    PROVE  LET rows == ListOf(f, q)
               sections == SectionRows(f, ExportSections(q.scopes)) IN
           /\ Sequence(rows) /\ InOrder(rows)
           /\ OfKind("line", rows) = OfKind("line", sections)
           /\ OfKind("subtotal", rows) = OfKind("subtotal", sections)
           /\ OfKind("summary", rows) = ShownSummary(q)
  <1> DEFINE s == SectionRows(f, ExportSections(q.scopes))
             h == SummaryHeading
             t == ShownSummary(q)
             u == s \o h
             rows == u \o t
             p == PdfHead
  <1>1. ListOf(f, q) = IF f = "PDF" THEN p \o rows ELSE rows
    BY DEF ListOf, PdfRows, QuotationRows, Formats
  <1>2. Sequence(s) /\ InOrder(s) /\ OfKind("summary", s) = <<>>
    OBVIOUS
  <1>3. Sequence(h) /\ \A i \in DOMAIN h : h[i].kind = "summaryHeading"
    BY HeadRows
  <1>4. Sequence(t) /\ \A i \in DOMAIN t : t[i].kind = "summary"
    <2>1. IsSummary(q, t)
      BY ShownSummaryRows
    <2> HIDE DEF t
    <2> QED BY <2>1 DEF IsSummary
  <1>5. Sequence(p) /\ \A i \in DOMAIN p : p[i].kind \in {"title", "customer", "columns"}
    BY HeadRows
  <1> HIDE DEF s, h, t, p
  <1>6. InOrder(h) /\ InOrder(t) /\ InOrder(p)
    BY <1>3, <1>4, <1>5, InOrderOther
  <1>7. Sequence(u) /\ InOrder(u)
    BY <1>2, <1>3, <1>6, SequenceConcat, InOrderConcat DEF Joined
  <1>8. \A kind : OfKind(kind, u) = OfKind(kind, s) \o OfKind(kind, h)
    BY <1>2, <1>3, OfKindConcat
  <1> HIDE DEF u
  <1>9. Sequence(rows) /\ InOrder(rows)
    BY <1>4, <1>6, <1>7, SequenceConcat, InOrderConcat DEF Joined
  <1>10. \A kind : OfKind(kind, rows) = OfKind(kind, u) \o OfKind(kind, t)
    BY <1>4, <1>7, OfKindConcat
  <1> HIDE DEF rows
  <1>11. Sequence(p \o rows) /\ InOrder(p \o rows)
    BY <1>5, <1>6, <1>9, SequenceConcat, InOrderConcat DEF Joined
  <1>12. \A kind : OfKind(kind, p \o rows) = OfKind(kind, p) \o OfKind(kind, rows)
    BY <1>5, <1>9, OfKindConcat
  <1>13. ASSUME NEW kind \in {"line", "subtotal", "summary"}
         PROVE  OfKind(kind, h) = <<>> /\ OfKind(kind, p) = <<>>
    <2>1. \A i \in DOMAIN h : h[i].kind # kind
      BY <1>3
    <2>2. \A i \in DOMAIN p : p[i].kind # kind
      BY <1>5
    <2> QED BY <1>3, <1>5, <2>1, <2>2, OfKindNone
  <1>14. ASSUME NEW kind \in {"line", "subtotal", "summary"}
         PROVE  OfKind(kind, ListOf(f, q)) = OfKind(kind, s) \o OfKind(kind, t)
    <2> DEFINE a == OfKind(kind, s)
               b == OfKind(kind, rows)
    <2>1. Sequence(a) /\ Sequence(b)
      BY <1>2, <1>9, OfKindSequence
    <2>2. OfKind(kind, u) = a
      <3>1. OfKind(kind, u) = a \o <<>>
        BY <1>8, <1>13
      <3> HIDE DEF a
      <3> QED BY <2>1, <3>1, EmptyConcat
    <2>3. b = a \o OfKind(kind, t)
      BY <1>10, <2>2
    <2>4. OfKind(kind, p \o rows) = b
      <3>1. OfKind(kind, p \o rows) = <<>> \o b
        BY <1>12, <1>13
      <3> HIDE DEF b
      <3> QED BY <2>1, <3>1, EmptyConcat
    <2> HIDE DEF a
    <2> QED BY <1>1, <2>3, <2>4 DEF a
  <1>15. ASSUME NEW kind \in {"line", "subtotal"}
         PROVE  OfKind(kind, ListOf(f, q)) = OfKind(kind, s)
    <2>1. OfKind(kind, t) = <<>>
      <3>1. \A i \in DOMAIN t : t[i].kind # kind
        BY <1>4
      <3> QED BY <1>4, <3>1, OfKindNone
    <2> DEFINE a == OfKind(kind, s)
    <2>2. Sequence(a)
      BY <1>2, OfKindSequence
    <2>3. OfKind(kind, ListOf(f, q)) = a \o <<>>
      BY <1>14, <2>1
    <2> HIDE DEF a
    <2>4. a \o <<>> = a
      BY <2>2, EmptyConcat
    <2> QED BY <2>3, <2>4 DEF a
  <1>16. OfKind("summary", ListOf(f, q)) = t
    <2>1. OfKind("summary", t) = t
      BY <1>4, OfKindAll
    <2>2. OfKind("summary", ListOf(f, q)) = <<>> \o t
      BY <1>2, <1>14, <2>1
    <2>3. <<>> \o t = t
      BY <1>4, EmptyConcat
    <2> QED BY <2>2, <2>3
  <1>17. Sequence(ListOf(f, q)) /\ InOrder(ListOf(f, q))
    BY <1>1, <1>9, <1>11
  <1> QED BY <1>15, <1>16, <1>17 DEF s, t

\* All of it, for what the calculator can leave.
LEMMA VersionListed ==
    ASSUME None \notin Int, NEW f \in Formats, NEW q, CalculatedVersion(q)
    PROVE  LET rows == ListOf(f, q)
               secs == ExportSections(q.scopes) IN
           /\ Sequence(rows) /\ InOrder(rows)
           /\ OfKind("line", rows) = OfKind("line", SectionRows(f, secs))
           /\ OfKind("subtotal", rows) = OfKind("subtotal", SectionRows(f, secs))
           /\ OfKind("summary", rows) = ShownSummary(q)
           /\ secs \in Seq(SectionsOf(Range(q.scopes)))
           /\ Listed(f, secs) /\ Exported(q.scopes, secs)
  <1> DEFINE scopes == q.scopes
             S == Range(scopes)
             T == SectionsOf(S)
             secs == ExportSections(scopes)
  <1>1. scopes \in Seq(S)
    BY DEF CalculatedVersion, Sequence
  <1>2. \A s \in S : CalculatedScope(s)
    BY DEF CalculatedVersion, Range
  <1>3. \A s \in S : Sequence(Section(s).lines)
    BY <1>2, SectionLines
  <1>4. \A x \in T : Sequence(x.lines)
    BY <1>3 DEF SectionsOf
  <1> HIDE DEF S
  <1>5. secs \in Seq(T)
    <2>1. CASE S = {}
      <3>1. DOMAIN scopes = {}
        BY <1>1, <2>1
      <3>2. [i \in DOMAIN scopes |-> Section(scopes[i])] = <<>>
        BY <3>1
      <3>3. secs = At(<<>>, {i \in DOMAIN <<>> : <<>>[i].lines # <<>>})
        BY <3>2 DEF ExportSections, Where
      <3> DEFINE I == {i \in DOMAIN <<>> : <<>>[i].lines # <<>>}
      <3> HIDE DEF I
      <3>4. At(<<>>, I) = <<>>
        BY AtEmpty
      <3>5. secs = <<>>
        BY <3>3, <3>4, Zenon DEF I
      <3> HIDE DEF secs, T
      <3> QED BY <3>5
    <2>2. CASE S # {}
      <3>1. PICK s \in S : TRUE
        BY <2>2
      <3> QED BY <1>1, <3>1, SectionsAppend
    <2> QED BY <2>1, <2>2
  <1>6. Exported(scopes, secs)
    BY <1>1, <1>2, ScopesExported
  <1> HIDE DEF T, secs
  <1>7. Listed(f, secs)
    BY <1>4, <1>5, AllListed
  <1>8. /\ Sequence(SectionRows(f, secs)) /\ InOrder(SectionRows(f, secs))
        /\ OfKind("summary", SectionRows(f, secs)) = <<>>
    BY <1>7 DEF Listed
  <1>9. /\ Sequence(ListOf(f, q)) /\ InOrder(ListOf(f, q))
        /\ OfKind("line", ListOf(f, q)) = OfKind("line", SectionRows(f, secs))
        /\ OfKind("subtotal", ListOf(f, q)) = OfKind("subtotal", SectionRows(f, secs))
        /\ OfKind("summary", ListOf(f, q)) = ShownSummary(q)
    BY <1>8, ListRows DEF secs
  <1> QED BY <1>5, <1>6, <1>7, <1>9 DEF secs, T, S

-----------------------------------------------------------------------------
(***************************************************************************)
(* The pages of a file.                                                    *)
(***************************************************************************)

\* Heights of rows.
HeightsIn(H, rows) == \A r \in Range(rows) : r.height \in H

\* Heights of two lists.
LEMMA HeightsConcat ==
    ASSUME NEW H, NEW s, Sequence(s), HeightsIn(H, s), NEW t, Sequence(t), HeightsIn(H, t)
    PROVE  Sequence(s \o t) /\ HeightsIn(H, s \o t)
  <1> DEFINE c == s \o t
  <1>1. Joined(s, t, c)
    BY SequenceConcat
  <1> HIDE DEF c
  <1>2. Sequence(c) /\ HeightsIn(H, c)
    BY <1>1 DEF Joined, HeightsIn
  <1> QED BY <1>2 DEF c

\* Heights of the rows of a section.
LEMMA SectionHeights ==
    ASSUME NEW H, 26 \in H, NEW i, NEW s, Sequence(s.lines),
           \A j \in DOMAIN s.lines : PdfItemRowHeight(s.lines[j]) \in H
    PROVE  HeightsIn(H, RowsOfSection("PDF", i, s))
  <1> DEFINE h == <<Heading(i, s.name)>>
             lines == LineRows("PDF", i, s.lines)
             b == <<Subtotal(i, Shown(s.subtotal))>>
             u == h \o lines
  <1>1. Sequence(lines) /\ HeightsIn(H, lines)
    <2>1. Sequence(lines)
      BY LineRowsOf
    <2>2. ASSUME NEW j \in DOMAIN s.lines PROVE PdfLine(i, j, s.lines[j]).height \in H
      BY DEF PdfLine
    <2>3. lines = [j \in DOMAIN s.lines |-> PdfLine(i, j, s.lines[j])]
      BY DEF LineRows
    <2> HIDE DEF lines
    <2>4. HeightsIn(H, lines)
      BY <2>2, <2>3 DEF HeightsIn, Range
    <2> QED BY <2>1, <2>4
  <1>2. Sequence(h) /\ HeightsIn(H, h)
    BY SequenceOne DEF Heading, HeightsIn
  <1>3. Sequence(b) /\ HeightsIn(H, b)
    BY SequenceOne DEF Subtotal, HeightsIn
  <1>4. RowsOfSection("PDF", i, s) = u \o b
    BY DEF RowsOfSection
  <1> HIDE DEF h, lines, b
  <1>5. Sequence(u) /\ HeightsIn(H, u)
    BY <1>1, <1>2, HeightsConcat
  <1> HIDE DEF u
  <1>6. HeightsIn(H, u \o b)
    BY <1>3, <1>5, HeightsConcat
  <1> QED BY <1>4, <1>6

\* The heights of what is in parts are those of the parts.
LEMMA FlattenHeights ==
    ASSUME NEW H, NEW n \in Nat, NEW p, p = [i \in 1..n |-> p[i]],
           \A i \in 1..n : Sequence(p[i]) /\ HeightsIn(H, p[i])
    PROVE  Sequence(FlattenSeq(p)) /\ HeightsIn(H, FlattenSeq(p))
  <1> DEFINE T == UNION {Range(p[i]) : i \in 1..n}
             U == Seq(T)
  <1>1. \A r \in T : r.height \in H
    BY DEF HeightsIn
  <1>2. ASSUME NEW i \in 1..n
        PROVE p[i] \in Seq(T)
    <2>1. p[i] \in Seq(Range(p[i])) /\ Range(p[i]) \subseteq T
      BY DEF Sequence
    <2> HIDE DEF T
    <2> QED BY <2>1, SeqMonotonic
  <1> HIDE DEF T, U
  <1>3. p \in [1..n -> U]
    BY <1>2 DEF U
  <1>4. p \in Seq(U)
    BY <1>3, FunctionIsSeq
  <1> DEFINE w == FlattenSeq(p)
  <1>5. w \in Seq(T)
    BY <1>4, FlattenType DEF U
  <1> HIDE DEF w
  <1>6. Sequence(w)
    BY <1>5, SeqOfRange DEF Sequence
  <1>7. Range(w) \subseteq T
    BY <1>5, RangeOfSeq
  <1> QED BY <1>1, <1>6, <1>7 DEF HeightsIn, w

Heights == {22, 26, 28, 30, 34}

\* Heights of the rows above the lists and above the summary.
LEMMA HeadHeights ==
    ASSUME NEW H, Heights \subseteq H
    PROVE  /\ Sequence(PdfHead) /\ HeightsIn(H, PdfHead)
           /\ Sequence(SummaryHeading) /\ HeightsIn(H, SummaryHeading)
  BY HeadRows DEF HeightsIn, Range, Heights

\* Heights of the rows of the summary.
LEMMA SummaryHeights ==
    ASSUME NEW H, Heights \subseteq H, NEW q
    PROVE  Sequence(ShownSummary(q)) /\ HeightsIn(H, ShownSummary(q))
  <1> DEFINE t == ShownSummary(q)
  <1>1. IsSummary(q, t)
    BY ShownSummaryRows
  <1> HIDE DEF t
  <1>2. Sequence(t) /\ \A i \in DOMAIN t : t[i].height = 22
    BY <1>1 DEF IsSummary
  <1>3. HeightsIn(H, t)
    BY <1>2 DEF HeightsIn, Range, Heights
  <1> QED BY <1>2, <1>3 DEF t

\* The list of materials.
LEMMA MaterialRows ==
    ASSUME NEW H, Heights \subseteq H
    PROVE  /\ Sequence(MaterialPdfRows) /\ HeightsIn(H, MaterialPdfRows)
           /\ Len(MaterialPdfRows) >= 1
  <1> DEFINE p == [i \in 1..10 |-> <<Heading(i, "material"), Subtotal(i, 0)>>]
             a == EmptySections
             b == EmptySummary
             h == PdfHead
             u == h \o a
             c == u \o b
  <1>1. ASSUME NEW x, NEW y, x.height = 26, y.height = 26
        PROVE Sequence(<<x, y>>) /\ HeightsIn(H, <<x, y>>)
    <2> DEFINE w == <<x, y>>
    <2>1. DOMAIN w = 1..2 /\ w = [i \in 1..2 |-> w[i]] /\ 2 \in Nat /\ w[1] = x /\ w[2] = y
      OBVIOUS
    <2> HIDE DEF w
    <2>2. Sequence(w)
      BY <2>1, MapSequence
    <2>3. Range(w) = {x, y}
      BY <2>1 DEF Range
    <2>4. HeightsIn(H, w)
      BY <1>1, <2>3 DEF HeightsIn, Heights
    <2> QED BY <2>2, <2>4 DEF w
  <1>2. ASSUME NEW i \in 1..10
        PROVE Sequence(p[i]) /\ HeightsIn(H, p[i])
    <2>1. Heading(i, "material").height = 26 /\ Subtotal(i, 0).height = 26
      BY DEF Heading, Subtotal
    <2> QED BY <1>1, <2>1
  <1>3. a = FlattenSeq(p)
    BY DEF EmptySections, MaterialSections
  <1>4. p = [i \in 1..10 |-> p[i]] /\ 10 \in Nat
    OBVIOUS
  <1> HIDE DEF p, a
  <1>5. Sequence(a) /\ HeightsIn(H, a)
    BY <1>2, <1>3, <1>4, FlattenHeights
  <1>6. Sequence(b) /\ HeightsIn(H, b)
    <2>1. DOMAIN b = 1..3 /\ b = [i \in 1..3 |-> b[i]] /\ 3 \in Nat
      BY DEF EmptySummary
    <2>2. \A i \in 1..3 : b[i].height = 22
      BY DEF EmptySummary, SummaryRow
    <2> HIDE DEF b
    <2>3. Sequence(b)
      BY <2>1, MapSequence
    <2>4. HeightsIn(H, b)
      BY <2>1, <2>2 DEF HeightsIn, Range, Heights
    <2> QED BY <2>3, <2>4
  <1>7. Sequence(h) /\ HeightsIn(H, h) /\ Len(h) = 3
    BY HeadHeights, HeadRows
  <1>8. MaterialPdfRows = c
    BY DEF MaterialPdfRows, a
  <1> HIDE DEF b, h
  <1>9. Sequence(u) /\ HeightsIn(H, u)
    BY <1>5, <1>7, HeightsConcat
  <1>10. Joined(h, a, u)
    BY <1>5, <1>7, SequenceConcat
  <1> HIDE DEF u
  <1>11. Sequence(c) /\ HeightsIn(H, c)
    BY <1>6, <1>9, HeightsConcat
  <1>12. Joined(u, b, c)
    BY <1>6, <1>9, SequenceConcat
  <1> HIDE DEF c
  <1>13. Len(c) >= 1
    BY <1>7, <1>10, <1>12 DEF Joined
  <1> QED BY <1>8, <1>11, <1>13

\* The rows of the lines.
LEMMA PdfListRows ==
    ASSUME None \notin Int, NEW q, CalculatedVersion(q), NEW H, Heights \subseteq H,
           \A i \in DOMAIN q.scopes : \A j \in DOMAIN q.scopes[i].lines :
             PdfItemRowHeight(q.scopes[i].lines[j]) \in H
    PROVE  /\ Sequence(PdfRows(q)) /\ HeightsIn(H, PdfRows(q)) /\ Len(PdfRows(q)) >= 1
  <1> DEFINE S == Range(q.scopes)
             secs == ExportSections(q.scopes)
             n == Len(secs)
             p == [i \in 1..n |-> RowsOfSection("PDF", i, secs[i])]
             s == SectionRows("PDF", secs)
             h == SummaryHeading
             t == ShownSummary(q)
             u == s \o h
             rows == u \o t
             head == PdfHead
  <1>1. secs \in Seq(SectionsOf(S))
    BY VersionListed DEF Formats
  <1>2. ASSUME NEW i \in 1..n
        PROVE Sequence(p[i]) /\ HeightsIn(H, p[i])
    <2>1. PICK x \in S : secs[i] = Section(x)
      BY <1>1 DEF SectionsOf
    <2>2. PICK k \in DOMAIN q.scopes : x = q.scopes[k]
      BY DEF Range
    <2>3. CalculatedScope(x)
      BY <2>2 DEF CalculatedVersion
    <2> DEFINE y == Section(x)
    <2>4. /\ Sequence(y.lines)
          /\ \A l \in DOMAIN y.lines : \E j \in DOMAIN x.lines : y.lines[l] = x.lines[j]
      BY <2>3, SectionLines
    <2> HIDE DEF y
    <2>5. \A l \in DOMAIN y.lines : PdfItemRowHeight(y.lines[l]) \in H
      BY <2>2, <2>4
    <2>6. 26 \in H
      BY DEF Heights
    <2>7. Sequence(RowsOfSection("PDF", i, y))
      BY <2>4, SectionShape DEF IsRowsOf
    <2>8. HeightsIn(H, RowsOfSection("PDF", i, y))
      BY <2>4, <2>5, <2>6, SectionHeights
    <2> QED BY <2>1, <2>7, <2>8 DEF y
  <1>3. n \in Nat /\ DOMAIN secs = 1..n
    BY <1>1
  <1>4. s = FlattenSeq(p) /\ p = [i \in 1..n |-> p[i]]
    BY <1>3 DEF SectionRows
  <1>5. PdfRows(q) = head \o rows
    BY DEF PdfRows, QuotationRows
  <1> HIDE DEF p, s, secs, n
  <1>6. Sequence(s) /\ HeightsIn(H, s)
    BY <1>2, <1>3, <1>4, FlattenHeights
  <1>7. Sequence(h) /\ HeightsIn(H, h)
    BY HeadHeights
  <1>8. Sequence(t) /\ HeightsIn(H, t)
    BY SummaryHeights
  <1>9. Sequence(head) /\ HeightsIn(H, head) /\ Len(head) = 3
    BY HeadHeights, HeadRows
  <1> HIDE DEF h, t, head
  <1>10. Sequence(u) /\ HeightsIn(H, u)
    BY <1>6, <1>7, HeightsConcat
  <1> HIDE DEF u
  <1>11. Sequence(rows) /\ HeightsIn(H, rows)
    BY <1>8, <1>10, HeightsConcat
  <1> HIDE DEF rows
  <1> DEFINE c == head \o rows
  <1>12. Sequence(c) /\ HeightsIn(H, c)
    BY <1>9, <1>11, HeightsConcat
  <1>13. Joined(head, rows, c)
    BY <1>9, <1>11, SequenceConcat
  <1> HIDE DEF c
  <1>14. Len(c) >= 1
    BY <1>9, <1>13 DEF Joined
  <1> QED BY <1>5, <1>12, <1>14 DEF c

\* A list of rows that is laid out.
Layout(rows, s) ==
    /\ Sequence(s.placed) /\ Len(s.placed) = Len(rows)
    /\ \A i \in DOMAIN rows : s.placed[i].row = rows[i]

\* Laying rows out gives each its place.
LEMMA RowsLaid ==
    ASSUME NEW rows, Sequence(rows), HeightsIn(Int, rows), NEW page \in Int
    PROVE  /\ Layout(rows, Laid(page, rows))
           /\ Laid(page, rows).page \in Int
  <1> DEFINE R == Range(rows)
             s == Laid(page, rows)
  <1>1. rows \in Seq(R) /\ \A r \in R : r.height \in Int
    BY DEF Sequence, HeightsIn
  <1> HIDE DEF R
  <1>2. /\ s \in Placements(R) /\ Len(s.placed) = Len(rows)
        /\ \A j \in 1..Len(rows) : s.placed[j].row = rows[j]
    BY <1>1, LaidRows
  <1> HIDE DEF s
  <1>3. s.placed \in Seq([row : R, page : Int, top : Int]) /\ s.page \in Int
    BY <1>2 DEF Placements
  <1>4. Sequence(s.placed)
    BY <1>3, SeqOfRange DEF Sequence
  <1>5. DOMAIN rows = 1..Len(rows)
    BY <1>1
  <1> QED BY <1>2, <1>3, <1>4, <1>5 DEF Layout, s

\* The rows of what is laid out.
LEMMA RowsOfLayout ==
    ASSUME NEW rows, Sequence(rows), NEW s, Layout(rows, s)
    PROVE  [i \in DOMAIN s.placed |-> s.placed[i].row] = rows
  <1> DEFINE n == Len(rows)
             g == [i \in DOMAIN s.placed |-> s.placed[i].row]
  <1>1. n \in Nat /\ DOMAIN rows = 1..n /\ DOMAIN s.placed = 1..n
    BY DEF Sequence, Layout
  <1>2. g = [i \in 1..n |-> rows[i]]
    BY <1>1 DEF Layout
  <1> HIDE DEF g
  <1>3. g = [i \in 1..n |-> g[i]]
    BY <1>2
  <1>4. Sequence(g) /\ Len(g) = n
    BY <1>1, <1>3, MapSequence
  <1>5. \A i \in 1..Len(g) : g[i] = rows[i]
    BY <1>2, <1>4
  <1>6. g = rows
    BY <1>4, <1>5, SameSequence
  <1> QED BY <1>6 DEF g

\* The file of a version has the rows that were to be drawn.
LEMMA PdfOfVersion ==
    ASSUME None \notin Int, NEW q, CalculatedVersion(q)
    PROVE  LET half == GeneratedPdf(q).half IN
           [i \in DOMAIN half |-> half[i].row] = PdfRows(q)
  <1> DEFINE rows == PdfRows(q)
             page == IntroductoryPages + 1
             s == Laid(page, rows)
             H == Int
  <1>1. \A i \in DOMAIN q.scopes : \A j \in DOMAIN q.scopes[i].lines :
          PdfItemRowHeight(q.scopes[i].lines[j]) \in H
    <2>1. ASSUME NEW i \in DOMAIN q.scopes, NEW j \in DOMAIN q.scopes[i].lines
          PROVE PdfItemRowHeight(q.scopes[i].lines[j]) \in H
      <3> DEFINE l == q.scopes[i].lines[j]
      <3>1. CalculatedScope(q.scopes[i])
        BY DEF CalculatedVersion
      <3>2. IsText(l.name) /\ IsText(l.note)
        BY <3>1 DEF CalculatedScope
      <3> HIDE DEF l
      <3>3. PdfItemRowHeight(l) \in Int
        BY <3>2, ItemRowHeight
      <3> QED BY <3>3 DEF l
    <2> QED BY <2>1
  <1>2. Heights \subseteq H
    BY DEF Heights
  <1> HIDE DEF H
  <1>3. Sequence(rows) /\ HeightsIn(H, rows)
    BY <1>1, <1>2, PdfListRows
  <1>4. page \in Int
    BY DEF IntroductoryPages
  <1>5. GeneratedPdf(q).half = s.placed
    BY DEF GeneratedPdf
  <1> HIDE DEF page, rows
  <1>6. Layout(rows, s)
    BY <1>3, <1>4, RowsLaid DEF H
  <1> HIDE DEF s
  <1>7. [i \in DOMAIN s.placed |-> s.placed[i].row] = rows
    BY <1>3, <1>6, RowsOfLayout
  <1> QED BY <1>5, <1>7 DEF rows

\* Two lists, the second on pages of its own.
LEMMA PartsOrdered ==
    ASSUME NEW page \in Int, NEW s, NEW t, Sequence(s.placed), Sequence(t.placed),
           NEW m \in Nat \ {0}, NEW n \in Nat \ {0}, OrderedTo(page, s, m), OrderedTo(s.page + 1, t, n)
    PROVE  Ordered(s.placed \o t.placed, m, page)
  <1> DEFINE a == s.placed
             b == t.placed
             c == a \o b
  <1>1. Joined(a, b, c)
    BY SequenceConcat
  <1>2. Len(a) = m /\ Len(b) = n
    BY DEF OrderedTo
  <1>3. /\ \A j \in 1..m : Low(a[j]) >= Bottom
        /\ \A j \in 2..m : Follows(a[j - 1], a[j])
        /\ s.page = a[m].page /\ a[1].page = page /\ a[1].top = Top
    BY DEF OrderedTo
  <1>4. /\ \A j \in 1..n : Low(b[j]) >= Bottom
        /\ \A j \in 2..n : Follows(b[j - 1], b[j])
        /\ b[1].page = s.page + 1 /\ b[1].top = Top
    BY DEF OrderedTo
  <1> HIDE DEF a, b, c
  <1>5. /\ DOMAIN c = 1..(m + n)
        /\ \A j \in 1..m : c[j] = a[j]
        /\ \A j \in 1..n : c[m + j] = b[j]
    BY <1>1, <1>2 DEF Joined
  <1>6. ASSUME NEW i \in DOMAIN c
        PROVE i \in 1..m \/ \E j \in 1..n : i = m + j
    <2>1. CASE i \in 1..m
      BY <2>1
    <2>2. CASE i \notin 1..m
      <3>1. i - m \in 1..n /\ i = m + (i - m)
        BY <1>5, <2>2
      <3> QED BY <3>1
    <2> QED BY <2>1, <2>2
  <1>7. ASSUME NEW i \in DOMAIN c
        PROVE Low(c[i]) >= Bottom
    BY <1>3, <1>4, <1>5, <1>6
  <1>8. ASSUME NEW i \in DOMAIN c \ {1}
        PROVE \/ i # m + 1 /\ Follows(c[i - 1], c[i])
              \/ i = m + 1 /\ c[i].page = c[i - 1].page + 1 /\ c[i].top = Top
    <2>1. CASE i \in 1..m
      <3>1. i \in 2..m /\ i - 1 \in 1..m /\ i # m + 1
        BY <1>8, <2>1
      <3> QED BY <1>3, <1>5, <3>1
    <2>2. CASE i \notin 1..m
      <3>1. PICK j \in 1..n : i = m + j
        BY <1>6, <2>2
      <3>2. c[i] = b[j]
        BY <1>5, <3>1
      <3>3. CASE j = 1
        <4>1. i = m + 1 /\ i - 1 = m /\ m \in 1..m
          BY <3>1, <3>3
        <4>2. c[i - 1] = a[m]
          BY <1>5, <4>1
        <4> QED BY <1>3, <1>4, <3>2, <3>3, <4>1, <4>2
      <3>4. CASE j # 1
        <4>1. j \in 2..n /\ j - 1 \in 1..n /\ i - 1 = m + (j - 1) /\ i # m + 1
          BY <3>1, <3>4
        <4>2. c[i - 1] = b[j - 1]
          BY <1>5, <4>1
        <4> QED BY <1>4, <3>2, <4>1, <4>2
      <3> QED BY <3>3, <3>4
    <2> QED BY <2>1, <2>2
  <1>9. c[1].page = page /\ c[1].top = Top
    BY <1>3, <1>5
  <1>10. Ordered(c, m, page)
    BY <1>7, <1>8, <1>9 DEF Ordered, Low, Follows
  <1> QED BY <1>10 DEF a, b, c

\* The pages of the file of a version.
LEMMA PdfPages ==
    ASSUME None \notin Int, NEW q, CalculatedVersion(q),
           \A i \in DOMAIN q.scopes : \A j \in DOMAIN q.scopes[i].lines :
             PdfItemRowHeight(q.scopes[i].lines[j]) <= Top - Bottom
    PROVE  LET half == GeneratedPdf(q).half
               rows == half \o GeneratedPdf(q).material IN
           /\ [i \in DOMAIN rows |-> rows[i].row] = PdfRows(q) \o MaterialPdfRows
           /\ Ordered(rows, Len(half), IntroductoryPages + 1)
  <1> DEFINE A == PdfRows(q)
             B == MaterialPdfRows
             page == IntroductoryPages + 1
             s == Laid(page, A)
             next == s.page + 1
             t == Laid(next, B)
             H == 0..(Top - Bottom)
             a == s.placed
             b == t.placed
             c == a \o b
  <1>1. \A i \in DOMAIN q.scopes : \A j \in DOMAIN q.scopes[i].lines :
          PdfItemRowHeight(q.scopes[i].lines[j]) \in H
    <2>1. ASSUME NEW i \in DOMAIN q.scopes, NEW j \in DOMAIN q.scopes[i].lines
          PROVE PdfItemRowHeight(q.scopes[i].lines[j]) \in H
      <3> DEFINE l == q.scopes[i].lines[j]
      <3>1. CalculatedScope(q.scopes[i])
        BY DEF CalculatedVersion
      <3>2. IsText(l.name) /\ IsText(l.note)
        BY <3>1 DEF CalculatedScope
      <3>3. PdfItemRowHeight(l) <= Top - Bottom
        OBVIOUS
      <3> HIDE DEF l
      <3>4. PdfItemRowHeight(l) \in Nat
        BY <3>2, ItemRowHeight
      <3>5. PdfItemRowHeight(l) \in H
        BY <3>3, <3>4 DEF Top, Bottom
      <3> QED BY <3>5 DEF l
    <2> QED BY <2>1
  <1>2. Heights \subseteq H /\ H \subseteq Int
    BY DEF Heights, Top, Bottom
  <1> HIDE DEF H
  <1>3. Sequence(A) /\ HeightsIn(H, A) /\ Len(A) >= 1
    BY <1>1, <1>2, PdfListRows
  <1>4. Sequence(B) /\ HeightsIn(H, B) /\ Len(B) >= 1
    BY <1>2, MaterialRows
  <1>5. page \in Int
    BY DEF IntroductoryPages
  <1>6. GeneratedPdf(q).half = a /\ GeneratedPdf(q).material = b
    BY DEF GeneratedPdf
  <1> HIDE DEF A, B
  <1>7. HeightsIn(Int, A) /\ HeightsIn(Int, B)
    BY <1>2, <1>3, <1>4 DEF HeightsIn
  <1> HIDE DEF page
  <1>8. Layout(A, s) /\ s.page \in Int
    BY <1>3, <1>5, <1>7, RowsLaid
  <1>9. OrderedTo(page, s, Len(A))
    <2> DEFINE R == Range(A)
    <2>1. A \in Seq(R) /\ \A r \in R : r.height \in 0..(Top - Bottom)
      BY <1>3 DEF Sequence, HeightsIn, H
    <2> HIDE DEF R
    <2> QED BY <1>5, <2>1, LaidOrdered
  <1> HIDE DEF s
  <1>10. next \in Int
    BY <1>8
  <1> HIDE DEF next
  <1>11. Layout(B, t)
    BY <1>4, <1>7, <1>10, RowsLaid
  <1>12. OrderedTo(next, t, Len(B))
    <2> DEFINE R == Range(B)
    <2>1. B \in Seq(R) /\ \A r \in R : r.height \in 0..(Top - Bottom)
      BY <1>4 DEF Sequence, HeightsIn, H
    <2> HIDE DEF R
    <2> QED BY <1>10, <2>1, LaidOrdered
  <1> HIDE DEF t
  <1>13. Len(A) \in Nat \ {0} /\ Len(B) \in Nat \ {0}
    BY <1>3, <1>4 DEF Sequence
  <1>14. Sequence(a) /\ Sequence(b) /\ Len(a) = Len(A) /\ Len(b) = Len(B)
    BY <1>8, <1>11 DEF Layout
  <1>15. Ordered(a \o b, Len(A), page)
    BY <1>5, <1>9, <1>12, <1>13, <1>14, PartsOrdered DEF next
  <1>16. [i \in DOMAIN c |-> c[i].row] = A \o B
    <2> DEFINE g == [i \in DOMAIN c |-> c[i].row]
               d == A \o B
               m == Len(A)
               n == Len(B)
    <2>1. Joined(a, b, c) /\ Joined(A, B, d)
      BY <1>3, <1>4, <1>14, SequenceConcat
    <2>2. \A i \in DOMAIN A : a[i].row = A[i]
      BY <1>8 DEF Layout
    <2>3. \A i \in DOMAIN B : b[i].row = B[i]
      BY <1>11 DEF Layout
    <2> HIDE DEF a, b, c, d
    <2>4. /\ m \in Nat /\ n \in Nat /\ DOMAIN c = 1..(m + n) /\ DOMAIN d = 1..(m + n)
          /\ Sequence(d) /\ Len(d) = m + n
          /\ \A i \in 1..m : c[i] = a[i] /\ d[i] = A[i] /\ a[i].row = A[i]
          /\ \A i \in 1..n : c[m + i] = b[i] /\ d[m + i] = B[i] /\ b[i].row = B[i]
      BY <1>14, <2>1, <2>2, <2>3 DEF Joined
    <2> HIDE DEF m, n
    <2>5. ASSUME NEW i \in 1..(m + n)
          PROVE c[i].row = d[i]
      <3>1. CASE i \in 1..m
        BY <2>4, <3>1
      <3>2. CASE i \notin 1..m
        <4> DEFINE j == i - m
        <4>1. j \in 1..n /\ m + j = i
          BY <2>4, <3>2
        <4> HIDE DEF j
        <4>2. c[i] = b[j] /\ d[i] = B[j] /\ b[j].row = B[j]
          BY <2>4, <4>1
        <4> QED BY <4>2
      <3> QED BY <3>1, <3>2
    <2>6. g = [i \in 1..(m + n) |-> d[i]]
      BY <2>4, <2>5
    <2> DEFINE k == m + n
    <2> HIDE DEF g, k
    <2>7. k \in Nat /\ g = [i \in 1..k |-> g[i]] /\ \A i \in 1..k : g[i] = d[i]
      BY <2>4, <2>6 DEF k
    <2>8. Sequence(g) /\ Len(g) = k
      BY <2>7, MapSequence
    <2>9. Len(g) = Len(d) /\ \A i \in 1..Len(g) : g[i] = d[i]
      BY <2>4, <2>7, <2>8 DEF k
    <2>10. g = d
      BY <2>4, <2>8, <2>9, SameSequence
    <2> QED BY <2>10 DEF g, d, c
  <1> QED BY <1>6, <1>14, <1>15, <1>16 DEF page, A, B

-----------------------------------------------------------------------------
(***************************************************************************)
(* The price.                                                              *)
(***************************************************************************)

Price(q) == IF q.status = "APPROVED" THEN q.adjusted ELSE q.total

\* The direct cost is the sum of the subtotals of the exported sections.
LEMMA DirectCost ==
    ASSUME None \notin Int, NEW q, CalculatedVersion(q)
    PROVE  /\ q.direct = Total(Subtotals(ExportSections(q.scopes))) /\ q.direct \in Nat
           /\ Subtotals(ExportSections(q.scopes)) \in Seq(Int)
           /\ Len(Subtotals(ExportSections(q.scopes))) = Len(ExportSections(q.scopes))
  <1> DEFINE scopes == q.scopes
             S == Range(scopes)
             T == SectionsOf(S)
             secs == ExportSections(scopes)
  <1>1. /\ scopes \in Seq(S) /\ \A s \in S : CalculatedScope(s)
        /\ q.direct = Total(Subtotals(scopes))
    BY DEF CalculatedVersion, Sequence, Range, Subtotals
  <1>2. secs \in Seq(T) /\ Exported(scopes, secs)
    BY VersionListed DEF Formats
  <1> HIDE DEF S, secs, scopes
  <1>3. ASSUME NEW s \in S
        PROVE s.subtotal \in Nat /\ Section(s).subtotal = s.subtotal
    <2>1. CalculatedScope(s)
      BY <1>1
    <2> DEFINE lines == s.lines
               a == LineAmounts(lines)
    <2>2. s.subtotal = Total(a)
      BY <2>1 DEF CalculatedScope, LineAmounts
    <2>3. Len(lines) \in Nat /\ DOMAIN lines = 1..Len(lines)
      BY <2>1 DEF CalculatedScope, Sequence
    <2>4. \A j \in DOMAIN lines : AmountOf(lines[j]) \in Nat
      BY <2>1 DEF CalculatedScope, AmountOf
    <2>5. a \in [1..Len(lines) -> Nat]
      BY <2>3, <2>4 DEF LineAmounts
    <2> HIDE DEF a
    <2>6. a \in Seq(Nat)
      BY <2>3, <2>5, FunctionIsSeq
    <2>7. Total(a) \in Nat
      BY <2>6, TotalNatural
    <2> QED BY <2>1, <2>2, <2>7, SectionLines
  <1>4. \A x \in T : x.subtotal \in Int
    BY <1>3 DEF SectionsOf
  <1> HIDE DEF T
  <1>5. Subtotals(secs) \in Seq(Int) /\ Len(Subtotals(secs)) = Len(secs)
    BY <1>2, <1>4, SubtotalsType
  <1>6. q.direct \in Nat
    <2> DEFINE a == Subtotals(scopes)
    <2>1. Len(scopes) \in Nat /\ DOMAIN scopes = 1..Len(scopes) /\ \A i \in 1..Len(scopes) : scopes[i] \in S
      BY <1>1, ElementOfSeq
    <2>2. a \in [1..Len(scopes) -> Nat]
      BY <1>3, <2>1 DEF Subtotals
    <2> HIDE DEF a
    <2>3. a \in Seq(Nat)
      BY <2>1, <2>2, FunctionIsSeq
    <2>4. Total(a) \in Nat
      BY <2>3, TotalNatural
    <2> QED BY <1>1, <2>4 DEF a
  <1> QED BY <1>1, <1>2, <1>5, <1>6 DEF Exported, secs, scopes

\* The discount of an approved version is the one it was confirmed with, and
\* where there is none its adjusted price is its price.
LEMMA TaxablePrice ==
    ASSUME None \notin Int, NEW q, CalculatedVersion(q), Exportable(q)
    PROVE  Taxable(q) = Price(q) /\ Price(q) \in Nat /\ Before(q) \in Nat
  <1>1. /\ q.direct \in Nat /\ q.fee \in Nat /\ q.total = q.direct + q.fee
        /\ q.rate \in Nat /\ q.writeOff \in Nat
        /\ q.adjusted = Larger(Multiply4(q.total, q.rate) - q.writeOff, 0)
    BY DirectCost DEF CalculatedVersion
  <1>2. Before(q) = q.total /\ q.total \in Nat
    BY <1>1 DEF Before
  <1>3. q.adjusted \in Nat
    <2> DEFINE product == q.total * q.rate
    <2>1. product \in Int
      BY <1>1, <1>2
    <2>2. Multiply4(q.total, q.rate) = IF product >= 0 THEN (product + 5000) \div Scale
                                       ELSE -((5000 - product) \div Scale)
      BY DEF Multiply4
    <2> HIDE DEF product
    <2>3. Multiply4(q.total, q.rate) \in Int
      BY <2>1, <2>2 DEF Scale
    <2> QED BY <1>1, <2>3 DEF Larger
  <1>4. CASE q.status # "APPROVED"
    <2>1. ~AdjustmentApproved(q)
      BY <1>4 DEF AdjustmentApproved
    <2> QED BY <1>2, <1>4, <2>1 DEF Taxable, Price
  <1>5. CASE q.status = "APPROVED"
    <2>1. q.adjustment = "CONFIRMED"
      BY <1>5 DEF Exportable
    <2>2. CASE q.rate # Scale \/ q.writeOff # 0
      <3>1. AdjustmentApproved(q)
        BY <1>5, <2>1, <2>2 DEF AdjustmentApproved
      <3> QED BY <1>2, <1>3, <1>5, <3>1 DEF Taxable, Price
    <2>3. CASE q.rate = Scale /\ q.writeOff = 0
      <3>1. ~AdjustmentApproved(q)
        BY <2>3 DEF AdjustmentApproved
      <3>2. q.adjusted = q.total
        <4> DEFINE n == q.total
        <4>1. n \in Nat
          BY <1>2
        <4>2. q.adjusted = Larger(Multiply4(n, Scale) - 0, 0)
          BY <1>1, <2>3
        <4> HIDE DEF n
        <4>3. Larger(Multiply4(n, Scale) - 0, 0) = n
          BY <4>1 DEF Larger, Multiply4, Scale
        <4> QED BY <4>2, <4>3 DEF n
      <3> QED BY <1>2, <1>3, <1>5, <3>1, <3>2 DEF Taxable, Price
    <2> QED BY <2>2, <2>3
  <1> QED BY <1>2, <1>3, <1>4, <1>5 DEF Price

\* Tax is six percent.
LEMMA TaxRounded ==
    ASSUME NEW p \in Nat
    PROVE  /\ Multiply4(p, TaxRate) \in Nat
           /\ Distance(Shown(p + Multiply4(p, TaxRate)), Shown(p + (p * 6) \div 100)) <= 1
  <1> DEFINE t == Multiply4(p, TaxRate)
             u == (p * 6) \div 100
  <1>1. t = (p * 600 + 5000) \div 10000
    BY DEF Multiply4, TaxRate, Scale
  <1>2. t \in Nat /\ u \in Nat /\ Near(t, u, 1)
    BY <1>1 DEF Near
  <1> HIDE DEF t, u
  <1>3. Distance(Shown(p + t), Shown(p + u)) <= 1
    BY <1>2 DEF Near, Distance, Shown
  <1> QED BY <1>2, <1>3 DEF t, u

\* The total of three numbers.
LEMMA TotalThree ==
    ASSUME NEW a \in Seq(Int), Len(a) = 3
    PROVE  Total(a) = a[1] + a[2] + a[3]
  <1>1. PICK g \in [0..3 -> Int] : Total(a) = g[3] /\ \A i \in 0..3 : g[i] = TotalStep(a, g, i)
    BY TotalSteps
  <1>2. g[0] = 0 /\ g[1] = g[0] + a[1] /\ g[2] = g[1] + a[2] /\ g[3] = g[2] + a[3]
    BY <1>1 DEF TotalStep
  <1>3. a[1] \in Int /\ a[2] \in Int /\ a[3] \in Int
    <2>1. \A i \in 1..Len(a) : a[i] \in Int
      BY ElementOfSeq
    <2> QED BY <2>1
  <1> QED BY <1>1, <1>2, <1>3

\* The total of four numbers.
LEMMA TotalFour ==
    ASSUME NEW a \in Seq(Int), Len(a) = 4
    PROVE  Total(a) = a[1] + a[2] + a[3] + a[4]
  <1>1. PICK g \in [0..4 -> Int] : Total(a) = g[4] /\ \A i \in 0..4 : g[i] = TotalStep(a, g, i)
    BY TotalSteps
  <1>2. g[0] = 0 /\ g[1] = g[0] + a[1] /\ g[2] = g[1] + a[2] /\ g[3] = g[2] + a[3] /\ g[4] = g[3] + a[4]
    BY <1>1 DEF TotalStep
  <1>3. a[1] \in Int /\ a[2] \in Int /\ a[3] \in Int /\ a[4] \in Int
    <2>1. \A i \in 1..Len(a) : a[i] \in Int
      BY ElementOfSeq
    <2> QED BY <2>1
  <1> QED BY <1>1, <1>2, <1>3

\* The rows of a summary and its total.
LEMMA SummaryExplained ==
    ASSUME NEW q, NEW s, IsSummary(q, s), q.direct \in Int, q.fee \in Int, Taxable(q) \in Int, Tax(q) \in Int
    PROVE  2 * Distance(Amounts(Front(s)), s[Len(s)].amount) <= Len(s)
  <1> DEFINE n == Len(s)
             b == Before(q)
             x == Taxable(q)
             y == Tax(q)
             front == Front(s)
             a == [i \in 1..(n - 1) |-> s[i].amount]
  <1>1. n \in {4, 5} /\ DOMAIN s = 1..n /\ Sequence(s)
    BY DEF IsSummary
  <1>2. b = q.direct + q.fee /\ b \in Int /\ x \in Int /\ y \in Int /\ x - b \in Int /\ x + y \in Int
    BY DEF Before
  <1>3. /\ s[1].amount = Shown(q.direct) /\ s[2].amount = Shown(q.fee)
        /\ n = 5 => s[3].amount = Shown(x - b)
        /\ s[n - 1].amount = Shown(y) /\ s[n].amount = Shown(x + y)
        /\ n = 4 => x = b
    BY DEF IsSummary, Taxable
  <1> HIDE DEF n, b, x, y
  <1>4. Amounts(front) = Total(a)
    <2>1. front = SubSeq(s, 1, n - 1)
      BY DEF Front, n
    <2>2. s \in Seq(Range(s))
      BY <1>1 DEF Sequence
    <2>3. DOMAIN front = 1..(n - 1) /\ \A i \in 1..(n - 1) : front[i] = s[i]
      <3>1. n - 1 \in 1..n /\ n - 1 \in Int /\ 1 \in 1..n
        BY <1>1
      <3>2. SubSeq(s, 1, n - 1) = [i \in 1..(n - 1) |-> s[i]]
        BY <1>1, <2>2 DEF n
      <3> QED BY <2>1, <3>2
    <2>4. Amounts(front) = Total([i \in DOMAIN front |-> front[i].amount])
      BY DEF Amounts, SumOver
    <2> HIDE DEF front
    <2>5. [i \in DOMAIN front |-> front[i].amount] = a
      BY <2>3
    <2> QED BY <2>4, <2>5
  <1>5. /\ Shown(q.direct) \in Int /\ Near(100 * Shown(q.direct), q.direct, 50)
        /\ Shown(q.fee) \in Int /\ Near(100 * Shown(q.fee), q.fee, 50)
    BY Rounded
  <1> DEFINE d == x - b
             z == x + y
  <1>6. d \in Int /\ z \in Int
    BY <1>2
  <1> HIDE DEF d, z
  <1>7. /\ Shown(d) \in Int /\ Near(100 * Shown(d), d, 50)
        /\ Shown(y) \in Int /\ Near(100 * Shown(y), y, 50)
        /\ Shown(z) \in Int /\ Near(100 * Shown(z), z, 50)
    BY <1>2, <1>6, Rounded
  <1> DEFINE s1 == Shown(q.direct)
             s2 == Shown(q.fee)
             s3 == Shown(d)
             s4 == Shown(y)
             s5 == Shown(z)
  <1>8. /\ s1 \in Int /\ s2 \in Int /\ s3 \in Int /\ s4 \in Int /\ s5 \in Int
        /\ Near(100 * s1, q.direct, 50) /\ Near(100 * s2, q.fee, 50)
        /\ Near(100 * s3, x - b, 50) /\ Near(100 * s4, y, 50) /\ Near(100 * s5, x + y, 50)
    BY <1>5, <1>7 DEF d, z
  <1>9. /\ s[1].amount = s1 /\ s[2].amount = s2 /\ (n = 5 => s[3].amount = s3)
        /\ s[n - 1].amount = s4 /\ s[n].amount = s5
    BY <1>3 DEF d, z
  <1> HIDE DEF s1, s2, s3, s4, s5
  <1>10. CASE n = 4
    <2>1. a[1] = s1 /\ a[2] = s2 /\ a[3] = s4 /\ a \in [1..3 -> Int]
      <3>1. a = [i \in 1..3 |-> s[i].amount]
        BY <1>10
      <3>2. s[3].amount = s4
        BY <1>9, <1>10
      <3>3. \A i \in 1..3 : s[i].amount \in Int
        <4>1. \A i \in 1..3 : i = 1 \/ i = 2 \/ i = 3
          OBVIOUS
        <4> QED BY <1>8, <1>9, <3>2, <4>1
      <3> HIDE DEF a
      <3> QED BY <1>9, <3>1, <3>2, <3>3
    <2> HIDE DEF a
    <2>2. a \in Seq(Int) /\ Len(a) = 3
      BY <2>1, FunctionIsSeq
    <2>3. Total(a) = s1 + s2 + s4
      BY <2>1, <2>2, TotalThree
    <2>4. 2 * Distance(s1 + s2 + s4, s5) <= 4
      BY <1>2, <1>3, <1>8, <1>10 DEF Near, Distance
    <2> QED BY <1>4, <1>9, <1>10, <2>3, <2>4 DEF n
  <1>11. CASE n = 5
    <2>1. a[1] = s1 /\ a[2] = s2 /\ a[3] = s3 /\ a[4] = s4 /\ a \in [1..4 -> Int]
      <3>1. a = [i \in 1..4 |-> s[i].amount]
        BY <1>11
      <3>2. s[3].amount = s3 /\ s[4].amount = s4
        BY <1>9, <1>11
      <3>3. \A i \in 1..4 : s[i].amount \in Int
        <4>1. \A i \in 1..4 : i = 1 \/ i = 2 \/ i = 3 \/ i = 4
          OBVIOUS
        <4> QED BY <1>8, <1>9, <3>2, <4>1
      <3> HIDE DEF a
      <3> QED BY <1>9, <3>1, <3>2, <3>3
    <2> HIDE DEF a
    <2>2. a \in Seq(Int) /\ Len(a) = 4
      BY <2>1, FunctionIsSeq
    <2>3. Total(a) = s1 + s2 + s3 + s4
      BY <2>1, <2>2, TotalFour
    <2>4. 2 * Distance(s1 + s2 + s3 + s4, s5) <= 5
      BY <1>2, <1>8 DEF Near, Distance
    <2> QED BY <1>4, <1>9, <1>11, <2>3, <2>4 DEF n
  <1> QED BY <1>1, <1>10, <1>11

-----------------------------------------------------------------------------
(***************************************************************************)
(* Theorems.                                                               *)
(***************************************************************************)

\* Every step keeps TypeOK.
LEMMA TypePreserved == TypeOK /\ [Next]_vars => TypeOK'
  <1> SUFFICES ASSUME TypeOK, [Next]_vars
               PROVE  TypeOK'
    OBVIOUS
  <1> USE DEF TypeOK, Reads, Formats
  <1>1. ASSUME NEW r \in Requests, CreateExport(r)
        PROVE TypeOK'
    BY <1>1 DEF CreateExport, Started
  <1>2. ASSUME NEW r \in Requests, GeneratePdf(r)
        PROVE TypeOK'
    BY <1>2 DEF GeneratePdf
  <1>3. ASSUME NEW r \in Requests, GenerateWorkbook(r)
        PROVE TypeOK'
    BY <1>3 DEF GenerateWorkbook, Started
  <1>4. ASSUME NEW r \in Requests, AddBlankMainMaterialSheet(r)
        PROVE TypeOK'
    BY <1>4 DEF AddBlankMainMaterialSheet
  <1>5. ASSUME NEW r \in Requests, Fail(r)
        PROVE TypeOK'
    BY <1>5 DEF Fail
  <1>6. ASSUME NEW r \in Requests, Again(r)
        PROVE TypeOK'
    BY <1>6 DEF Again, Answered, Idle
  <1>7. CASE ReadTemplate
    BY <1>7 DEF ReadTemplate
  <1>8. CASE ReadMaterial
    BY <1>8 DEF ReadMaterial
  <1>9. CASE Restart
    BY <1>9 DEF Restart
  <1>10. CASE UNCHANGED vars
    BY <1>10 DEF vars
  <1> QED BY <1>1, <1>2, <1>3, <1>4, <1>5, <1>6, <1>7, <1>8, <1>9, <1>10 DEF Next, Step

\* A request waits only for what is being read or was read, and what it
\* exports is a version that createExport's test let through: no restart and
\* no failed read leaves one behind that waits for nothing.
THEOREM TypeCorrect == Spec => []TypeOK
  <1>1. Init => TypeOK
    BY DEF Init, TypeOK, Reads, Idle
  <1> QED BY <1>1, TypePreserved, PTL DEF Spec

\* What the file of a request that is done lists.
LEMMA FileRows ==
    ASSUME TypeOK, NEW r \in Done
    PROVE  LET q == Version[request[r].quotation] IN
           /\ None \notin Int /\ CalculatedVersion(q) /\ Exportable(q)
           /\ request[r].format \in Formats /\ request[r].quotation \in DOMAIN Version
           /\ RowsOfFile(r) = ListOf(request[r].format, q)
  <1> DEFINE v == request[r].quotation
             q == Version[v]
             f == request[r].format
  <1>1. v \in DOMAIN Version /\ f \in Formats /\ Exportable(q)
    BY DEF TypeOK, Done
  <1>2. None \notin Int /\ CalculatedVersion(q)
    BY <1>1, VersionsAreCalculated
  <1>3. Pdf[v] = GeneratedPdf(q) /\ Workbook[v].half.rows = QuotationRows("XLSX", q)
    BY <1>1 DEF Pdf, Workbook, GeneratedWorkbook, Sheet
  <1>4. RowsOfFile(r) = IF f = "PDF" THEN [i \in DOMAIN Pdf[v].half |-> Pdf[v].half[i].row]
                        ELSE Workbook[v].half.rows
    BY DEF RowsOfFile, RowsOf
  <1> HIDE DEF v, q, f
  <1>5. [i \in DOMAIN GeneratedPdf(q).half |-> GeneratedPdf(q).half[i].row] = PdfRows(q)
    BY <1>2, PdfOfVersion
  <1>6. RowsOfFile(r) = ListOf(f, q)
    BY <1>3, <1>4, <1>5, Zenon DEF ListOf
  <1> QED BY <1>1, <1>2, <1>6 DEF v, q, f

\* What the file of a request that is done lists, and in which order.
LEMMA NothingIsLost == TypeOK => NothingPricedIsLost
  <1> SUFFICES ASSUME TypeOK, NEW r \in Done
               PROVE  /\ Items(OfKind("line", RowsOfFile(r))) = PricedItems(Version[request[r].quotation].scopes)
                      /\ InOrder(RowsOfFile(r))
    BY DEF NothingPricedIsLost
  <1> DEFINE q == Version[request[r].quotation]
             f == request[r].format
             secs == ExportSections(q.scopes)
             rows == RowsOfFile(r)
  <1>1. None \notin Int /\ CalculatedVersion(q) /\ f \in Formats /\ rows = ListOf(f, q)
    BY FileRows
  <1> HIDE DEF q, f, rows, secs
  <1>2. /\ InOrder(ListOf(f, q))
        /\ OfKind("line", ListOf(f, q)) = OfKind("line", SectionRows(f, secs))
        /\ Listed(f, secs) /\ Exported(q.scopes, secs)
    BY <1>1, VersionListed DEF secs
  <1>3. Items(OfKind("line", SectionRows(f, secs))) = SectionItems(secs)
    BY <1>2 DEF Listed
  <1>4. SectionItems(secs) = PricedItems(q.scopes)
    BY <1>2 DEF Exported
  <1> QED BY <1>1, <1>2, <1>3, <1>4 DEF q, rows

\* Whatever the versions are, a file lists exactly the lines that have an
\* amount, in their order and under the headings of their sections: the tests
\* of exportSections keep what the calculator counted, and no page break of
\* generatePdf loses a row.
THEOREM PricedLinesAreExported == Spec => []NothingPricedIsLost
  BY TypeCorrect, NothingIsLost, PTL

\* Where the file of a request that is done has its rows.
LEMMA PagesFollow == RowsFit /\ TypeOK => PagesFollowOneAnother
  <1> SUFFICES ASSUME RowsFit, TypeOK, NEW r \in Done, request[r].format = "PDF"
               PROVE  LET q == request[r].quotation
                          half == Pdf[q].half
                          rows == half \o Pdf[q].material IN
                      /\ RowsOf(rows) = PdfRows(Version[q]) \o MaterialPdfRows
                      /\ Ordered(rows, Len(half), IntroductoryPages + 1)
    BY Zenon DEF PagesFollowOneAnother
  <1> DEFINE v == request[r].quotation
             q == Version[v]
  <1>1. None \notin Int /\ CalculatedVersion(q) /\ v \in DOMAIN Version
    BY FileRows
  <1>2. Pdf[v] = GeneratedPdf(q)
    BY <1>1 DEF Pdf
  <1>3. \A i \in DOMAIN q.scopes : \A j \in DOMAIN q.scopes[i].lines :
          PdfItemRowHeight(q.scopes[i].lines[j]) <= Top - Bottom
    BY <1>1 DEF RowsFit
  <1> HIDE DEF q
  <1> DEFINE half == GeneratedPdf(q).half
             rows == half \o GeneratedPdf(q).material
  <1>4. /\ RowsOf(rows) = PdfRows(q) \o MaterialPdfRows
        /\ Ordered(rows, Len(half), IntroductoryPages + 1)
    BY <1>1, <1>3, PdfPages, Zenon DEF RowsOf
  <1> QED BY <1>2, <1>4, Zenon DEF q

\* The pages of a file follow one another, from the first row of the lines to
\* the last of the materials, if no line is higher than a page; the loop of
\* generatePdf moves a row to the next page and does not test that it fits
\* there.
THEOREM PagesAreOrdered ==
    ASSUME RowsFit
    PROVE  Spec => []PagesFollowOneAnother
  <1>1. TypeOK => PagesFollowOneAnother
    BY PagesFollow
  <1> QED BY <1>1, TypeCorrect, PTL

\* What the numbers of the file of a request that is done say.
LEMMA PriceExplained == TypeOK => FileExplainsPrice
  <1> SUFFICES ASSUME TypeOK, NEW r \in Done
               PROVE  LET q == Version[request[r].quotation]
                          rows == RowsOfFile(r)
                          summary == OfKind("summary", rows)
                          subtotals == OfKind("subtotal", rows)
                          total == summary[Len(summary)].amount
                          price == IF q.status = "APPROVED" THEN q.adjusted ELSE q.total IN
                      /\ \A i \in DOMAIN subtotals :
                           LET lines == OfSection(i, OfKind("line", rows)) IN
                           2 * Distance(Amounts(lines), subtotals[i].amount) <= Len(lines) + 1
                      /\ 2 * Distance(Amounts(subtotals), summary[1].amount) <= Len(subtotals) + 1
                      /\ 2 * Distance(Amounts(Front(summary)), total) <= Len(summary)
                      /\ \A i \in DOMAIN summary : summary[i].number = i
                      /\ Distance(total, Shown(price + (price * 6) \div 100)) <= 1
    BY DEF FileExplainsPrice, Explained
  <1> DEFINE q == Version[request[r].quotation]
             f == request[r].format
             secs == ExportSections(q.scopes)
             rows == RowsOfFile(r)
             S == Range(q.scopes)
  <1>1. /\ None \notin Int /\ CalculatedVersion(q) /\ Exportable(q)
        /\ f \in Formats /\ rows = ListOf(f, q)
    BY FileRows
  <1> HIDE DEF q, f, rows
  <1> DEFINE all == SectionRows(f, secs)
             summary == OfKind("summary", rows)
             subtotals == OfKind("subtotal", rows)
             lines == OfKind("line", rows)
             n == Len(secs)
  <1>2. /\ Sequence(rows)
        /\ lines = OfKind("line", all) /\ subtotals = OfKind("subtotal", all)
        /\ summary = ShownSummary(q)
        /\ secs \in Seq(SectionsOf(S)) /\ Listed(f, secs)
    BY <1>1, VersionListed
  <1>3. /\ \A i \in 1..n : OfSection(i, lines) = LineRows(f, i, secs[i].lines)
        /\ Len(subtotals) = n
        /\ \A i \in 1..n : subtotals[i] = Subtotal(i, Shown(secs[i].subtotal))
    BY <1>2 DEF Listed
  <1>4. Sequence(subtotals) /\ n \in Nat /\ DOMAIN subtotals = 1..n /\ DOMAIN secs = 1..n
    <2>1. Sequence(subtotals)
      BY <1>2, OfKindSequence
    <2>2. n \in Nat /\ DOMAIN secs = 1..n
      BY <1>2
    <2> QED BY <1>3, <2>1, <2>2 DEF Sequence
  <1>5. IsSummary(q, summary)
    BY <1>2, ShownSummaryRows
  <1> HIDE DEF all, summary, subtotals, lines, secs, n
  <1>6. ASSUME NEW i \in DOMAIN subtotals
        PROVE 2 * Distance(Amounts(OfSection(i, lines)), subtotals[i].amount) <= Len(OfSection(i, lines)) + 1
    <2>1. PICK x \in S : secs[i] = Section(x)
      <3>1. secs[i] \in SectionsOf(S)
        BY <1>2, <1>4, ElementOfSeq DEF n
      <3> QED BY <3>1 DEF SectionsOf
    <2>2. CalculatedScope(x)
      BY <1>1 DEF CalculatedVersion, Range
    <2>3. Section(x).subtotal = x.subtotal
      BY <1>1, <2>2, SectionLines
    <2>4. subtotals[i].amount = Shown(x.subtotal)
      BY <1>3, <1>4, <2>1, <2>3 DEF Subtotal
    <2>5. OfSection(i, lines) = LineRows(f, i, Section(x).lines)
      BY <1>3, <1>4, <2>1
    <2> DEFINE u == LineRows(f, i, Section(x).lines)
    <2>6. 2 * Distance(Amounts(u), Shown(x.subtotal)) <= Len(u) + 1
      BY <1>1, <2>2, SectionExplained
    <2> HIDE DEF u
    <2> QED BY <2>4, <2>5, <2>6 DEF u
  <1>7. 2 * Distance(Amounts(subtotals), summary[1].amount) <= Len(subtotals) + 1
    <2> DEFINE a == Subtotals(secs)
    <2>1. q.direct = Total(a) /\ a \in Seq(Int) /\ Len(a) = n
      BY <1>1, DirectCost DEF secs, n
    <2>2. a = [i \in 1..n |-> secs[i].subtotal]
      BY <1>4 DEF Subtotals
    <2>3. summary[1].amount = Shown(q.direct)
      BY <1>5 DEF IsSummary
    <2>4. Amounts(subtotals) = Total([i \in DOMAIN subtotals |-> subtotals[i].amount])
      BY DEF Amounts, SumOver
    <2> HIDE DEF a
    <2>5. ShownOf(a) = [i \in 1..n |-> Shown(a[i])]
      BY <1>4, <2>2 DEF ShownOf
    <2>6. \A i \in 1..n : subtotals[i].amount = Shown(a[i])
      BY <1>3, <2>2 DEF Subtotal
    <2>7. Amounts(subtotals) = Total(ShownOf(a))
      BY <1>4, <2>4, <2>5, <2>6
    <2>8. 2 * Distance(Total(ShownOf(a)), Shown(Total(a))) <= Len(a) + 1
      BY <2>1, SumShown
    <2> QED BY <1>3, <2>1, <2>3, <2>7, <2>8
  <1>8. q.direct \in Nat /\ q.fee \in Nat
    BY <1>1, DirectCost DEF CalculatedVersion
  <1>9. Taxable(q) = Price(q) /\ Price(q) \in Nat
    BY <1>1, TaxablePrice
  <1> DEFINE p == Price(q)
  <1> HIDE DEF p
  <1>10. /\ Multiply4(p, TaxRate) \in Nat
         /\ Distance(Shown(p + Multiply4(p, TaxRate)), Shown(p + (p * 6) \div 100)) <= 1
    BY <1>9, TaxRounded DEF p
  <1>11. Tax(q) = Multiply4(p, TaxRate) /\ Taxable(q) = p
    BY <1>9 DEF Tax, p
  <1>12. 2 * Distance(Amounts(Front(summary)), summary[Len(summary)].amount) <= Len(summary)
    <2>1. q.direct \in Int /\ q.fee \in Int /\ Taxable(q) \in Int /\ Tax(q) \in Int
      BY <1>8, <1>9, <1>10, <1>11
    <2> QED BY <1>5, <2>1, SummaryExplained
  <1>13. \A i \in DOMAIN summary : summary[i].number = i
    BY <1>5 DEF IsSummary
  <1>14. summary[Len(summary)].amount = Shown(p + Multiply4(p, TaxRate))
    <2>1. summary[Len(summary)].amount = Shown(Taxable(q) + Tax(q))
      BY <1>5 DEF IsSummary
    <2> QED BY <1>11, <2>1
  <1>15. Distance(summary[Len(summary)].amount, Shown(p + (p * 6) \div 100)) <= 1
    BY <1>10, <1>14
  <1> QED BY <1>6, <1>7, <1>12, <1>13, <1>15 DEF lines, subtotals, summary, rows, q, p, Price

\* The numbers of a file explain one another and the price of its version, for
\* all amounts: each sum is right up to the rounding of what is added, and the
\* total is what the customer confirmed, with its discount and tax.
THEOREM PriceIsExplained == Spec => []FileExplainsPrice
  BY TypeCorrect, PriceExplained, PTL
=============================================================================
