----------------------------- MODULE ListProofs -----------------------------
(***************************************************************************)
(* Induction over the naturals and over the elements of a sequence, from   *)
(* the well-foundedness of finite sets, and what it says of Among.         *)
(***************************************************************************)
EXTENDS Lists, Integers, FiniteSetTheorems, SequenceTheorems, TLAPS

\* A set of naturals that is not empty has a least element.
LEMMA Least ==
    ASSUME NEW S \in SUBSET Nat, S # {}
    PROVE  \E n \in S : \A m \in S : n <= m
  <1> DEFINE D == {0..n : n \in S}
  <1>1. D \subseteq FiniteSubsetsOf(Nat) /\ D # {}
    <2> SUFFICES ASSUME NEW n \in S
                 PROVE  0..n \in FiniteSubsetsOf(Nat)
      OBVIOUS
    <2>1. IsFiniteSet(0..n)
      BY FS_Interval
    <2> QED
      BY <2>1 DEF FiniteSubsetsOf
  <1> HIDE DEF D
  <1>2. \E x \in D : \A y \in D : ~ (<<y, x>> \in StrictSubsetOrdering(Nat))
    BY <1>1, FS_StrictSubsetOrderingWellFounded, WFMin
  <1> USE DEF D
  <1>3. PICK n \in S : \A y \in D : ~ (<<y, 0..n>> \in StrictSubsetOrdering(Nat))
    BY <1>2
  <1>4. SUFFICES ASSUME NEW m \in S, m < n
                 PROVE  FALSE
    BY <1>3
  <1>5. m \in Nat /\ n \in Nat /\ 0..m \in D
    OBVIOUS
  <1> HIDE DEF D
  <1>6. n \in 0..n /\ n \notin 0..m
    BY <1>4, <1>5
  <1>7. 0..m \subseteq 0..n /\ 0..m # 0..n /\ 0..m \subseteq Nat /\ 0..n \subseteq Nat
    BY <1>4, <1>5, <1>6
  <1> QED
    BY <1>3, <1>5, <1>7 DEF StrictSubsetOrdering

\* What holds of 0 and of the successor of what it holds of, up to n, holds
\* up to n.
LEMMA Induct ==
    ASSUME NEW n \in Nat, NEW S, 0 \in S,
           \A i \in 1..n : i - 1 \in S => i \in S
    PROVE  0..n \subseteq S
  <1> DEFINE T == {i \in 0..n : i \notin S}
  <1>1. SUFFICES ASSUME T # {}
                 PROVE  FALSE
    OBVIOUS
  <1>2. PICK k \in T : \A m \in T : k <= m
    <2>1. T \in SUBSET Nat
      OBVIOUS
    <2> HIDE DEF T
    <2> QED
      BY <1>1, <2>1, Least
  <1>3. k \in 1..n /\ k - 1 \in 0..n /\ k - 1 \notin T
    BY <1>2
  <1> QED
    BY <1>2, <1>3

\* A finite set of naturals that is not empty has a greatest element.
LEMMA Greatest ==
    ASSUME NEW n \in Nat, NEW S \in SUBSET (0..n), S # {}
    PROVE  \E k \in S : \A m \in S : m <= k
  <1> DEFINE T == {n - k : k \in S}
  <1>1. T \in SUBSET Nat /\ T # {}
    <2>1. \A k \in S : n - k \in Nat
      OBVIOUS
    <2> QED
      BY <2>1
  <1>2. PICK t \in T : \A m \in T : t <= m
    <2> HIDE DEF T
    <2> QED
      BY <1>1, Least
  <1>3. n - t \in S
    BY <1>2
  <1>4. ASSUME NEW m \in S
        PROVE  m <= n - t
    <2>1. n - m \in T /\ m \in Nat /\ t \in Nat
      OBVIOUS
    <2>2. t <= n - m
      BY <1>2, <2>1
    <2> QED
      BY <2>1, <2>2
  <1> QED
    BY <1>3, <1>4

\* A function on 0..n can be defined by its value at 0 and by a step from
\* each value to the next.
Steps(n, D) == [1..n -> [D -> D]]

Iterates(n, D, base, step) ==
    {f \in [0..n -> D] : f[0] = base /\ \A i \in 1..n : f[i] = step[i][f[i - 1]]}

LEMMA Recursion ==
    ASSUME NEW n \in Nat, NEW D, NEW base \in D, NEW step \in Steps(n, D)
    PROVE  Iterates(n, D, base, step) # {}
  <1> DEFINE Fits(f, m) == /\ f \in [0..m -> D] /\ f[0] = base
                           /\ \A i \in 1..m : f[i] = step[i][f[i - 1]]
             Good == {m \in 0..n : \E f : Fits(f, m)}
  <1>1. 0 \in Good
    <2>1. Fits([i \in 0..0 |-> base], 0)
      OBVIOUS
    <2> HIDE DEF Fits
    <2> QED
      BY <2>1
  <1>2. ASSUME NEW m \in 1..n, m - 1 \in Good
        PROVE  m \in Good
    <2>1. PICK f : Fits(f, m - 1)
      BY <1>2
    <2> DEFINE x == step[m][f[m - 1]]
               g == [i \in 0..m |-> IF i = m THEN x ELSE f[i]]
    <2>2. x \in D
      BY <2>1 DEF Steps
    <2>3. g \in [0..m -> D] /\ g[0] = base
      BY <2>1, <2>2
    <2>4. ASSUME NEW i \in 1..m
          PROVE  g[i] = step[i][g[i - 1]]
      <3>1. i - 1 \in 0..m /\ i - 1 # m /\ g[i - 1] = f[i - 1]
        OBVIOUS
      <3>2. CASE i = m
        BY <3>1, <3>2
      <3>3. CASE i # m
        <4>1. i \in 1..(m - 1) /\ g[i] = f[i]
          BY <3>3
        <4> QED
          BY <2>1, <3>1, <4>1
      <3> QED
        BY <3>2, <3>3
    <2>5. Fits(g, m)
      BY <2>3, <2>4
    <2> HIDE DEF Fits, g
    <2> QED
      BY <2>5
  <1> HIDE DEF Good
  <1>3. 0..n \subseteq Good
    BY <1>1, <1>2, Induct
  <1>4. n \in Good
    BY <1>3
  <1> QED
    BY <1>4 DEF Good, Iterates

\* How Among is computed: element by element.
AmongBy(s, S, T) ==
    {u \in [0..Len(s) -> Seq(T)] :
        /\ u[0] = << >> /\ Among(s, S) = u[Len(s)]
        /\ \A i \in 1..Len(s) :
              u[i] = IF s[i] \in S THEN Append(u[i - 1], s[i]) ELSE u[i - 1]}

LEMMA AmongSteps ==
    ASSUME NEW T, NEW s \in Seq(T), NEW S
    PROVE  AmongBy(s, S, T) # {}
  <1> DEFINE N == Len(s)
             D == Seq(T)
             Next1(h, i) == IF i = 0 THEN << >>
                            ELSE IF s[i] \in S THEN Append(h[i - 1], s[i]) ELSE h[i - 1]
             step == [i \in 1..N |-> [x \in D |-> IF s[i] \in S THEN Append(x, s[i]) ELSE x]]
  <1>0. N \in Nat /\ << >> \in D
    OBVIOUS
  <1>1. step \in Steps(N, D)
    <2> SUFFICES ASSUME NEW i \in 1..N, NEW x \in D
                 PROVE  (IF s[i] \in S THEN Append(x, s[i]) ELSE x) \in D
      BY DEF Steps
    <2>1. s[i] \in T
      OBVIOUS
    <2> QED
      BY <2>1
  <1>2. PICK h \in Iterates(N, D, << >>, step) : TRUE
    <2>1. Iterates(N, D, << >>, step) # {}
      <3> HIDE DEF N, D, step
      <3> QED
        BY <1>0, <1>1, Recursion
    <2> QED
      BY <2>1
  <1>2x. /\ h \in [0..N -> D] /\ h[0] = << >>
         /\ \A i \in 1..N : h[i] = step[i][h[i - 1]]
    BY <1>2 DEF Iterates
  <1>3. ASSUME NEW i \in 0..N
        PROVE  h[i] = Next1(h, i)
    <2>1. CASE i = 0
      BY <1>2x, <2>1
    <2>2. CASE i # 0
      <3>1. i \in 1..N /\ i - 1 \in 0..N /\ h[i - 1] \in D
        BY <2>2, <1>2x
      <3>2. h[i] = step[i][h[i - 1]]
        BY <1>2x, <3>1
      <3>3. step[i][h[i - 1]] = IF s[i] \in S THEN Append(h[i - 1], s[i]) ELSE h[i - 1]
        BY <3>1
      <3> QED
        BY <2>2, <3>2, <3>3
    <2> QED
      BY <2>1, <2>2
  <1>4. h = [i \in 0..N |-> Next1(h, i)]
    BY <1>2x, <1>3
  <1> DEFINE u == CHOOSE f : f = [i \in 0..N |-> Next1(f, i)]
  <1>5. u = [i \in 0..N |-> Next1(u, i)]
    BY <1>4
  <1>6. Among(s, S) = u[N]
    BY DEF Among
  <1> HIDE DEF u
  <1>7. u[0] = << >> /\ \A i \in 1..N : u[i] = IF s[i] \in S THEN Append(u[i - 1], s[i]) ELSE u[i - 1]
    <2>1. \A i \in 0..N : u[i] = Next1(u, i)
      BY <1>5, Zenon
    <2>2. u[0] = << >>
      BY <1>0, <2>1
    <2>3. ASSUME NEW i \in 1..N
          PROVE  u[i] = IF s[i] \in S THEN Append(u[i - 1], s[i]) ELSE u[i - 1]
      <3>1. i \in 0..N /\ i # 0
        OBVIOUS
      <3>2. u[i] = Next1(u, i)
        BY <2>1, <3>1, Zenon
      <3> QED
        BY <3>1, <3>2
    <2> QED
      BY <2>2, <2>3
  <1>8. u \in [0..N -> D]
    <2> DEFINE G == {i \in 0..N : u[i] \in D}
    <2>1. 0 \in G
      <3>1. 0 \in 0..N
        BY <1>0
      <3>2. u[0] \in D
        BY <1>0, <1>7, Zenon
      <3> QED
        BY <3>1, <3>2, Zenon
    <2>2. ASSUME NEW i \in 1..N, i - 1 \in G
          PROVE  i \in G
      <3>1. u[i - 1] \in Seq(T) /\ s[i] \in T /\ i \in 0..N
        BY <2>2
      <3>2. u[i] \in Seq(T)
        <4>1. u[i] = IF s[i] \in S THEN Append(u[i - 1], s[i]) ELSE u[i - 1]
          BY <1>7, Zenon
        <4> HIDE DEF N
        <4> QED
          BY <3>1, <4>1
      <3> QED
        BY <3>1, <3>2
    <2>3. 0..N \subseteq G
      <3> HIDE DEF G, N
      <3> QED
        BY <1>0, <2>1, <2>2, Induct
    <2> QED
      BY <1>5, <2>3
  <1> QED
    BY <1>6, <1>7, <1>8 DEF AmongBy

\* Among(s, S) has the elements of s that are in S, and no others.
LEMMA AmongSet ==
    ASSUME NEW T, NEW s \in Seq(T), NEW S
    PROVE  Among(s, S) \in Seq(T) /\ ToSet(Among(s, S)) = ToSet(s) \cap S
  <1> DEFINE N == Len(s)
  <1>0. PICK u \in AmongBy(s, S, T) : TRUE
    BY AmongSteps
  <1>1. /\ u \in [0..N -> Seq(T)] /\ u[0] = << >> /\ Among(s, S) = u[N]
        /\ \A i \in 1..N : u[i] = IF s[i] \in S THEN Append(u[i - 1], s[i]) ELSE u[i - 1]
    BY <1>0 DEF AmongBy
  <1>2. N \in Nat /\ \A i \in 1..N : s[i] \in T
    OBVIOUS
  <1>3. DOMAIN s = 1..N
    OBVIOUS
  <1> HIDE DEF N
  <1> DEFINE upto(n) == {s[i] : i \in 1..n} \cap S
             G == {n \in 0..N : ToSet(u[n]) = upto(n)}
  <1>4. 0 \in G
    <2>1. ToSet(u[0]) = {} /\ upto(0) = {} /\ 0 \in 0..N
      BY <1>1, <1>2 DEF ToSet
    <2> QED
      BY <2>1
  <1>5. ASSUME NEW n \in 1..N, n - 1 \in G
        PROVE  n \in G
    <2>1. /\ n \in 0..N /\ n - 1 \in 0..N /\ u[n - 1] \in Seq(T) /\ s[n] \in T
          /\ ToSet(u[n - 1]) = upto(n - 1)
          /\ 1..n = 1..(n - 1) \cup {n}
      BY <1>1, <1>2, <1>5
    <2>2. upto(n) = upto(n - 1) \cup ({s[n]} \cap S)
      BY <2>1
    <2>3. CASE s[n] \in S
      <3>1. u[n] = Append(u[n - 1], s[n])
        BY <1>1, <2>3
      <3>2. ToSet(Append(u[n - 1], s[n])) = ToSet(u[n - 1]) \cup {s[n]}
        <4> DEFINE a == u[n - 1]
        <4>1. a \in Seq(T) /\ s[n] \in T
          BY <2>1
        <4> HIDE DEF a
        <4>2. /\ Len(a) \in Nat /\ DOMAIN a = 1..Len(a)
              /\ DOMAIN Append(a, s[n]) = 1..(Len(a) + 1)
              /\ \A i \in 1..Len(a) : Append(a, s[n])[i] = a[i]
              /\ Append(a, s[n])[Len(a) + 1] = s[n]
          BY <4>1
        <4>3. 1..(Len(a) + 1) = 1..Len(a) \cup {Len(a) + 1}
          BY <4>2
        <4>4. ToSet(Append(a, s[n])) = ToSet(a) \cup {s[n]}
          BY <4>2, <4>3 DEF ToSet
        <4> QED
          BY <4>4 DEF a
      <3> QED
        BY <2>1, <2>2, <2>3, <3>1, <3>2
    <2>4. CASE s[n] \notin S
      <3>1. u[n] = u[n - 1]
        BY <1>1, <2>4
      <3> QED
        BY <2>1, <2>2, <2>4, <3>1
    <2> QED
      BY <2>3, <2>4
  <1>6. N \in G
    <2> HIDE DEF G
    <2>1. 0..N \subseteq G
      BY <1>2, <1>4, <1>5, Induct
    <2> QED
      BY <1>2, <2>1
  <1>7. upto(N) = ToSet(s) \cap S
    BY <1>3 DEF ToSet
  <1> QED
    BY <1>1, <1>2, <1>6, <1>7

(***************************************************************************)
(* Counting                                                                *)
(***************************************************************************)

LEMMA CountNone ==
    ASSUME NEW f
    PROVE  Count(<< >>, f) = 0
  BY FS_EmptySet DEF Count

LEMMA CountType ==
    ASSUME NEW S, NEW s \in Seq(S), NEW f
    PROVE  IsFiniteSet({i \in DOMAIN s : s[i] = f}) /\ Count(s, f) \in Nat
  <1>1. IsFiniteSet(1..Len(s)) /\ DOMAIN s = 1..Len(s)
    BY FS_Interval
  <1>2. {i \in DOMAIN s : s[i] = f} \in SUBSET (1..Len(s))
    BY <1>1
  <1>3. IsFiniteSet({i \in DOMAIN s : s[i] = f})
    BY <1>1, <1>2, FS_Subset
  <1> QED
    BY <1>3, FS_CardinalityType DEF Count

LEMMA CountAppend ==
    ASSUME NEW S, NEW s \in Seq(S), NEW x \in S, NEW f
    PROVE  Count(Append(s, x), f) = Count(s, f) + (IF x = f THEN 1 ELSE 0)
  <1> DEFINE A == {i \in DOMAIN s : s[i] = f}
             B == {i \in DOMAIN Append(s, x) : Append(s, x)[i] = f}
             n == Len(s) + 1
  <1>1. IsFiniteSet(A) /\ Cardinality(A) \in Nat
    BY CountType DEF Count
  <1>2. n \notin A
    OBVIOUS
  <1>3. CASE x = f
    <2>1. B = A \cup {n}
      BY <1>3
    <2>2. Cardinality(A \cup {n}) = Cardinality(A) + 1
      BY <1>1, <1>2, FS_AddElement
    <2> QED
      BY <1>3, <2>1, <2>2 DEF Count
  <1>4. CASE x # f
    <2>1. B = A
      BY <1>4
    <2>2. Count(Append(s, x), f) = Cardinality(B) /\ Count(s, f) = Cardinality(A)
      BY DEF Count
    <2> HIDE DEF A, B
    <2> QED
      BY <1>1, <1>4, <2>1, <2>2
  <1> QED
    BY <1>3, <1>4

\* A sequence by its prefixes.
LEMMA Prefix ==
    ASSUME NEW S, NEW s \in Seq(S)
    PROVE  /\ SubSeq(s, 1, 0) = << >> /\ SubSeq(s, 1, Len(s)) = s
           /\ \A n \in 0..Len(s) : SubSeq(s, 1, n) \in Seq(S)
           /\ \A n \in 1..Len(s) : SubSeq(s, 1, n) = Append(SubSeq(s, 1, n - 1), s[n])
  <1>1. SubSeq(s, 1, 0) = << >> /\ SubSeq(s, 1, Len(s)) = s
    BY SubSeqEmpty, SubSeqFull
  <1>2. ASSUME NEW n \in 0..Len(s)
        PROVE  SubSeq(s, 1, n) \in Seq(S)
    BY SubSeqProperties
  <1>3. ASSUME NEW n \in 1..Len(s)
        PROVE  SubSeq(s, 1, n) = Append(SubSeq(s, 1, n - 1), s[n])
    <2>1. SubSeq(s, 1, n) = SubSeq(s, 1, n - 1) \o <<s[n]>>
      BY SubSeqRecursiveSecond
    <2>2. SubSeq(s, 1, n - 1) \in Seq(S) /\ s[n] \in S
      BY <1>2
    <2> QED
      BY <2>1, <2>2, AppendIsConcat
  <1> QED
    BY <1>1, <1>2, <1>3

LEMMA ConcatAppend ==
    ASSUME NEW S, NEW s \in Seq(S), NEW t \in Seq(S), NEW x \in S
    PROVE  s \o Append(t, x) = Append(s \o t, x)
  <1>1. s \o t \in Seq(S) /\ <<x>> \in Seq(S)
    BY ConcatProperties
  <1>2. Append(t, x) = t \o <<x>> /\ Append(s \o t, x) = (s \o t) \o <<x>>
    BY <1>1, AppendIsConcat
  <1> QED
    BY <1>1, <1>2, ConcatAssociative

LEMMA CountConcat ==
    ASSUME NEW S, NEW s \in Seq(S), NEW t \in Seq(S), NEW x
    PROVE  Count(s \o t, x) = Count(s, x) + Count(t, x)
  <1> DEFINE p(n) == SubSeq(t, 1, n)
             G == {n \in 0..Len(t) : Count(s \o p(n), x) = Count(s, x) + Count(p(n), x)}
  <1>1. /\ p(0) = << >> /\ p(Len(t)) = t
        /\ \A n \in 0..Len(t) : p(n) \in Seq(S)
        /\ \A n \in 1..Len(t) : p(n) = Append(p(n - 1), t[n])
    BY Prefix
  <1>2. 0 \in G
    <2>1. Count(s \o << >>, x) = Count(s, x) + Count(<< >>, x)
      <3>1. Count(s, x) \in Nat /\ Count(<< >>, x) = 0 /\ s \o << >> = s
        BY CountType, CountNone, ConcatEmptySeq
      <3> QED
        BY <3>1
    <2>2. Count(s \o p(0), x) = Count(s, x) + Count(p(0), x)
      BY <1>1, <2>1, Zenon
    <2>3. 0 \in 0..Len(t)
      OBVIOUS
    <2> QED
      BY <2>2, <2>3, Zenon
  <1>3. ASSUME NEW n \in 1..Len(t), n - 1 \in G
        PROVE  n \in G
    <2> DEFINE a == p(n - 1)
    <2>1. a \in Seq(S) /\ t[n] \in S /\ p(n) = Append(a, t[n])
      BY <1>1
    <2>2. Count(s \o a, x) = Count(s, x) + Count(a, x)
      BY <1>3
    <2> HIDE DEF p, a
    <2>3. s \o Append(a, t[n]) = Append(s \o a, t[n]) /\ s \o a \in Seq(S)
      BY <2>1, ConcatAppend, ConcatProperties
    <2>4. Count(Append(a, t[n]), x) = Count(a, x) + (IF t[n] = x THEN 1 ELSE 0)
      BY <2>1, CountAppend
    <2>5. Count(Append(s \o a, t[n]), x) = Count(s \o a, x) + (IF t[n] = x THEN 1 ELSE 0)
      <3> DEFINE c == s \o a
      <3>1. c \in Seq(S) /\ t[n] \in S
        BY <2>1, <2>3
      <3> HIDE DEF c
      <3>2. Count(Append(c, t[n]), x) = Count(c, x) + (IF t[n] = x THEN 1 ELSE 0)
        BY <3>1, CountAppend
      <3> QED
        BY <3>2 DEF c
    <2>6. Count(s, x) \in Nat /\ Count(a, x) \in Nat
      BY <2>1, CountType
    <2>7. Count(s \o p(n), x) = Count(s, x) + Count(p(n), x)
      BY <2>1, <2>2, <2>3, <2>4, <2>5, <2>6
    <2>8. n \in 0..Len(t)
      OBVIOUS
    <2> QED
      BY <2>7, <2>8
  <1> HIDE DEF p
  <1>4. Len(t) \in G
    <2> HIDE DEF G
    <2>1. Len(t) \in Nat
      OBVIOUS
    <2>2. 0..Len(t) \subseteq G
      BY <1>2, <1>3, <2>1, Induct
    <2> QED
      BY <2>1, <2>2
  <1> QED
    BY <1>1, <1>4

LEMMA CountOne ==
    ASSUME NEW S, NEW y \in S, NEW x
    PROVE  Count(<<y>>, x) = IF y = x THEN 1 ELSE 0
  <1>1. {i \in DOMAIN <<y>> : <<y>>[i] = x} = IF y = x THEN {1} ELSE {}
    OBVIOUS
  <1> QED
    BY <1>1, FS_Singleton, FS_EmptySet DEF Count

\* An element of S is in Among(s, S) as often as in s.
LEMMA CountAmong ==
    ASSUME NEW T, NEW s \in Seq(T), NEW S, NEW x
    PROVE  Count(Among(s, S), x) = IF x \in S THEN Count(s, x) ELSE 0
  <1> DEFINE N == Len(s)
             p(n) == SubSeq(s, 1, n)
  <1>0. PICK u \in AmongBy(s, S, T) : TRUE
    BY AmongSteps
  <1> DEFINE G == {n \in 0..N : Count(u[n], x) = IF x \in S THEN Count(p(n), x) ELSE 0}
  <1>1. /\ u \in [0..N -> Seq(T)] /\ u[0] = << >> /\ Among(s, S) = u[N]
        /\ \A i \in 1..N : u[i] = IF s[i] \in S THEN Append(u[i - 1], s[i]) ELSE u[i - 1]
    BY <1>0 DEF AmongBy
  <1>2. /\ p(0) = << >> /\ p(N) = s
        /\ \A n \in 0..N : p(n) \in Seq(T)
        /\ \A n \in 1..N : p(n) = Append(p(n - 1), s[n])
    BY Prefix
  <1>3. 0 \in G
    <2>1. Count(u[0], x) = IF x \in S THEN Count(p(0), x) ELSE 0
      BY <1>1, <1>2, CountNone, Zenon
    <2>2. 0 \in 0..N
      OBVIOUS
    <2> QED
      BY <2>1, <2>2, Zenon
  <1>4. ASSUME NEW n \in 1..N, n - 1 \in G
        PROVE  n \in G
    <2> DEFINE a == u[n - 1]
               b == p(n - 1)
    <2>1. /\ n \in 0..N /\ n - 1 \in 0..N /\ s[n] \in T
          /\ a \in Seq(T) /\ b \in Seq(T) /\ p(n) = Append(b, s[n])
          /\ Count(a, x) = IF x \in S THEN Count(b, x) ELSE 0
      BY <1>1, <1>2, <1>4
    <2>2. u[n] = IF s[n] \in S THEN Append(a, s[n]) ELSE a
      BY <1>1
    <2> HIDE DEF p, a, b
    <2>3. /\ Count(Append(a, s[n]), x) = Count(a, x) + (IF s[n] = x THEN 1 ELSE 0)
          /\ Count(Append(b, s[n]), x) = Count(b, x) + (IF s[n] = x THEN 1 ELSE 0)
      BY <2>1, CountAppend
    <2>4. Count(a, x) \in Nat /\ Count(b, x) \in Nat
      BY <2>1, CountType
    <2>5. Count(u[n], x) = IF x \in S THEN Count(Append(b, s[n]), x) ELSE 0
      <3>1. CASE s[n] \in S
        BY <2>1, <2>2, <2>3, <2>4, <3>1
      <3>2. CASE s[n] \notin S
        BY <2>1, <2>2, <2>3, <2>4, <3>2
      <3> QED
        BY <3>1, <3>2
    <2> QED
      BY <2>1, <2>5
  <1>5. N \in G
    <2> HIDE DEF G
    <2>1. N \in Nat
      OBVIOUS
    <2> HIDE DEF N
    <2>2. 0..N \subseteq G
      BY <1>3, <1>4, <2>1, Induct
    <2> QED
      BY <2>1, <2>2
  <1> HIDE DEF p
  <1> QED
    BY <1>1, <1>2, <1>5

\* The first element of Among(s, S) is the first of s that is in S.
LEMMA AmongFirst ==
    ASSUME NEW T, NEW s \in Seq(T), NEW S,
           NEW k \in DOMAIN s, s[k] \in S, \A j \in DOMAIN s : s[j] \in S => k <= j
    PROVE  Among(s, S) # << >> /\ Head(Among(s, S)) = s[k]
  <1> DEFINE N == Len(s)
  <1>0. PICK u \in AmongBy(s, S, T) : TRUE
    BY AmongSteps
  <1> DEFINE G == {n \in 0..N : IF n < k THEN u[n] = << >>
                                ELSE u[n] # << >> /\ Head(u[n]) = s[k]}
  <1>1. /\ u \in [0..N -> Seq(T)] /\ u[0] = << >> /\ Among(s, S) = u[N]
        /\ \A i \in 1..N : u[i] = IF s[i] \in S THEN Append(u[i - 1], s[i]) ELSE u[i - 1]
    BY <1>0 DEF AmongBy
  <1>2. N \in Nat /\ k \in 1..N
    OBVIOUS
  <1>3. 0 \in G
    BY <1>1, <1>2
  <1>4. ASSUME NEW n \in 1..N, n - 1 \in G
        PROVE  n \in G
    <2> DEFINE a == u[n - 1]
    <2>0. n \in DOMAIN s /\ n - 1 \in 0..N
      BY <1>2
    <2>1. /\ n \in 0..N /\ a \in Seq(T) /\ s[n] \in T
          /\ IF n - 1 < k THEN a = << >> ELSE a # << >> /\ Head(a) = s[k]
      BY <1>1, <1>2, <1>4, <2>0
    <2>7. n < k => s[n] \notin S
      BY <1>2, <2>0
    <2>2. u[n] = IF s[n] \in S THEN Append(a, s[n]) ELSE a
      BY <1>1
    <2> HIDE DEF a
    <2>3. /\ Append(a, s[n]) # << >>
          /\ Head(Append(a, s[n])) = IF a = << >> THEN s[n] ELSE Head(a)
      BY <2>1, AppendProperties, HeadTailAppend
    <2>4. CASE n < k
      <3>1. n - 1 < k
        BY <1>2, <2>4
      <3> QED
        BY <2>1, <2>2, <2>4, <2>7, <3>1
    <2>5. CASE n = k
      <3>1. n - 1 < k /\ ~(n < k)
        BY <1>2, <2>5
      <3> QED
        BY <2>1, <2>2, <2>3, <2>5, <3>1
    <2>6. CASE n > k
      <3>1. ~(n - 1 < k) /\ ~(n < k)
        BY <1>2, <2>6
      <3> QED
        BY <2>1, <2>2, <2>3, <3>1
    <2> QED
      BY <1>2, <2>4, <2>5, <2>6
  <1>5. N \in G
    <2> HIDE DEF G, N
    <2>1. 0..N \subseteq G
      BY <1>2, <1>3, <1>4, Induct
    <2> QED
      BY <1>2, <2>1
  <1> QED
    BY <1>1, <1>2, <1>5

\* Only what S says of the elements of s matters.
LEMMA AmongSame ==
    ASSUME NEW T, NEW s \in Seq(T), NEW S, NEW R,
           \A x \in ToSet(s) : x \in S <=> x \in R
    PROVE  Among(s, S) = Among(s, R)
  <1> DEFINE N == Len(s)
  <1>1. PICK u \in AmongBy(s, S, T) : TRUE
    BY AmongSteps
  <1>2. PICK v \in AmongBy(s, R, T) : TRUE
    BY AmongSteps
  <1>3. /\ u[0] = << >> /\ Among(s, S) = u[N]
        /\ \A i \in 1..N : u[i] = IF s[i] \in S THEN Append(u[i - 1], s[i]) ELSE u[i - 1]
    BY <1>1 DEF AmongBy
  <1>4. /\ v[0] = << >> /\ Among(s, R) = v[N]
        /\ \A i \in 1..N : v[i] = IF s[i] \in R THEN Append(v[i - 1], s[i]) ELSE v[i - 1]
    BY <1>2 DEF AmongBy
  <1>5. N \in Nat /\ \A i \in 1..N : s[i] \in S <=> s[i] \in R
    BY DEF ToSet
  <1> DEFINE G == {i \in 0..N : u[i] = v[i]}
  <1>6. 0 \in G
    BY <1>3, <1>4, <1>5
  <1>7. ASSUME NEW i \in 1..N, i - 1 \in G
        PROVE  i \in G
    <2>1. u[i - 1] = v[i - 1] /\ i \in 0..N
      BY <1>5, <1>7
    <2>2. s[i] \in S <=> s[i] \in R
      BY <1>5
    <2> QED
      BY <1>3, <1>4, <2>1, <2>2
  <1>8. N \in G
    <2> HIDE DEF G, N
    <2>1. 0..N \subseteq G
      BY <1>5, <1>6, <1>7, Induct
    <2> QED
      BY <1>5, <2>1
  <1> QED
    BY <1>3, <1>4, <1>8

LEMMA AmongEmpty ==
    ASSUME NEW S
    PROVE  Among(<< >>, S) = << >>
  <1> DEFINE T == {}
             s == << >>
  <1>1. s \in Seq(T) /\ Len(s) = 0
    OBVIOUS
  <1> HIDE DEF s, T
  <1>2. PICK u \in AmongBy(s, S, T) : TRUE
    BY <1>1, AmongSteps
  <1>3. Among(s, S) = << >>
    BY <1>1, <1>2 DEF AmongBy
  <1> QED
    BY <1>3 DEF s

LEMMA AmongAppend ==
    ASSUME NEW T, NEW s \in Seq(T), NEW x \in T, NEW S
    PROVE  Among(Append(s, x), S) = IF x \in S THEN Append(Among(s, S), x) ELSE Among(s, S)
  <1> DEFINE N == Len(s)
             t == Append(s, x)
  <1>0. /\ N \in Nat /\ t \in Seq(T) /\ Len(t) = N + 1 /\ t[N + 1] = x
        /\ \A i \in 1..N : t[i] = s[i]
    BY AppendProperties
  <1> HIDE DEF t
  <1>1. PICK u \in AmongBy(s, S, T) : TRUE
    BY AmongSteps
  <1>2. PICK v \in AmongBy(t, S, T) : TRUE
    BY <1>0, AmongSteps
  <1>3. /\ u[0] = << >> /\ Among(s, S) = u[N]
        /\ \A i \in 1..N : u[i] = IF s[i] \in S THEN Append(u[i - 1], s[i]) ELSE u[i - 1]
    BY <1>1 DEF AmongBy
  <1>4. /\ v[0] = << >> /\ Among(t, S) = v[N + 1]
        /\ \A i \in 1..(N + 1) : v[i] = IF t[i] \in S THEN Append(v[i - 1], t[i]) ELSE v[i - 1]
    BY <1>0, <1>2 DEF AmongBy
  <1> DEFINE G == {i \in 0..N : u[i] = v[i]}
  <1>5. 0 \in G
    BY <1>0, <1>3, <1>4
  <1>6. ASSUME NEW i \in 1..N, i - 1 \in G
        PROVE  i \in G
    <2>1. u[i - 1] = v[i - 1] /\ i \in 0..N /\ i \in 1..(N + 1) /\ t[i] = s[i]
      BY <1>0, <1>6
    <2> QED
      BY <1>3, <1>4, <2>1
  <1>7. N \in G
    <2> HIDE DEF G, N
    <2>1. 0..N \subseteq G
      BY <1>0, <1>5, <1>6, Induct
    <2> QED
      BY <1>0, <2>1
  <1>8. v[N + 1] = IF x \in S THEN Append(v[N], x) ELSE v[N]
    <2> DEFINE m == N + 1
    <2>1. m \in 1..m /\ m - 1 = N
      BY <1>0
    <2>2. v[m] = IF t[m] \in S THEN Append(v[m - 1], t[m]) ELSE v[m - 1]
      BY <1>4, <2>1
    <2> QED
      BY <1>0, <2>1, <2>2
  <1> QED
    BY <1>3, <1>4, <1>7, <1>8 DEF t

\* What is not in a sequence is in it no time.
LEMMA CountAbsent ==
    ASSUME NEW s, NEW x, x \notin ToSet(s)
    PROVE  Count(s, x) = 0
  <1>1. {i \in DOMAIN s : s[i] = x} = {}
    BY DEF ToSet
  <1> QED
    BY <1>1, FS_EmptySet DEF Count

LEMMA CountPresent ==
    ASSUME NEW S, NEW s \in Seq(S), NEW x \in ToSet(s)
    PROVE  Count(s, x) > 0
  <1> DEFINE A == {i \in DOMAIN s : s[i] = x}
  <1>1. IsFiniteSet(A) /\ A # {}
    BY CountType DEF ToSet
  <1>2. Cardinality(A) \in Nat /\ Cardinality(A) # 0
    <2> HIDE DEF A
    <2> QED
      BY <1>1, FS_CardinalityType, FS_EmptySet
  <1> QED
    BY <1>2 DEF Count

\* Sequences as functions.
LEMMA FunctionIsSeq ==
    ASSUME NEW T, NEW n \in Nat, NEW s \in [1..n -> T]
    PROVE  s \in Seq(T) /\ Len(s) = n
  OBVIOUS

LEMMA SetOfEmpty ==
    ASSUME NEW T, NEW s \in Seq(T)
    PROVE  s # << >> <=> ToSet(s) # {}
  <1>1. CASE s = << >>
    BY <1>1 DEF ToSet
  <1>2. CASE s # << >>
    <2>1. 1 \in DOMAIN s
      BY <1>2, EmptySeq
    <2> QED
      BY <1>2, <2>1 DEF ToSet
  <1> QED
    BY <1>1, <1>2

LEMMA AppendToOne ==
    ASSUME NEW T, NEW s \in Seq(T), NEW x \in T, NEW y \in T, s = <<x>>
    PROVE  Append(s, y) = <<x, y>>
  <1>1. /\ Append(s, y) \in Seq(T) /\ Len(Append(s, y)) = 2
        /\ Append(s, y)[1] = x /\ Append(s, y)[2] = y
    BY AppendProperties
  <1>2. <<x, y>> \in Seq(T) /\ Len(<<x, y>>) = 2 /\ <<x, y>>[1] = x /\ <<x, y>>[2] = y
    OBVIOUS
  <1>3. ASSUME NEW a \in Seq(T), NEW b \in Seq(T),
               Len(a) = 2, Len(b) = 2, a[1] = b[1], a[2] = b[2]
        PROVE  a = b
    <2>1. \A i \in 1..Len(a) : a[i] = b[i]
      BY <1>3
    <2> QED
      BY <1>3, <2>1, SeqEqual
  <1> QED
    BY <1>1, <1>2, <1>3

LEMMA Pair ==
    ASSUME NEW T, NEW x \in T, NEW y \in T
    PROVE  /\ <<x>> \in Seq(T) /\ <<y>> \in Seq(T)
           /\ Append(<<x>>, y) = <<x, y>> /\ <<x>> \o <<y>> = <<x, y>>
  <1>1. <<x>> \in Seq(T) /\ <<y>> \in Seq(T)
    OBVIOUS
  <1>2. Append(<<x>>, y) = <<x, y>>
    <2> DEFINE s == <<x>>
    <2>1. s \in Seq(T) /\ s = <<x>>
      OBVIOUS
    <2> HIDE DEF s
    <2>2. Append(s, y) = <<x, y>>
      BY <2>1, AppendToOne
    <2> QED
      BY <2>2 DEF s
  <1>3. <<x>> \o <<y>> = <<x, y>>
    <2> DEFINE s == <<x>>
               t == << >>
    <2>1. s \in Seq(T) /\ t \in Seq(T) /\ s \o t = s /\ Append(t, y) = <<y>>
      BY <1>1, ConcatEmptySeq
    <2> HIDE DEF s, t
    <2>2. s \o Append(t, y) = Append(s \o t, y)
      BY <2>1, ConcatAppend
    <2>3. s \o <<y>> = Append(s, y)
      BY <2>1, <2>2
    <2> QED
      BY <1>2, <2>3 DEF s
  <1> QED
    BY <1>1, <1>2, <1>3

\* The sequence of what f makes of the elements.
Mapped(f, s) == [i \in DOMAIN s |-> f[s[i]]]
Maps(T, U) == [T -> U]

LEMMA MappedType ==
    ASSUME NEW T, NEW U, NEW f \in Maps(T, U), NEW s \in Seq(T)
    PROVE  Mapped(f, s) \in Seq(U) /\ Len(Mapped(f, s)) = Len(s)
  <1> DEFINE m == [i \in DOMAIN s |-> f[s[i]]]
             n == Len(s)
  <1>1. n \in Nat /\ m \in [1..n -> U]
    BY DEF Maps
  <1> HIDE DEF m, n
  <1>2. m \in Seq(U) /\ Len(m) = n
    BY <1>1, FunctionIsSeq
  <1> QED
    BY <1>2 DEF Mapped, m, n

LEMMA MappedAppend ==
    ASSUME NEW T, NEW U, NEW f \in Maps(T, U), NEW s \in Seq(T), NEW x \in T
    PROVE  Mapped(f, Append(s, x)) = Append(Mapped(f, s), f[x])
  <1> DEFINE t == Append(s, x)
             m == Mapped(f, s)
             a == Mapped(f, t)
             n == Len(s)
  <1>1. /\ t \in Seq(T) /\ n \in Nat /\ Len(t) = n + 1 /\ t[n + 1] = x
        /\ \A i \in 1..n : t[i] = s[i]
    BY AppendProperties
  <1> HIDE DEF t
  <1>2. m \in Seq(U) /\ Len(m) = n /\ a \in Seq(U) /\ Len(a) = n + 1
    <2>1. m \in Seq(U) /\ Len(m) = n
      BY MappedType
    <2>2. a \in Seq(U) /\ Len(a) = Len(t)
      <3>1. t \in Seq(T)
        BY <1>1
      <3> QED
        BY <3>1, MappedType
    <2> QED
      BY <1>1, <2>1, <2>2
  <1>3. /\ \A i \in 1..n : m[i] = f[s[i]]
        /\ \A i \in 1..(n + 1) : a[i] = f[t[i]]
    BY <1>1 DEF Mapped
  <1> HIDE DEF m, a
  <1> DEFINE y == f[x]
  <1>4. y \in U
    BY DEF Maps
  <1> HIDE DEF y
  <1>5. Append(m, y) \in Seq(U) /\ Len(Append(m, y)) = n + 1 /\ Append(m, y)[n + 1] = y
        /\ \A i \in 1..n : Append(m, y)[i] = m[i]
    BY <1>2, <1>4, AppendProperties
  <1>6. \A i \in 1..(n + 1) : a[i] = Append(m, y)[i]
    <2> TAKE i \in 1..(n + 1)
    <2>1. CASE i \in 1..n
      BY <1>1, <1>3, <1>5, <2>1
    <2>2. CASE i = n + 1
      BY <1>1, <1>3, <1>5, <2>2 DEF y
    <2>3. i \in 1..n \/ i = n + 1
      BY <1>1
    <2> QED
      BY <2>1, <2>2, <2>3
  <1>7. a = Append(m, y)
    BY <1>1, <1>2, <1>5, <1>6, SeqEqual
  <1> QED
    BY <1>7 DEF a, m, t, y

LEMMA MappedConcat ==
    ASSUME NEW T, NEW U, NEW f \in Maps(T, U), NEW s \in Seq(T), NEW t \in Seq(T)
    PROVE  Mapped(f, s \o t) = Mapped(f, s) \o Mapped(f, t)
  <1> DEFINE m == Len(s)
             n == Len(t)
             c == s \o t
             a == Mapped(f, s)
             b == Mapped(f, t)
             d == a \o b
             e == Mapped(f, c)
  <1>1. /\ c \in Seq(T) /\ Len(c) = m + n /\ m \in Nat /\ n \in Nat
        /\ \A i \in 1..(m + n) : c[i] = IF i <= m THEN s[i] ELSE t[i - m]
    BY ConcatProperties
  <1> HIDE DEF c
  <1>2. a \in Seq(U) /\ Len(a) = m
    BY MappedType
  <1>3. b \in Seq(U) /\ Len(b) = n
    BY MappedType
  <1>4. e \in Seq(U) /\ Len(e) = m + n
    <2>1. c \in Seq(T)
      BY <1>1
    <2>2. e \in Seq(U) /\ Len(e) = Len(c)
      BY <2>1, MappedType
    <2> QED
      BY <1>1, <2>2
  <1>5. /\ \A i \in 1..m : a[i] = f[s[i]]
        /\ \A i \in 1..n : b[i] = f[t[i]]
        /\ \A i \in 1..(m + n) : e[i] = f[c[i]]
    BY <1>1 DEF Mapped
  <1> HIDE DEF a, b, e
  <1>6. /\ d \in Seq(U) /\ Len(d) = Len(a) + Len(b)
        /\ \A i \in 1..(Len(a) + Len(b)) : d[i] = IF i <= Len(a) THEN a[i] ELSE b[i - Len(a)]
    BY <1>2, <1>3, ConcatProperties
  <1> HIDE DEF d, m, n
  <1>7. ASSUME NEW i \in 1..(m + n)
        PROVE  e[i] = d[i]
    <2>1. CASE i <= m
      <3>1. i \in 1..m
        BY <1>1, <2>1
      <3>2. c[i] = s[i] /\ d[i] = a[i]
        BY <1>1, <1>2, <1>3, <1>6, <2>1
      <3> QED
        BY <1>5, <3>1, <3>2
    <2>2. CASE ~(i <= m)
      <3>1. i - m \in 1..n
        BY <1>1, <2>2
      <3> DEFINE j == i - m
      <3>2. c[i] = t[j] /\ d[i] = b[j]
        BY <1>1, <1>2, <1>3, <1>6, <2>2
      <3>3. b[j] = f[t[j]]
        BY <1>5, <3>1
      <3> QED
        BY <1>5, <3>2, <3>3
    <2> QED
      BY <2>1, <2>2
  <1>8. e = d
    BY <1>2, <1>3, <1>4, <1>6, <1>7, SeqEqual
  <1> QED
    BY <1>8 DEF a, b, c, d, e

\* How FlattenSeq is computed: sequence by sequence.
FlatBy(ss, T) ==
    {u \in [0..Len(ss) -> Seq(T)] :
        /\ u[0] = << >> /\ FlattenSeq(ss) = u[Len(ss)]
        /\ \A i \in 1..Len(ss) : u[i] = u[i - 1] \o ss[i]}

LEMMA FlatSteps ==
    ASSUME NEW T, NEW ss \in Seq(Seq(T))
    PROVE  FlatBy(ss, T) # {}
  <1> DEFINE N == Len(ss)
             D == Seq(T)
             Flat(f, i) == IF i = 1 THEN ss[i] ELSE f[i - 1] \o ss[i]
             step == [i \in 1..N |-> [x \in D |-> x \o ss[i]]]
  <1>0. N \in Nat /\ << >> \in D /\ \A i \in 1..N : ss[i] \in Seq(T)
    OBVIOUS
  <1>1. step \in Steps(N, D)
    <2> SUFFICES ASSUME NEW i \in 1..N, NEW x \in D
                 PROVE  x \o ss[i] \in D
      BY DEF Steps
    <2>1. ss[i] \in Seq(T)
      BY <1>0
    <2> QED
      BY <2>1, ConcatProperties
  <1>2. PICK h \in Iterates(N, D, << >>, step) : TRUE
    <2>1. Iterates(N, D, << >>, step) # {}
      <3> HIDE DEF N, D, step
      <3> QED
        BY <1>0, <1>1, Recursion
    <2> QED
      BY <2>1
  <1>3. /\ h \in [0..N -> D] /\ h[0] = << >>
        /\ \A i \in 1..N : h[i] = h[i - 1] \o ss[i]
    <2>1. /\ h \in [0..N -> D] /\ h[0] = << >>
          /\ \A i \in 1..N : h[i] = step[i][h[i - 1]]
      BY <1>2 DEF Iterates
    <2>2. ASSUME NEW i \in 1..N
          PROVE  step[i][h[i - 1]] = h[i - 1] \o ss[i]
      <3>1. i - 1 \in 0..N
        BY <1>0
      <3>2. h[i - 1] \in D
        BY <2>1, <3>1
      <3> QED
        BY <3>2
    <2> QED
      BY <2>1, <2>2
  <1>4. CASE N = 0
    <2>1. ss = << >>
      BY <1>4
    <2>2. FlattenSeq(ss) = << >>
      BY <1>4, <2>1 DEF FlattenSeq
    <2>3. h \in FlatBy(ss, T)
      BY <1>3, <1>4, <2>2 DEF FlatBy
    <2> QED
      BY <2>3
  <1>5. CASE N # 0
    <2> DEFINE g == [i \in 1..N |-> h[i]]
               u == CHOOSE f : f = [i \in 1..N |-> Flat(f, i)]
    <2>1. ASSUME NEW i \in 1..N
          PROVE  g[i] = Flat(g, i)
      <3>1. CASE i = 1
        <4>1. h[i] = << >> \o ss[i] /\ ss[i] \in Seq(T)
          <5>1. i - 1 = 0
            BY <3>1
          <5> QED
            BY <1>0, <1>3, <5>1
        <4>2. << >> \o ss[i] = ss[i]
          BY <4>1, ConcatEmptySeq
        <4> QED
          BY <1>3, <3>1, <4>1, <4>2
      <3>2. CASE i # 1
        <4>1. i - 1 \in 1..N
          BY <3>2
        <4> QED
          BY <1>3, <3>2, <4>1
      <3> QED
        BY <3>1, <3>2
    <2>2. g = [i \in 1..N |-> Flat(g, i)]
      BY <2>1
    <2>3. u = [i \in 1..N |-> Flat(u, i)]
      BY <2>2
    <2>4. FlattenSeq(ss) = u[N]
      BY <1>5 DEF FlattenSeq
    <2> HIDE DEF u, g
    <2>5. \A i \in 1..N : u[i] = Flat(u, i)
      BY <2>3, Zenon
    <2> DEFINE G == {i \in 0..N : i = 0 \/ u[i] = h[i]}
    <2>6. 0 \in G
      BY <1>0
    <2>7. ASSUME NEW i \in 1..N, i - 1 \in G
          PROVE  i \in G
      <3>1. u[i] = Flat(u, i)
        BY <2>5
      <3>2. CASE i = 1
        <4>1. h[i] = << >> \o ss[i] /\ ss[i] \in Seq(T)
          <5>1. i - 1 = 0
            BY <3>2
          <5> QED
            BY <1>0, <1>3, <5>1
        <4>2. << >> \o ss[i] = ss[i]
          BY <4>1, ConcatEmptySeq
        <4> QED
          BY <1>3, <3>1, <3>2, <4>1, <4>2
      <3>3. CASE i # 1
        <4>1. u[i - 1] = h[i - 1] /\ i \in 0..N
          BY <1>0, <2>7, <3>3
        <4>2. u[i] = h[i]
          BY <1>3, <3>1, <3>3, <4>1
        <4> QED
          BY <4>1, <4>2
      <3> QED
        BY <3>2, <3>3
    <2>8. N \in G
      <3> HIDE DEF G, N
      <3>1. 0..N \subseteq G
        BY <1>0, <2>6, <2>7, Induct
      <3> QED
        BY <1>0, <3>1
    <2>9. h \in FlatBy(ss, T)
      BY <1>3, <1>5, <2>4, <2>8 DEF FlatBy
    <2> QED
      BY <2>9
  <1> QED
    BY <1>4, <1>5

LEMMA FlatType ==
    ASSUME NEW T, NEW ss \in Seq(Seq(T))
    PROVE  FlattenSeq(ss) \in Seq(T)
  <1>1. PICK u \in FlatBy(ss, T) : TRUE
    BY FlatSteps
  <1>2. u \in [0..Len(ss) -> Seq(T)] /\ FlattenSeq(ss) = u[Len(ss)] /\ Len(ss) \in 0..Len(ss)
    BY <1>1 DEF FlatBy
  <1> QED
    BY <1>2

LEMMA FlatEmpty == FlattenSeq(<< >>) = << >>
  BY DEF FlattenSeq

LEMMA FlatAppend ==
    ASSUME NEW T, NEW ss \in Seq(Seq(T)), NEW s \in Seq(T)
    PROVE  FlattenSeq(Append(ss, s)) = FlattenSeq(ss) \o s
  <1> DEFINE N == Len(ss)
             tt == Append(ss, s)
  <1>1. /\ N \in Nat /\ tt \in Seq(Seq(T)) /\ Len(tt) = N + 1 /\ tt[N + 1] = s
        /\ \A i \in 1..N : tt[i] = ss[i]
    BY AppendProperties
  <1>2. PICK u \in FlatBy(ss, T) : TRUE
    BY FlatSteps
  <1> HIDE DEF tt
  <1>3. PICK v \in FlatBy(tt, T) : TRUE
    BY <1>1, FlatSteps
  <1>4. /\ u[0] = << >> /\ FlattenSeq(ss) = u[N]
        /\ \A i \in 1..N : u[i] = u[i - 1] \o ss[i]
    BY <1>2 DEF FlatBy
  <1>5. /\ v[0] = << >> /\ FlattenSeq(tt) = v[N + 1]
        /\ \A i \in 1..(N + 1) : v[i] = v[i - 1] \o tt[i]
    BY <1>1, <1>3 DEF FlatBy
  <1> DEFINE G == {i \in 0..N : u[i] = v[i]}
  <1>6. 0 \in G
    BY <1>1, <1>4, <1>5
  <1>7. ASSUME NEW i \in 1..N, i - 1 \in G
        PROVE  i \in G
    <2>1. u[i - 1] = v[i - 1] /\ tt[i] = ss[i] /\ i \in 1..(N + 1) /\ i \in 0..N
      BY <1>1, <1>7
    <2> QED
      BY <1>4, <1>5, <2>1
  <1>8. N \in G
    <2> HIDE DEF G, N
    <2>1. 0..N \subseteq G
      BY <1>1, <1>6, <1>7, Induct
    <2> QED
      BY <1>1, <2>1
  <1>9. v[N + 1] = v[N] \o s
    <2> DEFINE m == N + 1
    <2>1. m \in 1..m /\ m - 1 = N
      BY <1>1
    <2>2. v[m] = v[m - 1] \o tt[m]
      BY <1>5, <2>1
    <2> QED
      BY <1>1, <2>1, <2>2
  <1> QED
    BY <1>4, <1>5, <1>8, <1>9 DEF tt

Regroups(x, y, z) == (x \o y) \o z = x \o (y \o z)

LEMMA Associative ==
    ASSUME NEW T, NEW x \in Seq(T), NEW y \in Seq(T), NEW z \in Seq(T)
    PROVE  Regroups(x, y, z)
  BY ConcatAssociative DEF Regroups

LEMMA FlatConcat ==
    ASSUME NEW T, NEW ss \in Seq(Seq(T)), NEW tt \in Seq(Seq(T))
    PROVE  FlattenSeq(ss \o tt) = FlattenSeq(ss) \o FlattenSeq(tt)
  <1> DEFINE N == Len(tt)
             p(n) == SubSeq(tt, 1, n)
             G == {n \in 0..N : FlattenSeq(ss \o p(n)) = FlattenSeq(ss) \o FlattenSeq(p(n))}
  <1>1. /\ p(0) = << >> /\ p(N) = tt
        /\ \A n \in 0..N : p(n) \in Seq(Seq(T))
        /\ \A n \in 1..N : p(n) = Append(p(n - 1), tt[n])
    BY Prefix
  <1>2. N \in Nat /\ FlattenSeq(ss) \in Seq(T)
    BY FlatType
  <1>3. 0 \in G
    <2>1. ss \o << >> = ss /\ FlattenSeq(ss) \o << >> = FlattenSeq(ss)
      BY <1>2, ConcatEmptySeq
    <2>2. FlattenSeq(ss \o << >>) = FlattenSeq(ss) \o FlattenSeq(<< >>)
      BY <2>1, FlatEmpty
    <2>3. FlattenSeq(ss \o p(0)) = FlattenSeq(ss) \o FlattenSeq(p(0))
      BY <1>1, <2>2, Zenon
    <2>4. 0 \in 0..N
      BY <1>2
    <2> QED
      BY <2>3, <2>4, Zenon
  <1>4. ASSUME NEW n \in 1..N, n - 1 \in G
        PROVE  n \in G
    <2> DEFINE a == p(n - 1)
    <2>1. /\ n \in 0..N /\ a \in Seq(Seq(T)) /\ tt[n] \in Seq(T) /\ p(n) = Append(a, tt[n])
          /\ FlattenSeq(ss \o a) = FlattenSeq(ss) \o FlattenSeq(a)
      BY <1>1, <1>4
    <2> HIDE DEF p, a
    <2>2. ss \o Append(a, tt[n]) = Append(ss \o a, tt[n]) /\ ss \o a \in Seq(Seq(T))
      <3> DEFINE S == Seq(T)
                 y == tt[n]
      <3>1. ss \in Seq(S) /\ a \in Seq(S) /\ y \in S
        BY <2>1
      <3> HIDE DEF S, y
      <3>2. ss \o Append(a, y) = Append(ss \o a, y) /\ ss \o a \in Seq(S)
        BY <3>1, ConcatAppend, ConcatProperties
      <3> QED
        BY <3>2 DEF S, y
    <2>3. FlattenSeq(Append(a, tt[n])) = FlattenSeq(a) \o tt[n] /\ FlattenSeq(a) \in Seq(T)
      BY <2>1, FlatAppend, FlatType
    <2>4. FlattenSeq(Append(ss \o a, tt[n])) = FlattenSeq(ss \o a) \o tt[n]
      <3> DEFINE c == ss \o a
      <3>1. c \in Seq(Seq(T)) /\ tt[n] \in Seq(T)
        BY <2>1, <2>2
      <3> HIDE DEF c
      <3>2. FlattenSeq(Append(c, tt[n])) = FlattenSeq(c) \o tt[n]
        BY <3>1, FlatAppend
      <3> QED
        BY <3>2 DEF c
    <2>5. (FlattenSeq(ss) \o FlattenSeq(a)) \o tt[n] = FlattenSeq(ss) \o (FlattenSeq(a) \o tt[n])
      <3> DEFINE x == FlattenSeq(ss)
                 y == FlattenSeq(a)
                 z == tt[n]
      <3>1. x \in Seq(T) /\ y \in Seq(T) /\ z \in Seq(T)
        BY <1>2, <2>1, <2>3
      <3> HIDE DEF x, y, z
      <3>2. (x \o y) \o z = x \o (y \o z)
        <4>1. Regroups(x, y, z)
          BY <3>1, Associative
        <4> QED
          BY <4>1, Zenon DEF Regroups
      <3> QED
        BY <3>2 DEF x, y, z
    <2>6. FlattenSeq(ss \o p(n)) = FlattenSeq(ss) \o FlattenSeq(p(n))
      BY <2>1, <2>2, <2>3, <2>4, <2>5, Zenon
    <2> QED
      BY <2>1, <2>6
  <1> HIDE DEF p
  <1>5. N \in G
    <2> HIDE DEF G, N
    <2>1. 0..N \subseteq G
      BY <1>2, <1>3, <1>4, Induct
    <2> QED
      BY <1>2, <2>1
  <1> QED
    BY <1>1, <1>5

LEMMA FlatOne ==
    ASSUME NEW T, NEW s \in Seq(T)
    PROVE  FlattenSeq(<<s>>) = s
  <1>1. <<s>> = Append(<< >>, s) /\ << >> \in Seq(Seq(T)) /\ << >> \o s = s
    BY ConcatEmptySeq
  <1>2. FlattenSeq(Append(<< >>, s)) = FlattenSeq(<< >>) \o s
    <2> DEFINE e == << >>
    <2>1. e \in Seq(Seq(T))
      OBVIOUS
    <2> HIDE DEF e
    <2>2. FlattenSeq(Append(e, s)) = FlattenSeq(e) \o s
      BY <2>1, FlatAppend
    <2> QED
      BY <2>2 DEF e
  <1> QED
    BY <1>1, <1>2, FlatEmpty

\* The elements of a concatenation.
LEMMA ConcatSet ==
    ASSUME NEW T, NEW s \in Seq(T), NEW t \in Seq(T)
    PROVE  ToSet(s \o t) = ToSet(s) \cup ToSet(t)
  <1> DEFINE c == s \o t
             m == Len(s)
             n == Len(t)
  <1>1. /\ m \in Nat /\ n \in Nat /\ c \in Seq(T) /\ Len(c) = m + n
        /\ \A i \in 1..(m + n) : c[i] = IF i <= m THEN s[i] ELSE t[i - m]
    BY ConcatProperties
  <1>2. DOMAIN s = 1..m /\ DOMAIN t = 1..n /\ DOMAIN c = 1..(m + n)
    BY <1>1
  <1> HIDE DEF c, m, n
  <1>3. ASSUME NEW x \in ToSet(c)
        PROVE  x \in ToSet(s) \cup ToSet(t)
    <2>1. PICK i \in 1..(m + n) : x = c[i]
      BY <1>2 DEF ToSet
    <2>2. CASE i <= m
      <3>1. i \in 1..m
        BY <1>1, <2>2
      <3> QED
        BY <1>1, <1>2, <2>1, <2>2, <3>1 DEF ToSet
    <2>3. CASE ~(i <= m)
      <3>1. i - m \in 1..n
        BY <1>1, <2>3
      <3> QED
        BY <1>1, <1>2, <2>1, <2>3, <3>1 DEF ToSet
    <2> QED
      BY <2>2, <2>3
  <1>4. ToSet(s) \subseteq ToSet(c)
    <2> SUFFICES ASSUME NEW i \in 1..m
                 PROVE  \E j \in 1..(m + n) : s[i] = c[j]
      BY <1>2 DEF ToSet
    <2>1. i \in 1..(m + n) /\ c[i] = s[i]
      BY <1>1
    <2> QED
      BY <2>1
  <1>5. ToSet(t) \subseteq ToSet(c)
    <2> SUFFICES ASSUME NEW i \in 1..n
                 PROVE  \E j \in 1..(m + n) : t[i] = c[j]
      BY <1>2 DEF ToSet
    <2>1. i + m \in 1..(m + n) /\ ~(i + m <= m) /\ i + m - m = i
      BY <1>1
    <2>2. c[i + m] = t[i]
      BY <1>1, <2>1
    <2> QED
      BY <2>1, <2>2
  <1> QED
    BY <1>3, <1>4, <1>5 DEF c
\* Flattening two sequences, and four.
LEMMA FlatTwo ==
    ASSUME NEW T, NEW a \in Seq(T), NEW b \in Seq(T)
    PROVE  FlattenSeq(<<a, b>>) = a \o b
  <1> DEFINE ss == <<a, b>>
  <1>1. ss \in Seq(Seq(T)) /\ Len(ss) = 2 /\ ss[1] = a /\ ss[2] = b
    OBVIOUS
  <1> HIDE DEF ss
  <1>2. PICK u \in FlatBy(ss, T) : TRUE
    BY <1>1, FlatSteps
  <1>3. /\ u[0] = << >> /\ FlattenSeq(ss) = u[Len(ss)]
        /\ \A i \in 1..Len(ss) : u[i] = u[i - 1] \o ss[i]
    BY DEF FlatBy
  <1>4. u[1] = u[0] \o a /\ u[2] = u[1] \o b
    <2>1. 1 \in 1..Len(ss) /\ 2 \in 1..Len(ss) /\ 1 - 1 = 0 /\ 2 - 1 = 1
      BY <1>1
    <2> QED
      BY <1>1, <1>3, <2>1
  <1>5. << >> \o a = a
    BY ConcatEmptySeq
  <1>6. FlattenSeq(ss) = a \o b
    BY <1>1, <1>3, <1>4, <1>5
  <1> QED
    BY <1>6 DEF ss

LEMMA FlatFour ==
    ASSUME NEW T, NEW ss \in Seq(Seq(T)), Len(ss) = 4,
           NEW ab, NEW abc, ab = ss[1] \o ss[2], abc = ab \o ss[3]
    PROVE  FlattenSeq(ss) = abc \o ss[4]
  <1>1. PICK u \in FlatBy(ss, T) : TRUE
    BY FlatSteps
  <1>2. /\ u[0] = << >> /\ FlattenSeq(ss) = u[Len(ss)]
        /\ \A i \in 1..Len(ss) : u[i] = u[i - 1] \o ss[i]
    BY DEF FlatBy
  <1>3. /\ u[1] = u[0] \o ss[1] /\ u[2] = u[1] \o ss[2]
        /\ u[3] = u[2] \o ss[3] /\ u[4] = u[3] \o ss[4]
    <2>1. /\ 1 \in 1..Len(ss) /\ 2 \in 1..Len(ss) /\ 3 \in 1..Len(ss) /\ 4 \in 1..Len(ss)
          /\ 1 - 1 = 0 /\ 2 - 1 = 1 /\ 3 - 1 = 2 /\ 4 - 1 = 3
      OBVIOUS
    <2> QED
      BY <1>2, <2>1
  <1>4. << >> \o ss[1] = ss[1]
    <2> DEFINE U == Seq(T)
    <2>1. ss \in Seq(U) /\ 1 \in 1..Len(ss)
      OBVIOUS
    <2> HIDE DEF U
    <2>2. ss[1] \in U
      BY <2>1
    <2> QED
      BY <2>2, ConcatEmptySeq DEF U
  <1> QED
    BY <1>2, <1>3, <1>4

=============================================================================
