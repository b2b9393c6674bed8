------------------------- MODULE ShaderProgramProofs --------------------------
(***************************************************************************)
(* Proofs about ShaderProgram, for every text, every use of a binary and   *)
(* every request.  Sums, concatenations and the places where instructions  *)
(* begin are defined by recursion; what the proofs need of them comes from *)
(* the smallest counterexample, which a set of natural numbers has.        *)
(***************************************************************************)
EXTENDS ShaderProgram, WellFoundedInduction, FiniteSetTheorems, SequenceTheorems, TLAPS

-----------------------------------------------------------------------------
(* Sums and concatenations of sequences: the folds of the library, unfolded  *)
(* by one element.  Each induction over a length is a least counterexample.  *)

LEMMA LeastExists ==
    ASSUME NEW S, S \subseteq Nat, S # {}
    PROVE  \E x \in S : \A y \in S : x <= y
<1>1. PICK x \in S : \A y \in S : ~(<<y, x>> \in OpToRel(<, Nat))
    BY NatLessThanWellFounded, WFMin
<1>. SUFFICES ASSUME NEW y \in S
              PROVE  x <= y
    OBVIOUS
<1>2. ~(y < x)
    BY <1>1 DEF OpToRel
<1>. QED
    BY <1>2

\* The n of a false statement about a natural number that is true of 0 is the
\* successor of one it is true of.
LEMMA FirstFailure ==
    ASSUME NEW S, S \subseteq Nat, S # {}, 0 \notin S
    PROVE  \E n \in Nat : n \notin S /\ n + 1 \in S
<1>1. PICK x \in S : \A y \in S : x <= y
    BY LeastExists
<1>2. x - 1 \in Nat /\ x - 1 \notin S /\ (x - 1) + 1 = x
    BY <1>1
<1>. QED
    BY <1>1, <1>2

-----------------------------------------------------------------------------
(* Sums.                                                                     *)

IsSum(f, s, n) ==
    f = [S \in SUBSET (1 .. n) |-> IF S = {} THEN 0 ELSE f[S \ {Max(S)}] + s[Max(S)]]

LEMMA MaxOfInterval ==
    ASSUME NEW n \in Nat, NEW S \in SUBSET (1 .. n + 1), n + 1 \in S
    PROVE  Max(S) = n + 1
<1>1. \A y \in S : n + 1 >= y
    OBVIOUS
<1>2. ASSUME NEW x \in S, \A y \in S : x >= y
      PROVE  x = n + 1
    BY <1>2
<1>. QED
    BY <1>1, <1>2 DEF Max

LEMMA MaxInside ==
    ASSUME NEW n \in Nat, NEW S \in SUBSET (1 .. n), S # {}
    PROVE  Max(S) \in S
<1>. DEFINE T == {n - x : x \in S}
<1>1. T \subseteq Nat /\ T # {}
    <2>1. \A x \in S : x \in Int /\ n - x \in Nat
        OBVIOUS
    <2>. QED
        BY <2>1
<1>2. PICK m \in T : \A y \in T : m <= y
    BY <1>1, LeastExists
<1>3. PICK x \in S : m = n - x
    BY <1>2
<1>4. \A y \in S : x >= y
    <2>. SUFFICES ASSUME NEW y \in S PROVE x >= y
        OBVIOUS
    <2>1. n - x <= n - y
        BY <1>2, <1>3
    <2>. QED
        BY <2>1
<1>. QED
    BY <1>4 DEF Max

LEMMA SumExists ==
    ASSUME NEW s, NEW n \in Nat
    PROVE  \E f : IsSum(f, s, n)
<1>. DEFINE Bad == {m \in Nat : ~\E f : IsSum(f, s, m)}
<1>1. 0 \notin Bad
    <2>1. SUBSET (1 .. 0) = {{}}
        OBVIOUS
    <2>. DEFINE g == [S \in SUBSET (1 .. 0) |-> 0]
    <2>2. [S \in SUBSET (1 .. 0) |-> IF S = {} THEN 0 ELSE g[S \ {Max(S)}] + s[Max(S)]] = g
        BY <2>1
    <2>. QED
        BY <2>2 DEF IsSum
<1>2. ASSUME NEW m \in Nat, m \notin Bad, m + 1 \in Bad
      PROVE  FALSE
    <2>1. PICK f : IsSum(f, s, m)
        BY <1>2
    <2>. DEFINE k == m + 1
                g == [S \in SUBSET (1 .. k) |-> IF k \in S THEN f[S \ {k}] + s[k] ELSE f[S]]
                h == [S \in SUBSET (1 .. k) |-> IF S = {} THEN 0 ELSE g[S \ {Max(S)}] + s[Max(S)]]
    <2>2. ASSUME NEW S \in SUBSET (1 .. k)
          PROVE  g[S] = h[S]
        <3>1. CASE k \in S
            <4>1. Max(S) = k
                BY <3>1, MaxOfInterval
            <4>2. S \ {k} \in SUBSET (1 .. k) /\ k \notin S \ {k}
                OBVIOUS
            <4>3. g[S \ {k}] = f[S \ {k}]
                BY <4>2
            <4>4. h[S] = g[S \ {k}] + s[k]
                BY <3>1, <4>1
            <4>. QED
                BY <3>1, <4>3, <4>4
        <3>2. CASE k \notin S
            <4>1. S \in SUBSET (1 .. m)
                BY <3>2
            <4>2. f[S] = IF S = {} THEN 0 ELSE f[S \ {Max(S)}] + s[Max(S)]
                BY <2>1, <4>1 DEF IsSum
            <4>3. S \ {Max(S)} \in SUBSET (1 .. k) /\ k \notin S \ {Max(S)}
                BY <3>2
            <4>4. g[S \ {Max(S)}] = f[S \ {Max(S)}]
                BY <4>3
            <4>. QED
                BY <3>2, <4>2, <4>4
        <3>. QED
            BY <3>1, <3>2
    <2>3. g = h
        BY <2>2
    <2>4. IsSum(g, s, k)
        BY ONLY <2>3 DEF IsSum
    <2>. QED
        BY <2>4, <1>2
<1>3. Bad = {}
    BY <1>1, <1>2, FirstFailure
<1>. QED
    BY <1>3

LEMMA SumStep ==
    ASSUME NEW s, NEW n \in Nat, NEW f, IsSum(f, s, n)
    PROVE  /\ f[1 .. 0] = 0
           /\ \A k \in 0 .. n - 1 : f[1 .. k + 1] = f[1 .. k] + s[k + 1]
<1>1. \A S \in SUBSET (1 .. n) : f[S] = IF S = {} THEN 0 ELSE f[S \ {Max(S)}] + s[Max(S)]
    BY DEF IsSum
<1>2. 1 .. 0 = {}
    OBVIOUS
<1>3. ASSUME NEW k \in 0 .. n - 1
      PROVE  f[1 .. k + 1] = f[1 .. k] + s[k + 1]
    <2>1. k \in Nat /\ k + 1 \in 1 .. n /\ k + 1 \in 1 .. k + 1
        OBVIOUS
    <2>2. 1 .. k + 1 \in SUBSET (1 .. n) /\ 1 .. k + 1 # {}
        BY <2>1
    <2>3. Max(1 .. k + 1) = k + 1
        BY <2>1, MaxOfInterval
    <2>4. (1 .. k + 1) \ {k + 1} = 1 .. k
        BY <2>1
    <2>. QED
        BY <1>1, <2>2, <2>3, <2>4
<1>. QED
    BY <1>1, <1>2, <1>3

LEMMA SumUnique ==
    ASSUME NEW s, NEW r, NEW f, NEW g, NEW n \in Nat, NEW m \in Nat, n <= m,
           IsSum(f, s, n), IsSum(g, r, m), \A i \in 1 .. n : s[i] = r[i],
           NEW k \in 0 .. n
    PROVE  f[1 .. k] = g[1 .. k]
<1>. DEFINE Bad == {i \in 0 .. n : f[1 .. i] # g[1 .. i]}
<1>1. 0 \notin Bad
    BY SumStep
<1>2. ASSUME NEW i \in Nat, i \notin Bad, i + 1 \in Bad
      PROVE  FALSE
    <2>1. i + 1 \in 1 .. n /\ i \in 0 .. n /\ i \in 0 .. n - 1 /\ i \in 0 .. m - 1
        BY <1>2
    <2>2. f[1 .. i + 1] = f[1 .. i] + s[i + 1] /\ g[1 .. i + 1] = g[1 .. i] + r[i + 1]
        BY <2>1, SumStep
    <2>. QED
        BY <1>2, <2>1, <2>2
<1>3. Bad \subseteq Nat
    OBVIOUS
<1>4. Bad = {}
    <2>. HIDE DEF Bad
    <2>. QED
        BY <1>1, <1>2, <1>3, FirstFailure
<1>. QED
    BY <1>4

LEMMA TotalIsSum ==
    ASSUME NEW n \in Nat, NEW s, DOMAIN s = 1 .. n, NEW f, IsSum(f, s, n)
    PROVE  Total(s) = f[1 .. n]
<1>. DEFINE c == CHOOSE iter : IsSum(iter, s, n)
<1>1. Total(s) = c[1 .. n]
    BY DEF Total, FoldLeft, MapThenFoldSet, IsSum
<1>2. IsSum(c, s, n)
    OBVIOUS
<1>3. n \in 0 .. n /\ n <= n
    OBVIOUS
<1>. QED
    BY <1>1, <1>2, <1>3, SumUnique

LEMMA TotalNone ==
    ASSUME NEW s, DOMAIN s = {}
    PROVE  Total(s) = 0
<1>1. PICK f : IsSum(f, s, 0)
    BY SumExists
<1>2. 1 .. 0 = {}
    OBVIOUS
<1>3. f[{}] = 0
    BY <1>1 DEF IsSum
<1>. QED
    BY <1>1, <1>2, <1>3, TotalIsSum

LEMMA TotalMore ==
    ASSUME NEW n \in Nat, NEW s, DOMAIN s = 1 .. n + 1
    PROVE  Total(s) = Total([k \in 1 .. n |-> s[k]]) + s[n + 1]
<1>. DEFINE r == [k \in 1 .. n |-> s[k]]
<1>1. PICK f : IsSum(f, s, n + 1)
    BY SumExists
<1>2. PICK g : IsSum(g, r, n)
    BY SumExists
<1>3. Total(s) = f[1 .. n + 1] /\ Total(r) = g[1 .. n]
    BY <1>1, <1>2, TotalIsSum
<1>4. f[1 .. n + 1] = f[1 .. n] + s[n + 1]
    <2>1. n \in 0 .. (n + 1) - 1
        OBVIOUS
    <2>. QED
        BY <1>1, <2>1, SumStep
<1>5. f[1 .. n] = g[1 .. n]
    <2>1. n <= n + 1 /\ n \in 0 .. n /\ \A i \in 1 .. n : r[i] = s[i]
        OBVIOUS
    <2>. QED
        BY <1>1, <1>2, <2>1, SumUnique
<1>. QED
    BY <1>3, <1>4, <1>5

LEMMA TotalTyped ==
    ASSUME NEW n \in Nat, NEW s \in [1 .. n -> Nat]
    PROVE  Total(s) \in Nat
<1>. DEFINE r(m) == [k \in 1 .. m |-> s[k]]
            Good(m) == Total(r(m)) \in Nat
            Bad == {m \in 0 .. n : ~Good(m)}
<1>1. Good(0)
    <2>1. DOMAIN r(0) = {}
        OBVIOUS
    <2>. QED
        BY <2>1, TotalNone
<1>2. ASSUME NEW m \in Nat, m + 1 \in 0 .. n, Good(m)
      PROVE  Good(m + 1)
    <2>1. m + 1 \in 1 .. n
        BY <1>2
    <2>2. DOMAIN r(m + 1) = 1 .. m + 1
        OBVIOUS
    <2>3. [k \in 1 .. m |-> r(m + 1)[k]] = r(m) /\ r(m + 1)[m + 1] = s[m + 1]
        OBVIOUS
    <2>. HIDE DEF r
    <2>4. Total(r(m + 1)) = Total(r(m)) + s[m + 1]
        BY <2>2, <2>3, TotalMore
    <2>5. s[m + 1] \in Nat
        BY <2>1
    <2>. QED
        BY <1>2, <2>4, <2>5
<1>. HIDE DEF Good
<1>3. Bad = {}
    <2>1. Bad \subseteq Nat /\ 0 \notin Bad
        BY <1>1
    <2>2. \A m \in Nat : m + 1 \in Bad => m \in Bad
        BY <1>2
    <2>. HIDE DEF Bad
    <2>. QED
        BY <2>1, <2>2, FirstFailure
<1>4. Good(n)
    BY <1>3
<1>5. r(n) = s
    OBVIOUS
<1>. QED
    BY <1>4, <1>5 DEF Good

-----------------------------------------------------------------------------
(* Concatenations.                                                           *)

IsFlat(f, ss, n) == f = [i \in 1 .. n |-> IF i = 1 THEN ss[i] ELSE f[i - 1] \o ss[i]]

LEMMA FlatFirst ==
    ASSUME NEW ss, NEW n \in Nat \ {0}, NEW f, IsFlat(f, ss, n)
    PROVE  f[1] = ss[1]
<1>1. 1 \in 1 .. n
    OBVIOUS
<1>. QED
    BY <1>1 DEF IsFlat

LEMMA FlatStep ==
    ASSUME NEW ss, NEW n \in Nat, NEW f, IsFlat(f, ss, n)
    PROVE  \A k \in 1 .. n - 1 : f[k + 1] = f[k] \o ss[k + 1]
<1>1. \A i \in 1 .. n : f[i] = IF i = 1 THEN ss[i] ELSE f[i - 1] \o ss[i]
    BY DEF IsFlat
<1>2. ASSUME NEW k \in 1 .. n - 1
      PROVE  k + 1 \in 1 .. n /\ k + 1 # 1 /\ (k + 1) - 1 = k
    OBVIOUS
<1>. QED
    BY <1>1, <1>2

LEMMA FlatExists ==
    ASSUME NEW ss, NEW n \in Nat
    PROVE  \E f : IsFlat(f, ss, n)
<1>. DEFINE Bad == {m \in Nat : ~\E f : IsFlat(f, ss, m)}
<1>1. 0 \notin Bad
    <2>. DEFINE g == [i \in 1 .. 0 |-> ss[i]]
    <2>1. g = [i \in 1 .. 0 |-> IF i = 1 THEN ss[i] ELSE g[i - 1] \o ss[i]]
        OBVIOUS
    <2>. QED
        BY <2>1 DEF IsFlat
<1>2. ASSUME NEW m \in Nat, m \notin Bad, m + 1 \in Bad
      PROVE  FALSE
    <2>1. PICK f : IsFlat(f, ss, m)
        BY <1>2
    <2>. DEFINE k == m + 1
                last == IF m = 0 THEN ss[k] ELSE f[m] \o ss[k]
                g == [i \in 1 .. k |-> IF i = k THEN last ELSE f[i]]
                h == [i \in 1 .. k |-> IF i = 1 THEN ss[i] ELSE g[i - 1] \o ss[i]]
    <2>2. ASSUME NEW i \in 1 .. k
          PROVE  g[i] = h[i]
        <3>1. \A j \in 1 .. m : f[j] = IF j = 1 THEN ss[j] ELSE f[j - 1] \o ss[j]
            BY <2>1 DEF IsFlat
        <3>2. CASE i = 1
            BY <3>1, <3>2
        <3>3. CASE i # 1
            <4>1. i - 1 \in 1 .. m /\ i - 1 # k
                BY <3>3
            <4>2. g[i - 1] = f[i - 1]
                BY <4>1
            <4>3. h[i] = f[i - 1] \o ss[i]
                BY <3>3, <4>2
            <4>4. CASE i = k
                <5>1. i - 1 = m /\ m # 0
                    BY <3>3, <4>4
                <5>. QED
                    BY <4>3, <4>4, <5>1
            <4>5. CASE i # k
                <5>1. i \in 1 .. m
                    BY <4>5
                <5>2. f[i] = f[i - 1] \o ss[i]
                    BY <3>1, <3>3, <5>1
                <5>3. g[i] = f[i]
                    BY <4>5
                <5>. QED
                    BY <4>3, <5>2, <5>3
            <4>. QED
                BY <4>4, <4>5
        <3>. QED
            BY <3>2, <3>3
    <2>3. g = h
        BY <2>2
    <2>4. IsFlat(g, ss, k)
        BY ONLY <2>3 DEF IsFlat
    <2>. QED
        BY <2>4, <1>2
<1>3. Bad = {}
    BY <1>1, <1>2, FirstFailure
<1>. QED
    BY <1>3

LEMMA FlatUnique ==
    ASSUME NEW ss, NEW r, NEW f, NEW g, NEW n \in Nat, NEW m \in Nat, n <= m,
           IsFlat(f, ss, n), IsFlat(g, r, m), \A i \in 1 .. n : ss[i] = r[i],
           NEW k \in 1 .. n
    PROVE  f[k] = g[k]
<1>. DEFINE Bad == {i \in 1 .. n : f[i] # g[i]}
<1>1. 1 \notin Bad /\ 0 \notin Bad
    <2>1. n \in Nat \ {0} /\ m \in Nat \ {0} /\ 1 \in 1 .. n
        OBVIOUS
    <2>2. f[1] = ss[1] /\ g[1] = r[1] /\ ss[1] = r[1]
        BY <2>1, FlatFirst
    <2>. QED
        BY <2>2
<1>2. ASSUME NEW i \in Nat, i \notin Bad, i + 1 \in Bad
      PROVE  FALSE
    <2>1. i \in 1 .. n /\ i \in 1 .. n - 1 /\ i \in 1 .. m - 1 /\ i + 1 \in 1 .. n
        BY <1>1, <1>2
    <2>2. f[i + 1] = f[i] \o ss[i + 1] /\ g[i + 1] = g[i] \o r[i + 1]
        BY <2>1, FlatStep
    <2>. QED
        BY <1>2, <2>1, <2>2
<1>3. Bad \subseteq Nat
    OBVIOUS
<1>4. Bad = {}
    <2>. HIDE DEF Bad
    <2>. QED
        BY <1>1, <1>2, <1>3, FirstFailure
<1>. QED
    BY <1>4

LEMMA FlattenIsFlat ==
    ASSUME NEW S, NEW n \in Nat \ {0}, NEW ss \in [1 .. n -> S], NEW f, IsFlat(f, ss, n)
    PROVE  FlattenSeq(ss) = f[n]
<1>. DEFINE c == CHOOSE flatten : IsFlat(flatten, ss, n)
<1>1. Len(ss) = n /\ n # 0
    OBVIOUS
<1>2. FlattenSeq(ss) = c[n]
    BY <1>1 DEF FlattenSeq, IsFlat
<1>3. IsFlat(c, ss, n)
    OBVIOUS
<1>4. n \in 1 .. n /\ n <= n
    OBVIOUS
<1>. QED
    BY <1>2, <1>3, <1>4, FlatUnique

LEMMA FlattenNone ==
    ASSUME NEW ss, DOMAIN ss = {}, ss = [k \in {} |-> ss[k]]
    PROVE  FlattenSeq(ss) = <<>>
<1>1. ss = <<>>
    OBVIOUS
<1>. QED
    BY <1>1 DEF FlattenSeq

LEMMA FlattenOne ==
    ASSUME NEW S, NEW ss \in [1 .. 1 -> S]
    PROVE  FlattenSeq(ss) = ss[1]
<1>1. PICK f : IsFlat(f, ss, 1)
    BY FlatExists
<1>2. f[1] = ss[1]
    <2>1. 1 \in Nat \ {0}
        OBVIOUS
    <2>. QED
        BY <1>1, <2>1, FlatFirst
<1>3. FlattenSeq(ss) = f[1]
    <2>1. 1 \in Nat \ {0}
        OBVIOUS
    <2>. QED
        BY <1>1, <2>1, FlattenIsFlat
<1>. QED
    BY <1>2, <1>3

LEMMA FlattenMore ==
    ASSUME NEW S, NEW n \in Nat \ {0}, NEW ss \in [1 .. n + 1 -> S]
    PROVE  FlattenSeq(ss) = FlattenSeq([k \in 1 .. n |-> ss[k]]) \o ss[n + 1]
<1>. DEFINE r == [k \in 1 .. n |-> ss[k]]
<1>1. PICK f : IsFlat(f, ss, n + 1)
    BY FlatExists
<1>2. PICK g : IsFlat(g, r, n)
    BY FlatExists
<1>3. r \in [1 .. n -> S] /\ n + 1 \in Nat \ {0}
    OBVIOUS
<1>4. FlattenSeq(ss) = f[n + 1]
    BY <1>1, <1>3, FlattenIsFlat
<1>5. FlattenSeq(r) = g[n]
    BY <1>2, <1>3, FlattenIsFlat
<1>6. f[n + 1] = f[n] \o ss[n + 1]
    <2>1. n \in 1 .. (n + 1) - 1 /\ n + 1 \in Nat
        OBVIOUS
    <2>. QED
        BY <1>1, <2>1, FlatStep
<1>7. f[n] = g[n]
    <2>1. n <= n + 1 /\ n \in 1 .. n /\ \A i \in 1 .. n : r[i] = ss[i]
        OBVIOUS
    <2>. QED
        BY <1>1, <1>2, <2>1, FlatUnique
<1>. QED
    BY <1>4, <1>5, <1>6, <1>7

\* The lengths of sequences, and where the k-th begins when they are put together.
Lengths(ss) == [k \in DOMAIN ss |-> Len(ss[k])]
Before(ss, k) == Total([i \in 1 .. k - 1 |-> Len(ss[i])])
Placed(ss) ==
    \A k \in DOMAIN ss : \A j \in 1 .. Len(ss[k]) :
        /\ FlattenSeq(ss)[Before(ss, k) + j] = ss[k][j]
        /\ Before(ss, k) + j \in 1 .. Total(Lengths(ss))

\* a is the beginning of c and b the rest of it.
Joins(a, b, c) ==
    /\ Len(a) \in Nat /\ Len(b) \in Nat /\ Len(c) = Len(a) + Len(b)
    /\ \A i \in 1 .. Len(a) : c[i] = a[i]
    /\ \A i \in 1 .. Len(b) : c[Len(a) + i] = b[i]

LEMMA ConcatParts ==
    ASSUME NEW S, NEW a \in Seq(S), NEW b \in Seq(S)
    PROVE  a \o b \in Seq(S) /\ Joins(a, b, a \o b)
<1>1. Len(a) \in Nat /\ Len(b) \in Nat
    BY LenProperties
<1>2. ASSUME NEW i \in 1 .. Len(b)
      PROVE  (a \o b)[Len(a) + i] = b[i]
    <2>1. Len(a) + i \in 1 .. Len(a) + Len(b) /\ ~(Len(a) + i <= Len(a)) /\ (Len(a) + i) - Len(a) = i
        BY <1>1
    <2>. QED
        BY <2>1, ConcatProperties
<1>3. ASSUME NEW i \in 1 .. Len(a)
      PROVE  (a \o b)[i] = a[i]
    <2>1. i \in 1 .. Len(a) + Len(b) /\ i <= Len(a)
        BY <1>1
    <2>. QED
        BY <2>1, ConcatProperties
<1>. QED
    BY <1>1, <1>2, <1>3, ConcatProperties DEF Joins

LEMMA FlattenProperties ==
    ASSUME NEW S, NEW n \in Nat, NEW ss \in [1 .. n -> Seq(S)]
    PROVE  /\ FlattenSeq(ss) \in Seq(S)
           /\ Len(FlattenSeq(ss)) = Total(Lengths(ss))
           /\ \A k \in 1 .. n : Before(ss, k) \in Nat
           /\ Placed(ss)
<1>. DEFINE r(m) == [k \in 1 .. m |-> ss[k]]
            F(m) == FlattenSeq(r(m))
            T(m) == Total([i \in 1 .. m |-> Len(ss[i])])
            At(m, k, j) == F(m)[Before(ss, k) + j] = ss[k][j] /\ Before(ss, k) + j \in 1 .. T(m)
            Good(m) == /\ F(m) \in Seq(S) /\ Len(F(m)) = T(m) /\ T(m) \in Nat
                       /\ \A k \in 1 .. m : Before(ss, k) \in Nat
                       /\ \A k \in 1 .. m : \A j \in 1 .. Len(ss[k]) : At(m, k, j)
            Bad == {m \in 0 .. n : ~Good(m)}
<1>0. T(0) = 0
    <2>. DEFINE z == [i \in 1 .. 0 |-> Len(ss[i])]
    <2>1. DOMAIN z = {}
        OBVIOUS
    <2>2. Total(z) = 0
        BY <2>1, TotalNone
    <2>. QED
        BY <2>2
<1>1. Good(0)
    <2>. DEFINE z == [k \in 1 .. 0 |-> ss[k]]
    <2>1. z = <<>>
        OBVIOUS
    <2>2. FlattenSeq(z) = <<>>
        BY <2>1 DEF FlattenSeq
    <2>3. FlattenSeq(z) \in Seq(S) /\ Len(FlattenSeq(z)) = 0
        BY <2>2, EmptySeq
    <2>. HIDE DEF T, At
    <2>. QED
        BY <1>0, <2>3
<1>2. ASSUME NEW m \in Nat, m + 1 \in 0 .. n, Good(m)
      PROVE  Good(m + 1)
    <2>. DEFINE k == m + 1
    <2>1. k \in 1 .. n /\ m \in 0 .. n /\ ss[k] \in Seq(S) /\ Len(ss[k]) \in Nat
        BY <1>2, LenProperties
    <2>2. F(k) = F(m) \o ss[k]
        <3>1. CASE m = 0
            <4>1. r(k) \in [1 .. 1 -> Seq(S)] /\ r(k)[1] = ss[k]
                BY <2>1, <3>1
            <4>2. F(k) = ss[k]
                BY <4>1, FlattenOne
            <4>3. F(m) \in Seq(S) /\ Len(F(m)) = 0
                BY <1>0, <1>2, <3>1
            <4>4. F(m) = <<>>
                BY <4>3, EmptySeq
            <4>. QED
                BY <2>1, <4>2, <4>4, ConcatEmptySeq
        <3>2. CASE m # 0
            <4>1. r(k) \in [1 .. m + 1 -> Seq(S)] /\ r(k)[m + 1] = ss[k] /\ m \in Nat \ {0}
                BY <2>1, <3>2
            <4>2. r(m) = [i \in 1 .. m |-> r(k)[i]]
                OBVIOUS
            <4>. HIDE DEF r
            <4>. QED
                BY <4>1, <4>2, FlattenMore
        <3>. QED
            BY <3>1, <3>2
    <2>3. T(k) = T(m) + Len(ss[k])
        <3>. DEFINE l == [i \in 1 .. k |-> Len(ss[i])]
        <3>1. DOMAIN l = 1 .. m + 1 /\ l[m + 1] = Len(ss[k])
            OBVIOUS
        <3>2. [i \in 1 .. m |-> l[i]] = [i \in 1 .. m |-> Len(ss[i])]
            OBVIOUS
        <3>. HIDE DEF l
        <3>3. Total(l) = Total([i \in 1 .. m |-> l[i]]) + l[m + 1]
            BY <3>1, TotalMore
        <3>. QED
            BY <3>1, <3>2, <3>3 DEF l
    <2>4. Before(ss, k) = T(m)
        <3>1. k - 1 = m
            OBVIOUS
        <3>. QED
            BY <3>1 DEF Before
    <2>. HIDE DEF F, T
    <2>. DEFINE a == F(m)
                b == ss[k]
    <2>a. a \in Seq(S) /\ b \in Seq(S) /\ Len(a) = T(m) /\ T(m) \in Nat /\ F(k) = a \o b
        BY <1>2, <2>1, <2>2
    <2>. HIDE DEF a, b
    <2>b. a \o b \in Seq(S) /\ Joins(a, b, F(k))
        BY <2>a, ConcatParts
    <2>5. F(k) \in Seq(S) /\ Len(F(k)) = T(k) /\ T(k) \in Nat
        <3>1. F(k) \in Seq(S)
            BY <2>a, <2>b
        <3>2. Len(F(k)) = Len(a) + Len(b) /\ Len(b) \in Nat
            BY <2>b DEF Joins
        <3>3. T(k) = Len(a) + Len(b)
            BY <2>3, <2>a DEF b
        <3>. QED
            BY <2>a, <3>1, <3>2, <3>3
    <2>6. ASSUME NEW i \in 1 .. k
          PROVE  Before(ss, i) \in Nat /\ \A j \in 1 .. Len(ss[i]) : At(k, i, j)
        <3>1. CASE i = k
            <4>1. Before(ss, i) = Len(F(m)) /\ T(m) \in Nat
                BY <1>2, <2>4, <3>1
            <4>2. ASSUME NEW j \in 1 .. Len(ss[k])
                  PROVE  F(k)[Len(F(m)) + j] = ss[k][j] /\ Len(F(m)) + j \in 1 .. T(k)
                BY <2>3, <2>a, <2>b DEF a, b, Joins
            <4>. QED
                BY <1>2, <3>1, <4>1, <4>2
        <3>2. CASE i # k
            <4>1. i \in 1 .. m /\ Before(ss, i) \in Nat
                BY <1>2, <3>2
            <4>2. ASSUME NEW j \in 1 .. Len(ss[i])
                  PROVE  At(k, i, j)
                <5>1. F(m)[Before(ss, i) + j] = ss[i][j] /\ Before(ss, i) + j \in 1 .. T(m)
                    BY <1>2, <4>1
                <5>2. F(k)[Before(ss, i) + j] = F(m)[Before(ss, i) + j]
                    BY <2>a, <2>b, <5>1 DEF a, Joins
                <5>3. Before(ss, i) + j \in 1 .. T(k)
                    BY <1>2, <2>1, <2>3, <5>1
                <5>. QED
                    BY <5>1, <5>2, <5>3
            <4>. QED
                BY <4>1, <4>2
        <3>. QED
            BY <3>1, <3>2
    <2>. QED
        BY <2>5, <2>6
<1>. HIDE DEF Good
<1>3. Bad = {}
    <2>1. Bad \subseteq Nat /\ 0 \notin Bad
        BY <1>1
    <2>2. \A m \in Nat : m + 1 \in Bad => m \in Bad
        BY <1>2
    <2>. HIDE DEF Bad
    <2>. QED
        BY <2>1, <2>2, FirstFailure
<1>4. Good(n)
    BY <1>3
<1>5. r(n) = ss
    OBVIOUS
<1>6. Lengths(ss) = [i \in 1 .. n |-> Len(ss[i])]
    BY DEF Lengths
<1>. HIDE DEF r
<1>. QED
    BY <1>4, <1>5, <1>6 DEF Good, Placed

\* What is read back at the place of a part is the part.
LEMMA PartOfFlattened ==
    ASSUME NEW S, NEW n \in Nat, NEW ss \in [1 .. n -> Seq(S)], NEW k \in 1 .. n
    PROVE  Part(FlattenSeq(ss), Lengths(ss), k) = ss[k]
<1>. DEFINE sizes == Lengths(ss)
            skip == Total(SubSeq(sizes, 1, k - 1))
            F == FlattenSeq(ss)
<1>1. \A i \in 1 .. n : Len(ss[i]) \in Nat /\ ss[i] \in Seq(S)
    BY LenProperties
<1>2. SubSeq(sizes, 1, k - 1) = [i \in 1 .. k - 1 |-> Len(ss[i])]
    BY <1>1 DEF Lengths
<1>3. skip = Before(ss, k)
    BY <1>2 DEF Before
<1>4. sizes[k] = Len(ss[k])
    BY DEF Lengths
<1>. DEFINE b == Before(ss, k)
            l == Len(ss[k])
<1>5. b \in Nat /\ l \in Nat /\ F \in Seq(S)
    BY <1>1, FlattenProperties
<1>6. Part(F, sizes, k) = SubSeq(F, b + 1, b + l)
    BY <1>3, <1>4 DEF Part, Slice
<1>7. \A j \in 1 .. l : F[b + j] = ss[k][j]
    <2>1. Placed(ss)
        BY FlattenProperties
    <2>. QED
        BY <2>1 DEF Placed
<1>8. ss[k] = [j \in 1 .. l |-> ss[k][j]]
    BY <1>1, LenProperties
<1>. HIDE DEF b, l, F, sizes
<1>9. SubSeq(F, b + 1, b + l) = [j \in 1 .. l |-> F[b + j]]
    <2>1. (b + l) - (b + 1) + 1 = l /\ \A j \in 1 .. l : (b + 1) + j - 1 = b + j
        BY <1>5
    <2>. QED
        BY <1>5, <2>1
<1>. QED
    BY <1>6, <1>7, <1>8, <1>9 DEF F, l, sizes

-----------------------------------------------------------------------------
(* Where instructions begin.                                                 *)

IsSeq(s) == s \in Seq(Range(s))

\* B are the places (from 0) where instructions begin, and the end.
Cut(words, B) ==
    /\ B \subseteq 0 .. Len(words) /\ 0 \in B /\ Len(words) \in B
    /\ \A p \in B \ {Len(words)} :
          /\ words[p + 1].op # "imm"
          /\ Size(words[p + 1]) \in Nat \ {0} /\ p + Size(words[p + 1]) \in B
          /\ \A q \in p + 1 .. p + Size(words[p + 1]) - 1 : words[q + 1].op = "imm"

WellCut(words) == IsSeq(words) /\ \E B : Cut(words, B)

LEMMA SeqIsSeq ==
    ASSUME NEW S, NEW s \in Seq(S)
    PROVE  IsSeq(s)
<1>1. Len(s) \in Nat /\ DOMAIN s = 1 .. Len(s) /\ s = [i \in 1 .. Len(s) |-> s[i]]
    BY LenProperties
<1>2. \A i \in 1 .. Len(s) : s[i] \in Range(s)
    BY <1>1 DEF Range
<1>. QED
    BY <1>1, <1>2 DEF IsSeq

LEMMA ConcatIsSeq ==
    ASSUME NEW a, NEW b, IsSeq(a), IsSeq(b)
    PROVE  IsSeq(a \o b) /\ Joins(a, b, a \o b)
<1>. DEFINE S == Range(a) \cup Range(b)
<1>1. a \in Seq(S) /\ b \in Seq(S)
    <2>1. /\ Len(a) \in Nat /\ a = [i \in 1 .. Len(a) |-> a[i]] /\ DOMAIN a = 1 .. Len(a)
          /\ Len(b) \in Nat /\ b = [i \in 1 .. Len(b) |-> b[i]] /\ DOMAIN b = 1 .. Len(b)
        BY LenProperties DEF IsSeq
    <2>2. (\A i \in 1 .. Len(a) : a[i] \in S) /\ (\A i \in 1 .. Len(b) : b[i] \in S)
        BY <2>1 DEF Range
    <2>. QED
        BY <2>1, <2>2
<1>. HIDE DEF S
<1>. QED
    BY <1>1, ConcatParts, SeqIsSeq

LEMMA CutNone == WellCut(<<>>)
<1>1. IsSeq(<<>>)
    BY DEF IsSeq
<1>2. Cut(<<>>, {0})
    BY DEF Cut
<1>. QED
    BY <1>1, <1>2 DEF WellCut

LEMMA CutConcat ==
    ASSUME NEW a, NEW b, WellCut(a), WellCut(b)
    PROVE  WellCut(a \o b)
<1>. DEFINE c == a \o b
            n == Len(a)
            m == Len(b)
<1>1. IsSeq(c) /\ Joins(a, b, c)
    BY ConcatIsSeq DEF WellCut
<1>2. n \in Nat /\ m \in Nat /\ Len(c) = n + m
    BY <1>1 DEF Joins
<1>3. (\A i \in 1 .. n : c[i] = a[i]) /\ (\A i \in 1 .. m : c[n + i] = b[i])
    BY <1>1 DEF Joins
<1>4. PICK A : Cut(a, A)
    BY DEF WellCut
<1>5. PICK B : Cut(b, B)
    BY DEF WellCut
<1>. DEFINE C == A \cup {n + p : p \in B}
<1>6. A \subseteq 0 .. n /\ 0 \in A /\ n \in A /\ B \subseteq 0 .. m /\ 0 \in B /\ m \in B
    BY <1>4, <1>5 DEF Cut
<1>. DEFINE Begins(w, X, p) ==
                /\ w[p + 1].op # "imm"
                /\ Size(w[p + 1]) \in Nat \ {0} /\ p + Size(w[p + 1]) \in X
                /\ \A q \in p + 1 .. p + Size(w[p + 1]) - 1 : w[q + 1].op = "imm"
<1>7. \A p \in A \ {n} : Begins(a, A, p)
    BY <1>4 DEF Cut
<1>8. \A p \in B \ {m} : Begins(b, B, p)
    BY <1>5 DEF Cut
<1>. HIDE DEF c, n, m
<1>9. C \subseteq 0 .. n + m /\ 0 \in C /\ n + m \in C
    <2>1. \A p \in 0 .. m : n + p \in 0 .. n + m
        BY <1>2
    <2>2. \A p \in 0 .. n : p \in 0 .. n + m
        BY <1>2
    <2>3. C \subseteq 0 .. n + m
        BY <1>6, <2>1, <2>2
    <2>. QED
        BY <1>6, <2>3
<1>10. ASSUME NEW p \in A, p # n
       PROVE  Begins(c, C, p)
    <2>. DEFINE z == Size(a[p + 1])
    <2>1. /\ p \in 0 .. n - 1 /\ a[p + 1].op # "imm" /\ z \in Nat \ {0} /\ p + z \in A
          /\ \A q \in p + 1 .. p + z - 1 : a[q + 1].op = "imm"
        BY <1>2, <1>6, <1>7, <1>10
    <2>2. c[p + 1] = a[p + 1] /\ p + z \in 0 .. n
        BY <1>2, <1>3, <1>6, <2>1
    <2>. HIDE DEF z
    <2>3. \A q \in p + 1 .. p + z - 1 : q + 1 \in 1 .. n
        BY <1>2, <2>1, <2>2
    <2>4. \A q \in p + 1 .. p + z - 1 : c[q + 1].op = "imm"
        BY <1>3, <2>1, <2>3
    <2>. QED
        BY <2>1, <2>2, <2>4 DEF z
<1>11. ASSUME NEW k \in B, k # m
       PROVE  Begins(c, C, n + k)
    <2>. DEFINE z == Size(b[k + 1])
                p == n + k
    <2>1. /\ k \in 0 .. m - 1 /\ b[k + 1].op # "imm" /\ z \in Nat \ {0} /\ k + z \in B
          /\ \A q \in k + 1 .. k + z - 1 : b[q + 1].op = "imm"
        BY <1>2, <1>6, <1>8, <1>11
    <2>2. p + 1 = n + (k + 1) /\ k + 1 \in 1 .. m
        BY <1>2, <2>1
    <2>3. c[p + 1] = b[k + 1] /\ k + z \in 0 .. m
        BY <1>3, <1>6, <2>1, <2>2
    <2>. HIDE DEF z
    <2>4. p + z = n + (k + z) /\ p + z \in C
        BY <1>2, <2>1
    <2>5. ASSUME NEW q \in p + 1 .. p + z - 1
          PROVE  c[q + 1].op = "imm"
        <3>. DEFINE i == q - n
        <3>1. i \in k + 1 .. k + z - 1 /\ q + 1 = n + (i + 1)
            BY <1>2, <2>1
        <3>2. i + 1 \in 1 .. m
            BY <1>2, <2>1, <2>3, <3>1
        <3>3. c[n + (i + 1)] = b[i + 1]
            BY <1>3, <3>2
        <3>4. b[i + 1].op = "imm"
            BY <2>1, <3>1
        <3>. QED
            BY <3>1, <3>3, <3>4
    <2>. HIDE DEF p
    <2>. QED
        BY <2>1, <2>3, <2>4, <2>5 DEF z, p
<1>12. \A p \in C \ {n + m} : Begins(c, C, p)
    <2>. SUFFICES ASSUME NEW p \in C, p # n + m
                  PROVE  Begins(c, C, p)
        OBVIOUS
    <2>. HIDE DEF Begins
    <2>1. CASE p \in A /\ p # n
        BY <2>1, <1>10
    <2>2. CASE \E k \in B : p = n + k
        BY <2>2, <1>11
    <2>3. CASE p = n
        <3>1. p = n + 0 /\ 0 \in B
            BY <1>2, <1>6, <2>3
        <3>. QED
            BY <3>1, <2>2
    <2>. QED
        BY <2>1, <2>2, <2>3
<1>13. Cut(c, C)
    BY <1>2, <1>9, <1>12 DEF Cut
<1>. QED
    BY <1>1, <1>13 DEF WellCut, c

LEMMA CutOne ==
    ASSUME NEW op, NEW f, op \notin {"imm", "init"} \cup DOMAIN OperationOf
    PROVE  WellCut(<<Word(op, f)>>)
<1>. DEFINE w == <<Word(op, f)>>
<1>1. w[0 + 1].op = op /\ w \in Seq({Word(op, f)}) /\ Len(w) = 1
    BY DEF Word
<1>2. Size(w[0 + 1]) = 1
    BY <1>1 DEF Size, HasImmediates
<1>. HIDE DEF w
<1>3. Cut(w, {0, 1})
    <2>1. {0, 1} \ {Len(w)} = {0} /\ 0 + Size(w[0 + 1]) = 1 /\ 0 + 1 .. 0 + Size(w[0 + 1]) - 1 = {}
        BY <1>1, <1>2
    <2>. QED
        BY <1>1, <1>2, <2>1 DEF Cut
<1>4. IsSeq(w)
    BY <1>1, SeqIsSeq
<1>. QED
    BY <1>3, <1>4 DEF WellCut, w

\* The words of an instruction with immediate values.
LaidOut(w, first, values) ==
    /\ IsSeq(w) /\ Len(w) = 1 + Len(values) /\ w[1] = first /\ Size(w[1]) = 1 + Len(values)
    /\ \A k \in 1 .. Len(values) : w[1 + k] = Word("imm", <<values[k]>>)

LEMMA ImmediateWords ==
    ASSUME NEW op \in {"init"} \cup DOMAIN OperationOf, NEW f, NEW values,
           values \in Seq(Range(values)), Len(values) \in 1 .. 4,
           f[IF op = "init" THEN 3 ELSE 4] = Encoded(Len(values))
    PROVE  LaidOut(<<Word(op, f)>> \o Immediates(values), Word(op, f), values)
<1>. DEFINE w == <<Word(op, f)>> \o Immediates(values)
            n == Len(values)
            a == <<Word(op, f)>>
            b == Immediates(values)
<1>1. n \in 1 .. 4 /\ DOMAIN values = 1 .. n
    BY LenProperties
<1>2. IsSeq(a) /\ Len(a) = 1 /\ a[1] = Word(op, f)
    <2>1. a \in Seq({Word(op, f)})
        OBVIOUS
    <2>. QED
        BY <2>1, SeqIsSeq
<1>3. IsSeq(b) /\ Len(b) = n /\ \A k \in 1 .. n : b[k] = Word("imm", <<values[k]>>)
    <2>. DEFINE S == {Word("imm", <<values[k]>>) : k \in 1 .. n}
    <2>1. b = [k \in 1 .. n |-> Word("imm", <<values[k]>>)]
        BY <1>1 DEF Immediates
    <2>2. b \in Seq(S) /\ Len(b) = n
        BY <1>1, <2>1
    <2>3. \A k \in 1 .. n : b[k] = Word("imm", <<values[k]>>)
        BY <2>1
    <2>. HIDE DEF S, b
    <2>. QED
        BY <2>2, <2>3, SeqIsSeq
<1>4. w = a \o b
    OBVIOUS
<1>. HIDE DEF a, b, w
<1>5. IsSeq(w) /\ Joins(a, b, w)
    BY <1>2, <1>3, <1>4, ConcatIsSeq
<1>6. Len(w) = 1 + n /\ w[1] = Word(op, f)
    BY <1>2, <1>3, <1>5 DEF Joins
<1>7. \A k \in 1 .. n : w[1 + k] = b[k]
    BY <1>2, <1>3, <1>5 DEF Joins
<1>8. Size(w[1]) = 1 + n
    <2>1. w[1].op = op /\ w[1].f = f
        BY <1>6 DEF Word
    <2>2. HasImmediates(w[1])
        BY <2>1 DEF HasImmediates
    <2>3. ImmediateCount(w[1]) = Decoded(Encoded(n))
        BY <2>1 DEF ImmediateCount
    <2>4. Decoded(Encoded(n)) = n
        <3>1. n \in {1, 2, 3, 4}
            BY <1>1
        <3>2. (1 - 1) % 4 = 0 /\ (2 - 1) % 4 = 1 /\ (3 - 1) % 4 = 2 /\ (4 - 1) % 4 = 3
            OBVIOUS
        <3>. HIDE DEF n
        <3>. QED
            BY <3>1, <3>2 DEF Decoded, Encoded
    <2>. QED
        BY <2>2, <2>3, <2>4 DEF Size
<1>. QED
    BY <1>3, <1>5, <1>6, <1>7, <1>8 DEF LaidOut, w

LEMMA CutImmediates ==
    ASSUME NEW op \in {"init"} \cup DOMAIN OperationOf, NEW f, NEW values,
           values \in Seq(Range(values)), Len(values) \in 1 .. 4,
           f[IF op = "init" THEN 3 ELSE 4] = Encoded(Len(values))
    PROVE  WellCut(<<Word(op, f)>> \o Immediates(values))
<1>. DEFINE w == <<Word(op, f)>> \o Immediates(values)
            n == Len(values)
<1>1. op # "imm" /\ n \in 1 .. 4
    BY DEF OperationOf
<1>2. LaidOut(w, Word(op, f), values)
    BY ImmediateWords
<1>. HIDE DEF w
<1>3. /\ IsSeq(w) /\ Len(w) = 1 + n /\ w[1] = Word(op, f) /\ Size(w[1]) = 1 + n
      /\ \A k \in 1 .. n : w[1 + k] = Word("imm", <<values[k]>>)
    BY <1>2 DEF LaidOut
<1>4. \A q \in 1 .. n : w[q + 1].op = "imm"
    <2>1. \A q \in 1 .. n : q + 1 = 1 + q
        OBVIOUS
    <2>2. \A x : Word("imm", x).op = "imm"
        BY DEF Word
    <2>3. \A q \in 1 .. n : w[1 + q].op = "imm"
        BY <1>3, <2>2
    <2>. QED
        BY <2>1, <2>3
<1>5. w[1].op # "imm"
    BY <1>1, <1>3 DEF Word
<1>. HIDE DEF n
<1>6. Cut(w, {0, 1 + n})
    <2>1. {0, 1 + n} \ {Len(w)} = {0} /\ 0 + 1 = 1
        BY <1>1, <1>3
    <2>2. Size(w[0 + 1]) \in Nat \ {0} /\ 0 + Size(w[0 + 1]) = 1 + n
        BY <1>1, <1>3
    <2>3. 0 + 1 .. 0 + Size(w[0 + 1]) - 1 = 1 .. n
        BY <1>1, <1>3
    <2>4. \A p \in {0} : /\ w[p + 1].op # "imm"
                         /\ Size(w[p + 1]) \in Nat \ {0} /\ p + Size(w[p + 1]) \in {0, 1 + n}
                         /\ \A q \in p + 1 .. p + Size(w[p + 1]) - 1 : w[q + 1].op = "imm"
        BY <1>4, <1>5, <2>1, <2>2, <2>3
    <2>5. {0, 1 + n} \subseteq 0 .. Len(w) /\ Len(w) \in {0, 1 + n}
        BY <1>1, <1>3
    <2>. QED
        BY <2>1, <2>4, <2>5 DEF Cut
<1>. QED
    BY <1>3, <1>6 DEF WellCut, w

\* The words of zeros that a binary used before begins with.
LEMMA CutBlank ==
    ASSUME NEW n \in Nat, NEW w, w = [k \in 1 .. n |-> BlankWord]
    PROVE  WellCut(w)
<1>1. w \in Seq({BlankWord}) /\ Len(w) = n
    OBVIOUS
<1>2. BlankWord.op = "fadd" /\ "fadd" \notin {"imm", "init"} \cup DOMAIN OperationOf
    BY DEF BlankWord, Word, OperationOf
<1>3. Size(BlankWord) = 1
    BY <1>2 DEF Size, HasImmediates
<1>4. ASSUME NEW p \in 0 .. n - 1
      PROVE  /\ w[p + 1].op # "imm" /\ Size(w[p + 1]) = 1 /\ p + 1 \in 0 .. n
             /\ p + 1 .. p + 1 - 1 = {}
    <2>1. w[p + 1] = BlankWord
        OBVIOUS
    <2>. QED
        BY <1>2, <1>3, <2>1
<1>5. Cut(w, 0 .. n)
    <2>1. (0 .. n) \ {Len(w)} = 0 .. n - 1
        BY <1>1
    <2>. QED
        BY <1>1, <1>4, <2>1 DEF Cut
<1>. QED
    BY <1>1, <1>5, SeqIsSeq DEF WellCut

-----------------------------------------------------------------------------
(* The assembler encodes whole instructions only.                            *)

LEMMA CutLayouts ==
    /\ \A op \in NullaryOps : WellCut(Nullary(op))
    /\ \A op \in UnaryOps : \A d, s, m : WellCut(UnaryMath(op, d, s, m))
    /\ \A op \in BinaryOps : \A d, s1, s2, m : WellCut(BinaryMath(op, d, s1, s2, m))
    /\ \A op \in BinaryOps \cup {"fmad"} : \A d, s1, s2, s3, m : WellCut(TernaryMath(op, d, s1, s2, s3, m))
    /\ \A d, s, pattern : WellCut(Swizzle(d, s, pattern))
<1>1. \A op \in NullaryOps \cup UnaryOps \cup BinaryOps \cup {"fmad", "swizzle"} :
         op \notin {"imm", "init"} \cup DOMAIN OperationOf
    BY DEF NullaryOps, UnaryOps, BinaryOps, OperationOf
<1>2. \A op \in NullaryOps \cup UnaryOps \cup BinaryOps \cup {"fmad", "swizzle"} : \A f : WellCut(<<Word(op, f)>>)
    BY <1>1, CutOne
<1>. QED
    BY <1>2 DEF Nullary, UnaryMath, BinaryMath, TernaryMath, Swizzle

LEMMA CutUnaryImm ==
    ASSUME NEW d, NEW m, NEW values, values \in Seq(Range(values)), Len(values) \in 1 .. 4
    PROVE  WellCut(UnaryMathImm("init", d, m, values))
<1>. DEFINE f == <<d, m, Encoded(Len(values))>>
<1>1. f[3] = Encoded(Len(values))
    OBVIOUS
<1>. HIDE DEF f
<1>. QED
    BY <1>1, CutImmediates DEF UnaryMathImm, f

LEMMA CutBinaryImm ==
    ASSUME NEW op \in DOMAIN OperationOf, NEW d, NEW s, NEW m, NEW values,
           values \in Seq(Range(values)), Len(values) \in 1 .. 4
    PROVE  WellCut(BinaryMathImm(op, d, s, m, values))
<1>. DEFINE f == <<d, s, m, Encoded(Len(values))>>
<1>1. f[4] = Encoded(Len(values)) /\ op # "init"
    BY DEF OperationOf
<1>. HIDE DEF f
<1>. QED
    BY <1>1, CutImmediates DEF BinaryMathImm, f

\* For each line of the grammar.
LEMMA CutAssembled ==
    ASSUME NEW i, IsLine(i)
    PROVE  WellCut(Assembled(i))
<1>. DEFINE m == i.mnemonic
            Unary == m \in UnaryOps
            Fcross == m = "fcross"
            Binary == m \in BinaryOps \ {"fcross"}
            Fmad == m = "fmad"
            Initial == m \in {"finit", "iinit"}
            Swizzles == m = "swizzle"
            Nothing == m \in NullaryOps
<1>1. /\ m \in UnaryOps \cup BinaryOps \cup {"fmad", "finit", "iinit", "swizzle", "trap"}
      /\ i.imm \in Seq(Range(i.imm))
    BY DEF IsLine
<1>2. CASE Unary
    <2>1. ~Fcross /\ ~Binary /\ ~Fmad /\ ~Initial /\ ~Swizzles /\ ~Nothing
        BY <1>2 DEF UnaryOps, BinaryOps, NullaryOps
    <2>2. Assembled(i) = UnaryMath(m, i.dest, i.src[1], i.mask)
        BY <1>2, <2>1, Zenon DEF Assembled
    <2>. QED
        BY <1>2, <2>2, CutLayouts
<1>3. CASE Fcross
    <2>1. ~Unary /\ ~Binary /\ ~Fmad /\ ~Initial /\ ~Swizzles /\ ~Nothing /\ m \in BinaryOps
        BY <1>3 DEF UnaryOps, BinaryOps, NullaryOps
    <2>2. Assembled(i) = BinaryMath(m, i.dest, i.src[1], i.src[2], 15)
        BY <1>3, <2>1, Zenon DEF Assembled
    <2>. QED
        BY <2>1, <2>2, CutLayouts
<1>4. CASE Binary
    <2>1. ~Unary /\ ~Fcross /\ ~Fmad /\ ~Initial /\ ~Swizzles /\ ~Nothing /\ m \in BinaryOps
        BY <1>4 DEF UnaryOps, BinaryOps, NullaryOps
    <2>2. Assembled(i) = IF i.imm = <<>>
                         THEN BinaryMath(m, i.dest, i.src[1], i.src[2], i.mask)
                         ELSE BinaryMathImm(ImmediateForm(m), i.dest, i.src[1], i.mask, i.imm)
        BY <1>4, <2>1, Zenon DEF Assembled
    <2>3. CASE i.imm = <<>>
        BY <2>1, <2>2, <2>3, CutLayouts
    <2>4. CASE i.imm # <<>>
        <3>1. Len(i.imm) # 0 /\ Len(i.imm) \in Nat
            BY <1>1, <2>4, EmptySeq
        <3>2. m \in Range(OperationOf) /\ Len(i.imm) \in 0 .. 1
            BY <2>1, <3>1 DEF IsLine
        <3>3. Len(i.imm) \in 1 .. 4
            BY <3>1, <3>2
        <3>4. ImmediateForm(m) \in DOMAIN OperationOf
            BY <3>2 DEF ImmediateForm, Range
        <3>. QED
            BY <1>1, <2>2, <2>4, <3>3, <3>4, CutBinaryImm
    <2>. QED
        BY <2>3, <2>4
<1>5. CASE Fmad
    <2>1. ~Unary /\ ~Fcross /\ ~Binary /\ ~Initial /\ ~Swizzles /\ ~Nothing
        BY <1>5 DEF UnaryOps, BinaryOps, NullaryOps
    <2>2. Assembled(i) = TernaryMath("fcross2", i.dest, i.src[1], i.src[2], i.src[3], i.mask)
        BY <1>5, <2>1, Zenon DEF Assembled
    <2>3. "fcross2" \in BinaryOps
        BY DEF BinaryOps
    <2>. QED
        BY <2>2, <2>3, CutLayouts
<1>6. CASE Initial
    <2>1. ~Unary /\ ~Fcross /\ ~Binary /\ ~Fmad /\ ~Swizzles /\ ~Nothing
        BY <1>6 DEF UnaryOps, BinaryOps, NullaryOps
    <2>2. Assembled(i) = UnaryMathImm("init", i.dest, i.mask, i.imm)
        BY <1>6, <2>1, Zenon DEF Assembled
    <2>3. Len(i.imm) \in 1 .. 4
        BY <1>6 DEF IsLine
    <2>. QED
        BY <1>1, <2>2, <2>3, CutUnaryImm
<1>7. CASE Swizzles
    <2>1. ~Unary /\ ~Fcross /\ ~Binary /\ ~Fmad /\ ~Initial /\ ~Nothing
        BY <1>7 DEF UnaryOps, BinaryOps, NullaryOps
    <2>2. Assembled(i) = Swizzle(i.dest, i.src[1], Tail(i.src))
        BY <1>7, <2>1, Zenon DEF Assembled
    <2>. QED
        BY <2>2, CutLayouts
<1>8. CASE m = "trap"
    <2>1. ~Unary /\ ~Fcross /\ ~Binary /\ ~Fmad /\ ~Initial /\ ~Swizzles /\ Nothing
        BY <1>8 DEF UnaryOps, BinaryOps, NullaryOps
    <2>2. Assembled(i) = Nullary(m)
        BY <2>1, Zenon DEF Assembled
    <2>. QED
        BY <2>1, <2>2, CutLayouts
<1>. QED
    BY <1>1, <1>2, <1>3, <1>4, <1>5, <1>6, <1>7, <1>8

LEMMA CutFlatten ==
    ASSUME NEW n \in Nat, NEW ss, ss = [k \in 1 .. n |-> ss[k]], \A k \in 1 .. n : WellCut(ss[k])
    PROVE  WellCut(FlattenSeq(ss))
<1>. DEFINE r(m) == [k \in 1 .. m |-> ss[k]]
            Good(m) == WellCut(FlattenSeq(r(m)))
            Bad == {m \in 0 .. n : ~Good(m)}
            S == {ss[k] : k \in 1 .. n}
<1>1. Good(0)
    <2>1. r(0) = <<>>
        OBVIOUS
    <2>2. FlattenSeq(<<>>) = <<>>
        BY DEF FlattenSeq
    <2>. HIDE DEF r
    <2>. QED
        BY <2>1, <2>2, CutNone
<1>2. ASSUME NEW m \in Nat, m + 1 \in 0 .. n, Good(m)
      PROVE  Good(m + 1)
    <2>1. m + 1 \in 1 .. n /\ r(m + 1) \in [1 .. m + 1 -> S] /\ r(m + 1)[m + 1] = ss[m + 1]
        BY <1>2
    <2>2. WellCut(ss[m + 1])
        BY <2>1
    <2>3. CASE m = 0
        <3>1. r(m + 1) \in [1 .. 1 -> S] /\ r(m + 1)[1] = ss[m + 1]
            BY <2>1, <2>3
        <3>. HIDE DEF r
        <3>2. FlattenSeq(r(m + 1)) = ss[m + 1]
            BY <3>1, FlattenOne
        <3>. QED
            BY <2>2, <3>2
    <2>4. CASE m # 0
        <3>1. m \in Nat \ {0} /\ r(m) = [k \in 1 .. m |-> r(m + 1)[k]]
            BY <2>4
        <3>. HIDE DEF r
        <3>2. FlattenSeq(r(m + 1)) = FlattenSeq(r(m)) \o ss[m + 1]
            BY <2>1, <3>1, FlattenMore
        <3>. QED
            BY <1>2, <2>2, <3>2, CutConcat
    <2>. QED
        BY <2>3, <2>4
<1>. HIDE DEF Good
<1>3. Bad = {}
    <2>1. Bad \subseteq Nat /\ 0 \notin Bad
        BY <1>1
    <2>2. \A m \in Nat : m + 1 \in Bad => m \in Bad
        BY <1>2
    <2>. HIDE DEF Bad
    <2>. QED
        BY <2>1, <2>2, FirstFailure
<1>4. Good(n)
    BY <1>3
<1>5. r(n) = ss
    OBVIOUS
<1>. HIDE DEF r
<1>. QED
    BY <1>4, <1>5 DEF Good

LEMMA MaxOfTwo ==
    ASSUME NEW a \in Nat, NEW b \in Nat
    PROVE  Max({a, b}) = IF a >= b THEN a ELSE b
<1>1. \A x \in {a, b} : (\A y \in {a, b} : x >= y) <=> x = (IF a >= b THEN a ELSE b)
    OBVIOUS
<1>. QED
    BY <1>1 DEF Max

LEMMA CutWeights ==
    ASSUME NEW P, NEW regs
    PROVE  WellCut(WeightsCode(P, regs))
<1>1. \A x, y : WellCut(x) /\ WellCut(y) => WellCut(x \o y)
    BY CutConcat
<1>2. /\ \A d, s1, s2, m : WellCut(BinaryMath("fsub", d, s1, s2, m))
      /\ \A d, s1, s2, m : WellCut(BinaryMath("fadd", d, s1, s2, m))
      /\ \A d, s1, s2, m : WellCut(BinaryMath("fmul", d, s1, s2, m))
      /\ \A d, s1, s2, m : WellCut(BinaryMath("fdiv", d, s1, s2, m))
      /\ \A d, s1, s2, m : WellCut(BinaryMath("fcross2", d, s1, s2, m))
      /\ \A d, s1, s2, s3, m : WellCut(TernaryMath("fmad", d, s1, s2, s3, m))
      /\ \A d, s, m : WellCut(UnaryMath("frcp", d, s, m))
    <2>1. {"fsub", "fadd", "fmul", "fdiv", "fcross2"} \subseteq BinaryOps /\ "frcp" \in UnaryOps
        BY DEF BinaryOps, UnaryOps
    <2>. QED
        BY <2>1, CutLayouts
<1>3. \A d, m : WellCut(UnaryMathImm("init", d, m, <<Zero>>))
    <2>1. <<Zero>> \in Seq(Range(<<Zero>>)) /\ Len(<<Zero>>) \in 1 .. 4
        <3>. DEFINE v == <<Zero>>
        <3>1. v \in Seq({Zero}) /\ Len(v) = 1
            OBVIOUS
        <3>. HIDE DEF v
        <3>2. v \in Seq(Range(v)) /\ Len(v) \in 1 .. 4
            BY <3>1, SeqIsSeq DEF IsSeq
        <3>. QED
            BY <3>2 DEF v
    <2>. QED
        BY <2>1, CutUnaryImm
<1>4. \A d, m : WellCut(UnaryMathImm("init", d, m, <<One, One, One, One>>))
    <2>. DEFINE v == <<One, One, One, One>>
    <2>1. v \in Seq({One}) /\ Len(v) = 4
        OBVIOUS
    <2>. HIDE DEF v
    <2>2. v \in Seq(Range(v)) /\ Len(v) \in 1 .. 4
        BY <2>1, SeqIsSeq DEF IsSeq
    <2>3. \A d, m : WellCut(UnaryMathImm("init", d, m, v))
        BY <2>2, CutUnaryImm
    <2>. QED
        BY <2>3 DEF v
<1>5. \A d, s, p : WellCut(Swizzle(d, s, p))
    BY CutLayouts
<1>. QED
    BY <1>1, <1>2, <1>4, <1>5 DEF WeightsCode

LEMMA CutInput ==
    ASSUME NEW dest, NEW mask, NEW regs, NEW k
    PROVE  WellCut(InputCode(dest, mask, regs, k))
<1>1. \A x, y : WellCut(x) /\ WellCut(y) => WellCut(x \o y)
    BY CutConcat
<1>2. /\ \A d, s1, s2, m : WellCut(BinaryMath("fsub", d, s1, s2, m))
      /\ \A d, s1, s2, m : WellCut(BinaryMath("fadd", d, s1, s2, m))
      /\ \A d, s1, s2, m : WellCut(BinaryMath("fmul", d, s1, s2, m))
      /\ \A d, s1, s2, m : WellCut(BinaryMath("fdiv", d, s1, s2, m))
      /\ \A d, s1, s2, m : WellCut(BinaryMath("fcross2", d, s1, s2, m))
      /\ \A d, s1, s2, s3, m : WellCut(TernaryMath("fmad", d, s1, s2, s3, m))
      /\ \A d, s, m : WellCut(UnaryMath("frcp", d, s, m))
    <2>1. {"fsub", "fadd", "fmul", "fdiv", "fcross2"} \subseteq BinaryOps /\ "frcp" \in UnaryOps
        BY DEF BinaryOps, UnaryOps
    <2>. QED
        BY <2>1, CutLayouts
<1>3. \A d, m : WellCut(UnaryMathImm("init", d, m, <<Zero>>))
    <2>1. <<Zero>> \in Seq(Range(<<Zero>>)) /\ Len(<<Zero>>) \in 1 .. 4
        <3>. DEFINE v == <<Zero>>
        <3>1. v \in Seq({Zero}) /\ Len(v) = 1
            OBVIOUS
        <3>. HIDE DEF v
        <3>2. v \in Seq(Range(v)) /\ Len(v) \in 1 .. 4
            BY <3>1, SeqIsSeq DEF IsSeq
        <3>. QED
            BY <3>2 DEF v
    <2>. QED
        BY <2>1, CutUnaryImm
<1>. QED
    BY <1>1, <1>2, <1>3 DEF InputCode

\* The code before the user's, whatever registers it uses.
LEMMA CutInterpolation ==
    ASSUME NEW b, Len(b.io["input"]) \in Nat
    PROVE  WellCut(Interpolation(b))
<1>. DEFINE regs == InterpolationRegisters(b)
            n == Max({Len(b.io["input"]), 1}) - 1
            Code(k) == InputCode(Index(b, "input", k + 1), b.io["input"][k + 1].mask, regs, k + 1)
            codes == [k \in 1 .. n |-> Code(k)]
<1>1. n \in Nat
    BY MaxOfTwo
<1>2. Interpolation(b) = WeightsCode(Index(b, "input", 1), regs) \o FlattenSeq(codes)
    BY DEF Interpolation
<1>3. \A k \in 1 .. n : WellCut(codes[k])
    <2>. HIDE DEF n
    <2>1. \A k \in 1 .. n : WellCut(Code(k))
        BY CutInput
    <2>. QED
        BY <2>1
<1>4. codes = [k \in 1 .. n |-> codes[k]]
    OBVIOUS
<1>. HIDE DEF codes, n
<1>5. WellCut(FlattenSeq(codes))
    BY <1>1, <1>3, <1>4, CutFlatten
<1>. QED
    BY <1>2, <1>5, CutWeights, CutConcat

LEMMA CutPreamble ==
    ASSUME NEW b, Len(b.io["input"]) \in Nat
    PROVE  WellCut(Preamble(b))
<1>1. WellCut(Nullary("lduni")) /\ WellCut(Nullary("initregs"))
    BY CutLayouts DEF NullaryOps
<1>. QED
    BY <1>1, CutNone, CutConcat, CutInterpolation DEF Preamble

LEMMA CutEpilogue == ASSUME NEW b PROVE WellCut(Epilogue(b))
BY CutNone, CutLayouts DEF Epilogue

-----------------------------------------------------------------------------
(* The binary while directives are parsed.                                   *)

UsedRegister == [index : Registers, usage : {"custom", "fixed", "internal"}, mask : {8, 12, 14, 15}]

\* No register is used twice for the same purpose.
IoTyped(io) ==
    /\ io \in [IoTypes -> Seq(UsedRegister)]
    /\ \A t \in IoTypes : /\ Len(io[t]) \in 0 .. MaxIo
                          /\ \A j, k \in 1 .. Len(io[t]) : io[t][j].index = io[t][k].index => j = k

BinaryTyped(b) ==
    /\ b = [programType |-> b.programType, undefinedRegs |-> b.undefinedRegs, io |-> b.io,
            error |-> b.error, header |-> b.header, words |-> b.words]
    /\ b.header = [programLength |-> b.header.programLength, programType |-> b.header.programType,
                   hasNextCommand |-> b.header.hasNextCommand, inputs |-> b.header.inputs,
                   outputs |-> b.header.outputs, uniforms |-> b.header.uniforms]
    /\ b.programType \in {"none", "vs", "fs"} /\ b.undefinedRegs \in BOOLEAN /\ b.error \in BOOLEAN
    /\ IoTyped(b.io)

AllCustom(b) == \A t \in IoTypes : \A k \in 1 .. Len(b.io[t]) : b.io[t][k].usage = "custom"

IsBlank(words) == \E n \in Nat : words = [k \in 1 .. n |-> BlankWord]

\* b and d differ at most in the registers and in the error.
Same(b, d) ==
    /\ d.programType = b.programType /\ d.undefinedRegs = b.undefinedRegs
    /\ d.header = b.header /\ d.words = b.words

\* s is r with one more used register.
More(r, s, reg, mask) ==
    /\ Len(s) = Len(r) + 1 /\ \A k \in 1 .. Len(r) : s[k] = r[k]
    /\ s[Len(r) + 1] = [index |-> reg, usage |-> "custom", mask |-> mask]

\* d is b with one more used register of type t, or failed.
Adds(b, d, t, reg, mask) ==
    \/ d = Failed(b)
    \/ /\ d = [b EXCEPT !.io[t] = Append(@, [index |-> reg, usage |-> "custom", mask |-> mask])]
       /\ mask \in {8, 12, 14, 15} /\ reg \notin Indices(b, t) /\ Len(b.io[t]) # MaxIo

LEMMA NewIsTyped == BinaryTyped(NewBinary) /\ AllCustom(NewBinary) /\ IsBlank(NewBinary.words)
<1>1. NewBinary.io = [t \in IoTypes |-> <<>>] /\ Len(<<>>) = 0
    BY DEF NewBinary, BlankIo
<1>2. IoTyped(NewBinary.io)
    BY <1>1 DEF IoTyped, MaxIo
<1>3. AllCustom(NewBinary)
    BY <1>1 DEF AllCustom
<1>4. NewBinary.words = [k \in 1 .. 0 |-> BlankWord]
    BY DEF NewBinary
<1>. QED
    BY <1>2, <1>3, <1>4 DEF BinaryTyped, NewBinary, BlankHeader, IsBlank

LEMMA FailedIsTyped ==
    ASSUME NEW b, BinaryTyped(b)
    PROVE  BinaryTyped(Failed(b)) /\ Failed(b).io = b.io /\ Failed(b).error = TRUE /\ Same(b, Failed(b))
<1>1. b = [programType |-> b.programType, undefinedRegs |-> b.undefinedRegs, io |-> b.io,
           error |-> b.error, header |-> b.header, words |-> b.words]
    BY DEF BinaryTyped
<1>2. \A e : [b EXCEPT !.error = e] = [programType |-> b.programType, undefinedRegs |-> b.undefinedRegs,
                   io |-> b.io, error |-> e, header |-> b.header, words |-> b.words]
    BY <1>1
<1>3. Failed(b) = [programType |-> b.programType, undefinedRegs |-> b.undefinedRegs, io |-> b.io,
                   error |-> TRUE, header |-> b.header, words |-> b.words]
    BY <1>2, Zenon DEF Failed
<1>. QED
    BY <1>3 DEF BinaryTyped, Same

LEMMA DirectiveAdds ==
    ASSUME NEW b, NEW reg, NEW mask, NEW t
    PROVE  Adds(b, DirectiveInputOutput(b, reg, mask, t), t, reg, mask)
BY DEF Adds, DirectiveInputOutput

LEMMA AppendUsed ==
    ASSUME NEW io, IoTyped(io), NEW t \in IoTypes, NEW u \in UsedRegister, Len(io[t]) # MaxIo,
           \A k \in 1 .. Len(io[t]) : io[t][k].index # u.index
    PROVE  LET new == [io EXCEPT ![t] = Append(@, u)]
           IN  /\ IoTyped(new) /\ Len(new[t]) = Len(io[t]) + 1
               /\ \A k \in 1 .. Len(io[t]) : new[t][k] = io[t][k]
               /\ new[t][Len(io[t]) + 1] = u
               /\ \A o \in IoTypes \ {t} : new[o] = io[o]
<1>. DEFINE s == io[t]
            n == Len(s)
            new == [io EXCEPT ![t] = Append(@, u)]
<1>1. s \in Seq(UsedRegister) /\ n \in 0 .. MaxIo /\ io \in [IoTypes -> Seq(UsedRegister)]
    BY DEF IoTyped
<1>2. n \in Nat /\ n + 1 \in 0 .. MaxIo
    BY <1>1 DEF MaxIo
<1>3. /\ Append(s, u) \in Seq(UsedRegister) /\ Len(Append(s, u)) = n + 1
      /\ \A k \in 1 .. n : Append(s, u)[k] = s[k]
      /\ Append(s, u)[n + 1] = u
    BY <1>1, AppendProperties
<1>4. new[t] = Append(s, u) /\ \A o \in IoTypes \ {t} : new[o] = io[o]
    BY <1>1
<1>5. new \in [IoTypes -> Seq(UsedRegister)]
    BY <1>1, <1>3
<1>. HIDE DEF s, n, new
<1>6. ASSUME NEW j \in 1 .. n + 1, NEW k \in 1 .. n + 1, new[t][j].index = new[t][k].index
      PROVE  j = k
    <2>1. \A i \in 1 .. n + 1 : i \in 1 .. n \/ i = n + 1
        BY <1>2
    <2>2. \A i \in 1 .. n : new[t][i] = s[i] /\ s[i].index # u.index
        BY <1>3, <1>4 DEF s, n
    <2>3. new[t][n + 1] = u
        BY <1>3, <1>4
    <2>4. \A i, l \in 1 .. n : s[i].index = s[l].index => i = l
        BY DEF IoTyped, s, n
    <2>. QED
        BY <1>6, <2>1, <2>2, <2>3, <2>4
<1>7. \A o \in IoTypes \ {t} : /\ Len(new[o]) \in 0 .. MaxIo
                               /\ \A j, k \in 1 .. Len(new[o]) : new[o][j].index = new[o][k].index => j = k
    BY <1>4 DEF IoTyped
<1>8. IoTyped(new)
    BY <1>2, <1>3, <1>4, <1>5, <1>6, <1>7 DEF IoTyped
<1>. QED
    BY <1>3, <1>4, <1>8 DEF s, n, new

Added(b, d, t, reg, mask) ==
    /\ BinaryTyped(d) /\ Same(b, d) /\ (AllCustom(b) => AllCustom(d))
    /\ \A o \in IoTypes \ {t} : d.io[o] = b.io[o]
    /\ \/ d.error = TRUE /\ d.io = b.io
       \/ d.error = b.error /\ More(b.io[t], d.io[t], reg, mask)

LEMMA AddsTyped ==
    ASSUME NEW b, BinaryTyped(b), NEW t \in IoTypes, NEW reg \in Registers, NEW mask, NEW d,
           Adds(b, d, t, reg, mask)
    PROVE  Added(b, d, t, reg, mask)
<1>1. CASE d = Failed(b)
    BY <1>1, FailedIsTyped DEF AllCustom, Added
<1>2. CASE d # Failed(b)
    <2>. DEFINE u == [index |-> reg, usage |-> "custom", mask |-> mask]
                io == b.io
                new == [io EXCEPT ![t] = Append(@, u)]
    <2>1. /\ d = [b EXCEPT !.io[t] = Append(@, u)]
          /\ mask \in {8, 12, 14, 15} /\ reg \notin Indices(b, t) /\ Len(io[t]) # MaxIo
        BY <1>2 DEF Adds
    <2>2. u \in UsedRegister /\ u.index = reg /\ u.usage = "custom"
        BY <2>1 DEF UsedRegister
    <2>3. IoTyped(io) /\ io[t] \in Seq(UsedRegister) /\ DOMAIN io[t] = 1 .. Len(io[t])
        BY LenProperties DEF BinaryTyped, IoTyped
    <2>4. \A k \in 1 .. Len(io[t]) : io[t][k].index # u.index
        BY <2>1, <2>2, <2>3 DEF Indices
    <2>5. d = [programType |-> b.programType, undefinedRegs |-> b.undefinedRegs, io |-> new,
               error |-> b.error, header |-> b.header, words |-> b.words]
        BY <2>1 DEF BinaryTyped
    <2>6. d.io = new /\ d.error = b.error /\ Same(b, d)
        BY <2>5 DEF Same
    <2>7. /\ IoTyped(new) /\ Len(new[t]) = Len(io[t]) + 1
          /\ \A k \in 1 .. Len(io[t]) : new[t][k] = io[t][k]
          /\ new[t][Len(io[t]) + 1] = u
          /\ \A o \in IoTypes \ {t} : new[o] = io[o]
        <3>. HIDE DEF u, io
        <3>. QED
            BY <2>1, <2>2, <2>3, <2>4, AppendUsed
    <2>8. BinaryTyped(d)
        <3>. HIDE DEF u, io, new
        <3>. QED
            BY <2>5, <2>6, <2>7 DEF BinaryTyped, Same
    <2>9. AllCustom(b) => AllCustom(d)
        <3>. HIDE DEF u, new
        <3>. SUFFICES ASSUME AllCustom(b), NEW o \in IoTypes, NEW k \in 1 .. Len(d.io[o])
                      PROVE  d.io[o][k].usage = "custom"
            BY DEF AllCustom
        <3>1. CASE o # t
            BY <2>6, <2>7, <3>1 DEF AllCustom
        <3>2. CASE o = t
            <4>1. Len(io[t]) \in Nat
                BY <2>3, LenProperties
            <4>2. k \in 1 .. Len(io[t]) \/ k = Len(io[t]) + 1
                BY <2>6, <2>7, <3>2, <4>1
            <4>. QED
                BY <2>2, <2>6, <2>7, <3>2, <4>2 DEF AllCustom
        <3>. QED
            BY <3>1, <3>2
    <2>10. More(b.io[t], d.io[t], reg, mask)
        BY <2>6, <2>7 DEF More
    <2>. QED
        BY <2>6, <2>7, <2>8, <2>9, <2>10 DEF Added
<1>. QED
    BY <1>1, <1>2

\* A directive of any kind.
LEMMA DirectiveTyped ==
    ASSUME NEW d \in Directives, BinaryTyped(binary), AllCustom(binary), ParseDirective(d)
    PROVE  BinaryTyped(binary') /\ AllCustom(binary') /\ binary'.words = binary.words
<1>1. d.kind \in IoTypes \cup {"vs", "fs", "undefinedRegs"} /\ d.reg \in Registers
    BY ProgramAssumption
<1>2. CASE d.kind \in IoTypes
    <2>1. binary' = CASE d.kind \in IoTypes -> DirectiveInputOutput(binary, d.reg, d.mask, d.kind)
                      [] d.kind \in {"vs", "fs"} -> DirectiveShaderType(binary, d.kind)
                      [] OTHER -> DirectiveUndefinedRegs(binary)
        BY Zenon DEF ParseDirective
    <2>2. d.kind \notin {"vs", "fs"}
        BY <1>2 DEF IoTypes
    <2>3. binary' = DirectiveInputOutput(binary, d.reg, d.mask, d.kind)
        BY <1>2, <2>1, <2>2, Zenon
    <2>4. Adds(binary, binary', d.kind, d.reg, d.mask)
        BY <2>3, DirectiveAdds
    <2>5. BinaryTyped(binary') /\ Same(binary, binary') /\ (AllCustom(binary) => AllCustom(binary'))
        BY <1>1, <1>2, <2>4, AddsTyped DEF Added
    <2>. QED
        BY <2>5 DEF Same
<1>3. CASE d.kind \in {"vs", "fs"}
    <2>1. binary' = DirectiveShaderType(binary, d.kind)
        BY <1>3 DEF ParseDirective, IoTypes
    <2>2. CASE binary.programType # "none"
        BY <2>1, <2>2, FailedIsTyped DEF DirectiveShaderType, AllCustom, Same
    <2>3. CASE binary.programType = "none"
        <3>1. binary' = [binary EXCEPT !.programType = d.kind]
            BY <2>1, <2>3 DEF DirectiveShaderType
        <3>. QED
            BY <1>3, <3>1 DEF BinaryTyped, AllCustom
    <2>. QED
        BY <2>2, <2>3
<1>4. CASE d.kind = "undefinedRegs"
    <2>1. binary' = DirectiveUndefinedRegs(binary)
        BY <1>4 DEF ParseDirective, IoTypes
    <2>2. CASE binary.undefinedRegs
        BY <2>1, <2>2, FailedIsTyped DEF DirectiveUndefinedRegs, AllCustom, Same
    <2>3. CASE ~binary.undefinedRegs
        <3>1. binary' = [binary EXCEPT !.undefinedRegs = TRUE]
            BY <2>1, <2>3 DEF DirectiveUndefinedRegs
        <3>. QED
            BY <3>1 DEF BinaryTyped, AllCustom
    <2>. QED
        BY <2>2, <2>3
<1>. QED
    BY <1>1, <1>2, <1>3, <1>4

-----------------------------------------------------------------------------
(* The end of the directives.                                                *)

LEMMA SetIo ==
    ASSUME NEW b, BinaryTyped(b), NEW new, IoTyped(new), NEW d,
           d = [programType |-> b.programType, undefinedRegs |-> b.undefinedRegs, io |-> new,
                error |-> b.error, header |-> b.header, words |-> b.words]
    PROVE  BinaryTyped(d) /\ Same(b, d) /\ d.error = b.error /\ d.io = new
BY DEF BinaryTyped, Same

\* s is r with another usage of register i.
Reused(r, s, i, usage) ==
    /\ Len(s) = Len(r)
    /\ \A k \in 1 .. Len(r) : /\ s[k].index = r[k].index /\ s[k].mask = r[k].mask
                              /\ s[k].usage = IF k = i THEN usage ELSE r[k].usage

LEMMA SetRegister ==
    ASSUME NEW io, IoTyped(io), NEW t \in IoTypes, NEW i \in 1 .. Len(io[t]),
           NEW u \in UsedRegister, u.index = io[t][i].index
    PROVE  LET new == [io EXCEPT ![t] = [@ EXCEPT ![i] = u]]
           IN  /\ IoTyped(new) /\ Len(new[t]) = Len(io[t])
               /\ \A k \in 1 .. Len(io[t]) : new[t][k] = IF k = i THEN u ELSE io[t][k]
               /\ \A o \in IoTypes \ {t} : new[o] = io[o]
<1>. DEFINE r == io[t]
            s == [r EXCEPT ![i] = u]
            new == [io EXCEPT ![t] = s]
<1>1. /\ io \in [IoTypes -> Seq(UsedRegister)] /\ r \in Seq(UsedRegister) /\ Len(r) \in 0 .. MaxIo
      /\ Len(r) \in Nat /\ r \in [1 .. Len(r) -> UsedRegister]
      /\ \A j, k \in 1 .. Len(r) : r[j].index = r[k].index => j = k
    BY LenProperties DEF IoTyped, MaxIo
<1>2. s \in [1 .. Len(r) -> UsedRegister] /\ \A k \in 1 .. Len(r) : s[k] = IF k = i THEN u ELSE r[k]
    BY <1>1
<1>3. new[t] = s /\ \A o \in IoTypes \ {t} : new[o] = io[o]
    BY <1>1
<1>4. s \in Seq(UsedRegister) /\ Len(s) = Len(r)
    <2>. HIDE DEF s, r
    <2>. QED
        BY <1>1, <1>2
<1>5. new \in [IoTypes -> Seq(UsedRegister)]
    BY <1>1, <1>4
<1>. HIDE DEF s, new
<1>6. \A o \in IoTypes \ {t} : /\ Len(new[o]) \in 0 .. MaxIo
                               /\ \A j, k \in 1 .. Len(new[o]) : new[o][j].index = new[o][k].index => j = k
    BY <1>3 DEF IoTyped
<1>7. /\ Len(new[t]) \in 0 .. MaxIo
      /\ \A j, k \in 1 .. Len(new[t]) : new[t][j].index = new[t][k].index => j = k
    BY <1>1, <1>2, <1>3, <1>4
<1>8. IoTyped(new)
    BY <1>5, <1>6, <1>7 DEF IoTyped
<1>. QED
    BY <1>2, <1>3, <1>4, <1>8 DEF s, new

LEMMA SetUsage ==
    ASSUME NEW b, BinaryTyped(b), NEW t \in IoTypes, NEW i \in 1 .. Len(b.io[t]),
           NEW usage \in {"custom", "fixed", "internal"}
    PROVE  LET d == [b EXCEPT !.io[t][i].usage = usage]
           IN  /\ BinaryTyped(d) /\ Same(b, d) /\ d.error = b.error /\ Reused(b.io[t], d.io[t], i, usage)
               /\ \A o \in IoTypes \ {t} : d.io[o] = b.io[o]
<1>. DEFINE x == b.io[t][i]
            u == [x EXCEPT !.usage = usage]
            new == [b.io EXCEPT ![t] = [@ EXCEPT ![i] = u]]
            d == [b EXCEPT !.io[t][i].usage = usage]
<1>1. IoTyped(b.io) /\ x \in UsedRegister
    <2>1. IoTyped(b.io)
        BY DEF BinaryTyped
    <2>2. b.io[t] \in Seq(UsedRegister)
        BY <2>1 DEF IoTyped
    <2>. QED
        BY <2>1, <2>2, LenProperties
<1>2. u = [index |-> x.index, usage |-> usage, mask |-> x.mask]
    <2>1. x = [index |-> x.index, usage |-> x.usage, mask |-> x.mask]
        <3>. HIDE DEF x, u
        <3>. QED
            BY <1>1 DEF UsedRegister
    <2>2. ASSUME NEW y, y = [index |-> y.index, usage |-> y.usage, mask |-> y.mask]
          PROVE  [y EXCEPT !.usage = usage] = [index |-> y.index, usage |-> usage, mask |-> y.mask]
        BY <2>2
    <2>. HIDE DEF x
    <2>. QED
        BY <2>1, <2>2, Zenon
<1>3. \A y : [b EXCEPT !.io = y] = [programType |-> b.programType, undefinedRegs |-> b.undefinedRegs,
               io |-> y, error |-> b.error, header |-> b.header, words |-> b.words]
    BY DEF BinaryTyped
<1>4. d = [b EXCEPT !.io = new]
    BY Zenon
<1>5. d = [programType |-> b.programType, undefinedRegs |-> b.undefinedRegs,
           io |-> new, error |-> b.error, header |-> b.header, words |-> b.words]
    <2>. HIDE DEF new, d
    <2>. QED
        BY <1>3, <1>4, Zenon
<1>. HIDE DEF d, u
<1>6. u \in UsedRegister /\ u.index = b.io[t][i].index /\ u.mask = b.io[t][i].mask /\ u.usage = usage
    BY <1>1, <1>2 DEF UsedRegister
<1>7. /\ IoTyped(new) /\ Len(new[t]) = Len(b.io[t])
      /\ \A k \in 1 .. Len(b.io[t]) : new[t][k] = IF k = i THEN u ELSE b.io[t][k]
      /\ \A o \in IoTypes \ {t} : new[o] = b.io[o]
    <2>1. \A io : IoTyped(io) /\ i \in 1 .. Len(io[t]) /\ u.index = io[t][i].index =>
            LET n == [io EXCEPT ![t] = [@ EXCEPT ![i] = u]]
            IN  /\ IoTyped(n) /\ Len(n[t]) = Len(io[t])
                /\ \A k \in 1 .. Len(io[t]) : n[t][k] = IF k = i THEN u ELSE io[t][k]
                /\ \A o \in IoTypes \ {t} : n[o] = io[o]
        <3>1. u \in UsedRegister
            BY <1>6
        <3>. HIDE DEF new, x
        <3>. QED
            BY <3>1, SetRegister
    <2>. QED
        BY <1>1, <1>6, <2>1, Zenon
<1>. HIDE DEF new
<1>8. BinaryTyped(d) /\ Same(b, d) /\ d.error = b.error /\ d.io = new
    BY <1>5, <1>7, SetIo
<1>9. Reused(b.io[t], new[t], i, usage)
    BY <1>6, <1>7 DEF Reused
<1>. QED
    BY <1>7, <1>8, <1>9 DEF d

LEMMA BitsOfMasks ==
    CountBits(8) = 1 /\ CountBits(12) = 2 /\ CountBits(14) = 3 /\ CountBits(15) = 4
<1>1. 2 ^ 0 = 1 /\ 2 ^ 1 = 2 /\ 2 ^ 2 = 4 /\ 2 ^ 3 = 8
    OBVIOUS
<1>2. /\ \A n \in 0 .. 3 : n = 0 \/ n = 1 \/ n = 2 \/ n = 3
      /\ (8 \div 1) % 2 = 0 /\ (8 \div 2) % 2 = 0 /\ (8 \div 4) % 2 = 0 /\ (8 \div 8) % 2 = 1
      /\ (12 \div 1) % 2 = 0 /\ (12 \div 2) % 2 = 0 /\ (12 \div 4) % 2 = 1 /\ (12 \div 8) % 2 = 1
      /\ (14 \div 1) % 2 = 0 /\ (14 \div 2) % 2 = 1 /\ (14 \div 4) % 2 = 1 /\ (14 \div 8) % 2 = 1
      /\ (15 \div 1) % 2 = 1 /\ (15 \div 2) % 2 = 1 /\ (15 \div 4) % 2 = 1 /\ (15 \div 8) % 2 = 1
    OBVIOUS
<1>3. ASSUME NEW n \in 0 .. 3
      PROVE  /\ IsBitSet(8, n) <=> n \in 3 .. 3
             /\ IsBitSet(12, n) <=> n \in 2 .. 3
             /\ IsBitSet(14, n) <=> n \in 1 .. 3
             /\ IsBitSet(15, n) <=> n \in 0 .. 3
    <2>1. n = 0 => 2 ^ n = 1
        BY <1>1
    <2>2. n = 1 => 2 ^ n = 2
        BY <1>1
    <2>3. n = 2 => 2 ^ n = 4
        BY <1>1
    <2>4. n = 3 => 2 ^ n = 8
        BY <1>1
    <2>5. CASE n = 0
        BY <1>2, <2>1, <2>5 DEF IsBitSet
    <2>6. CASE n = 1
        BY <1>2, <2>2, <2>6 DEF IsBitSet
    <2>7. CASE n = 2
        BY <1>2, <2>3, <2>7 DEF IsBitSet
    <2>8. CASE n = 3
        BY <1>2, <2>4, <2>8 DEF IsBitSet
    <2>. QED
        BY <1>2, <2>5, <2>6, <2>7, <2>8
<1>4. 3 .. 3 \subseteq 0 .. 3 /\ 2 .. 3 \subseteq 0 .. 3 /\ 1 .. 3 \subseteq 0 .. 3
    OBVIOUS
<1>5. /\ {n \in 0 .. 3 : IsBitSet(8, n)} = 3 .. 3 /\ {n \in 0 .. 3 : IsBitSet(12, n)} = 2 .. 3
      /\ {n \in 0 .. 3 : IsBitSet(14, n)} = 1 .. 3 /\ {n \in 0 .. 3 : IsBitSet(15, n)} = 0 .. 3
    BY <1>3, <1>4
<1>6. \A a \in 0 .. 3 : Cardinality(a .. 3) = 4 - a
    BY FS_Interval
<1>. QED
    BY <1>5, <1>6 DEF CountBits

HeaderPart(h, t) == IF t = "input" THEN h.inputs ELSE IF t = "output" THEN h.outputs ELSE h.uniforms

\* d is b with p as the header's part for the registers of type t.
SetsPart(b, d, t, p) ==
    /\ d.io = b.io /\ d.error = b.error /\ d.words = b.words
    /\ d.programType = b.programType /\ d.undefinedRegs = b.undefinedRegs
    /\ d.header.programType = b.header.programType
    /\ HeaderPart(d.header, t) = p
    /\ \A o \in IoTypes \ {t} : HeaderPart(d.header, o) = HeaderPart(b.header, o)

LEMMA SetPart ==
    ASSUME NEW b, BinaryTyped(b), NEW t \in IoTypes, NEW h, h = b.header, NEW p
    PROVE  LET stored == CASE t = "input" -> [h EXCEPT !.inputs = p]
                           [] t = "output" -> [h EXCEPT !.outputs = p]
                           [] OTHER -> [h EXCEPT !.uniforms = p]
               d == [b EXCEPT !.header = stored]
           IN  BinaryTyped(d) /\ SetsPart(b, d, t, p)
<1>. DEFINE i == [h EXCEPT !.inputs = p]
            o == [h EXCEPT !.outputs = p]
            u == [h EXCEPT !.uniforms = p]
            stored == CASE t = "input" -> i [] t = "output" -> o [] OTHER -> u
            d == [b EXCEPT !.header = stored]
<1>1. h = [programLength |-> h.programLength, programType |-> h.programType,
           hasNextCommand |-> h.hasNextCommand, inputs |-> h.inputs, outputs |-> h.outputs,
           uniforms |-> h.uniforms]
    BY DEF BinaryTyped
<1>2. /\ i = [programLength |-> h.programLength, programType |-> h.programType,
              hasNextCommand |-> h.hasNextCommand, inputs |-> p, outputs |-> h.outputs, uniforms |-> h.uniforms]
      /\ o = [programLength |-> h.programLength, programType |-> h.programType,
              hasNextCommand |-> h.hasNextCommand, inputs |-> h.inputs, outputs |-> p, uniforms |-> h.uniforms]
      /\ u = [programLength |-> h.programLength, programType |-> h.programType,
              hasNextCommand |-> h.hasNextCommand, inputs |-> h.inputs, outputs |-> h.outputs, uniforms |-> p]
    BY <1>1
<1>3. \A y : [b EXCEPT !.header = y] = [programType |-> b.programType, undefinedRegs |-> b.undefinedRegs,
               io |-> b.io, error |-> b.error, header |-> y, words |-> b.words]
    BY DEF BinaryTyped
<1>4. d = [programType |-> b.programType, undefinedRegs |-> b.undefinedRegs,
           io |-> b.io, error |-> b.error, header |-> stored, words |-> b.words]
    <2>. HIDE DEF stored
    <2>. QED
        BY <1>3, Zenon
<1>5. t = "input" \/ t = "output" \/ t = "uniform"
    BY DEF IoTypes
<1>6. stored = IF t = "input" THEN i ELSE IF t = "output" THEN o ELSE u
    <2>. HIDE DEF i, o, u
    <2>. QED
        OBVIOUS
<1>. HIDE DEF i, o, u, stored, d
<1>7. /\ stored.programLength = h.programLength /\ stored.programType = h.programType
      /\ stored.hasNextCommand = h.hasNextCommand
      /\ HeaderPart(stored, t) = p
      /\ \A q \in IoTypes \ {t} : HeaderPart(stored, q) = HeaderPart(h, q)
    BY <1>2, <1>5, <1>6 DEF HeaderPart, IoTypes
<1>8. stored = [programLength |-> stored.programLength, programType |-> stored.programType,
           hasNextCommand |-> stored.hasNextCommand, inputs |-> stored.inputs, outputs |-> stored.outputs,
           uniforms |-> stored.uniforms]
    BY <1>2, <1>5, <1>6
<1>. QED
    BY <1>4, <1>7, <1>8 DEF BinaryTyped, SetsPart, stored, d, i, o, u

\* What usage and size the registers of type t have when their directives are accepted.
WellUsed(b, t) ==
    LET n == Len(b.io[t])
        Custom(k) == b.io[t][k].usage = "custom"
    IN  IF ColorIo(b, t)
        THEN n = 2 /\ ~Custom(1) /\ ~Custom(2) /\ Components(b, t, 1) = 4 /\ Components(b, t, 2) = 1
        ELSE IF PositionIo(b, t)
        THEN n >= 1 /\ ~Custom(1) /\ Components(b, t, 1) = 4 /\ \A k \in 2 .. n : Custom(k)
        ELSE (\A k \in 1 .. n : Custom(k)) /\ (t = "input" => n >= 1)

\* A fragment shader's second output is the register its position came in.
DepthIsPosition(b) == ColorIo(b, "output") => Index(b, "output", 2) = Index(b, "input", 1)

Finalizes(b, d, t) ==
    /\ BinaryTyped(d) /\ d.words = b.words
    /\ d.programType = b.programType /\ d.undefinedRegs = b.undefinedRegs
    /\ d.header.programType = b.header.programType
    /\ \A o \in IoTypes \ {t} : d.io[o] = b.io[o] /\ HeaderPart(d.header, o) = HeaderPart(b.header, o)
    /\ d.error = FALSE => /\ b.error = FALSE
                          /\ HeaderPart(d.header, t) = HeaderOf(d, t) /\ WellUsed(d, t)
                          /\ t = "output" => DepthIsPosition(d)

\* The registers of type t while FinalizeIo has not stored them in the header.
Adjusted(b, final, t) ==
    /\ BinaryTyped(final) /\ Same(b, final) /\ \A o \in IoTypes \ {t} : final.io[o] = b.io[o]
    /\ final.error = FALSE => b.error = FALSE /\ WellUsed(final, t) /\ (t = "output" => DepthIsPosition(final))

LEMMA SameIoSameHeader ==
    ASSUME NEW b, NEW d, NEW t, d.io[t] = b.io[t], d.programType = b.programType
    PROVE  HeaderOf(d, t) = HeaderOf(b, t) /\ (WellUsed(b, t) => WellUsed(d, t))
<1>1. \A k : Components(d, t, k) = Components(b, t, k) /\ Index(d, t, k) = Index(b, t, k)
    BY DEF Components, Index
<1>2. HeaderOf(d, t) = HeaderOf(b, t)
    BY <1>1 DEF HeaderOf
<1>3. PositionIo(d, t) = PositionIo(b, t) /\ ColorIo(d, t) = ColorIo(b, t)
    BY DEF PositionIo, ColorIo, IsVs, IsFs
<1>4. WellUsed(b, t) => WellUsed(d, t)
    BY <1>1, <1>3 DEF WellUsed
<1>. QED
    BY <1>2, <1>4

LEMMA FixedIsTyped ==
    ASSUME NEW b, BinaryTyped(b), NEW t \in IoTypes, Components(b, t, 1) = 4
    PROVE  LET d == [b EXCEPT !.io[t][1].usage = "fixed"]
           IN  /\ BinaryTyped(d) /\ Same(b, d) /\ d.error = b.error /\ Reused(b.io[t], d.io[t], 1, "fixed")
               /\ \A o \in IoTypes \ {t} : d.io[o] = b.io[o]
               /\ Components(d, t, 1) = 4 /\ Len(b.io[t]) \in Nat \ {0}
<1>. DEFINE d == [b EXCEPT !.io[t][1].usage = "fixed"]
<1>1. Len(b.io[t]) \in Nat /\ 1 <= Len(b.io[t])
    <2>1. Len(b.io[t]) \in 0 .. MaxIo
        BY DEF BinaryTyped, IoTyped
    <2>. QED
        BY <2>1 DEF Components, MaxIo
<1>2. 1 \in 1 .. Len(b.io[t]) /\ "fixed" \in {"custom", "fixed", "internal"}
    BY <1>1
<1>3. /\ BinaryTyped(d) /\ Same(b, d) /\ d.error = b.error /\ Reused(b.io[t], d.io[t], 1, "fixed")
      /\ \A o \in IoTypes \ {t} : d.io[o] = b.io[o]
    BY <1>2, SetUsage
<1>. HIDE DEF d
<1>4. Components(d, t, 1) = 4
    BY <1>2, <1>3 DEF Components, Reused
<1>. QED
    BY <1>1, <1>3, <1>4 DEF d

LEMMA PositionAdjusted ==
    ASSUME NEW b, BinaryTyped(b), NEW t \in IoTypes, PositionIo(b, t), ~ColorIo(b, t), Components(b, t, 1) = 4,
           \A k \in 1 .. Len(b.io[t]) : b.io[t][k].usage = "custom"
    PROVE  Adjusted(b, [b EXCEPT !.io[t][1].usage = "fixed"], t)
<1>. DEFINE d == [b EXCEPT !.io[t][1].usage = "fixed"]
<1>1. /\ BinaryTyped(d) /\ Same(b, d) /\ d.error = b.error /\ Reused(b.io[t], d.io[t], 1, "fixed")
      /\ \A o \in IoTypes \ {t} : d.io[o] = b.io[o]
      /\ Components(d, t, 1) = 4 /\ Len(b.io[t]) \in Nat \ {0}
    BY FixedIsTyped
<1>. HIDE DEF d
<1>2. PositionIo(d, t) /\ ~ColorIo(d, t)
    BY <1>1 DEF Same, PositionIo, ColorIo, IsVs, IsFs
<1>3. /\ Len(d.io[t]) >= 1 /\ d.io[t][1].usage = "fixed"
      /\ \A k \in 2 .. Len(d.io[t]) : d.io[t][k].usage = "custom"
    BY <1>1 DEF Reused
<1>4. WellUsed(d, t)
    BY <1>1, <1>2, <1>3 DEF WellUsed
<1>. QED
    BY <1>1, <1>2, <1>4 DEF Adjusted, DepthIsPosition, d

LEMMA ColorAdjusted ==
    ASSUME NEW b, BinaryTyped(b), NEW t \in IoTypes, ColorIo(b, t), Len(b.io[t]) = 1, Components(b, t, 1) = 4
    PROVE  LET fixed == [b EXCEPT !.io[t][1].usage = "fixed"]
               withDepth == DirectiveInputOutput(fixed, Index(b, "input", 1), 8, "output")
           IN  Adjusted(b, IF Len(withDepth.io[t]) = 1 THEN withDepth
                           ELSE [withDepth EXCEPT !.io[t][2].usage = "internal"], t)
<1>. DEFINE fixed == [b EXCEPT !.io[t][1].usage = "fixed"]
            reg == Index(b, "input", 1)
            withDepth == DirectiveInputOutput(fixed, reg, 8, "output")
            final == [withDepth EXCEPT !.io[t][2].usage = "internal"]
<1>1. /\ BinaryTyped(fixed) /\ Same(b, fixed) /\ fixed.error = b.error /\ Reused(b.io[t], fixed.io[t], 1, "fixed")
      /\ \A o \in IoTypes \ {t} : fixed.io[o] = b.io[o]
      /\ Components(fixed, t, 1) = 4
    BY FixedIsTyped
<1>. HIDE DEF fixed
<1>2. reg \in Registers
    <2>1. b.io["input"] \in Seq(UsedRegister) /\ Len(b.io["input"]) \in 0 .. MaxIo
        BY DEF BinaryTyped, IoTyped, IoTypes
    <2>2. CASE 1 <= Len(b.io["input"])
        <3>1. b.io["input"][1] \in UsedRegister
            BY <2>1, <2>2, LenProperties
        <3>. QED
            BY <2>2, <3>1 DEF Index, UsedRegister
    <2>3. CASE ~(1 <= Len(b.io["input"]))
        BY <2>3 DEF Index, Registers, RegisterCount
    <2>. QED
        BY <2>2, <2>3
<1>3. t = "output"
    BY DEF ColorIo
<1>4. Adds(fixed, withDepth, t, reg, 8)
    BY <1>3, DirectiveAdds
<1>. HIDE DEF withDepth, reg
<1>5. /\ BinaryTyped(withDepth) /\ Same(fixed, withDepth)
      /\ \A o \in IoTypes \ {t} : withDepth.io[o] = fixed.io[o]
      /\ \/ withDepth.error = TRUE /\ withDepth.io = fixed.io
         \/ withDepth.error = fixed.error /\ More(fixed.io[t], withDepth.io[t], reg, 8)
    <2>1. Added(fixed, withDepth, t, reg, 8)
        BY <1>1, <1>2, <1>4, AddsTyped
    <2>. QED
        BY <2>1 DEF Added
<1>6. Len(fixed.io[t]) = 1 /\ fixed.io[t][1].usage = "fixed"
    BY <1>1 DEF Reused
<1>7. Same(b, withDepth) /\ \A o \in IoTypes \ {t} : withDepth.io[o] = b.io[o]
    BY <1>1, <1>5 DEF Same
<1>8. CASE withDepth.error = TRUE /\ withDepth.io = fixed.io
    BY <1>5, <1>6, <1>7, <1>8 DEF Adjusted, withDepth, reg, fixed
<1>9. CASE withDepth.error = fixed.error /\ More(fixed.io[t], withDepth.io[t], reg, 8)
    <2>1. /\ Len(withDepth.io[t]) = 2 /\ withDepth.io[t][1] = fixed.io[t][1]
          /\ withDepth.io[t][2].mask = 8 /\ withDepth.io[t][2].index = reg
        BY <1>6, <1>9 DEF More
    <2>2. 2 \in 1 .. Len(withDepth.io[t]) /\ "internal" \in {"custom", "fixed", "internal"}
        BY <2>1
    <2>3. /\ BinaryTyped(final) /\ Same(withDepth, final) /\ final.error = withDepth.error
          /\ Reused(withDepth.io[t], final.io[t], 2, "internal")
          /\ \A o \in IoTypes \ {t} : final.io[o] = withDepth.io[o]
        BY <1>5, <2>2, SetUsage
    <2>. HIDE DEF final
    <2>4. /\ Len(final.io[t]) = 2 /\ final.io[t][1].usage = "fixed" /\ final.io[t][2].usage = "internal"
          /\ final.io[t][1].mask = fixed.io[t][1].mask /\ final.io[t][2].mask = 8
        BY <1>6, <2>1, <2>3 DEF Reused
    <2>5. Components(final, t, 1) = 4 /\ Components(final, t, 2) = 1
        BY <1>1, <1>6, <2>4, BitsOfMasks DEF Components
    <2>6. ColorIo(final, t)
        BY <1>7, <2>3 DEF Same, ColorIo, IsFs
    <2>7. WellUsed(final, t)
        BY <2>4, <2>5, <2>6 DEF WellUsed
    <2>11. DepthIsPosition(final)
        <3>1. final.io["output"][2].index = reg /\ Len(final.io["output"]) = 2
            BY <1>3, <2>1, <2>2, <2>3 DEF Reused
        <3>2. final.io["input"] = b.io["input"]
            BY <1>3, <1>7, <2>3 DEF IoTypes
        <3>. QED
            BY <3>1, <3>2 DEF DepthIsPosition, Index, reg
    <2>8. Adjusted(b, final, t)
        BY <1>1, <1>7, <1>9, <2>3, <2>7, <2>11 DEF Adjusted, Same
    <2>9. (IF Len(withDepth.io[t]) = 1 THEN withDepth ELSE final) = final
        BY <2>1
    <2>10. Adjusted(b, IF Len(withDepth.io[t]) = 1 THEN withDepth ELSE final, t)
        BY <2>8, <2>9, Zenon
    <2>. QED
        BY <2>10, Zenon DEF final, withDepth, reg, fixed
<1>. QED
    BY <1>5, <1>8, <1>9

LEMMA IoAdjusted ==
    ASSUME NEW b, BinaryTyped(b), b.programType \in {"vs", "fs"}, NEW t \in IoTypes, ~RefusedIo(b, t),
           \A k \in 1 .. Len(b.io[t]) : b.io[t][k].usage = "custom"
    PROVE  Adjusted(b, AdjustedIo(b, t), t)
<1>. DEFINE fixed == [b EXCEPT !.io[t][1].usage = "fixed"]
            withDepth == DirectiveInputOutput(fixed, Index(b, "input", 1), 8, "output")
            colored == IF Len(withDepth.io[t]) = 1 THEN withDepth
                       ELSE [withDepth EXCEPT !.io[t][2].usage = "internal"]
<1>1. AdjustedIo(b, t) = IF ColorIo(b, t) THEN colored ELSE IF PositionIo(b, t) THEN fixed ELSE b
    BY Zenon DEF AdjustedIo
<1>2. CASE ColorIo(b, t)
    <2>1. Len(b.io[t]) = 1 /\ Components(b, t, 1) = 4
        BY <1>2 DEF RefusedIo
    <2>2. Adjusted(b, colored, t)
        BY <1>2, <2>1, ColorAdjusted
    <2>. HIDE DEF colored, fixed
    <2>. QED
        BY <1>1, <1>2, <2>2
<1>3. CASE ~ColorIo(b, t) /\ PositionIo(b, t)
    <2>1. Components(b, t, 1) = 4
        BY <1>3 DEF RefusedIo
    <2>2. Adjusted(b, fixed, t)
        BY <1>3, <2>1, PositionAdjusted
    <2>. HIDE DEF colored, fixed
    <2>. QED
        BY <1>1, <1>3, <2>2
<1>4. CASE ~ColorIo(b, t) /\ ~PositionIo(b, t)
    <2>. HIDE DEF colored, fixed
    <2>1. AdjustedIo(b, t) = b
        BY <1>1, <1>4
    <2>2. Len(b.io[t]) \in 0 .. MaxIo /\ b.io[t] \in Seq(UsedRegister)
        BY DEF BinaryTyped, IoTyped
    <2>3. t = "input" => b.io[t] # <<>>
        BY <1>4 DEF RefusedIo, PositionIo, IsVs, IsFs
    <2>4. t = "input" => Len(b.io[t]) >= 1
        BY <2>2, <2>3, EmptySeq DEF MaxIo
    <2>5. WellUsed(b, t)
        BY <1>4, <2>4 DEF WellUsed
    <2>. QED
        BY <1>4, <2>1, <2>5 DEF Adjusted, Same, DepthIsPosition
<1>. HIDE DEF colored, fixed
<1>. QED
    BY <1>2, <1>3, <1>4

LEMMA FinalizeIoTyped ==
    ASSUME NEW b, BinaryTyped(b), b.programType \in {"vs", "fs"}, NEW t \in IoTypes,
           \A k \in 1 .. Len(b.io[t]) : b.io[t][k].usage = "custom"
    PROVE  Finalizes(b, FinalizeIo(b, t), t)
<1>. DEFINE final == AdjustedIo(b, t)
            stored == CASE t = "input" -> [b.header EXCEPT !.inputs = HeaderOf(final, t)]
                        [] t = "output" -> [b.header EXCEPT !.outputs = HeaderOf(final, t)]
                        [] OTHER -> [b.header EXCEPT !.uniforms = HeaderOf(final, t)]
            d == [final EXCEPT !.header = stored]
<1>1. FinalizeIo(b, t) = IF RefusedIo(b, t) THEN Failed(b) ELSE d
    BY Zenon DEF FinalizeIo
<1>2. CASE RefusedIo(b, t)
    <2>. HIDE DEF d
    <2>. QED
        BY <1>1, <1>2, FailedIsTyped DEF Finalizes, Same
<1>3. CASE ~RefusedIo(b, t)
    <2>1. Adjusted(b, final, t)
        BY <1>3, IoAdjusted
    <2>. HIDE DEF final
    <2>2. BinaryTyped(final) /\ b.header = final.header
        BY <2>1 DEF Adjusted, Same
    <2>3. BinaryTyped(d) /\ SetsPart(final, d, t, HeaderOf(final, t))
        BY <2>2, SetPart, Zenon
    <2>. HIDE DEF d, stored
    <2>4. HeaderOf(d, t) = HeaderOf(final, t) /\ (WellUsed(final, t) => WellUsed(d, t))
        BY <2>3, SameIoSameHeader DEF SetsPart
    <2>6. DepthIsPosition(final) => DepthIsPosition(d)
        BY <2>3 DEF SetsPart, DepthIsPosition, ColorIo, IsFs, Index
    <2>5. Finalizes(b, d, t)
        BY <2>1, <2>3, <2>4, <2>6 DEF Finalizes, SetsPart, Adjusted, Same
    <2>. QED
        BY <1>1, <1>3, <2>5
<1>. HIDE DEF d
<1>. QED
    BY <1>2, <1>3

\* d is b with another header, words or both.
LEMMA SetHeaderWords ==
    ASSUME NEW b, BinaryTyped(b)
    PROVE  /\ \A w : [b EXCEPT !.words = w] = [programType |-> b.programType, undefinedRegs |-> b.undefinedRegs,
                   io |-> b.io, error |-> b.error, header |-> b.header, words |-> w]
           /\ \A h : [b EXCEPT !.header = h] = [programType |-> b.programType, undefinedRegs |-> b.undefinedRegs,
                   io |-> b.io, error |-> b.error, header |-> h, words |-> b.words]
           /\ \A p : [b.header EXCEPT !.programType = p] =
                   [programLength |-> b.header.programLength, programType |-> p,
                    hasNextCommand |-> b.header.hasNextCommand, inputs |-> b.header.inputs,
                    outputs |-> b.header.outputs, uniforms |-> b.header.uniforms]
           /\ \A n : [b.header EXCEPT !.programLength = n] =
                   [programLength |-> n, programType |-> b.header.programType,
                    hasNextCommand |-> b.header.hasNextCommand, inputs |-> b.header.inputs,
                    outputs |-> b.header.outputs, uniforms |-> b.header.uniforms]
<1>1. \A h : h = [programLength |-> h.programLength, programType |-> h.programType,
                  hasNextCommand |-> h.hasNextCommand, inputs |-> h.inputs,
                  outputs |-> h.outputs, uniforms |-> h.uniforms] =>
        /\ \A p : [h EXCEPT !.programType = p] =
                   [programLength |-> h.programLength, programType |-> p, hasNextCommand |-> h.hasNextCommand,
                    inputs |-> h.inputs, outputs |-> h.outputs, uniforms |-> h.uniforms]
        /\ \A n : [h EXCEPT !.programLength = n] =
                   [programLength |-> n, programType |-> h.programType, hasNextCommand |-> h.hasNextCommand,
                    inputs |-> h.inputs, outputs |-> h.outputs, uniforms |-> h.uniforms]
    OBVIOUS
<1>2. /\ \A w : [b EXCEPT !.words = w] = [programType |-> b.programType, undefinedRegs |-> b.undefinedRegs,
                   io |-> b.io, error |-> b.error, header |-> b.header, words |-> w]
      /\ \A h : [b EXCEPT !.header = h] = [programType |-> b.programType, undefinedRegs |-> b.undefinedRegs,
                   io |-> b.io, error |-> b.error, header |-> h, words |-> b.words]
    BY DEF BinaryTyped
<1>3. b.header = [programLength |-> b.header.programLength, programType |-> b.header.programType,
                  hasNextCommand |-> b.header.hasNextCommand, inputs |-> b.header.inputs,
                  outputs |-> b.header.outputs, uniforms |-> b.header.uniforms]
    BY DEF BinaryTyped
<1>4. \A p : [b.header EXCEPT !.programType = p] =
                   [programLength |-> b.header.programLength, programType |-> p,
                    hasNextCommand |-> b.header.hasNextCommand, inputs |-> b.header.inputs,
                    outputs |-> b.header.outputs, uniforms |-> b.header.uniforms]
    BY <1>1, <1>3, Zenon
<1>5. \A n : [b.header EXCEPT !.programLength = n] =
                   [programLength |-> n, programType |-> b.header.programType,
                    hasNextCommand |-> b.header.hasNextCommand, inputs |-> b.header.inputs,
                    outputs |-> b.header.outputs, uniforms |-> b.header.uniforms]
    BY <1>1, <1>3, Zenon
<1>. QED
    BY <1>2, <1>4, <1>5

LEMMA EncodeTyped ==
    ASSUME NEW b, BinaryTyped(b), NEW w
    PROVE  LET d == Encode(b, w)
           IN  /\ BinaryTyped(d) /\ d.words = b.words \o w /\ d.io = b.io /\ d.error = b.error
               /\ d.header = b.header /\ d.programType = b.programType /\ d.undefinedRegs = b.undefinedRegs
<1>1. Encode(b, w) = [b EXCEPT !.words = b.words \o w]
    BY Zenon DEF Encode
<1>2. Encode(b, w) = [programType |-> b.programType, undefinedRegs |-> b.undefinedRegs,
                      io |-> b.io, error |-> b.error, header |-> b.header, words |-> b.words \o w]
    BY <1>1, SetHeaderWords, Zenon
<1>. QED
    BY <1>2 DEF BinaryTyped

\* What a binary is once its directives are accepted.
Built(b) ==
    /\ b.error = FALSE /\ b.programType \in {"vs", "fs"} /\ b.header.programType = b.programType
    /\ \A t \in IoTypes : HeaderPart(b.header, t) = HeaderOf(b, t) /\ WellUsed(b, t)
    /\ DepthIsPosition(b)

LEMMA SameIsBuilt ==
    ASSUME NEW b, NEW d, Built(b), d.io = b.io, d.error = b.error, d.programType = b.programType,
           d.header.programType = b.header.programType,
           \A t \in IoTypes : HeaderPart(d.header, t) = HeaderPart(b.header, t)
    PROVE  Built(d)
BY SameIoSameHeader DEF Built, DepthIsPosition, ColorIo, IsFs, Index

LEMMA FinalizedTyped ==
    ASSUME NEW b, BinaryTyped(b)
    PROVE  /\ BinaryTyped(Finalized(b)) /\ Finalized(b).words = b.words \o Epilogue(b)
           /\ Finalized(b).header.programLength = Len(Finalized(b).words)
           /\ Finalized(b).io = b.io /\ Finalized(b).undefinedRegs = b.undefinedRegs
           /\ Finalized(b).programType = b.programType
           /\ Built(b) => Built(Finalized(b))
<1>. DEFINE all == Encode(b, Epilogue(b))
            n == Len(all.words)
            d == [all EXCEPT !.header.programLength = n]
<1>1. /\ BinaryTyped(all) /\ all.words = b.words \o Epilogue(b) /\ all.io = b.io /\ all.error = b.error
      /\ all.header = b.header /\ all.programType = b.programType /\ all.undefinedRegs = b.undefinedRegs
    BY EncodeTyped
<1>2. Finalized(b) = d
    BY Zenon DEF Finalized
<1>3. d = [all EXCEPT !.header = [all.header EXCEPT !.programLength = n]]
    BY Zenon
<1>. HIDE DEF all, n
<1>4. d = [programType |-> all.programType, undefinedRegs |-> all.undefinedRegs,
           io |-> all.io, error |-> all.error, header |->
               [programLength |-> n, programType |-> all.header.programType,
                hasNextCommand |-> all.header.hasNextCommand, inputs |-> all.header.inputs,
                outputs |-> all.header.outputs, uniforms |-> all.header.uniforms],
           words |-> all.words]
    <2>. HIDE DEF d
    <2>1. \A h : [all EXCEPT !.header = h] = [programType |-> all.programType, undefinedRegs |-> all.undefinedRegs,
                   io |-> all.io, error |-> all.error, header |-> h, words |-> all.words]
        BY <1>1, SetHeaderWords, Zenon
    <2>2. [all.header EXCEPT !.programLength = n] =
               [programLength |-> n, programType |-> all.header.programType,
                hasNextCommand |-> all.header.hasNextCommand, inputs |-> all.header.inputs,
                outputs |-> all.header.outputs, uniforms |-> all.header.uniforms]
        BY <1>1, SetHeaderWords, Zenon
    <2>. QED
        BY <1>3, <2>1, <2>2, Zenon
<1>. HIDE DEF d
<1>5. BinaryTyped(d)
    BY <1>1, <1>4 DEF BinaryTyped
<1>6. /\ d.words = all.words /\ d.io = all.io /\ d.error = all.error /\ d.programType = all.programType
      /\ d.undefinedRegs = all.undefinedRegs
      /\ d.header.programLength = n /\ d.header.programType = all.header.programType
      /\ \A t \in IoTypes : HeaderPart(d.header, t) = HeaderPart(all.header, t)
    BY <1>4 DEF HeaderPart
<1>7. Built(b) => Built(d)
    BY <1>1, <1>6, SameIsBuilt
<1>. QED
    BY <1>1, <1>2, <1>5, <1>6, <1>7 DEF n

LEMMA BlankedTyped ==
    ASSUME NEW b, BinaryTyped(b)
    PROVE  /\ BinaryTyped(Blanked(b)) /\ AllCustom(Blanked(b))
           /\ Blanked(b).words = [k \in DOMAIN b.words |-> BlankWord]
<1>. DEFINE w == [k \in DOMAIN b.words |-> BlankWord]
<1>1. BinaryTyped(NewBinary) /\ AllCustom(NewBinary)
    BY NewIsTyped
<1>2. Blanked(b) = [NewBinary EXCEPT !.error = b.error, !.words = w]
    BY Zenon DEF Blanked
<1>3. ASSUME NEW r, NEW e, NEW v,
             r = [programType |-> r.programType, undefinedRegs |-> r.undefinedRegs, io |-> r.io,
                  error |-> r.error, header |-> r.header, words |-> r.words]
      PROVE  [r EXCEPT !.error = e, !.words = v] =
                 [programType |-> r.programType, undefinedRegs |-> r.undefinedRegs, io |-> r.io,
                  error |-> e, header |-> r.header, words |-> v]
    <2>1. [r EXCEPT !.error = e] =
                 [programType |-> r.programType, undefinedRegs |-> r.undefinedRegs, io |-> r.io,
                  error |-> e, header |-> r.header, words |-> r.words]
        BY <1>3
    <2>2. \A x : x = [programType |-> x.programType, undefinedRegs |-> x.undefinedRegs, io |-> x.io,
                     error |-> x.error, header |-> x.header, words |-> x.words] =>
              [x EXCEPT !.words = v] =
                 [programType |-> x.programType, undefinedRegs |-> x.undefinedRegs, io |-> x.io,
                  error |-> x.error, header |-> x.header, words |-> v]
        OBVIOUS
    <2>3. [r EXCEPT !.error = e, !.words = v] = [[r EXCEPT !.error = e] EXCEPT !.words = v]
        BY Zenon
    <2>. QED
        BY <2>1, <2>2, <2>3, Zenon
<1>. HIDE DEF w
<1>4. Blanked(b) =
        [programType |-> NewBinary.programType, undefinedRegs |-> NewBinary.undefinedRegs,
         io |-> NewBinary.io, error |-> b.error, header |-> NewBinary.header, words |-> w]
    <2>1. NewBinary = [programType |-> NewBinary.programType, undefinedRegs |-> NewBinary.undefinedRegs,
                       io |-> NewBinary.io, error |-> NewBinary.error, header |-> NewBinary.header,
                       words |-> NewBinary.words]
        BY <1>1 DEF BinaryTyped
    <2>. QED
        BY <1>2, <1>3, <2>1, Zenon
<1>. QED
    BY <1>1, <1>4 DEF BinaryTyped, AllCustom, w

LEMMA HeaderTyped ==
    ASSUME NEW b, BinaryTyped(b), b.programType \in {"vs", "fs"}
    PROVE  LET d == [b EXCEPT !.header.programType = b.programType]
           IN  /\ BinaryTyped(d) /\ d.words = b.words /\ d.io = b.io /\ d.error = b.error
               /\ d.programType = b.programType /\ d.undefinedRegs = b.undefinedRegs
               /\ d.header.programType = b.programType
<1>. DEFINE h == [b.header EXCEPT !.programType = b.programType]
            d == [b EXCEPT !.header.programType = b.programType]
<1>1. d = [b EXCEPT !.header = h]
    BY Zenon
<1>2. h = [programLength |-> b.header.programLength, programType |-> b.programType,
           hasNextCommand |-> b.header.hasNextCommand, inputs |-> b.header.inputs,
           outputs |-> b.header.outputs, uniforms |-> b.header.uniforms]
    BY SetHeaderWords, Zenon
<1>3. \A x : [b EXCEPT !.header = x] = [programType |-> b.programType, undefinedRegs |-> b.undefinedRegs,
                   io |-> b.io, error |-> b.error, header |-> x, words |-> b.words]
    BY SetHeaderWords, Zenon
<1>. HIDE DEF h, d
<1>4. d = [programType |-> b.programType, undefinedRegs |-> b.undefinedRegs,
           io |-> b.io, error |-> b.error, header |-> h, words |-> b.words]
    BY <1>1, <1>3, Zenon
<1>. QED
    BY <1>2, <1>4 DEF BinaryTyped, d

\* The code generated before the user's, after that for the inputs.
Loading(b) == Nullary("lduni") \o (IF b.undefinedRegs THEN <<>> ELSE Nullary("initregs"))

\* What the end of the directives makes of b.
Completed(b, d) ==
    /\ BinaryTyped(d) /\ WellCut(d.words)
    /\ d.error = FALSE =>
          /\ Built(d)
          /\ \E code : /\ WellCut(code) /\ (IsVs(d) => code = <<>>)
                       /\ d.words = b.words \o (code \o Loading(d))

LEMMA PreambleCut ==
    ASSUME NEW b, Len(b.io["input"]) \in Nat
    PROVE  \E code : WellCut(code) /\ (IsVs(b) => code = <<>>) /\ Preamble(b) = code \o Loading(b)
<1>. DEFINE code == IF IsFs(b) THEN Interpolation(b) ELSE <<>>
            load == Nullary("lduni")
            last == IF b.undefinedRegs THEN <<>> ELSE Nullary("initregs")
<1>1. IsVs(b) => ~IsFs(b)
    BY DEF IsVs, IsFs
<1>2. WellCut(code) /\ (IsVs(b) => code = <<>>)
    BY <1>1, CutNone, CutInterpolation
<1>3. WellCut(load) /\ WellCut(last)
    BY CutNone, CutLayouts DEF NullaryOps
<1>4. Preamble(b) = (code \o load) \o last
    BY Zenon DEF Preamble
<1>5. Loading(b) = load \o last
    BY Zenon DEF Loading
<1>. HIDE DEF code, load, last
<1>6. \A x, y, z : IsSeq(x) /\ IsSeq(y) /\ IsSeq(z) => (x \o y) \o z = x \o (y \o z)
    <2>. SUFFICES ASSUME NEW x, NEW y, NEW z, IsSeq(x), IsSeq(y), IsSeq(z)
                  PROVE  (x \o y) \o z = x \o (y \o z)
        OBVIOUS
    <2>. DEFINE S == Range(x) \cup Range(y) \cup Range(z)
    <2>1. x \in Seq(Range(x)) /\ y \in Seq(Range(y)) /\ z \in Seq(Range(z))
        BY DEF IsSeq
    <2>2. \A A, B, s : A \subseteq B /\ s \in Seq(A) => s \in Seq(B)
        BY LenProperties
    <2>3. Range(x) \subseteq S /\ Range(y) \subseteq S /\ Range(z) \subseteq S
        OBVIOUS
    <2>. HIDE DEF S
    <2>4. x \in Seq(S) /\ y \in Seq(S) /\ z \in Seq(S)
        BY <2>1, <2>2, <2>3
    <2>. QED
        BY <2>4, ConcatAssociative
<1>7. Preamble(b) = code \o Loading(b)
    <2>1. IsSeq(code) /\ IsSeq(load) /\ IsSeq(last)
        BY <1>2, <1>3 DEF WellCut
    <2>2. (code \o load) \o last = code \o (load \o last)
        BY <1>6, <2>1
    <2>. QED
        BY <1>4, <1>5, <2>2, Zenon
<1>. QED
    BY <1>2, <1>7

LEMMA DirectivesFinalized ==
    ASSUME NEW b, BinaryTyped(b), AllCustom(b), WellCut(b.words)
    PROVE  Completed(b, FinalizedDirectives(b))
<1>. DEFINE typed == [b EXCEPT !.header.programType = b.programType]
            b1 == FinalizeIo(typed, "input")
            b2 == FinalizeIo(b1, "output")
            final == FinalizeIo(b2, "uniform")
            d == Encode(final, Preamble(final))
<1>1. CASE b.programType = "none"
    <2>1. FinalizedDirectives(b) = Failed(b)
        BY <1>1, Zenon DEF FinalizedDirectives
    <2>. DEFINE d1 == FinalizedDirectives(b)
    <2>2. BinaryTyped(d1) /\ d1.words = b.words /\ d1.error = TRUE
        BY <2>1, FailedIsTyped DEF Same
    <2>. HIDE DEF d1
    <2>3. ~(d1.error = FALSE) /\ WellCut(d1.words)
        BY <2>2
    <2>4. Completed(b, d1)
        BY <2>2, <2>3, Zenon DEF Completed
    <2>. QED
        BY <2>4 DEF d1
<1>2. CASE b.programType # "none"
    <2>1. b.programType \in {"vs", "fs"}
        BY <1>2 DEF BinaryTyped
    <2>2. FinalizedDirectives(b) = d
        BY <1>2, Zenon DEF FinalizedDirectives
    <2>3. /\ BinaryTyped(typed) /\ typed.words = b.words /\ typed.io = b.io /\ typed.error = b.error
          /\ typed.programType = b.programType /\ typed.undefinedRegs = b.undefinedRegs
          /\ typed.header.programType = b.programType
        BY <2>1, HeaderTyped
    <2>. HIDE DEF typed
    <2>4. "input" \in IoTypes /\ "output" \in IoTypes /\ "uniform" \in IoTypes
        BY DEF IoTypes
    <2>5. Finalizes(typed, b1, "input")
        <3>1. \A k \in 1 .. Len(typed.io["input"]) : typed.io["input"][k].usage = "custom"
            BY <2>3, <2>4 DEF AllCustom
        <3>. QED
            BY <2>1, <2>3, <2>4, <3>1, FinalizeIoTyped
    <2>. HIDE DEF b1
    <2>6. Finalizes(b1, b2, "output")
        <3>1. b1.io["output"] = b.io["output"] /\ b1.programType = b.programType /\ BinaryTyped(b1)
            BY <2>3, <2>5 DEF Finalizes, IoTypes
        <3>2. \A k \in 1 .. Len(b1.io["output"]) : b1.io["output"][k].usage = "custom"
            BY <2>4, <3>1 DEF AllCustom
        <3>. QED
            BY <2>1, <2>4, <3>1, <3>2, FinalizeIoTyped
    <2>. HIDE DEF b2
    <2>7. Finalizes(b2, final, "uniform")
        <3>1. b2.io["uniform"] = b.io["uniform"] /\ b2.programType = b.programType /\ BinaryTyped(b2)
            BY <2>3, <2>5, <2>6 DEF Finalizes, IoTypes
        <3>2. \A k \in 1 .. Len(b2.io["uniform"]) : b2.io["uniform"][k].usage = "custom"
            BY <2>4, <3>1 DEF AllCustom
        <3>. QED
            BY <2>1, <2>4, <3>1, <3>2, FinalizeIoTyped
    <2>. HIDE DEF final
    <2>8. /\ BinaryTyped(final) /\ final.words = b.words
          /\ final.programType = b.programType /\ final.header.programType = b.programType
        BY <2>3, <2>5, <2>6, <2>7 DEF Finalizes
    <2>9. final.error = FALSE => Built(final)
        <3>. SUFFICES ASSUME final.error = FALSE
                      PROVE  Built(final)
            OBVIOUS
        <3>1. b1.error = FALSE /\ b2.error = FALSE
            BY <2>6, <2>7 DEF Finalizes
        <3>2. HeaderPart(b1.header, "input") = HeaderOf(b1, "input") /\ WellUsed(b1, "input")
            BY <2>5, <3>1 DEF Finalizes
        <3>3. /\ HeaderPart(b2.header, "output") = HeaderOf(b2, "output") /\ WellUsed(b2, "output")
              /\ DepthIsPosition(b2)
            BY <2>6, <3>1 DEF Finalizes
        <3>4. HeaderPart(final.header, "uniform") = HeaderOf(final, "uniform") /\ WellUsed(final, "uniform")
            BY <2>7 DEF Finalizes
        <3>5. /\ final.io["input"] = b1.io["input"] /\ final.io["output"] = b2.io["output"]
              /\ HeaderPart(final.header, "input") = HeaderPart(b1.header, "input")
              /\ HeaderPart(final.header, "output") = HeaderPart(b2.header, "output")
              /\ final.programType = b1.programType /\ final.programType = b2.programType
            BY <2>6, <2>7 DEF Finalizes, IoTypes
        <3>6. HeaderPart(final.header, "input") = HeaderOf(final, "input") /\ WellUsed(final, "input")
            BY <3>2, <3>5, SameIoSameHeader
        <3>7. HeaderPart(final.header, "output") = HeaderOf(final, "output") /\ WellUsed(final, "output")
            BY <3>3, <3>5, SameIoSameHeader
        <3>8. DepthIsPosition(final)
            <4>1. final.io["input"] = b2.io["input"]
                BY <2>7 DEF Finalizes, IoTypes
            <4>. QED
                BY <3>3, <3>5, <4>1 DEF DepthIsPosition, ColorIo, IsFs, Index
        <3>. QED
            BY <2>1, <2>8, <3>4, <3>6, <3>7, <3>8 DEF Built, IoTypes
    <2>10. Len(final.io["input"]) \in Nat
        <3>1. Len(final.io["input"]) \in 0 .. MaxIo
            BY <2>4, <2>8 DEF BinaryTyped, IoTyped
        <3>. QED
            BY <3>1 DEF MaxIo
    <2>11. PICK code : WellCut(code) /\ (IsVs(final) => code = <<>>) /\ Preamble(final) = code \o Loading(final)
        BY <2>10, PreambleCut
    <2>12. WellCut(Preamble(final))
        BY <2>10, CutPreamble
    <2>13. /\ BinaryTyped(d) /\ d.words = final.words \o Preamble(final) /\ d.io = final.io /\ d.error = final.error
           /\ d.header = final.header /\ d.programType = final.programType /\ d.undefinedRegs = final.undefinedRegs
        BY <2>8, EncodeTyped
    <2>. HIDE DEF d
    <2>14. WellCut(d.words)
        BY <2>8, <2>12, <2>13, CutConcat
    <2>15. d.error = FALSE => Built(d)
        BY <2>9, <2>13, SameIsBuilt
    <2>16. Loading(d) = Loading(final) /\ (IsVs(d) <=> IsVs(final))
        BY <2>13 DEF Loading, IsVs
    <2>17. Completed(b, d)
        BY <2>8, <2>11, <2>13, <2>14, <2>15, <2>16 DEF Completed
    <2>. QED
        BY <2>2, <2>17
<1>. QED
    BY <1>1, <1>2

-----------------------------------------------------------------------------
(* Words, header and program counter, from the first directive to the answer. *)

LoadedPhases == {"fed", "executing", "answered"}
ReadyPhases == {"assembled", "requested"} \cup LoadedPhases

WordsInv ==
    /\ phase \in Phases
    /\ BinaryTyped(binary) /\ WellCut(binary.words)
    /\ phase = "directives" => AllCustom(binary) /\ IsBlank(binary.words)
    /\ phase \in ReadyPhases \cup {"instructions"} => Built(binary)
    /\ phase = "instructions" => source \in Sources /\ lines \in 0 .. Len(source)
    /\ phase \in ReadyPhases => binary.header.programLength = Len(binary.words)
    /\ phase \notin LoadedPhases => isa = <<>>
    /\ phase \in LoadedPhases => isa = binary.words /\ isaMetadata = binary.header
    /\ phase = "executing" => \E B : Cut(isa, B) /\ pc \in B

LEMMA WordsInit == Init => WordsInv
<1>. SUFFICES ASSUME Init PROVE WordsInv
    OBVIOUS
<1>1. phase = "directives" /\ binary = NewBinary /\ isa = <<>> /\ NewBinary.words = <<>>
    BY DEF Init, NewBinary
<1>. QED
    BY <1>1, NewIsTyped, CutNone DEF WordsInv, Phases, ReadyPhases, LoadedPhases

LEMMA WordsDirective ==
    ASSUME WordsInv, NEW d \in Directives, ParseDirective(d)
    PROVE  WordsInv'
<1>1. phase = "directives" /\ phase' \in {"directives", "refused"} /\ isa' = isa
    BY DEF ParseDirective, unitVars
<1>2. BinaryTyped(binary') /\ AllCustom(binary') /\ binary'.words = binary.words
    BY <1>1, DirectiveTyped DEF WordsInv
<1>. QED
    BY <1>1, <1>2 DEF WordsInv, Phases, Failures, ReadyPhases, LoadedPhases

LEMMA WordsFinalizeDirectives ==
    ASSUME WordsInv, FinalizeDirectives
    PROVE  WordsInv'
<1>1. /\ phase = "directives" /\ phase' = IF binary'.error THEN "refused" ELSE "instructions"
      /\ isa' = isa /\ binary' = FinalizedDirectives(binary) /\ source' \in Sources /\ lines' = 0
    BY DEF FinalizeDirectives, unitVars
<1>2. Completed(binary, binary')
    BY <1>1, DirectivesFinalized DEF WordsInv
<1>3. BinaryTyped(binary') /\ WellCut(binary'.words) /\ (binary'.error = FALSE => Built(binary'))
    BY <1>2 DEF Completed
<1>4. binary'.error \in BOOLEAN
    BY <1>3 DEF BinaryTyped
<1>5. lines' \in 0 .. Len(source')
    <2>1. source' \in Seq(Range(source'))
        BY <1>1, ProgramAssumption
    <2>. QED
        BY <1>1, <2>1, LenProperties
<1>6. phase' \in {"refused", "instructions"} /\ (phase' = "instructions" => binary'.error = FALSE)
    BY <1>1, <1>4
<1>. QED
    BY <1>1, <1>3, <1>5, <1>6 DEF WordsInv, Phases, Failures, ReadyPhases, LoadedPhases

LEMMA WordsInstruction ==
    ASSUME WordsInv, ParseInstruction
    PROVE  WordsInv'
<1>. DEFINE words == Assembled(source[lines + 1])
<1>1. /\ phase = "instructions" /\ lines < Len(source) /\ isa' = isa
      /\ \/ binary' = Encode(binary, words) /\ phase' = phase
         \/ binary' = binary /\ phase' = "stopped"
      /\ lines' = lines + 1 /\ source' = source
    BY DEF ParseInstruction, unitVars
<1>2. source \in Sources /\ source \in Seq(Range(source)) /\ \A n \in DOMAIN source : IsLine(source[n])
    BY <1>1, ProgramAssumption DEF WordsInv
<1>3. lines \in 0 .. Len(source) /\ Len(source) \in Nat /\ DOMAIN source = 1 .. Len(source)
    BY <1>1, <1>2, LenProperties DEF WordsInv
<1>4. lines + 1 \in 1 .. Len(source)
    BY <1>1, <1>3
<1>5. WellCut(words)
    BY <1>2, <1>3, <1>4, CutAssembled
<1>. HIDE DEF words
<1>6. CASE binary' = binary /\ phase' = "stopped"
    BY <1>1, <1>6 DEF WordsInv, Phases, Failures, ReadyPhases, LoadedPhases
<1>7. CASE binary' = Encode(binary, words) /\ phase' = phase
    <2>1. /\ BinaryTyped(binary') /\ binary'.words = binary.words \o words /\ binary'.io = binary.io
          /\ binary'.error = binary.error /\ binary'.header = binary.header
          /\ binary'.programType = binary.programType
        BY <1>7, EncodeTyped DEF WordsInv
    <2>2. WellCut(binary'.words)
        BY <1>5, <2>1, CutConcat DEF WordsInv
    <2>3. Built(binary')
        BY <1>1, <2>1, SameIsBuilt DEF WordsInv
    <2>4. lines' \in 0 .. Len(source')
        BY <1>1, <1>4
    <2>. QED
        BY <1>1, <1>2, <1>7, <2>1, <2>2, <2>3, <2>4 DEF WordsInv, Phases, ReadyPhases, LoadedPhases
<1>. QED
    BY <1>1, <1>6, <1>7

LEMMA WordsFinalizeInstructions ==
    ASSUME WordsInv, FinalizeInstructions
    PROVE  WordsInv'
<1>1. /\ phase = "instructions" /\ binary' = Finalized(binary) /\ phase' \in {"assembled", "stopped"}
      /\ isa' = isa
    BY DEF FinalizeInstructions, unitVars
<1>2. /\ BinaryTyped(binary') /\ binary'.words = binary.words \o Epilogue(binary)
      /\ binary'.header.programLength = Len(binary'.words) /\ Built(binary')
    BY <1>1, FinalizedTyped DEF WordsInv
<1>3. WellCut(binary'.words)
    BY <1>2, CutEpilogue, CutConcat DEF WordsInv
<1>. QED
    BY <1>1, <1>2, <1>3 DEF WordsInv, Phases, Failures, ReadyPhases, LoadedPhases

LEMMA WordsReset ==
    ASSUME WordsInv, Reset
    PROVE  WordsInv'
<1>1. /\ phase \in {"assembled", "refused"} /\ binary' = Blanked(binary) /\ phase' = "directives" /\ isa' = isa
    BY DEF Reset, unitVars
<1>2. BinaryTyped(binary') /\ AllCustom(binary') /\ binary'.words = [k \in DOMAIN binary.words |-> BlankWord]
    BY <1>1, BlankedTyped DEF WordsInv
<1>3. Len(binary.words) \in Nat /\ DOMAIN binary.words = 1 .. Len(binary.words)
    BY LenProperties DEF WordsInv, WellCut, IsSeq
<1>4. IsBlank(binary'.words)
    BY <1>2, <1>3 DEF IsBlank
<1>5. WellCut(binary'.words)
    BY <1>2, <1>3, CutBlank
<1>. QED
    BY <1>1, <1>2, <1>4, <1>5 DEF WordsInv, Phases, Failures, ReadyPhases, LoadedPhases

LEMMA WordsFeed ==
    ASSUME WordsInv, FeedUnit
    PROVE  WordsInv'
<1>1. /\ phase = "requested" /\ binary' = binary
      /\ \/ StoreIsa(binary.header, binary.words) /\ phase' = "fed"
         \/ UNCHANGED unitVars /\ phase' = "rejected"
    BY DEF FeedUnit
<1>2. CASE UNCHANGED unitVars /\ phase' = "rejected"
    BY <1>1, <1>2 DEF WordsInv, Phases, Failures, ReadyPhases, LoadedPhases, unitVars
<1>3. CASE StoreIsa(binary.header, binary.words) /\ phase' = "fed"
    <2>. DEFINE words == binary.words
                n == binary.header.programLength
    <2>1. words \in Seq(Range(words)) /\ n = Len(words) /\ isa = <<>>
        BY <1>1 DEF WordsInv, ReadyPhases, LoadedPhases, WellCut, IsSeq
    <2>2. Max({Len(isa), n}) = Len(words)
        <3>1. Len(isa) = 0 /\ n \in Nat
            BY <2>1, LenProperties
        <3>. HIDE DEF n, words
        <3>. QED
            BY <2>1, <3>1, MaxOfTwo
    <2>3. isa' = [k \in 1 .. Max({Len(isa), n}) |-> IF k <= n THEN words[k] ELSE isa[k]] /\ isaMetadata' = binary.header
        BY <1>3 DEF StoreIsa
    <2>4. isa' = words
        <3>1. words = [k \in 1 .. Len(words) |-> words[k]]
            BY <2>1, LenProperties
        <3>. HIDE DEF n, words
        <3>2. isa' = [k \in 1 .. Len(words) |-> IF k <= Len(words) THEN words[k] ELSE isa[k]]
            BY <2>1, <2>2, <2>3
        <3>3. Len(words) \in Nat /\ \A k \in 1 .. Len(words) : k <= Len(words)
            BY <2>1, LenProperties
        <3>4. isa' = [k \in 1 .. Len(words) |-> words[k]]
            BY <3>2, <3>3
        <3>. QED
            BY <3>1, <3>4
    <2>. QED
        BY <1>1, <1>3, <2>3, <2>4 DEF WordsInv, Phases, ReadyPhases, LoadedPhases
<1>. QED
    BY <1>1, <1>2, <1>3

LEMMA WordsStart ==
    ASSUME WordsInv, StartUnit
    PROVE  WordsInv'
<1>1. /\ phase = "fed" /\ phase' = "executing" /\ binary' = binary /\ pc' = 0
      /\ isaMetadata' = isaMetadata /\ isa' = isa
    BY DEF StartUnit, InitializeInputRegisters
<1>2. WellCut(isa) /\ isa = binary.words
    BY <1>1 DEF WordsInv, LoadedPhases
<1>3. \E B : Cut(isa', B) /\ pc' \in B
    BY <1>1, <1>2 DEF WellCut, Cut
<1>. QED
    BY <1>1, <1>3 DEF WordsInv, Phases, ReadyPhases, LoadedPhases

LEMMA WordsRun ==
    ASSUME WordsInv, RunUnit
    PROVE  WordsInv'
<1>1. /\ phase = "executing" /\ phase' = phase /\ binary' = binary /\ pc' = pc + Size(isa[pc + 1])
      /\ pc < isaMetadata.programLength /\ isaMetadata' = isaMetadata /\ isa' = isa
      /\ source' = source /\ lines' = lines
    BY DEF RunUnit, ExecuteInstruction, programVars
<1>2. isaMetadata.programLength = Len(isa)
    BY <1>1 DEF WordsInv, ReadyPhases, LoadedPhases
<1>3. PICK B : Cut(isa, B) /\ pc \in B
    BY <1>1 DEF WordsInv
<1>4. pc \in B \ {Len(isa)}
    <2>1. pc # Len(isa)
        <3>1. WellCut(isa)
            BY <1>1 DEF WordsInv, LoadedPhases
        <3>2. Len(isa) \in Nat
            BY <3>1, LenProperties DEF WellCut, IsSeq
        <3>. QED
            BY <1>1, <1>2, <3>2
    <2>. QED
        BY <1>3, <2>1
<1>5. Cut(isa', B) /\ pc' \in B
    BY <1>1, <1>3, <1>4 DEF Cut
<1>. QED
    BY <1>1, <1>5 DEF WordsInv, Phases, ReadyPhases, LoadedPhases

LEMMA WordsOther ==
    ASSUME WordsInv,
           \/ \E triangle \in 0 .. PrimitiveCount - 1 : RequestVertices(triangle)
           \/ \E triangle \in Triangles : RequestFragments(triangle)
           \/ Answer \/ UNCHANGED vars
    PROVE  WordsInv'
<1>1. CASE \/ \E triangle \in 0 .. PrimitiveCount - 1 : RequestVertices(triangle)
           \/ \E triangle \in Triangles : RequestFragments(triangle)
    <2>1. phase = "assembled" /\ phase' = "requested" /\ binary' = binary /\ isa' = isa
        BY <1>1 DEF RequestVertices, RequestFragments, unitVars
    <2>. QED
        BY <2>1 DEF WordsInv, Phases, ReadyPhases, LoadedPhases
<1>2. CASE Answer
    <2>1. /\ phase = "executing" /\ phase' = "answered" /\ binary' = binary /\ isa' = isa
          /\ isaMetadata' = isaMetadata
        BY <1>2 DEF Answer, unitVars
    <2>. QED
        BY <2>1 DEF WordsInv, Phases, ReadyPhases, LoadedPhases
<1>3. CASE UNCHANGED vars
    BY <1>3 DEF vars, unitVars, programVars, WordsInv
<1>. QED
    BY <1>1, <1>2, <1>3

LEMMA WordsStep == WordsInv /\ [Next]_vars => WordsInv'
<1>. SUFFICES ASSUME WordsInv, [Next]_vars
              PROVE  WordsInv'
    OBVIOUS
<1>1. CASE \E d \in Directives : ParseDirective(d)
    BY <1>1, WordsDirective
<1>2. CASE FinalizeDirectives
    BY <1>2, WordsFinalizeDirectives
<1>3. CASE ParseInstruction
    BY <1>3, WordsInstruction
<1>4. CASE FinalizeInstructions
    BY <1>4, WordsFinalizeInstructions
<1>5. CASE Reset
    BY <1>5, WordsReset
<1>6. CASE FeedUnit
    BY <1>6, WordsFeed
<1>7. CASE StartUnit
    BY <1>7, WordsStart
<1>8. CASE RunUnit
    BY <1>8, WordsRun
<1>9. CASE \/ \E triangle \in 0 .. PrimitiveCount - 1 : RequestVertices(triangle)
           \/ \E triangle \in Triangles : RequestFragments(triangle)
           \/ Answer \/ UNCHANGED vars
    BY <1>9, WordsOther
<1>. QED
    BY <1>1, <1>2, <1>3, <1>4, <1>5, <1>6, <1>7, <1>8, <1>9 DEF Next, Assemble, Serve, Finished

LEMMA WordsAlways == Spec => []WordsInv
BY WordsInit, WordsStep, PTL DEF Spec

\* The unit's program counter is at the first word of an instruction whenever it
\* fetches one, whatever text was assembled into whatever used binary.
THEOREM AtInstructionAlways == Spec => []AtInstruction
<1>1. WordsInv => AtInstruction
    <2>. SUFFICES ASSUME WordsInv, phase = "executing"
                  PROVE  /\ pc <= isaMetadata.programLength
                         /\ pc < isaMetadata.programLength => isa[pc + 1].op # "imm"
        BY DEF AtInstruction
    <2>1. isaMetadata.programLength = Len(isa) /\ WellCut(isa)
        BY DEF WordsInv, ReadyPhases, LoadedPhases
    <2>2. PICK B : Cut(isa, B) /\ pc \in B
        BY DEF WordsInv
    <2>3. Len(isa) \in Nat
        BY <2>1, LenProperties DEF WellCut, IsSeq
    <2>4. pc \in 0 .. Len(isa)
        BY <2>2 DEF Cut
    <2>5. pc < Len(isa) => isa[pc + 1].op # "imm"
        BY <2>2, <2>3, <2>4 DEF Cut
    <2>. QED
        BY <2>1, <2>3, <2>4, <2>5
<1>. QED
    BY <1>1, WordsAlways, PTL

-----------------------------------------------------------------------------
(* The request of a shading block, against the header it comes with.         *)

RequestOf(b) ==
    IF IsVs(b)
    THEN VsRequest(VsCustomInputComponents(b), VsPsCustomComponents(b), Uniforms(b))
    ELSE FsRequest(Len(Fragments), VsPsCustomComponents(b), Uniforms(b))

LEMMA EncodedCounts ==
    /\ \A n \in 1 .. 4 : Decoded(Encoded(n)) = n /\ Encoded(n) = n - 1
    /\ \A n \in 1 .. 3 : OneMore(n - 1) = Encoded(n)
<1>1. \A n \in 1 .. 4 : Decoded(Encoded(n)) = n /\ Encoded(n) = n - 1
    BY DEF Decoded, Encoded
<1>2. ASSUME NEW n \in 1 .. 3
      PROVE  OneMore(n - 1) = Encoded(n)
    <2>1. n = 1 \/ n = 2 \/ n = 3
        OBVIOUS
    <2>2. OneMore(0) = Encoded(1) /\ OneMore(1) = Encoded(2) /\ OneMore(2) = Encoded(3)
        BY DEF OneMore, Encoded
    <2>3. 1 - 1 = 0 /\ 2 - 1 = 1 /\ 3 - 1 = 2
        OBVIOUS
    <2>. QED
        BY <2>1, <2>2, <2>3
<1>. QED
    BY <1>1, <1>2

\* How many registers of each type there are, and how large.
LEMMA IoSizes ==
    ASSUME NEW b, BinaryTyped(b), NEW t \in IoTypes
    PROVE  /\ Len(b.io[t]) \in 0 .. 3 /\ DOMAIN b.io[t] = 1 .. Len(b.io[t])
           /\ \A k \in 1 .. Len(b.io[t]) : /\ Components(b, t, k) \in 1 .. 4
                                           /\ Index(b, t, k) = b.io[t][k].index /\ Index(b, t, k) \in Registers
           /\ \A k \in Nat : k > Len(b.io[t]) => Components(b, t, k) = 0 /\ Index(b, t, k) = 0
<1>1. b.io[t] \in Seq(UsedRegister) /\ Len(b.io[t]) \in 0 .. 3
    BY DEF BinaryTyped, IoTyped, MaxIo
<1>2. DOMAIN b.io[t] = 1 .. Len(b.io[t]) /\ \A k \in 1 .. Len(b.io[t]) : b.io[t][k] \in UsedRegister
    BY <1>1, LenProperties
<1>3. ASSUME NEW k \in 1 .. Len(b.io[t])
      PROVE  /\ Components(b, t, k) \in 1 .. 4
             /\ Index(b, t, k) = b.io[t][k].index /\ Index(b, t, k) \in Registers
    <2>1. k <= Len(b.io[t])
        BY <1>1
    <2>2. b.io[t][k].mask \in {8, 12, 14, 15} /\ b.io[t][k].index \in Registers
        BY <1>2 DEF UsedRegister
    <2>. QED
        BY <2>1, <2>2, BitsOfMasks DEF Components, Index
<1>4. \A k \in Nat : k > Len(b.io[t]) => Components(b, t, k) = 0 /\ Index(b, t, k) = 0
    BY <1>1 DEF Components, Index
<1>. QED
    BY <1>1, <1>2, <1>3, <1>4

LEMMA PinsOfRest ==
    ASSUME NEW b, BinaryTyped(b), NEW t \in IoTypes, NEW a \in {1, 2}, a <= Len(b.io[t]) + 1
    PROVE  LET pins == Pins(b, t, a .. Len(b.io[t]))
           IN  /\ pins.count = Len(b.io[t]) - a + 1
               /\ \A k \in 1 .. 3 : pins.comp[k] = Encoded(Components(b, t, k + a - 1))
<1>. DEFINE n == Len(b.io[t])
            ks == a .. n
            Kth(k) == CHOOSE j \in ks : Cardinality({i \in ks : i < j}) = k - 1
            pins == Pins(b, t, ks)
<1>1. n \in 0 .. 3 /\ a <= n + 1 /\ \A k \in Nat : k > n => Components(b, t, k) = 0
    BY IoSizes
<1>. HIDE DEF n
<1>2. Cardinality(ks) = n - a + 1
    BY <1>1, FS_Interval
<1>3. ASSUME NEW j \in ks
      PROVE  Cardinality({i \in ks : i < j}) = j - a
    <2>1. {i \in ks : i < j} = a .. j - 1
        BY <1>1
    <2>2. Cardinality(a .. j - 1) = j - a
        <3>. DEFINE i == j - 1
        <3>1. i \in Int /\ a \in Int /\ (IF a > i THEN 0 ELSE i - a + 1) = j - a
            BY <1>1
        <3>. HIDE DEF i
        <3>2. Cardinality(a .. i) = IF a > i THEN 0 ELSE i - a + 1
            BY <3>1, FS_Interval
        <3>. QED
            BY <3>1, <3>2 DEF i
    <2>. QED
        BY <2>1, <2>2
<1>4. ASSUME NEW k \in 1 .. 3, k <= n - a + 1
      PROVE  Kth(k) = k + a - 1
    <2>1. k + a - 1 \in ks
        BY <1>1, <1>4
    <2>2. \A j \in ks : Cardinality({i \in ks : i < j}) = k - 1 <=> j = k + a - 1
        BY <1>1, <1>3
    <2>. HIDE DEF ks
    <2>. QED
        BY <2>1, <2>2
<1>5. ASSUME NEW k \in 1 .. 3
      PROVE  pins.comp[k] = Encoded(Components(b, t, k + a - 1))
    <2>1. pins.comp[k] = Encoded(IF k <= Cardinality(ks) THEN Components(b, t, Kth(k)) ELSE 0)
        BY DEF Pins, MaxIo
    <2>2. CASE k <= n - a + 1
        <3>. HIDE DEF Kth, ks, pins
        <3>. QED
            BY <1>2, <1>4, <2>1, <2>2
    <2>3. CASE ~(k <= n - a + 1)
        <3>1. k + a - 1 \in Nat /\ k + a - 1 > n
            BY <1>1, <2>3
        <3>. HIDE DEF Kth, ks, pins
        <3>. QED
            BY <1>1, <1>2, <2>1, <2>3, <3>1
    <2>. QED
        BY <2>2, <2>3
<1>6. pins.count = n - a + 1
    BY <1>2 DEF Pins
<1>. QED
    BY <1>5, <1>6 DEF n

\* The pins, one register after the other.
LEMMA PinsOfBuilt ==
    ASSUME NEW b, BinaryTyped(b), Built(b)
    PROVE  /\ Uniforms(b).count = Len(b.io["uniform"])
           /\ \A k \in 1 .. 3 : Uniforms(b).comp[k] = Encoded(Components(b, "uniform", k))
           /\ IsVs(b) =>
                /\ VsCustomInputComponents(b).count = Len(b.io["input"])
                /\ \A k \in 1 .. 3 : VsCustomInputComponents(b).comp[k] = Encoded(Components(b, "input", k))
                /\ VsPsCustomComponents(b).count = Len(b.io["output"]) - 1
                /\ \A k \in 1 .. 3 : VsPsCustomComponents(b).comp[k] = Encoded(Components(b, "output", k + 1))
           /\ IsFs(b) =>
                /\ VsPsCustomComponents(b).count = Len(b.io["input"]) - 1
                /\ \A k \in 1 .. 3 : VsPsCustomComponents(b).comp[k] = Encoded(Components(b, "input", k + 1))
<1>1. \A t \in IoTypes : Len(b.io[t]) \in 0 .. 3 /\ DOMAIN b.io[t] = 1 .. Len(b.io[t])
    BY IoSizes
<1>2. "uniform" \in IoTypes /\ "input" \in IoTypes /\ "output" \in IoTypes /\ 1 \in {1, 2} /\ 2 \in {1, 2}
    BY DEF IoTypes
<1>3. \A t \in IoTypes :
        LET pins == Pins(b, t, 1 .. Len(b.io[t]))
        IN  /\ pins.count = Len(b.io[t])
            /\ \A k \in 1 .. 3 : pins.comp[k] = Encoded(Components(b, t, k))
    <2>. SUFFICES ASSUME NEW t \in IoTypes
                  PROVE  LET pins == Pins(b, t, 1 .. Len(b.io[t]))
                         IN  /\ pins.count = Len(b.io[t])
                             /\ \A k \in 1 .. 3 : pins.comp[k] = Encoded(Components(b, t, k))
        OBVIOUS
    <2>. DEFINE pins == Pins(b, t, 1 .. Len(b.io[t]))
    <2>1. 1 <= Len(b.io[t]) + 1
        BY <1>1
    <2>2. /\ pins.count = Len(b.io[t]) - 1 + 1
          /\ \A k \in 1 .. 3 : pins.comp[k] = Encoded(Components(b, t, k + 1 - 1))
        BY <1>2, <2>1, PinsOfRest
    <2>3. Len(b.io[t]) - 1 + 1 = Len(b.io[t]) /\ \A k \in 1 .. 3 : k + 1 - 1 = k
        BY <1>1
    <2>. HIDE DEF pins
    <2>. QED
        BY <2>2, <2>3 DEF pins
<1>4. ASSUME NEW t \in IoTypes, PositionIo(b, t)
      PROVE  LET pins == Pins(b, t, {k \in DOMAIN b.io[t] : b.io[t][k].usage = "custom"})
             IN  /\ pins.count = Len(b.io[t]) - 1
                 /\ \A k \in 1 .. 3 : pins.comp[k] = Encoded(Components(b, t, k + 1))
    <2>. DEFINE pins == Pins(b, t, 2 .. Len(b.io[t]))
    <2>1. ~ColorIo(b, t)
        BY <1>4 DEF PositionIo, ColorIo, IsVs, IsFs
    <2>2. /\ Len(b.io[t]) >= 1 /\ b.io[t][1].usage # "custom"
          /\ \A k \in 2 .. Len(b.io[t]) : b.io[t][k].usage = "custom"
        BY <1>4, <2>1 DEF Built, WellUsed
    <2>3. {k \in DOMAIN b.io[t] : b.io[t][k].usage = "custom"} = 2 .. Len(b.io[t])
        <3>1. Len(b.io[t]) \in Nat /\ \A k \in 1 .. Len(b.io[t]) : k = 1 \/ k \in 2 .. Len(b.io[t])
            BY <1>1
        <3>. QED
            BY <1>1, <2>2, <3>1
    <2>4. 2 <= Len(b.io[t]) + 1
        BY <1>1, <2>2
    <2>5. /\ pins.count = Len(b.io[t]) - 2 + 1
          /\ \A k \in 1 .. 3 : pins.comp[k] = Encoded(Components(b, t, k + 2 - 1))
        BY <1>2, <2>4, PinsOfRest
    <2>6. Len(b.io[t]) - 2 + 1 = Len(b.io[t]) - 1 /\ \A k \in 1 .. 3 : k + 2 - 1 = k + 1
        BY <1>1
    <2>7. /\ pins.count = Len(b.io[t]) - 1
          /\ \A k \in 1 .. 3 : pins.comp[k] = Encoded(Components(b, t, k + 1))
        <3>. HIDE DEF pins
        <3>. QED
            BY <2>5, <2>6
    <2>. QED
        BY <2>3, <2>7
<1>5. IsVs(b) => PositionIo(b, "output") /\ ~IsFs(b)
    BY DEF PositionIo, IsVs, IsFs
<1>6. IsFs(b) => PositionIo(b, "input") /\ ~IsVs(b)
    BY DEF PositionIo, IsVs, IsFs
<1>7. /\ Uniforms(b).count = Len(b.io["uniform"])
      /\ \A k \in 1 .. 3 : Uniforms(b).comp[k] = Encoded(Components(b, "uniform", k))
      /\ VsCustomInputComponents(b).count = Len(b.io["input"])
      /\ \A k \in 1 .. 3 : VsCustomInputComponents(b).comp[k] = Encoded(Components(b, "input", k))
    BY <1>1, <1>2, <1>3 DEF Uniforms, VsCustomInputComponents
<1>8. IsVs(b) =>
                /\ VsPsCustomComponents(b).count = Len(b.io["output"]) - 1
                /\ \A k \in 1 .. 3 : VsPsCustomComponents(b).comp[k] = Encoded(Components(b, "output", k + 1))
    BY <1>2, <1>4, <1>5 DEF VsPsCustomComponents
<1>9. IsFs(b) =>
                /\ VsPsCustomComponents(b).count = Len(b.io["input"]) - 1
                /\ \A k \in 1 .. 3 : VsPsCustomComponents(b).comp[k] = Encoded(Components(b, "input", k + 1))
    BY <1>2, <1>4, <1>6 DEF VsPsCustomComponents
<1>. QED
    BY <1>7, <1>8, <1>9

\* Counts and sizes of a block's request are those of the header, but for the two
\* components of a fragment's position that are sent for each thread.
DescribedBy(r, header) ==
    /\ header.inputs.count = r.inputs.count /\ header.outputs.count = r.outputs.count
    /\ header.uniforms.count = r.uniforms.count
    /\ \A k \in 1 .. 3 : header.uniforms.size[k] = r.uniforms.size[k]
    /\ \A k \in 2 .. 3 : header.inputs.size[k] = r.inputs.size[k]
    /\ IF r.programType = "fs"
       THEN r.inputs.size[1] = Encoded(2) /\ header.inputs.size[1] = Encoded(4)
       ELSE header.inputs.size[1] = r.inputs.size[1]
    /\ \A k \in 1 .. Decoded(header.outputs.count) : header.outputs.size[k] = r.outputs.size[k]

\* The header a built binary has.
HeaderFacts(b) ==
    /\ b.header.programType = b.programType
    /\ b.header.inputs.count = Encoded(Len(b.io["input"])) /\ Len(b.io["input"]) \in 1 .. 3
    /\ b.header.outputs.count = Encoded(Len(b.io["output"])) /\ Len(b.io["output"]) \in 1 .. 3
    /\ b.header.uniforms.count = Len(b.io["uniform"]) /\ Len(b.io["uniform"]) \in 0 .. 3
    /\ \A k \in 1 .. 3 :
          /\ b.header.inputs.size[k] = Encoded(Components(b, "input", k))
          /\ b.header.outputs.size[k] = Encoded(Components(b, "output", k))
          /\ b.header.uniforms.size[k] = Encoded(Components(b, "uniform", k))
          /\ b.header.inputs.reg[k] = Index(b, "input", k)
          /\ b.header.outputs.reg[k] = Index(b, "output", k)
          /\ b.header.uniforms.reg[k] = Index(b, "uniform", k)

LEMMA BuiltHeader ==
    ASSUME NEW b, BinaryTyped(b), Built(b)
    PROVE  HeaderFacts(b)
<1>1. \A t \in IoTypes : Len(b.io[t]) \in 0 .. 3
    BY IoSizes
<1>2. /\ b.header.inputs = HeaderOf(b, "input") /\ WellUsed(b, "input")
      /\ b.header.outputs = HeaderOf(b, "output") /\ WellUsed(b, "output")
      /\ b.header.uniforms = HeaderOf(b, "uniform")
    BY DEF Built, HeaderPart, IoTypes
<1>3. Len(b.io["input"]) >= 1
    BY <1>2 DEF WellUsed, ColorIo
<1>4. Len(b.io["output"]) >= 1
    <2>1. ColorIo(b, "output") \/ PositionIo(b, "output")
        BY DEF Built, ColorIo, PositionIo, IsVs, IsFs
    <2>. QED
        BY <1>2, <2>1 DEF WellUsed
<1>5. \A t \in IoTypes : /\ HeaderOf(b, t).count = IF t = "uniform" THEN Len(b.io[t]) ELSE Encoded(Len(b.io[t]))
                         /\ \A k \in 1 .. 3 : /\ HeaderOf(b, t).size[k] = Encoded(Components(b, t, k))
                                              /\ HeaderOf(b, t).reg[k] = Index(b, t, k)
    BY DEF HeaderOf, MaxIo
<1>6. b.header.programType = b.programType
    BY DEF Built
<1>. QED
    BY <1>1, <1>2, <1>3, <1>4, <1>5, <1>6 DEF HeaderFacts, IoTypes

LEMMA RequestDescribed ==
    ASSUME NEW b, BinaryTyped(b), Built(b)
    PROVE  /\ DescribedBy(RequestOf(b), b.header) /\ RequestOf(b).programType = b.programType
           /\ RequestOf(b).threads = IF IsVs(b) THEN 3 ELSE Len(Fragments)
<1>. DEFINE r == RequestOf(b)
            h == b.header
<1>1. HeaderFacts(b)
    BY BuiltHeader
<1>2. \A n \in 1 .. 3 : OneMore(n - 1) = Encoded(n) /\ Decoded(Encoded(n)) = n
    BY EncodedCounts
<1>3. \A k \in 1 .. 3 : k = 1 \/ k = 2 \/ k = 3
    OBVIOUS
<1>4. /\ Uniforms(b).count = Len(b.io["uniform"])
      /\ \A k \in 1 .. 3 : Uniforms(b).comp[k] = Encoded(Components(b, "uniform", k))
    BY PinsOfBuilt
<1>5. CASE IsVs(b)
    <2>. DEFINE inputs == VsCustomInputComponents(b)
                outputs == VsPsCustomComponents(b)
                uniforms == Uniforms(b)
    <2>1. /\ inputs.count = Len(b.io["input"])
          /\ \A k \in 1 .. 3 : inputs.comp[k] = Encoded(Components(b, "input", k))
          /\ outputs.count = Len(b.io["output"]) - 1
          /\ outputs.comp[1] = Encoded(Components(b, "output", 2))
          /\ outputs.comp[2] = Encoded(Components(b, "output", 3))
        <3>1. /\ inputs.count = Len(b.io["input"])
              /\ \A k \in 1 .. 3 : inputs.comp[k] = Encoded(Components(b, "input", k))
              /\ outputs.count = Len(b.io["output"]) - 1
              /\ \A k \in 1 .. 3 : outputs.comp[k] = Encoded(Components(b, "output", k + 1))
            BY <1>5, PinsOfBuilt
        <3>2. 1 \in 1 .. 3 /\ 2 \in 1 .. 3 /\ 1 + 1 = 2 /\ 2 + 1 = 3
            OBVIOUS
        <3>. HIDE DEF inputs, outputs
        <3>. QED
            BY <3>1, <3>2
    <2>2. Components(b, "output", 1) = 4
        <3>1. WellUsed(b, "output") /\ PositionIo(b, "output") /\ ~ColorIo(b, "output")
            BY <1>5 DEF Built, IoTypes, PositionIo, ColorIo, IsVs, IsFs
        <3>. QED
            BY <3>1 DEF WellUsed
    <2>3. r = VsRequest(inputs, outputs, uniforms)
        BY <1>5 DEF RequestOf
    <2>. HIDE DEF inputs, outputs, uniforms, r
    <2>4. /\ r.programType = "vs" /\ r.threads = 3
          /\ r.inputs.count = Encoded(inputs.count) /\ r.inputs.size = inputs.comp
          /\ r.outputs.count = OneMore(outputs.count)
          /\ r.outputs.size[1] = Encoded(4) /\ r.outputs.size[2] = outputs.comp[1] /\ r.outputs.size[3] = outputs.comp[2]
          /\ r.uniforms.count = uniforms.count /\ r.uniforms.size = uniforms.comp
        BY <2>3 DEF VsRequest, VsThreads
    <2>5. \A k \in 1 .. 3 : h.outputs.size[k] = r.outputs.size[k]
        BY <1>1, <1>3, <2>1, <2>2, <2>4 DEF HeaderFacts
    <2>6. /\ h.inputs.count = r.inputs.count /\ h.uniforms.count = r.uniforms.count
          /\ h.outputs.count = r.outputs.count /\ Decoded(h.outputs.count) \in 1 .. 3
        BY <1>1, <1>2, <1>4, <2>1, <2>4 DEF HeaderFacts, uniforms
    <2>7. \A k \in 1 .. 3 : h.inputs.size[k] = r.inputs.size[k] /\ h.uniforms.size[k] = r.uniforms.size[k]
        BY <1>1, <1>4, <2>1, <2>4 DEF HeaderFacts, uniforms
    <2>8. DescribedBy(r, h)
        BY <2>4, <2>5, <2>6, <2>7 DEF DescribedBy
    <2>. QED
        BY <1>5, <2>4, <2>8 DEF r, IsVs
<1>6. CASE ~IsVs(b)
    <2>. DEFINE inputs == VsPsCustomComponents(b)
                uniforms == Uniforms(b)
    <2>1. IsFs(b) /\ b.programType = "fs"
        BY <1>6 DEF Built, IsVs, IsFs
    <2>2. /\ inputs.count = Len(b.io["input"]) - 1
          /\ inputs.comp[1] = Encoded(Components(b, "input", 2))
          /\ inputs.comp[2] = Encoded(Components(b, "input", 3))
        <3>1. /\ inputs.count = Len(b.io["input"]) - 1
              /\ \A k \in 1 .. 3 : inputs.comp[k] = Encoded(Components(b, "input", k + 1))
            BY <2>1, PinsOfBuilt
        <3>2. 1 \in 1 .. 3 /\ 2 \in 1 .. 3 /\ 1 + 1 = 2 /\ 2 + 1 = 3
            OBVIOUS
        <3>. HIDE DEF inputs
        <3>. QED
            BY <3>1, <3>2
    <2>3. /\ Components(b, "input", 1) = 4
          /\ Len(b.io["output"]) = 2 /\ Components(b, "output", 1) = 4 /\ Components(b, "output", 2) = 1
        <3>1. /\ WellUsed(b, "output") /\ ColorIo(b, "output")
              /\ WellUsed(b, "input") /\ PositionIo(b, "input") /\ ~ColorIo(b, "input")
            BY <2>1 DEF Built, IoTypes, PositionIo, ColorIo, IsVs, IsFs
        <3>. QED
            BY <3>1 DEF WellUsed
    <2>4. r = FsRequest(Len(Fragments), inputs, uniforms)
        BY <1>6 DEF RequestOf
    <2>. HIDE DEF inputs, uniforms, r
    <2>5. /\ r.programType = "fs" /\ r.threads = Len(Fragments)
          /\ r.inputs.count = OneMore(inputs.count)
          /\ r.inputs.size[1] = Encoded(2) /\ r.inputs.size[2] = inputs.comp[1] /\ r.inputs.size[3] = inputs.comp[2]
          /\ r.outputs.count = Encoded(2)
          /\ r.outputs.size[1] = Encoded(4) /\ r.outputs.size[2] = Encoded(1)
          /\ r.uniforms.count = uniforms.count /\ r.uniforms.size = uniforms.comp
        BY <2>4 DEF FsRequest
    <2>6. \A k \in 2 .. 3 : h.inputs.size[k] = r.inputs.size[k]
        <3>1. \A k \in 2 .. 3 : k = 2 \/ k = 3
            OBVIOUS
        <3>. QED
            BY <1>1, <2>2, <2>5, <3>1 DEF HeaderFacts
    <2>7. h.inputs.size[1] = Encoded(4)
        BY <1>1, <2>3 DEF HeaderFacts
    <2>8. /\ h.inputs.count = r.inputs.count /\ h.uniforms.count = r.uniforms.count
          /\ h.outputs.count = r.outputs.count /\ Decoded(h.outputs.count) = 2
        BY <1>1, <1>2, <1>4, <2>2, <2>3, <2>5 DEF HeaderFacts, uniforms
    <2>9. \A k \in 1 .. 2 : h.outputs.size[k] = r.outputs.size[k]
        <3>1. \A k \in 1 .. 2 : k = 1 \/ k = 2
            OBVIOUS
        <3>. QED
            BY <1>1, <2>3, <2>5, <3>1 DEF HeaderFacts
    <2>10. \A k \in 1 .. 3 : h.uniforms.size[k] = r.uniforms.size[k]
        BY <1>1, <1>4, <2>5 DEF HeaderFacts, uniforms
    <2>11. DescribedBy(r, h)
        BY <2>5, <2>6, <2>7, <2>8, <2>9, <2>10 DEF DescribedBy
    <2>. QED
        BY <1>6, <2>1, <2>5, <2>11 DEF r
<1>. QED
    BY <1>5, <1>6

LEMMA RequestValid ==
    ASSUME NEW b, BinaryTyped(b), Built(b)
    PROVE  ValidateRequest(RequestOf(b), b.header)
<1>1. DescribedBy(RequestOf(b), b.header) /\ HeaderFacts(b)
    BY RequestDescribed, BuiltHeader
<1>2. Decoded(b.header.inputs.count) \in 1 .. 3
    <2>1. \A n \in 1 .. 3 : n \in 1 .. 4
        OBVIOUS
    <2>. QED
        BY <1>1, <2>1, EncodedCounts DEF HeaderFacts
<1>3. b.header.uniforms.count \in 0 .. 3
    BY <1>1 DEF HeaderFacts
<1>. QED
    BY <1>1, <1>2, <1>3 DEF ValidateRequest, SameSizes, DescribedBy

-----------------------------------------------------------------------------
(* The code generated before the user's, and the request that is sent.       *)

\* Before place s uniforms are loaded and, unless the text allows otherwise, unused
\* registers zeroed; a vertex shader has nothing but the words of an old program before.
Loads(b, s) ==
    LET l == s - (IF b.undefinedRegs THEN 1 ELSE 2)
    IN  /\ l \in Nat /\ s \in Nat /\ s <= Len(b.words)
        /\ b.words[l + 1] = Word("lduni", <<>>)
        /\ ~b.undefinedRegs => b.words[l + 2] = Word("initregs", <<>>)
        /\ IsVs(b) => \A q \in 1 .. l : b.words[q] = BlankWord

LEMMA LongerLoads ==
    ASSUME NEW b, NEW d, NEW s, NEW w, Loads(b, s), IsSeq(b.words), IsSeq(w), d.words = b.words \o w,
           d.programType = b.programType, d.undefinedRegs = b.undefinedRegs
    PROVE  Loads(d, s)
<1>. DEFINE l == s - (IF b.undefinedRegs THEN 1 ELSE 2)
<1>1. Joins(b.words, w, d.words)
    BY ConcatIsSeq
<1>2. /\ l \in Nat /\ s \in Nat /\ s <= Len(b.words)
      /\ b.words[l + 1] = Word("lduni", <<>>)
      /\ ~b.undefinedRegs => b.words[l + 2] = Word("initregs", <<>>)
      /\ IsVs(b) => \A q \in 1 .. l : b.words[q] = BlankWord
    BY DEF Loads
<1>3. Len(b.words) \in Nat /\ l = (IF b.undefinedRegs THEN s - 1 ELSE s - 2)
    BY <1>1 DEF Joins
<1>. HIDE DEF l
<1>4. l + 1 \in 1 .. Len(b.words) /\ (~b.undefinedRegs => l + 2 \in 1 .. Len(b.words))
    BY <1>2, <1>3
<1>5. \A q \in 1 .. l : q \in 1 .. Len(b.words)
    BY <1>2, <1>3
<1>6. s <= Len(d.words)
    BY <1>1, <1>2 DEF Joins
<1>7. d.words[l + 1] = Word("lduni", <<>>)
    BY <1>1, <1>2, <1>4 DEF Joins
<1>8. ~d.undefinedRegs => d.words[l + 2] = Word("initregs", <<>>)
    BY <1>1, <1>2, <1>4 DEF Joins
<1>9. IsVs(d) => \A q \in 1 .. l : d.words[q] = BlankWord
    BY <1>1, <1>2, <1>5 DEF Joins, IsVs
<1>10. l = s - (IF d.undefinedRegs THEN 1 ELSE 2)
    BY DEF l
<1>. QED
    BY <1>2, <1>6, <1>7, <1>8, <1>9, <1>10 DEF Loads

LEMMA CompletedLoads ==
    ASSUME NEW b, NEW d, Completed(b, d), d.error = FALSE, IsSeq(b.words), IsBlank(b.words)
    PROVE  Loads(d, Len(d.words))
<1>. DEFINE x == b.words
            z == Loading(d)
<1>1. PICK y : WellCut(y) /\ (IsVs(d) => y = <<>>) /\ d.words = x \o (y \o z)
    BY DEF Completed
<1>2. d.undefinedRegs \in BOOLEAN
    BY DEF Completed, BinaryTyped
<1>3. /\ IsSeq(z) /\ Len(z) = (IF d.undefinedRegs THEN 1 ELSE 2)
      /\ z[1] = Word("lduni", <<>>) /\ (~d.undefinedRegs => z[2] = Word("initregs", <<>>))
    <2>. DEFINE u == Nullary("lduni")
                i == Nullary("initregs")
                e == <<>>
    <2>1. IsSeq(u) /\ IsSeq(i) /\ IsSeq(e)
        BY CutNone, CutLayouts DEF NullaryOps, WellCut
    <2>2. Len(u) = 1 /\ u[1] = Word("lduni", <<>>) /\ Len(i) = 1 /\ i[1] = Word("initregs", <<>>) /\ Len(e) = 0
        BY DEF Nullary
    <2>3. z = u \o (IF d.undefinedRegs THEN e ELSE i)
        BY DEF Loading
    <2>. HIDE DEF u, i, e, z
    <2>4. CASE d.undefinedRegs
        <3>1. z = u \o e
            BY <2>3, <2>4
        <3>2. IsSeq(z) /\ Joins(u, e, z)
            BY <2>1, <3>1, ConcatIsSeq
        <3>. QED
            BY <2>2, <2>4, <3>2 DEF Joins
    <2>5. CASE ~d.undefinedRegs
        <3>1. z = u \o i
            BY <2>3, <2>5
        <3>2. IsSeq(z) /\ Joins(u, i, z)
            BY <2>1, <3>1, ConcatIsSeq
        <3>3. z[1] = u[1] /\ z[1 + 1] = i[1] /\ Len(z) = 2
            BY <2>2, <3>2 DEF Joins
        <3>. QED
            BY <2>2, <2>5, <3>2, <3>3
    <2>. QED
        BY <2>4, <2>5
<1>. HIDE DEF z
<1>4. IsSeq(y)
    BY <1>1 DEF WellCut
<1>5. IsSeq(y \o z) /\ Joins(y, z, y \o z)
    BY <1>3, <1>4, ConcatIsSeq
<1>6. Joins(x, y \o z, d.words)
    BY <1>1, <1>5, ConcatIsSeq
<1>. DEFINE l == Len(x) + Len(y)
<1>7. /\ Len(x) \in Nat /\ Len(y) \in Nat /\ Len(y \o z) = Len(y) + Len(z)
      /\ Len(z) \in Nat /\ Len(d.words) = l + Len(z)
    <2>. HIDE DEF x
    <2>1. Len(y) \in Nat /\ Len(z) \in Nat /\ Len(y \o z) = Len(y) + Len(z)
        BY <1>5 DEF Joins
    <2>2. Len(x) \in Nat /\ Len(d.words) = Len(x) + Len(y \o z)
        BY <1>6 DEF Joins
    <2>3. \A i, j, k \in Nat : i + (j + k) = (i + j) + k
        OBVIOUS
    <2>. QED
        BY <2>1, <2>2, <2>3
<1>8. \A i \in 1 .. Len(z) : d.words[l + i] = z[i]
    <2>. SUFFICES ASSUME NEW i \in 1 .. Len(z)
                  PROVE  d.words[l + i] = z[i]
        OBVIOUS
    <2>1. (y \o z)[Len(y) + i] = z[i]
        BY <1>5 DEF Joins
    <2>2. Len(y) + i \in 1 .. Len(y \o z)
        BY <1>3, <1>7
    <2>3. d.words[Len(x) + (Len(y) + i)] = (y \o z)[Len(y) + i]
        BY <1>6, <2>2 DEF Joins
    <2>4. Len(x) + (Len(y) + i) = l + i
        <3>1. i \in Nat /\ \A j, k, m \in Nat : j + (k + m) = (j + k) + m
            BY <1>7
        <3>. HIDE DEF x
        <3>. QED
            BY <1>7, <3>1
    <2>. QED
        BY <2>1, <2>3, <2>4
<1>9. IsVs(d) => \A q \in 1 .. l : d.words[q] = BlankWord
    <2>. SUFFICES ASSUME IsVs(d)
                  PROVE  \A q \in 1 .. l : d.words[q] = BlankWord
        OBVIOUS
    <2>1. l = Len(x)
        BY <1>1, <1>7
    <2>2. PICK n \in Nat : x = [k \in 1 .. n |-> BlankWord]
        BY DEF IsBlank
    <2>3. Len(x) = n /\ \A q \in 1 .. n : x[q] = BlankWord
        BY <2>2
    <2>4. \A q \in 1 .. Len(x) : d.words[q] = x[q]
        BY <1>6 DEF Joins
    <2>. HIDE DEF l
    <2>. QED
        BY <2>1, <2>3, <2>4
<1>10. Len(d.words) - (IF d.undefinedRegs THEN 1 ELSE 2) = l /\ Len(d.words) \in Nat
    <2>1. l \in Nat /\ Len(d.words) = l + Len(z)
        BY <1>7
    <2>. HIDE DEF l, x
    <2>. QED
        BY <1>2, <1>3, <2>1
<1>11. d.words[l + 1] = Word("lduni", <<>>)
    BY <1>2, <1>3, <1>8
<1>12. ~d.undefinedRegs => d.words[l + 2] = Word("initregs", <<>>)
    BY <1>3, <1>8
<1>13. l \in Nat
    BY <1>7
<1>. HIDE DEF l, x
<1>. QED
    BY <1>9, <1>10, <1>11, <1>12, <1>13 DEF Loads

StartInv == phase \in ReadyPhases \cup {"instructions"} => Loads(binary, start)

LEMMA StartStep == WordsInv /\ WordsInv' /\ StartInv /\ [Next]_vars => StartInv'
<1>. SUFFICES ASSUME WordsInv, WordsInv', StartInv, [Next]_vars
              PROVE  StartInv'
    OBVIOUS
<1>. DEFINE Active == ReadyPhases \cup {"instructions"}
<1>1. CASE FinalizeDirectives
    <2>1. /\ phase = "directives" /\ phase' = IF binary'.error THEN "refused" ELSE "instructions"
          /\ binary' = FinalizedDirectives(binary) /\ start' = Len(binary'.words)
        BY <1>1 DEF FinalizeDirectives
    <2>2. Completed(binary, binary') /\ IsSeq(binary.words) /\ IsBlank(binary.words)
        BY <2>1, DirectivesFinalized DEF WordsInv, WellCut
    <2>3. binary'.error \in BOOLEAN
        BY DEF WordsInv, BinaryTyped
    <2>4. phase' \in Active => binary'.error = FALSE
        BY <2>1, <2>3 DEF ReadyPhases, LoadedPhases
    <2>5. binary'.error = FALSE => Loads(binary', Len(binary'.words))
        BY <2>2, CompletedLoads
    <2>. QED
        BY <2>1, <2>4, <2>5 DEF StartInv
<1>2. CASE ParseInstruction
    <2>. DEFINE words == Assembled(source[lines + 1])
    <2>1. /\ phase = "instructions" /\ lines < Len(source) /\ start' = start
          /\ \/ binary' = Encode(binary, words) /\ phase' = phase
             \/ binary' = binary /\ phase' = "stopped"
        BY <1>2 DEF ParseInstruction
    <2>2. source \in Sources /\ source \in Seq(Range(source)) /\ \A n \in DOMAIN source : IsLine(source[n])
        BY <2>1, ProgramAssumption DEF WordsInv
    <2>3. lines \in 0 .. Len(source) /\ Len(source) \in Nat /\ DOMAIN source = 1 .. Len(source)
        BY <2>1, <2>2, LenProperties DEF WordsInv
    <2>4. lines + 1 \in 1 .. Len(source)
        BY <2>1, <2>3
    <2>5. WellCut(words)
        BY <2>2, <2>3, <2>4, CutAssembled
    <2>. HIDE DEF words
    <2>6. CASE binary' = Encode(binary, words) /\ phase' = phase
        <3>1. /\ binary'.words = binary.words \o words
              /\ binary'.programType = binary.programType /\ binary'.undefinedRegs = binary.undefinedRegs
            BY <2>6, EncodeTyped DEF WordsInv
        <3>2. IsSeq(binary.words) /\ IsSeq(words) /\ Loads(binary, start)
            BY <2>1, <2>5 DEF WordsInv, WellCut, StartInv
        <3>3. Loads(binary', start)
            BY <3>1, <3>2, LongerLoads
        <3>. QED
            BY <2>1, <3>3 DEF StartInv
    <2>7. CASE phase' = "stopped"
        BY <2>7 DEF StartInv, ReadyPhases, LoadedPhases
    <2>. QED
        BY <2>1, <2>6, <2>7
<1>3. CASE FinalizeInstructions
    <2>1. phase = "instructions" /\ binary' = Finalized(binary) /\ start' = start
        BY <1>3 DEF FinalizeInstructions
    <2>2. /\ binary'.words = binary.words \o Epilogue(binary)
          /\ binary'.programType = binary.programType /\ binary'.undefinedRegs = binary.undefinedRegs
        BY <2>1, FinalizedTyped DEF WordsInv
    <2>3. IsSeq(binary.words) /\ IsSeq(Epilogue(binary)) /\ Loads(binary, start)
        BY <2>1, CutEpilogue DEF WordsInv, WellCut, StartInv
    <2>4. Loads(binary', start)
        BY <2>2, <2>3, LongerLoads
    <2>. QED
        BY <2>1, <2>4 DEF StartInv
<1>4. CASE (\E d \in Directives : ParseDirective(d)) \/ Reset
    <2>1. phase' \in {"directives", "refused"}
        BY <1>4 DEF ParseDirective, Reset
    <2>. QED
        BY <2>1 DEF StartInv, ReadyPhases, LoadedPhases
<1>5. CASE Serve \/ Finished \/ UNCHANGED vars
    <2>1. /\ binary' = binary /\ start' = start
          /\ phase' = phase \/ phase \in ReadyPhases
        BY <1>5 DEF Serve, RequestVertices, RequestFragments, FeedUnit, StartUnit, RunUnit, Answer,
                    Finished, programVars, vars, ReadyPhases, LoadedPhases
    <2>. QED
        BY <2>1 DEF StartInv
<1>. QED
    BY <1>1, <1>2, <1>3, <1>4, <1>5 DEF Next, Assemble

RequestInv ==
    phase \in {"requested"} \cup LoadedPhases => request = RequestOf(binary)

LEMMA RequestStep == RequestInv /\ [Next]_vars => RequestInv'
<1>. SUFFICES ASSUME RequestInv, [Next]_vars
              PROVE  RequestInv'
    OBVIOUS
<1>1. CASE Assemble \/ Reset
    <2>1. phase' \in {"directives", "refused", "instructions", "stopped", "assembled"}
        BY <1>1 DEF Assemble, ParseDirective, FinalizeDirectives, ParseInstruction, FinalizeInstructions, Reset
    <2>. QED
        BY <2>1 DEF RequestInv, LoadedPhases
<1>2. ASSUME NEW triangle, RequestVertices(triangle)
      PROVE  RequestInv'
    <2>1. binary' = binary /\ request' = RequestOf(binary)
        BY <1>2 DEF RequestVertices, RequestOf
    <2>2. request' = RequestOf(binary')
        BY <2>1
    <2>. QED
        BY <2>2 DEF RequestInv
<1>3. ASSUME NEW triangle, RequestFragments(triangle)
      PROVE  RequestInv'
    <2>1. binary' = binary /\ request' = RequestOf(binary)
        BY <1>3 DEF RequestFragments, RequestOf, IsVs, IsFs
    <2>2. request' = RequestOf(binary')
        BY <2>1
    <2>. QED
        BY <2>2 DEF RequestInv
<1>4. CASE FeedUnit \/ StartUnit \/ RunUnit \/ Answer \/ Finished \/ UNCHANGED vars
    <2>1. /\ binary' = binary /\ request' = request
          /\ phase' = phase \/ phase \in {"requested"} \cup LoadedPhases
        BY <1>4 DEF FeedUnit, StartUnit, RunUnit, Answer, Finished, programVars, vars, LoadedPhases
    <2>2. RequestOf(binary') = RequestOf(binary)
        BY <2>1
    <2>. QED
        BY <2>1, <2>2 DEF RequestInv
<1>. QED
    BY <1>1, <1>2, <1>3, <1>4 DEF Next, Serve

LEMMA ServedStep == WordsInv /\ StartInv /\ RequestInv /\ AcceptedIsServed /\ [Next]_vars => AcceptedIsServed'
<1>. SUFFICES ASSUME WordsInv, StartInv, RequestInv, AcceptedIsServed, [Next]_vars
              PROVE  AcceptedIsServed'
    OBVIOUS
<1>1. CASE FeedUnit
    <2>1. /\ phase = "requested" /\ binary' = binary
          /\ phase' = IF Loadable(binary.header) /\ ValidateRequest(request, binary.header)
                      THEN "fed" ELSE "rejected"
        BY <1>1 DEF FeedUnit
    <2>2. BinaryTyped(binary) /\ Built(binary) /\ binary.header.programLength = Len(binary.words)
        BY <2>1 DEF WordsInv, ReadyPhases
    <2>3. ValidateRequest(request, binary.header)
        BY <2>1, <2>2, RequestValid DEF RequestInv
    <2>4. Len(binary.words) # 0
        <3>1. Loads(binary, start)
            BY <2>1 DEF StartInv, ReadyPhases
        <3>2. start - 1 \in Nat \/ start - 2 \in Nat
            BY <3>1 DEF Loads
        <3>. QED
            BY <3>1, <3>2 DEF Loads
    <2>5. CommandSize + binary.header.programLength <= MaxIsaSize => phase' = "fed"
        BY <2>1, <2>2, <2>3, <2>4 DEF Loadable
    <2>. QED
        BY <2>1, <2>5 DEF AcceptedIsServed
<1>2. CASE Assemble \/ Reset
    <2>1. phase' # "rejected"
        BY <1>2 DEF Assemble, ParseDirective, FinalizeDirectives, ParseInstruction, FinalizeInstructions, Reset
    <2>. QED
        BY <2>1 DEF AcceptedIsServed
<1>3. CASE \/ \E triangle \in 0 .. PrimitiveCount - 1 : RequestVertices(triangle)
           \/ \E triangle \in Triangles : RequestFragments(triangle)
           \/ StartUnit \/ RunUnit \/ Answer \/ Finished \/ UNCHANGED vars
    <2>1. binary' = binary /\ (phase' = "rejected" => phase = "rejected")
        BY <1>3 DEF RequestVertices, RequestFragments, StartUnit, RunUnit, Answer, Finished, programVars, vars
    <2>. QED
        BY <2>1 DEF AcceptedIsServed
<1>. QED
    BY <1>1, <1>2, <1>3 DEF Next, Serve

LEMMA RequestsAlways == Spec => [](WordsInv /\ StartInv /\ RequestInv /\ AcceptedIsServed)
<1>1. Init => WordsInv /\ StartInv /\ RequestInv /\ AcceptedIsServed
    <2>1. Init => phase = "directives"
        BY DEF Init
    <2>. QED
        BY <2>1, WordsInit DEF StartInv, RequestInv, AcceptedIsServed, ReadyPhases, LoadedPhases
<1>. QED
    BY <1>1, WordsStep, StartStep, RequestStep, ServedStep, PTL DEF Spec

\* What the assembler accepts and is, with its header, no longer than the instruction
\* memory, the frontend accepts with the pins set from it, whatever the directives were.
THEOREM AcceptedIsServedAlways == Spec => []AcceptedIsServed
BY RequestsAlways, PTL

-----------------------------------------------------------------------------
(* How many dwords are sent, counted and read.                               *)

Counted(s, n) == s = [k \in 1 .. n |-> s[k]]

LEMMA CountedIsSeq ==
    ASSUME NEW n \in Nat, NEW s, Counted(s, n)
    PROVE  IsSeq(s) /\ Len(s) = n
<1>. DEFINE S == {s[k] : k \in 1 .. n}
<1>1. s \in [1 .. n -> S]
    BY DEF Counted
<1>2. s \in Seq(S) /\ Len(s) = n
    BY <1>1
<1>. QED
    BY <1>2, SeqIsSeq

LEMMA SliceIsSeq ==
    ASSUME NEW v, NEW a \in Nat, NEW n \in Nat
    PROVE  /\ IsSeq(Slice(v, a, n)) /\ Len(Slice(v, a, n)) = n
           /\ \A i \in 1 .. n : Slice(v, a, n)[i] = v[a + i]
<1>. DEFINE s == SubSeq(v, a + 1, a + n)
<1>1. s = [i \in 1 .. n |-> v[a + i]]
    <2>1. (a + n) - (a + 1) + 1 = n /\ \A i \in 1 .. n : (a + 1) + i - 1 = a + i
        OBVIOUS
    <2>. QED
        BY <2>1
<1>2. Counted(s, n) /\ \A i \in 1 .. n : s[i] = v[a + i]
    BY <1>1 DEF Counted
<1>3. s = Slice(v, a, n)
    BY DEF Slice
<1>. HIDE DEF s
<1>. QED
    BY <1>2, <1>3, CountedIsSeq

LEMMA FlattenLength ==
    ASSUME NEW n \in Nat, NEW ss, Counted(ss, n), NEW l, Counted(l, n),
           \A k \in 1 .. n : IsSeq(ss[k]) /\ Len(ss[k]) = l[k]
    PROVE  IsSeq(FlattenSeq(ss)) /\ Len(FlattenSeq(ss)) = Total(l)
<1>. DEFINE S == UNION {Range(ss[k]) : k \in 1 .. n}
<1>1. \A k \in 1 .. n : ss[k] \in Seq(S)
    <2>. SUFFICES ASSUME NEW k \in 1 .. n
                  PROVE  ss[k] \in Seq(S)
        OBVIOUS
    <2>. DEFINE s == ss[k]
    <2>1. /\ s \in Seq(Range(s)) /\ Len(s) \in Nat /\ DOMAIN s = 1 .. Len(s)
          /\ s = [i \in 1 .. Len(s) |-> s[i]]
        BY LenProperties DEF IsSeq
    <2>2. Range(s) \subseteq S
        OBVIOUS
    <2>. HIDE DEF s, S
    <2>3. \A i \in 1 .. Len(s) : s[i] \in S
        BY <2>1, <2>2 DEF Range
    <2>4. s \in Seq(S)
        BY <2>1, <2>3
    <2>. QED
        BY <2>4 DEF s
<1>. HIDE DEF S
<1>2. ss \in [1 .. n -> Seq(S)] /\ DOMAIN ss = 1 .. n
    BY <1>1 DEF Counted
<1>3. FlattenSeq(ss) \in Seq(S) /\ Len(FlattenSeq(ss)) = Total(Lengths(ss))
    BY <1>2, FlattenProperties
<1>4. Lengths(ss) = l
    BY <1>2 DEF Lengths, Counted
<1>. QED
    BY <1>3, <1>4, SeqIsSeq

LEMMA TotalConstant ==
    ASSUME NEW n \in Nat, NEW c \in Nat
    PROVE  Total([k \in 1 .. n |-> c]) = c * n
<1>. DEFINE r(m) == [k \in 1 .. m |-> c]
            Bad == {m \in Nat : Total(r(m)) # c * m}
<1>1. 0 \notin Bad
    <2>1. DOMAIN r(0) = {} /\ c * 0 = 0
        OBVIOUS
    <2>. QED
        BY <2>1, TotalNone
<1>2. ASSUME NEW m \in Nat, m \notin Bad, m + 1 \in Bad
      PROVE  FALSE
    <2>1. DOMAIN r(m + 1) = 1 .. m + 1 /\ [k \in 1 .. m |-> r(m + 1)[k]] = r(m) /\ r(m + 1)[m + 1] = c
        OBVIOUS
    <2>2. c * (m + 1) = c * m + c
        OBVIOUS
    <2>. HIDE DEF r
    <2>3. Total(r(m + 1)) = Total(r(m)) + c
        BY <2>1, TotalMore
    <2>. QED
        BY <1>2, <2>2, <2>3
<1>3. Bad \subseteq Nat
    OBVIOUS
<1>4. Bad = {}
    <2>. HIDE DEF Bad
    <2>. QED
        BY <1>1, <1>2, <1>3, FirstFailure
<1>. QED
    BY <1>4

\* The first of n + 1 sizes, and the rest.
LEMMA TotalFirst ==
    ASSUME NEW n \in Nat, NEW s \in [1 .. n + 1 -> Nat]
    PROVE  Total(s) = s[1] + Total([k \in 1 .. n |-> s[k + 1]])
<1>. DEFINE r(m) == [k \in 1 .. m + 1 |-> s[k]]
            q(m) == [k \in 1 .. m |-> s[k + 1]]
            Bad == {m \in 0 .. n : Total(r(m)) # s[1] + Total(q(m))}
<1>0. s[1] \in Nat /\ \A m \in 0 .. n : Total(q(m)) \in Nat
    <2>1. \A m \in 0 .. n : m \in Nat /\ q(m) \in [1 .. m -> Nat]
        OBVIOUS
    <2>. HIDE DEF q
    <2>2. \A m \in 0 .. n : Total(q(m)) \in Nat
        BY <2>1, TotalTyped
    <2>. QED
        BY <2>2
<1>1. 0 \notin Bad
    <2>. DEFINE z == [k \in 1 .. 0 |-> r(0)[k]]
    <2>1. DOMAIN q(0) = {} /\ DOMAIN r(0) = 1 .. 0 + 1 /\ r(0)[0 + 1] = s[1] /\ DOMAIN z = {}
        OBVIOUS
    <2>. HIDE DEF r, q
    <2>2. Total(r(0)) = Total(z) + r(0)[0 + 1]
        BY <2>1, TotalMore
    <2>3. Total(z) = 0 /\ Total(q(0)) = 0
        BY <2>1, TotalNone
    <2>. QED
        BY <1>0, <2>1, <2>2, <2>3
<1>2. ASSUME NEW m \in Nat, m \notin Bad, m + 1 \in Bad
      PROVE  FALSE
    <2>. DEFINE w == m + 1
    <2>1. w \in 1 .. n /\ m \in 0 .. n /\ w \in Nat
        BY <1>2
    <2>2. /\ DOMAIN r(w) = 1 .. w + 1 /\ [k \in 1 .. w |-> r(w)[k]] = r(m) /\ r(w)[w + 1] = s[w + 1]
          /\ DOMAIN q(w) = 1 .. m + 1 /\ [k \in 1 .. m |-> q(w)[k]] = q(m) /\ q(w)[m + 1] = s[w + 1]
        OBVIOUS
    <2>. HIDE DEF r, q
    <2>3. Total(r(w)) = Total(r(m)) + s[w + 1]
        <3>. HIDE DEF w
        <3>. QED
            BY <2>1, <2>2, TotalMore
    <2>4. Total(q(w)) = Total(q(m)) + s[w + 1]
        BY <2>2, TotalMore
    <2>5. Total(q(m)) \in Nat /\ s[w + 1] \in Nat
        BY <1>0, <2>1
    <2>6. Total(r(m)) = s[1] + Total(q(m)) /\ Total(r(w)) # s[1] + Total(q(w))
        BY <1>2, <2>1
    <2>. HIDE DEF w
    <2>. QED
        BY <1>0, <2>3, <2>4, <2>5, <2>6
<1>3. Bad \subseteq Nat
    OBVIOUS
<1>4. Bad = {}
    <2>. HIDE DEF Bad
    <2>. QED
        BY <1>1, <1>2, <1>3, FirstFailure
<1>5. r(n) = s
    OBVIOUS
<1>6. n \in 0 .. n
    OBVIOUS
<1>. HIDE DEF r
<1>. QED
    BY <1>4, <1>5, <1>6

\* The dwords of k-th parts, k from 1 to n, of encoded sizes.
SizesIn(sizes, n) == [k \in 1 .. n |-> Decoded(sizes[k])]

LEMMA SizesTyped ==
    ASSUME NEW sizes, NEW n \in 0 .. 3, \A k \in 1 .. n : Decoded(sizes[k]) \in 1 .. 4
    PROVE  Total(SizesIn(sizes, n)) \in Nat
<1>1. n \in Nat /\ SizesIn(sizes, n) \in [1 .. n -> Nat]
    BY DEF SizesIn
<1>. QED
    BY <1>1, TotalTyped

LEMMA UniformLength ==
    ASSUME NEW uniforms, uniforms.count \in 0 .. 3,
           \A k \in 1 .. uniforms.count : Decoded(uniforms.comp[k]) \in 1 .. 4
    PROVE  /\ IsSeq(UniformData(uniforms, UniformValue))
           /\ Len(UniformData(uniforms, UniformValue)) = Total(SizesIn(uniforms.comp, uniforms.count))
<1>. DEFINE n == uniforms.count
            size(k) == Decoded(uniforms.comp[k])
            ss == [k \in 1 .. n |-> SubSeq(UniformValue[k], 1, size(k))]
            l == SizesIn(uniforms.comp, n)
<1>1. UniformData(uniforms, UniformValue) = FlattenSeq(ss)
    BY DEF UniformData
<1>2. \A k \in 1 .. n : IsSeq(ss[k]) /\ Len(ss[k]) = size(k)
    <2>. SUFFICES ASSUME NEW k \in 1 .. n
                  PROVE  IsSeq(ss[k]) /\ Len(ss[k]) = size(k)
        OBVIOUS
    <2>1. size(k) \in Nat /\ 0 \in Nat /\ 0 + 1 = 1 /\ 0 + size(k) = size(k)
        OBVIOUS
    <2>. HIDE DEF size
    <2>2. ss[k] = Slice(UniformValue[k], 0, size(k))
        BY <2>1 DEF Slice
    <2>. DEFINE value == Slice(UniformValue[k], 0, size(k))
    <2>3. IsSeq(value) /\ Len(value) = size(k)
        BY <2>1, SliceIsSeq
    <2>. HIDE DEF ss, value
    <2>. QED
        BY <2>2, <2>3 DEF value
<1>3. Counted(l, n) /\ \A k \in 1 .. n : l[k] = size(k)
    BY DEF SizesIn, Counted
<1>4. Counted(ss, n) /\ n \in Nat
    BY DEF Counted
<1>. HIDE DEF ss, l, size
<1>. QED
    BY <1>1, <1>2, <1>3, <1>4, FlattenLength DEF l

LEMMA VerticesLength ==
    ASSUME NEW inputs, NEW triangle, Total(SizesIn(inputs.comp, inputs.count)) \in Nat
    PROVE  /\ IsSeq(FetchedVertices(inputs, triangle))
           /\ Len(FetchedVertices(inputs, triangle)) = 3 * Total(SizesIn(inputs.comp, inputs.count))
<1>. DEFINE T == TotalCustomComponents(inputs)
            s == FetchedVertices(inputs, triangle)
<1>1. T = Total(SizesIn(inputs.comp, inputs.count))
    BY DEF TotalCustomComponents, Total, SizesIn
<1>. HIDE DEF T
<1>2. s = [k \in 1 .. 3 * T |-> VertexBuffer((triangle * (3 * T) * 4 + (k - 1) * 4) \div 4)]
    BY DEF FetchedVertices, T, Vertices
<1>3. Counted(s, 3 * T) /\ 3 * T \in Nat
    BY <1>1, <1>2 DEF Counted
<1>. HIDE DEF s
<1>4. IsSeq(s) /\ Len(s) = 3 * T
    BY <1>3, CountedIsSeq
<1>. QED
    BY <1>1, <1>4 DEF s

LEMMA AttributesLength ==
    ASSUME NEW triangle, NEW inputs, inputs.count \in 0 .. 3,
           \A k \in 1 .. inputs.count : Decoded(inputs.comp[k]) \in 1 .. 4
    PROVE  /\ IsSeq(TriangleAttributes(triangle, inputs))
           /\ Len(TriangleAttributes(triangle, inputs)) = 3 * (3 + Total(SizesIn(inputs.comp, inputs.count)))
<1>. DEFINE n == inputs.count
            size(k) == Decoded(inputs.comp[k])
            own(v, k) == [c \in 1 .. size(k) |-> AttributeValue(v, k, c)]
            owns(v) == [k \in 1 .. n |-> own(v, k)]
            position(v) == [c \in 1 .. 3 |-> Whole(triangle[v][c])]
            vertex(v) == position(v) \o FlattenSeq(owns(v))
            ss == [v \in 1 .. 3 |-> vertex(v)]
            T == Total(SizesIn(inputs.comp, inputs.count))
            m == 3 + T
            l == [v \in 1 .. 3 |-> m]
<1>1. T \in Nat /\ m \in Nat
    BY SizesTyped
<1>2. TriangleAttributes(triangle, inputs) = FlattenSeq(ss)
    BY DEF TriangleAttributes, Vertices
<1>3. ASSUME NEW v
      PROVE  IsSeq(FlattenSeq(owns(v))) /\ Len(FlattenSeq(owns(v))) = T
    <2>. DEFINE ll == SizesIn(inputs.comp, n)
                os == owns(v)
    <2>1. Counted(os, n) /\ n \in Nat
        BY DEF Counted
    <2>2. Counted(ll, n) /\ \A k \in 1 .. n : ll[k] = size(k) /\ size(k) \in Nat
        BY DEF SizesIn, Counted
    <2>3. \A k \in 1 .. n : IsSeq(os[k]) /\ Len(os[k]) = ll[k]
        <3>. SUFFICES ASSUME NEW k \in 1 .. n
                      PROVE  IsSeq(os[k]) /\ Len(os[k]) = ll[k]
            OBVIOUS
        <3>. DEFINE s == os[k]
        <3>1. size(k) \in Nat /\ ll[k] = size(k)
            BY <2>2
        <3>. HIDE DEF size, ll
        <3>2. s = [c \in 1 .. size(k) |-> AttributeValue(v, k, c)]
            OBVIOUS
        <3>. HIDE DEF os
        <3>3. Counted(s, size(k))
            BY <3>2 DEF Counted
        <3>4. IsSeq(s) /\ Len(s) = size(k)
            <4>. HIDE DEF s
            <4>. QED
                BY <3>1, <3>3, CountedIsSeq
        <3>. QED
            BY <3>1, <3>4
    <2>. HIDE DEF ll, os
    <2>4. IsSeq(FlattenSeq(os)) /\ Len(FlattenSeq(os)) = Total(ll)
        BY <2>1, <2>2, <2>3, FlattenLength
    <2>. QED
        BY <2>4 DEF os, ll
<1>4. ASSUME NEW v
      PROVE  IsSeq(position(v)) /\ Len(position(v)) = 3
    <2>. DEFINE s == position(v)
    <2>1. Counted(s, 3)
        BY DEF Counted
    <2>. HIDE DEF s
    <2>2. IsSeq(s) /\ Len(s) = 3
        BY <2>1, CountedIsSeq
    <2>. QED
        BY <2>2 DEF s
<1>. HIDE DEF owns, position, T
<1>5. ASSUME NEW v
      PROVE  IsSeq(vertex(v)) /\ Len(vertex(v)) = m
    <2>1. IsSeq(vertex(v)) /\ Joins(position(v), FlattenSeq(owns(v)), vertex(v))
        BY <1>3, <1>4, ConcatIsSeq
    <2>2. Len(vertex(v)) = Len(position(v)) + Len(FlattenSeq(owns(v)))
        BY <2>1 DEF Joins
    <2>. HIDE DEF vertex
    <2>. QED
        BY <1>3, <1>4, <2>1, <2>2
<1>. HIDE DEF vertex, m
<1>6. /\ Counted(ss, 3) /\ Counted(l, 3) /\ 3 \in Nat
      /\ \A v \in 1 .. 3 : IsSeq(ss[v]) /\ Len(ss[v]) = l[v]
    BY <1>5 DEF Counted
<1>7. Total(l) = m * 3
    BY <1>1, TotalConstant
<1>. HIDE DEF ss, l
<1>8. IsSeq(FlattenSeq(ss)) /\ Len(FlattenSeq(ss)) = m * 3
    BY <1>6, <1>7, FlattenLength
<1>9. m * 3 = 3 * (3 + T)
    BY <1>1 DEF m
<1>. QED
    BY <1>2, <1>8, <1>9 DEF T

\* The positions of the fragments of a batch.
FragmentData == FlattenSeq([t \in DOMAIN Fragments |-> <<Whole(Fragments[t][1]), Whole(Fragments[t][2])>>])

LEMMA FragmentsLength ==
    IsSeq(FragmentData) /\ Len(FragmentData) = 2 * Len(Fragments) /\ Len(Fragments) \in Nat
<1>. DEFINE n == Len(Fragments)
            pair(t) == <<Whole(Fragments[t][1]), Whole(Fragments[t][2])>>
            ss == [t \in 1 .. n |-> pair(t)]
            l == [t \in 1 .. n |-> 2]
<1>1. n \in Nat /\ DOMAIN Fragments = 1 .. n
    BY ProgramAssumption, LenProperties
<1>2. FragmentData = FlattenSeq(ss)
    BY <1>1 DEF FragmentData
<1>. HIDE DEF n
<1>3. ASSUME NEW t
      PROVE  IsSeq(pair(t)) /\ Len(pair(t)) = 2
    <2>. DEFINE s == pair(t)
    <2>1. Counted(s, 2)
        BY DEF Counted
    <2>. HIDE DEF s
    <2>2. IsSeq(s) /\ Len(s) = 2
        BY <2>1, CountedIsSeq
    <2>. QED
        BY <2>2 DEF s
<1>. HIDE DEF pair
<1>4. /\ Counted(ss, n) /\ Counted(l, n)
      /\ \A v \in 1 .. n : IsSeq(ss[v]) /\ Len(ss[v]) = l[v]
    BY <1>3 DEF Counted
<1>5. Total(l) = 2 * n
    BY <1>1, TotalConstant
<1>. HIDE DEF ss, l
<1>6. IsSeq(FlattenSeq(ss)) /\ Len(FlattenSeq(ss)) = 2 * n
    BY <1>1, <1>4, <1>5, FlattenLength
<1>. QED
    BY <1>1, <1>2, <1>6 DEF n

\* The dwords a request is sent with.
LEMMA RequestCounted ==
    ASSUME NEW b, BinaryTyped(b), Built(b)
    PROVE  LET r == RequestOf(b)
               inputs == VsCustomInputComponents(b)
               attributes == VsPsCustomComponents(b)
               uniforms == Total(SizesIn(Uniforms(b).comp, Uniforms(b).count))
           IN  /\ IsVs(b) => CalculateShaderInputsCount(r) = Total(SizesIn(inputs.comp, inputs.count)) * 3 + uniforms
               /\ IsFs(b) => CalculateShaderInputsCount(r) =
                                 2 * Len(Fragments) + 3 * (3 + Total(SizesIn(attributes.comp, attributes.count))) + uniforms
<1>. DEFINE r == RequestOf(b)
            uniforms == Total(SizesIn(Uniforms(b).comp, Uniforms(b).count))
<1>1. \A part, n : SizesOf(part, n) = Total(SizesIn(part.size, n))
    BY DEF SizesOf, Total, SizesIn
<1>2. HeaderFacts(b)
    BY BuiltHeader
<1>3. /\ \A n \in 1 .. 3 : OneMore(n - 1) = Encoded(n) /\ Decoded(Encoded(n)) = n
      /\ \A n \in 1 .. 4 : Decoded(Encoded(n)) = n
    BY EncodedCounts
<1>4. /\ Uniforms(b).count = Len(b.io["uniform"]) /\ Len(b.io["uniform"]) \in 0 .. 3
      /\ \A k \in 1 .. Uniforms(b).count : Decoded(Uniforms(b).comp[k]) \in 1 .. 4
    <2>1. /\ Uniforms(b).count = Len(b.io["uniform"]) /\ Len(b.io["uniform"]) \in 0 .. 3
          /\ \A k \in 1 .. 3 : Uniforms(b).comp[k] = Encoded(Components(b, "uniform", k))
        BY <1>2, PinsOfBuilt DEF HeaderFacts
    <2>2. \A k \in 1 .. Len(b.io["uniform"]) : k \in 1 .. 3 /\ Components(b, "uniform", k) \in 1 .. 4
        <3>1. \A k \in 1 .. Len(b.io["uniform"]) : Components(b, "uniform", k) \in 1 .. 4
            BY IoSizes DEF IoTypes
        <3>2. \A n \in 0 .. 3 : \A k \in 1 .. n : k \in 1 .. 3
            OBVIOUS
        <3>3. Len(b.io["uniform"]) \in 0 .. 3
            BY <2>1
        <3>. QED
            BY <3>1, <3>2, <3>3
    <2>. QED
        BY <1>3, <2>1, <2>2
<1>5. uniforms \in Nat
    BY <1>4, SizesTyped
<1>6. CASE IsVs(b)
    <2>. DEFINE inputs == VsCustomInputComponents(b)
                outputs == VsPsCustomComponents(b)
                T == Total(SizesIn(inputs.comp, inputs.count))
    <2>1. inputs.count = Len(b.io["input"]) /\ Len(b.io["input"]) \in 1 .. 3
        <3>1. inputs.count = Len(b.io["input"])
            BY <1>6, PinsOfBuilt
        <3>2. Len(b.io["input"]) \in 1 .. 3
            BY <1>2 DEF HeaderFacts
        <3>. QED
            BY <3>1, <3>2
    <2>2. r = VsRequest(inputs, outputs, Uniforms(b))
        BY <1>6 DEF RequestOf
    <2>. HIDE DEF inputs, outputs, r, uniforms
    <2>3. /\ r.programType = "vs" /\ r.threads = 3
          /\ r.inputs.count = Encoded(inputs.count) /\ r.inputs.size = inputs.comp
          /\ r.uniforms.count = Uniforms(b).count /\ r.uniforms.size = Uniforms(b).comp
        BY <2>2 DEF VsRequest, VsThreads
    <2>4. Decoded(r.inputs.count) = inputs.count
        BY <1>3, <2>1, <2>3
    <2>5. SizesOf(r.inputs, Decoded(r.inputs.count)) = T
        BY <1>1, <2>3, <2>4
    <2>6. SizesOf(r.uniforms, r.uniforms.count) = uniforms
        BY <1>1, <2>3 DEF uniforms
    <2>7. T \in Nat
        <3>1. \A k \in 1 .. inputs.count : Decoded(inputs.comp[k]) \in 1 .. 4
            <4>1. \A k \in 1 .. 3 : inputs.comp[k] = Encoded(Components(b, "input", k))
                BY <1>6, PinsOfBuilt DEF inputs
            <4>2. \A k \in 1 .. Len(b.io["input"]) : k \in 1 .. 3 /\ Components(b, "input", k) \in 1 .. 4
                BY <2>1, IoSizes DEF IoTypes
            <4>. QED
                BY <1>3, <2>1, <4>1, <4>2
        <3>2. inputs.count \in 0 .. 3
            BY <2>1
        <3>. QED
            BY <3>1, <3>2, SizesTyped
    <2>. HIDE DEF T
    <2>8. CalculateShaderInputsCount(r) = T * 3 + 0 + uniforms
        BY <2>3, <2>5, <2>6 DEF CalculateShaderInputsCount
    <2>9. CalculateShaderInputsCount(r) = T * 3 + uniforms
        BY <1>5, <2>7, <2>8
    <2>10. ~IsFs(b)
        BY <1>6 DEF IsVs, IsFs
    <2>. QED
        BY <2>9, <2>10 DEF inputs, r, uniforms, T
<1>7. CASE IsFs(b)
    <2>. DEFINE attributes == VsPsCustomComponents(b)
                n == attributes.count
                T == Total(SizesIn(attributes.comp, n))
    <2>1. n = Len(b.io["input"]) - 1 /\ Len(b.io["input"]) \in 1 .. 3 /\ n \in 0 .. 2
        <3>1. n = Len(b.io["input"]) - 1
            BY <1>7, PinsOfBuilt
        <3>2. Len(b.io["input"]) \in 1 .. 3
            BY <1>2 DEF HeaderFacts
        <3>. HIDE DEF n
        <3>. QED
            BY <3>1, <3>2
    <2>2. r = FsRequest(Len(Fragments), attributes, Uniforms(b)) /\ ~IsVs(b)
        BY <1>7 DEF RequestOf, IsVs, IsFs
    <2>a. \A k \in 1 .. n : Decoded(attributes.comp[k]) \in 1 .. 4
        <3>1. \A k \in 1 .. 3 : attributes.comp[k] = Encoded(Components(b, "input", k + 1))
            BY <1>7, PinsOfBuilt
        <3>2. \A k \in 1 .. Len(b.io["input"]) : Components(b, "input", k) \in 1 .. 4
            BY IoSizes DEF IoTypes
        <3>. HIDE DEF attributes
        <3>3. \A k \in 1 .. n : k \in 1 .. 3 /\ k + 1 \in 1 .. Len(b.io["input"])
            <4>. DEFINE l == Len(b.io["input"])
            <4>1. n = l - 1 /\ l \in 1 .. 3
                BY <2>1
            <4>. HIDE DEF n, l
            <4>2. \A k \in 1 .. n : k \in 1 .. 3 /\ k + 1 \in 1 .. l
                BY <4>1
            <4>. QED
                BY <4>2 DEF l
        <3>. QED
            BY <1>3, <3>1, <3>2, <3>3
    <2>. HIDE DEF attributes, r, uniforms
    <2>b. n \in Nat /\ n \in 0 .. 3 /\ n \in 0 .. 2 /\ 1 \in 1 .. n + 1
        <3>1. n \in 0 .. 2
            BY <2>1
        <3>2. \A i \in 0 .. 2 : i \in Nat /\ i \in 0 .. 3 /\ 1 \in 1 .. i + 1
            OBVIOUS
        <3>. HIDE DEF n
        <3>. QED
            BY <3>1, <3>2
    <2>3. /\ r.programType = "fs" /\ r.threads = Len(Fragments)
          /\ r.inputs.count = OneMore(n)
          /\ r.inputs.size[1] = Encoded(2) /\ r.inputs.size[2] = attributes.comp[1] /\ r.inputs.size[3] = attributes.comp[2]
          /\ r.uniforms.count = Uniforms(b).count /\ r.uniforms.size = Uniforms(b).comp
        BY <2>2 DEF FsRequest
    <2>4. Decoded(r.inputs.count) = n + 1
        <3>1. n + 1 \in 1 .. 3 /\ (n + 1) - 1 = n
            BY <2>1
        <3>. HIDE DEF n
        <3>. QED
            BY <1>3, <2>3, <3>1
    <2>5. SizesOf(r.inputs, n + 1) = 2 + T /\ T \in Nat
        <3>. DEFINE s == SizesIn(r.inputs.size, n + 1)
        <3>1. \A k \in 1 .. 2 : r.inputs.size[k + 1] = attributes.comp[k]
            <4>1. \A k \in 1 .. 2 : k = 1 \/ k = 2
                OBVIOUS
            <4>2. 1 + 1 = 2 /\ 2 + 1 = 3
                OBVIOUS
            <4>. QED
                BY <2>3, <4>1, <4>2
        <3>2. s[1] = 2
            <4>1. Decoded(Encoded(2)) = 2
                BY <1>3
            <4>. HIDE DEF n
            <4>. QED
                BY <2>3, <2>b, <4>1 DEF SizesIn
        <3>3. \A k \in 1 .. n : s[k + 1] = Decoded(attributes.comp[k])
            <4>. HIDE DEF n
            <4>1. \A k \in 1 .. n : k \in 1 .. 2 /\ k + 1 \in 1 .. n + 1
                BY <2>b
            <4>. QED
                BY <3>1, <4>1 DEF SizesIn
        <3>4. s \in [1 .. n + 1 -> Nat]
            <4>1. ASSUME NEW k \in 1 .. n + 1
                  PROVE  s[k] \in Nat
                <5>. HIDE DEF s, n
                <5>1. k = 1 \/ (k - 1 \in 1 .. n /\ (k - 1) + 1 = k)
                    BY <2>b
                <5>. QED
                    BY <2>a, <3>2, <3>3, <5>1
            <4>2. s = [k \in 1 .. n + 1 |-> s[k]]
                BY DEF SizesIn
            <4>. HIDE DEF s, n
            <4>. QED
                BY <4>1, <4>2
        <3>5. [k \in 1 .. n |-> s[k + 1]] = SizesIn(attributes.comp, n)
            <4>. HIDE DEF s, n
            <4>. QED
                BY <3>3 DEF SizesIn
        <3>6. Total(s) = s[1] + Total([k \in 1 .. n |-> s[k + 1]])
            <4>. HIDE DEF s, n
            <4>. QED
                BY <2>b, <3>4, TotalFirst
        <3>7. T \in Nat
            <4>. HIDE DEF n
            <4>. QED
                BY <2>a, <2>b, SizesTyped
        <3>8. SizesOf(r.inputs, n + 1) = Total(s)
            BY <1>1
        <3>. HIDE DEF s, T, n
        <3>. QED
            BY <3>2, <3>5, <3>6, <3>7, <3>8 DEF T
    <2>6. SizesOf(r.uniforms, r.uniforms.count) = uniforms
        BY <1>1, <2>3 DEF uniforms
    <2>7. Decoded(r.inputs.size[1]) = 2 /\ Len(Fragments) \in Nat
        BY <1>3, <2>3, FragmentsLength
    <2>. HIDE DEF T, n
    <2>8. CalculateShaderInputsCount(r) = 2 * Len(Fragments) + 3 * (3 + (2 + T) - 2) + uniforms
        BY <2>3, <2>4, <2>5, <2>6, <2>7 DEF CalculateShaderInputsCount, Vertices
    <2>9. CalculateShaderInputsCount(r) = 2 * Len(Fragments) + 3 * (3 + T) + uniforms
        BY <1>5, <2>5, <2>7, <2>8
    <2>10. ~IsVs(b)
        BY <1>7 DEF IsVs, IsFs
    <2>. QED
        BY <2>9, <2>10 DEF attributes, r, uniforms, T, n
<1>. QED
    BY <1>6, <1>7

\* The unit counts as many as the frontend, from the header alone.
LEMMA UnitCounts ==
    ASSUME BinaryTyped(binary), Built(binary), isaMetadata = binary.header, NEW r, r = RequestOf(binary),
           r.threads \in Nat
    PROVE  CalculateShaderInputsCount(r) = DemandedCount(r.threads)
<1>. DEFINE h == isaMetadata
            n == InputCount
            T == Total(InputSizes)
            S == SizesOf(r.inputs, n)
            U == Total(UniformSizes)
<1>1. \A part, m : SizesOf(part, m) = Total(SizesIn(part.size, m))
    BY DEF SizesOf, Total, SizesIn
<1>2. DescribedBy(r, h) /\ r.programType = h.programType
    BY RequestDescribed, BuiltHeader DEF HeaderFacts
<1>3. /\ \A m \in 1 .. 3 : Decoded(Encoded(m)) = m
      /\ \A m \in 1 .. 4 : Decoded(Encoded(m)) = m
    BY EncodedCounts
<1>4. /\ Decoded(h.inputs.count) \in 1 .. 3 /\ h.uniforms.count \in 0 .. 3
      /\ \A k \in 1 .. Decoded(h.inputs.count) : Decoded(h.inputs.size[k]) \in 1 .. 4
      /\ \A k \in 1 .. h.uniforms.count : Decoded(h.uniforms.size[k]) \in 1 .. 4
    <2>. DEFINE i == Len(binary.io["input"])
                u == Len(binary.io["uniform"])
    <2>1. HeaderFacts(binary)
        BY BuiltHeader
    <2>2. /\ h.inputs.count = Encoded(i) /\ i \in 1 .. 3 /\ h.uniforms.count = u /\ u \in 0 .. 3
          /\ \A k \in 1 .. 3 : /\ h.inputs.size[k] = Encoded(Components(binary, "input", k))
                               /\ h.uniforms.size[k] = Encoded(Components(binary, "uniform", k))
        BY <2>1 DEF HeaderFacts
    <2>3. /\ \A k \in 1 .. i : Components(binary, "input", k) \in 1 .. 4
          /\ \A k \in 1 .. u : Components(binary, "uniform", k) \in 1 .. 4
        BY IoSizes DEF IoTypes
    <2>4. \A m \in 0 .. 3 : \A k \in 1 .. m : k \in 1 .. 3
        OBVIOUS
    <2>. HIDE DEF i, u, h
    <2>5. Decoded(h.inputs.count) = i /\ i \in 0 .. 3
        BY <1>3, <2>2
    <2>. QED
        BY <1>3, <2>2, <2>3, <2>4, <2>5
<1>5. n = Decoded(h.inputs.count) /\ n \in 1 .. 3 /\ Decoded(r.inputs.count) = n
    BY <1>2, <1>4 DEF InputCount, DescribedBy
<1>6. /\ r.uniforms.count = h.uniforms.count
      /\ \A k \in 1 .. r.uniforms.count : r.uniforms.size[k] = h.uniforms.size[k]
    <2>1. r.uniforms.count = h.uniforms.count /\ \A k \in 1 .. 3 : r.uniforms.size[k] = h.uniforms.size[k]
        BY <1>2 DEF DescribedBy
    <2>2. \A m \in 0 .. 3 : \A k \in 1 .. m : k \in 1 .. 3
        OBVIOUS
    <2>. QED
        BY <1>4, <2>1, <2>2
<1>7. SizesOf(r.uniforms, r.uniforms.count) = U
    <2>1. UniformSizes = SizesIn(r.uniforms.size, r.uniforms.count)
        BY <1>6 DEF UniformSizes, UniformCount, SizesIn
    <2>. QED
        BY <1>1, <2>1
<1>8. U \in Nat
    <2>1. UniformSizes = SizesIn(h.uniforms.size, h.uniforms.count)
        BY DEF UniformSizes, UniformCount, SizesIn
    <2>2. Total(SizesIn(h.uniforms.size, h.uniforms.count)) \in Nat
        BY <1>4, SizesTyped
    <2>. QED
        BY <2>1, <2>2
<1>9. InputSizes = [k \in 1 .. n |-> IF IsFragmentShader /\ k = 1 THEN 3 ELSE Decoded(h.inputs.size[k])]
    BY DEF InputSizes
<1>10. T \in Nat
    <2>1. \A k \in 1 .. n : Decoded(h.inputs.size[k]) \in Nat
        BY <1>4, <1>5
    <2>2. InputSizes \in [1 .. n -> Nat] /\ n \in Nat
        BY <1>5, <1>9, <2>1
    <2>. HIDE DEF n
    <2>. QED
        BY <2>2, TotalTyped
<1>. HIDE DEF h, n, U
<1>11. CASE r.programType = "fs"
    <2>. DEFINE s == SizesIn(r.inputs.size, n)
                m == n - 1
    <2>1. IsFragmentShader
        BY <1>2, <1>11 DEF IsFragmentShader, h
    <2>2. r.inputs.size[1] = Encoded(2) /\ \A k \in 2 .. 3 : h.inputs.size[k] = r.inputs.size[k]
        BY <1>2, <1>11 DEF DescribedBy
    <2>3. \A k \in 2 .. n : InputSizes[k] = s[k] /\ s[k] \in Nat
        <3>1. \A k \in 2 .. n : k \in 2 .. 3 /\ k \in 1 .. n /\ k # 1
            BY <1>5
        <3>2. \A k \in 2 .. n : Decoded(r.inputs.size[k]) \in Nat
            BY <1>4, <1>5, <2>2, <3>1
        <3>. QED
            BY <1>9, <2>2, <3>1, <3>2 DEF SizesIn
    <2>4. InputSizes[1] = 3 /\ s[1] = 2 /\ 1 \in 1 .. n
        BY <1>3, <1>5, <1>9, <2>1, <2>2 DEF SizesIn
    <2>5. m \in Nat /\ m + 1 = n /\ \A k \in 1 .. m : k + 1 \in 2 .. n
        BY <1>5
    <2>6. InputSizes \in [1 .. m + 1 -> Nat] /\ s \in [1 .. m + 1 -> Nat]
        <3>1. s = [k \in 1 .. n |-> s[k]]
            BY DEF SizesIn
        <3>2. InputSizes = [k \in 1 .. n |-> InputSizes[k]]
            BY <1>9
        <3>3. \A k \in 1 .. n : k = 1 \/ k \in 2 .. n
            BY <1>5
        <3>. DEFINE q == InputSizes
        <3>4. 1 .. m + 1 = 1 .. n
            BY <2>5
        <3>. HIDE DEF s, m, q
        <3>5. \A k \in 1 .. n : q[k] \in Nat /\ s[k] \in Nat
            BY <2>3, <2>4, <3>3 DEF q
        <3>6. s \in [1 .. n -> Nat]
            BY <3>1, <3>5
        <3>7. q \in [1 .. n -> Nat]
            BY <3>2, <3>5 DEF q
        <3>. QED
            BY <3>4, <3>6, <3>7 DEF q
    <2>7. [k \in 1 .. m |-> InputSizes[k + 1]] = [k \in 1 .. m |-> s[k + 1]]
        <3>. HIDE DEF s, m
        <3>. QED
            BY <2>3, <2>5
    <2>. DEFINE R == Total([k \in 1 .. m |-> s[k + 1]])
    <2>8. Total(s) = s[1] + R /\ T = InputSizes[1] + R /\ R \in Nat
        <3>. HIDE DEF s, m
        <3>1. Total(s) = s[1] + R
            BY <2>5, <2>6, TotalFirst
        <3>2. T = InputSizes[1] + Total([k \in 1 .. m |-> InputSizes[k + 1]])
            BY <2>5, <2>6, TotalFirst
        <3>3. T = InputSizes[1] + R
            BY <2>7, <3>2
        <3>4. R \in Nat
            <4>. DEFINE z == [k \in 1 .. m |-> s[k + 1]]
            <4>1. \A k \in 1 .. m : s[k + 1] \in Nat
                BY <2>3, <2>5
            <4>2. z \in [1 .. m -> Nat]
                BY <4>1
            <4>. HIDE DEF z
            <4>3. Total(z) \in Nat
                BY <2>5, <4>2, TotalTyped
            <4>. QED
                BY <4>3 DEF z
        <3>. QED
            BY <3>1, <3>3, <3>4
    <2>9. S = Total(s)
        BY <1>1
    <2>. HIDE DEF s, m, R, S, T
    <2>10. CalculateShaderInputsCount(r) = 2 * r.threads + 3 * (3 + S - 2) + U
        <3>1. Decoded(r.inputs.size[1]) = 2
            BY <1>3, <2>2
        <3>. QED
            BY <1>5, <1>7, <1>11, <3>1 DEF CalculateShaderInputsCount, Vertices, S
    <2>11. DemandedCount(r.threads) = r.threads * 2 + U + 3 * T
        BY <2>1 DEF DemandedCount, PerThreadCount, AttributesCount, Vertices, T, U
    <2>. QED
        BY <1>8, <1>10, <2>4, <2>8, <2>9, <2>10, <2>11
<1>12. CASE r.programType # "fs"
    <2>1. ~IsFragmentShader
        BY <1>2, <1>12 DEF IsFragmentShader, h
    <2>2. \A k \in 1 .. 3 : h.inputs.size[k] = r.inputs.size[k]
        <3>1. \A k \in 1 .. 3 : k = 1 \/ k \in 2 .. 3
            OBVIOUS
        <3>. QED
            BY <1>2, <1>12, <3>1 DEF DescribedBy
    <2>3. InputSizes = SizesIn(r.inputs.size, n)
        <3>1. \A k \in 1 .. n : k \in 1 .. 3
            BY <1>5
        <3>. QED
            BY <1>9, <2>1, <2>2, <3>1 DEF SizesIn
    <2>4. S = T
        BY <1>1, <2>3
    <2>. HIDE DEF S, T
    <2>5. CalculateShaderInputsCount(r) = S * r.threads + 0 + U
        BY <1>5, <1>7, <1>12 DEF CalculateShaderInputsCount, S
    <2>6. DemandedCount(r.threads) = r.threads * T + U + 0
        BY <2>1 DEF DemandedCount, PerThreadCount, AttributesCount, T, U
    <2>7. T * r.threads = r.threads * T /\ T * r.threads \in Nat
        BY <1>10
    <2>. QED
        BY <1>8, <2>4, <2>5, <2>6, <2>7
<1>. QED
    BY <1>11, <1>12

\* The answer, from as many lanes as there are threads.
LEMMA AnswerCounted ==
    ASSUME BinaryTyped(binary), Built(binary), isaMetadata = binary.header, NEW r, r = RequestOf(binary),
           r.threads \in Nat, DOMAIN gpr = Lanes(r.threads)
    PROVE  Len(OutputStream) = CalculateShaderOutputsCount(r)
<1>. DEFINE h == isaMetadata
            n == OutputCount
            size(k) == Decoded(h.outputs.size[k])
            OfThread(t) == [k \in 1 .. n |-> Slice(gpr[t][h.outputs.reg[k]], 0, size(k))]
            sizes == SizesIn(h.outputs.size, n)
            T == Total(sizes)
            threads == r.threads
            ss == [t \in 1 .. threads |-> FlattenSeq(OfThread(t - 1))]
            l == [t \in 1 .. threads |-> T]
<1>1. DescribedBy(r, h) /\ HeaderFacts(binary)
    BY RequestDescribed, BuiltHeader
<1>2. /\ n = Decoded(h.outputs.count) /\ n \in 1 .. 3
      /\ \A k \in 1 .. n : size(k) \in 1 .. 4
    <2>. DEFINE i == Len(binary.io["output"])
    <2>1. /\ h.outputs.count = Encoded(i) /\ i \in 1 .. 3
          /\ \A k \in 1 .. 3 : h.outputs.size[k] = Encoded(Components(binary, "output", k))
        BY <1>1 DEF HeaderFacts
    <2>2. \A k \in 1 .. i : Components(binary, "output", k) \in 1 .. 4
        BY IoSizes DEF IoTypes
    <2>3. \A m \in 1 .. 3 : \A k \in 1 .. m : k \in 1 .. 3
        OBVIOUS
    <2>4. n = Decoded(h.outputs.count)
        BY DEF OutputCount
    <2>5. \A m \in 1 .. 4 : Decoded(Encoded(m)) = m
        BY EncodedCounts
    <2>6. \A m \in 1 .. 3 : Decoded(Encoded(m)) = m
        BY EncodedCounts
    <2>. HIDE DEF i, h, n
    <2>7. n = i
        BY <2>1, <2>4, <2>6
    <2>. QED
        BY <2>1, <2>2, <2>3, <2>4, <2>5, <2>7
<1>3. OutputStream = FlattenSeq([t \in 1 .. Cardinality(DOMAIN gpr) |-> FlattenSeq(OfThread(t - 1))])
    BY DEF OutputStream
<1>4. Cardinality(DOMAIN gpr) = threads
    <2>1. Cardinality(0 .. threads - 1) = threads
        <3>. DEFINE i == threads - 1
        <3>1. i \in Int /\ 0 \in Int /\ (IF 0 > i THEN 0 ELSE i - 0 + 1) = threads
            OBVIOUS
        <3>. HIDE DEF i
        <3>2. Cardinality(0 .. i) = IF 0 > i THEN 0 ELSE i - 0 + 1
            BY <3>1, FS_Interval
        <3>. QED
            BY <3>1, <3>2 DEF i
    <2>. QED
        BY <2>1 DEF Lanes
<1>5. OutputStream = FlattenSeq(ss)
    BY <1>3, <1>4
<1>. HIDE DEF size, n, h
<1>6. ASSUME NEW t
      PROVE  IsSeq(FlattenSeq(OfThread(t))) /\ Len(FlattenSeq(OfThread(t))) = T
    <2>. DEFINE os == OfThread(t)
    <2>1. Counted(os, n) /\ n \in Nat
        BY <1>2 DEF Counted
    <2>2. Counted(sizes, n) /\ \A k \in 1 .. n : sizes[k] = size(k) /\ size(k) \in Nat
        BY <1>2 DEF SizesIn, Counted, size
    <2>3. \A k \in 1 .. n : IsSeq(os[k]) /\ Len(os[k]) = sizes[k]
        <3>. SUFFICES ASSUME NEW k \in 1 .. n
                      PROVE  IsSeq(os[k]) /\ Len(os[k]) = sizes[k]
            OBVIOUS
        <3>. DEFINE value == Slice(gpr[t][h.outputs.reg[k]], 0, size(k))
        <3>1. os[k] = value
            OBVIOUS
        <3>2. IsSeq(value) /\ Len(value) = size(k)
            <4>1. size(k) \in Nat /\ 0 \in Nat
                BY <2>2
            <4>. QED
                BY <4>1, SliceIsSeq
        <3>. HIDE DEF os, value, sizes
        <3>. QED
            BY <2>2, <3>1, <3>2
    <2>. HIDE DEF os, sizes
    <2>4. IsSeq(FlattenSeq(os)) /\ Len(FlattenSeq(os)) = Total(sizes)
        BY <2>1, <2>2, <2>3, FlattenLength
    <2>. QED
        BY <2>4 DEF os
<1>7. T \in Nat
    <2>1. n \in 0 .. 3 /\ \A k \in 1 .. n : Decoded(h.outputs.size[k]) \in 1 .. 4
        BY <1>2 DEF size
    <2>. QED
        BY <2>1, SizesTyped
<1>8. /\ Counted(ss, threads) /\ Counted(l, threads)
      /\ \A v \in 1 .. threads : IsSeq(ss[v]) /\ Len(ss[v]) = l[v]
    <2>. HIDE DEF OfThread, T
    <2>. QED
        BY <1>6 DEF Counted
<1>9. Total(l) = T * threads
    <2>. HIDE DEF T
    <2>. QED
        BY <1>7, TotalConstant
<1>. HIDE DEF ss, l, T
<1>10. Len(FlattenSeq(ss)) = T * threads
    BY <1>8, <1>9, FlattenLength
<1>11. CalculateShaderOutputsCount(r) = T * threads
    <2>1. \A part, m : SizesOf(part, m) = Total(SizesIn(part.size, m))
        BY DEF SizesOf, Total, SizesIn
    <2>2. r.outputs.count = h.outputs.count /\ \A k \in 1 .. n : r.outputs.size[k] = h.outputs.size[k]
        BY <1>1, <1>2 DEF DescribedBy
    <2>3. SizesIn(r.outputs.size, n) = sizes
        BY <2>2 DEF SizesIn
    <2>. QED
        BY <1>2, <2>1, <2>2, <2>3 DEF CalculateShaderOutputsCount, T
<1>. QED
    BY <1>5, <1>10, <1>11

\* What is sent for the triangle or the fragments of scene s.
DataOf(b, s) ==
    IF IsVs(b)
    THEN FetchedVertices(VsCustomInputComponents(b), s[1]) \o UniformData(Uniforms(b), UniformValue)
    ELSE FragmentData \o UniformData(Uniforms(b), UniformValue) \o TriangleAttributes(s, VsPsCustomComponents(b))

LEMMA PinsTyped ==
    ASSUME NEW b, BinaryTyped(b), Built(b)
    PROVE  /\ Uniforms(b).count \in 0 .. 3
           /\ \A k \in 1 .. Uniforms(b).count : Decoded(Uniforms(b).comp[k]) = Components(b, "uniform", k)
           /\ IsVs(b) =>
                /\ VsCustomInputComponents(b).count \in 1 .. 3
                /\ \A k \in 1 .. VsCustomInputComponents(b).count :
                       Decoded(VsCustomInputComponents(b).comp[k]) = Components(b, "input", k)
           /\ IsFs(b) =>
                /\ VsPsCustomComponents(b).count \in 0 .. 2
                /\ \A k \in 1 .. VsPsCustomComponents(b).count :
                       Decoded(VsPsCustomComponents(b).comp[k]) = Components(b, "input", k + 1)
<1>. DEFINE U == Uniforms(b)
            I == VsCustomInputComponents(b)
            A == VsPsCustomComponents(b)
            i == Len(b.io["input"])
            u == Len(b.io["uniform"])
<1>1. i \in 1 .. 3 /\ u \in 0 .. 3
    BY BuiltHeader DEF HeaderFacts
<1>2. /\ \A k \in 1 .. i : Components(b, "input", k) \in 1 .. 4
      /\ \A k \in 1 .. u : Components(b, "uniform", k) \in 1 .. 4
    BY IoSizes DEF IoTypes
<1>3. \A m \in 1 .. 4 : Decoded(Encoded(m)) = m
    BY EncodedCounts
<1>4. \A m \in 0 .. 3 : \A k \in 1 .. m : k \in 1 .. 3
    OBVIOUS
<1>5. /\ U.count = u
      /\ \A k \in 1 .. 3 : U.comp[k] = Encoded(Components(b, "uniform", k))
    BY PinsOfBuilt
<1>6. IsVs(b) => I.count = i /\ \A k \in 1 .. 3 : I.comp[k] = Encoded(Components(b, "input", k))
    BY PinsOfBuilt
<1>7. IsFs(b) => A.count = i - 1 /\ \A k \in 1 .. 3 : A.comp[k] = Encoded(Components(b, "input", k + 1))
    BY PinsOfBuilt
<1>. HIDE DEF U, I, A, i, u
<1>8. \A k \in 1 .. u : Decoded(U.comp[k]) = Components(b, "uniform", k)
    BY <1>1, <1>2, <1>3, <1>4, <1>5
<1>9. IsVs(b) => \A k \in 1 .. i : Decoded(I.comp[k]) = Components(b, "input", k)
    <2>1. i \in 0 .. 3
        BY <1>1
    <2>. QED
        BY <1>2, <1>3, <1>4, <1>6, <2>1
<1>10. IsFs(b) => \A k \in 1 .. A.count : Decoded(A.comp[k]) = Components(b, "input", k + 1)
    <2>1. IsFs(b) => \A k \in 1 .. A.count : k \in 1 .. 3 /\ k + 1 \in 1 .. i
        BY <1>1, <1>7
    <2>. QED
        BY <1>2, <1>3, <1>7, <2>1
<1>11. IsFs(b) => A.count \in 0 .. 2
    BY <1>1, <1>7
<1>. QED
    BY <1>1, <1>5, <1>6, <1>8, <1>9, <1>10, <1>11 DEF U, I, A

LEMMA DataCounted ==
    ASSUME NEW b, BinaryTyped(b), Built(b), NEW s
    PROVE  IsSeq(DataOf(b, s)) /\ Len(DataOf(b, s)) = CalculateShaderInputsCount(RequestOf(b))
<1>. DEFINE r == RequestOf(b)
            I == VsCustomInputComponents(b)
            A == VsPsCustomComponents(b)
            x == UniformData(Uniforms(b), UniformValue)
            uniforms == Total(SizesIn(Uniforms(b).comp, Uniforms(b).count))
            d == DataOf(b, s)
            c == CalculateShaderInputsCount(r)
<1>1. /\ \A k \in 1 .. Len(b.io["uniform"]) : Components(b, "uniform", k) \in 1 .. 4
      /\ \A k \in 1 .. Len(b.io["input"]) : Components(b, "input", k) \in 1 .. 4
    BY IoSizes DEF IoTypes
<1>2. IsSeq(x) /\ Len(x) = uniforms /\ uniforms \in Nat
    <2>1. Uniforms(b).count \in 0 .. 3 /\ Uniforms(b).count = Len(b.io["uniform"])
        BY PinsTyped, PinsOfBuilt
    <2>2. \A k \in 1 .. Uniforms(b).count : Decoded(Uniforms(b).comp[k]) \in 1 .. 4
        BY <1>1, <2>1, PinsTyped
    <2>. QED
        BY <2>1, <2>2, UniformLength, SizesTyped
<1>3. CASE IsVs(b)
    <2>. DEFINE T == Total(SizesIn(I.comp, I.count))
                v == FetchedVertices(I, s[1])
    <2>1. I.count \in 0 .. 3 /\ I.count = Len(b.io["input"])
        <3>1. I.count \in 1 .. 3
            BY <1>3, PinsTyped
        <3>2. I.count = Len(b.io["input"])
            BY <1>3, PinsOfBuilt
        <3>. HIDE DEF I
        <3>. QED
            BY <3>1, <3>2
    <2>2. \A k \in 1 .. I.count : Decoded(I.comp[k]) \in 1 .. 4
        BY <1>1, <1>3, <2>1, PinsTyped
    <2>3. T \in Nat
        <3>. HIDE DEF I
        <3>. QED
            BY <2>1, <2>2, SizesTyped
    <2>4. IsSeq(v) /\ Len(v) = 3 * T
        <3>. HIDE DEF I
        <3>. QED
            BY <2>3, VerticesLength
    <2>5. d = v \o x
        BY <1>3 DEF DataOf
    <2>6. c = T * 3 + uniforms
        BY <1>3, RequestCounted
    <2>. HIDE DEF v, x, d, c, T, uniforms
    <2>7. IsSeq(d) /\ Joins(v, x, d)
        BY <1>2, <2>4, <2>5, ConcatIsSeq
    <2>. QED
        BY <1>2, <2>3, <2>4, <2>6, <2>7 DEF Joins, d, c
<1>4. CASE ~IsVs(b)
    <2>. DEFINE T == Total(SizesIn(A.comp, A.count))
                f == FragmentData
                a == TriangleAttributes(s, A)
                n == Len(Fragments)
    <2>1. IsFs(b)
        BY <1>4 DEF Built, IsVs, IsFs
    <2>2. A.count \in 0 .. 3 /\ \A k \in 1 .. A.count : k + 1 \in 1 .. Len(b.io["input"])
        <3>1. A.count \in 0 .. 2
            BY <2>1, PinsTyped
        <3>2. A.count = Len(b.io["input"]) - 1 /\ Len(b.io["input"]) \in 1 .. 3
            <4>1. Len(b.io["input"]) \in 1 .. 3
                BY BuiltHeader DEF HeaderFacts
            <4>. QED
                BY <2>1, <4>1, PinsOfBuilt
        <3>. HIDE DEF A
        <3>. QED
            BY <3>1, <3>2
    <2>3. \A k \in 1 .. A.count : Decoded(A.comp[k]) \in 1 .. 4
        BY <1>1, <2>1, <2>2, PinsTyped
    <2>4. T \in Nat
        <3>. HIDE DEF A
        <3>. QED
            BY <2>2, <2>3, SizesTyped
    <2>5. IsSeq(a) /\ Len(a) = 3 * (3 + T)
        <3>. HIDE DEF A
        <3>. QED
            BY <2>2, <2>3, AttributesLength
    <2>6. IsSeq(f) /\ Len(f) = 2 * n /\ n \in Nat
        BY FragmentsLength
    <2>7. d = (f \o x) \o a
        BY <1>4 DEF DataOf
    <2>8. c = 2 * n + 3 * (3 + T) + uniforms
        BY <2>1, RequestCounted
    <2>. HIDE DEF a, f, x, d, c, T, n, uniforms
    <2>. DEFINE g == f \o x
    <2>9. IsSeq(g) /\ Joins(f, x, g)
        BY <1>2, <2>6, ConcatIsSeq
    <2>10. d = g \o a
        BY <2>7
    <2>. HIDE DEF g
    <2>11. IsSeq(d) /\ Joins(g, a, d)
        BY <2>5, <2>9, <2>10, ConcatIsSeq
    <2>. QED
        BY <1>2, <2>4, <2>5, <2>6, <2>8, <2>9, <2>11 DEF Joins, d, c
<1>. QED
    BY <1>3, <1>4

LEMMA WholeSeq ==
    ASSUME NEW s, IsSeq(s)
    PROVE  SubSeq(s, 1, Len(s)) = s
<1>1. Len(s) \in Nat /\ s = [i \in 1 .. Len(s) |-> s[i]]
    BY LenProperties DEF IsSeq
<1>. DEFINE n == Len(s)
<1>. HIDE DEF n
<1>2. SubSeq(s, 1, n) = [i \in 1 .. n |-> s[i]]
    <2>1. n - 1 + 1 = n /\ \A i \in 1 .. n : 1 + i - 1 = i
        BY <1>1 DEF n
    <2>2. n \in Nat
        BY <1>1 DEF n
    <2>. QED
        BY <2>1, <2>2
<1>. QED
    BY <1>1, <1>2 DEF n

-----------------------------------------------------------------------------
(* What is sent stays as it is; as many lanes run as threads were asked for. *)

StreamInv ==
    /\ phase \in {"requested"} \cup LoadedPhases =>
           stream = DataOf(binary, scene) /\ (IsVs(binary) => scene[1] \in Nat)
    /\ phase \in {"executing", "answered"} => DOMAIN gpr = Lanes(request.threads)
    /\ phase = "answered" => Len(response) = CalculateShaderOutputsCount(request)

\* What the invariants say of the request.
LEMMA RequestOfPhase ==
    ASSUME WordsInv, RequestInv, phase \in {"requested"} \cup LoadedPhases
    PROVE  /\ request = RequestOf(binary) /\ BinaryTyped(binary) /\ Built(binary)
           /\ request.threads \in Nat
           /\ phase # "requested" => isaMetadata = binary.header /\ isa = binary.words
<1>1. request = RequestOf(binary) /\ BinaryTyped(binary) /\ Built(binary)
    BY DEF RequestInv, WordsInv, ReadyPhases
<1>2. request.threads = IF IsVs(binary) THEN 3 ELSE Len(Fragments)
    BY <1>1, RequestDescribed
<1>. QED
    BY <1>1, <1>2, FragmentsLength DEF WordsInv

LEMMA StreamStep == WordsInv /\ RequestInv /\ StreamInv /\ [Next]_vars => StreamInv'
<1>. SUFFICES ASSUME WordsInv, RequestInv, StreamInv, [Next]_vars
              PROVE  StreamInv'
    OBVIOUS
<1>1. CASE Assemble \/ Reset
    <2>1. phase' \in {"directives", "refused", "instructions", "stopped", "assembled"}
        BY <1>1 DEF Assemble, ParseDirective, FinalizeDirectives, ParseInstruction, FinalizeInstructions, Reset
    <2>. QED
        BY <2>1 DEF StreamInv, LoadedPhases
<1>2. ASSUME NEW triangle \in 0 .. PrimitiveCount - 1, RequestVertices(triangle)
      PROVE  StreamInv'
    <2>1. IsVs(binary) /\ binary' = binary /\ scene' = <<triangle>> /\ phase' = "requested"
        BY <1>2 DEF RequestVertices
    <2>2. stream' = FetchedVertices(VsCustomInputComponents(binary), triangle) \o UniformData(Uniforms(binary), UniformValue)
        BY <1>2 DEF RequestVertices
    <2>3. stream' = DataOf(binary, <<triangle>>) /\ triangle \in Nat /\ <<triangle>>[1] = triangle
        BY <2>1, <2>2, ProgramAssumption DEF DataOf
    <2>4. stream' = DataOf(binary', scene') /\ scene'[1] \in Nat
        BY <2>1, <2>3
    <2>. QED
        BY <2>1, <2>4 DEF StreamInv
<1>3. ASSUME NEW triangle \in Triangles, RequestFragments(triangle)
      PROVE  StreamInv'
    <2>1. IsFs(binary) /\ binary' = binary /\ scene' = triangle /\ phase' = "requested"
        BY <1>3 DEF RequestFragments
    <2>2. ~IsVs(binary)
        BY <2>1 DEF IsVs, IsFs
    <2>3. stream' = DataOf(binary, triangle)
        BY <1>3, <2>2 DEF RequestFragments, DataOf, FragmentData
    <2>4. stream' = DataOf(binary', scene') /\ ~IsVs(binary')
        BY <2>1, <2>2, <2>3
    <2>. QED
        BY <2>1, <2>4 DEF StreamInv
<1>4. CASE FeedUnit
    <2>1. /\ phase = "requested" /\ phase' \in {"fed", "rejected"} /\ UNCHANGED <<binary, request, scene>>
          /\ stream' = SubSeq(stream, 1, CalculateShaderInputsCount(request))
        BY <1>4 DEF FeedUnit
    <2>2. /\ request = RequestOf(binary) /\ BinaryTyped(binary) /\ Built(binary)
          /\ stream = DataOf(binary, scene) /\ (IsVs(binary) => scene[1] \in Nat)
        BY <2>1, RequestOfPhase DEF StreamInv
    <2>3. IsSeq(stream) /\ Len(stream) = CalculateShaderInputsCount(request)
        BY <2>2, DataCounted
    <2>4. stream' = stream
        BY <2>1, <2>3, WholeSeq
    <2>5. stream' = DataOf(binary', scene') /\ (IsVs(binary') => scene'[1] \in Nat)
        BY <2>1, <2>2, <2>4
    <2>. QED
        BY <2>1, <2>5 DEF StreamInv
<1>5. CASE StartUnit \/ RunUnit \/ Answer \/ Finished \/ UNCHANGED vars
    <2>1. /\ UNCHANGED <<binary, scene, stream, request>>
          /\ phase' = phase \/ phase \in LoadedPhases
        BY <1>5 DEF StartUnit, RunUnit, Answer, Finished, programVars, vars, LoadedPhases
    <2>2. phase' \in {"requested"} \cup LoadedPhases =>
              stream' = DataOf(binary', scene') /\ (IsVs(binary') => scene'[1] \in Nat)
        BY <2>1 DEF StreamInv
    <2>3. CASE StartUnit
        <3>1. DOMAIN gpr' = Lanes(request'.threads) /\ phase' = "executing"
            BY <2>1, <2>3 DEF StartUnit, InitializeInputRegisters
        <3>. QED
            BY <2>2, <3>1 DEF StreamInv, Lanes
    <2>4. CASE RunUnit
        <3>1. DOMAIN gpr' = DOMAIN gpr /\ phase = "executing" /\ phase' = phase
            BY <2>4 DEF RunUnit, ExecuteInstruction, programVars
        <3>. QED
            BY <2>1, <2>2, <3>1 DEF StreamInv, Lanes
    <2>5. CASE Answer
        <3>1. phase = "executing" /\ phase' = "answered" /\ response' = OutputStream /\ gpr' = gpr
            BY <2>5 DEF Answer, unitVars
        <3>2. /\ request = RequestOf(binary) /\ BinaryTyped(binary) /\ Built(binary)
              /\ request.threads \in Nat /\ isaMetadata = binary.header
            BY <3>1, RequestOfPhase DEF LoadedPhases
        <3>3. DOMAIN gpr = Lanes(request.threads)
            BY <3>1 DEF StreamInv
        <3>4. Len(OutputStream) = CalculateShaderOutputsCount(request)
            BY <3>2, <3>3, AnswerCounted
        <3>5. Len(response') = CalculateShaderOutputsCount(request') /\ DOMAIN gpr' = Lanes(request'.threads)
            BY <2>1, <3>1, <3>3, <3>4
        <3>. QED
            BY <2>2, <3>1, <3>5 DEF StreamInv, Lanes
    <2>6. CASE Finished \/ UNCHANGED vars
        <3>1. UNCHANGED <<phase, gpr, response, stream, scene, binary, request>>
            BY <2>6 DEF Finished, vars, unitVars, programVars
        <3>. QED
            BY <3>1 DEF StreamInv
    <2>. QED
        BY <1>5, <2>3, <2>4, <2>5, <2>6
<1>. QED
    BY <1>1, <1>2, <1>3, <1>4, <1>5 DEF Next, Serve

LEMMA StreamAlways == Spec => [](WordsInv /\ StartInv /\ RequestInv /\ StreamInv)
<1>1. Init => StreamInv
    BY DEF Init, StreamInv, LoadedPhases
<1>. QED
    BY <1>1, RequestsAlways, StreamStep, PTL DEF Spec

\* The sizes of a request's part whose first is a number of its own.
LEMMA SizesWithFirst ==
    ASSUME NEW n \in 0 .. 2, NEW size, NEW comp, NEW c \in 1 .. 4,
           size[1] = Encoded(c), size[2] = comp[1], size[3] = comp[2],
           \A k \in 1 .. n : Decoded(comp[k]) \in 1 .. 4
    PROVE  /\ Total(SizesIn(size, n + 1)) = c + Total(SizesIn(comp, n))
           /\ Total(SizesIn(comp, n)) \in Nat
<1>. DEFINE s == SizesIn(size, n + 1)
<1>1. n \in Nat /\ n \in 0 .. 3 /\ 1 \in 1 .. n + 1
    OBVIOUS
<1>2. s[1] = c
    BY <1>1, EncodedCounts DEF SizesIn
<1>3. \A k \in 1 .. n : s[k + 1] = Decoded(comp[k])
    <2>1. \A k \in 1 .. n : (k = 1 \/ k = 2) /\ k + 1 \in 1 .. n + 1
        OBVIOUS
    <2>2. \A k \in 1 .. n : size[k + 1] = comp[k]
        BY <2>1
    <2>. QED
        BY <2>1, <2>2 DEF SizesIn
<1>4. s \in [1 .. n + 1 -> Nat]
    <2>1. ASSUME NEW k \in 1 .. n + 1
          PROVE  s[k] \in Nat
        <3>. HIDE DEF s
        <3>1. k = 1 \/ (k - 1 \in 1 .. n /\ (k - 1) + 1 = k)
            OBVIOUS
        <3>. QED
            BY <1>2, <1>3, <3>1
    <2>2. s = [k \in 1 .. n + 1 |-> s[k]]
        BY DEF SizesIn
    <2>. HIDE DEF s
    <2>. QED
        BY <2>1, <2>2
<1>5. [k \in 1 .. n |-> s[k + 1]] = SizesIn(comp, n)
    <2>. HIDE DEF s
    <2>. QED
        BY <1>3 DEF SizesIn
<1>6. Total(SizesIn(comp, n)) \in Nat
    BY <1>1, SizesTyped
<1>. HIDE DEF s
<1>7. Total(s) = s[1] + Total([k \in 1 .. n |-> s[k + 1]])
    BY <1>1, <1>4, TotalFirst
<1>. QED
    BY <1>2, <1>5, <1>6, <1>7 DEF s

\* What the frontend counts for an answer is what the vertex shader receives, and five
\* dwords for each fragment of a batch.
LEMMA AnswerOfBlock ==
    ASSUME NEW b, BinaryTyped(b), Built(b)
    PROVE  /\ IsVs(b) => CalculateShaderOutputsCount(RequestOf(b)) = VsOutputsCount(VsPsCustomComponents(b))
           /\ IsFs(b) => CalculateShaderOutputsCount(RequestOf(b)) = Len(Fragments) * FragmentDwords
<1>. DEFINE r == RequestOf(b)
            outputs == VsPsCustomComponents(b)
            n == outputs.count
<1>1. \A part, m : SizesOf(part, m) = Total(SizesIn(part.size, m))
    BY DEF SizesOf, Total, SizesIn
<1>2. /\ \A m \in 1 .. 3 : OneMore(m - 1) = Encoded(m) /\ Decoded(Encoded(m)) = m
      /\ \A m \in 1 .. 4 : Decoded(Encoded(m)) = m
    BY EncodedCounts
<1>3. CASE IsVs(b)
    <2>1. n = Len(b.io["output"]) - 1 /\ Len(b.io["output"]) \in 1 .. 3
        BY <1>3, PinsOfBuilt, BuiltHeader DEF HeaderFacts
    <2>2. r = VsRequest(VsCustomInputComponents(b), outputs, Uniforms(b)) /\ ~IsFs(b)
        BY <1>3 DEF RequestOf, IsVs, IsFs
    <2>3. \A k \in 1 .. n : Decoded(outputs.comp[k]) \in 1 .. 4
        <3>1. \A k \in 1 .. 3 : outputs.comp[k] = Encoded(Components(b, "output", k + 1))
            BY <1>3, PinsOfBuilt
        <3>2. \A k \in 1 .. Len(b.io["output"]) : Components(b, "output", k) \in 1 .. 4
            BY IoSizes DEF IoTypes
        <3>. HIDE DEF outputs
        <3>3. \A k \in 1 .. n : k \in 1 .. 3 /\ k + 1 \in 1 .. Len(b.io["output"])
            <4>. DEFINE l == Len(b.io["output"])
            <4>1. n = l - 1 /\ l \in 1 .. 3
                BY <2>1
            <4>. HIDE DEF n, l
            <4>2. \A k \in 1 .. n : k \in 1 .. 3 /\ k + 1 \in 1 .. l
                BY <4>1
            <4>. QED
                BY <4>2 DEF l
        <3>. QED
            BY <1>2, <3>1, <3>2, <3>3
    <2>. HIDE DEF outputs, r
    <2>4. n \in 0 .. 2 /\ n + 1 \in 1 .. 3 /\ (n + 1) - 1 = n
        <3>. DEFINE l == Len(b.io["output"])
        <3>1. n = l - 1 /\ l \in 1 .. 3
            BY <2>1
        <3>. HIDE DEF n, l
        <3>. QED
            BY <3>1
    <2>5. /\ r.threads = 3 /\ r.outputs.count = OneMore(n)
          /\ r.outputs.size[1] = Encoded(4) /\ r.outputs.size[2] = outputs.comp[1]
          /\ r.outputs.size[3] = outputs.comp[2]
        BY <2>2 DEF VsRequest, VsThreads
    <2>. HIDE DEF n
    <2>6. Decoded(r.outputs.count) = n + 1
        BY <1>2, <2>4, <2>5
    <2>7. Total(SizesIn(r.outputs.size, n + 1)) = 4 + Total(SizesIn(outputs.comp, n))
        BY <2>3, <2>4, <2>5, SizesWithFirst
    <2>8. TotalCustomComponents(outputs) = Total(SizesIn(outputs.comp, n))
        BY DEF TotalCustomComponents, Total, SizesIn, n
    <2>9. CalculateShaderOutputsCount(r) = VsOutputsCount(outputs)
        BY <1>1, <2>5, <2>6, <2>7, <2>8 DEF CalculateShaderOutputsCount, VsOutputsCount, VsThreads
    <2>. QED
        BY <2>2, <2>9 DEF r, outputs
<1>4. CASE IsFs(b)
    <2>1. r = FsRequest(Len(Fragments), outputs, Uniforms(b)) /\ ~IsVs(b)
        BY <1>4 DEF RequestOf, IsVs, IsFs
    <2>. DEFINE one == [k \in 1 .. 2 |-> Encoded(1)]
    <2>2. /\ r.threads = Len(Fragments) /\ r.outputs.count = Encoded(2)
          /\ r.outputs.size[1] = Encoded(4) /\ r.outputs.size[2] = Encoded(1)
          /\ r.outputs.size[3] = Encoded(1)
        BY <2>1 DEF FsRequest
    <2>. HIDE DEF r, outputs
    <2>3. one[1] = Encoded(1) /\ one[2] = Encoded(1)
        OBVIOUS
    <2>4. Decoded(Encoded(1)) = 1 /\ Decoded(Encoded(2)) = 2
        BY <1>2
    <2>a. \A k \in 1 .. 1 : k = 1
        OBVIOUS
    <2>. HIDE DEF one
    <2>. DEFINE sizes == 1
    <2>5. sizes \in 0 .. 2 /\ sizes \in Nat /\ sizes + 1 = 2 /\ 1 * sizes = 1 /\ 4 \in 1 .. 4 /\ 1 \in Nat
        OBVIOUS
    <2>6. /\ \A k \in 1 .. sizes : Decoded(one[k]) = 1
          /\ \A k \in 1 .. sizes : Decoded(one[k]) \in 1 .. 4
        <3>1. 1 \in 1 .. 4
            OBVIOUS
        <3>. QED
            BY <2>a, <2>3, <2>4, <3>1
    <2>. HIDE DEF sizes
    <2>7. Total(SizesIn(r.outputs.size, sizes + 1)) = 4 + Total(SizesIn(one, sizes))
        BY <2>2, <2>3, <2>5, <2>6, SizesWithFirst
    <2>8. Total(SizesIn(r.outputs.size, Decoded(r.outputs.count))) = 5
        <3>1. SizesIn(one, sizes) = [k \in 1 .. sizes |-> 1]
            BY <2>6 DEF SizesIn
        <3>2. Total([k \in 1 .. sizes |-> 1]) = 1 * sizes
            BY <2>5, TotalConstant
        <3>3. Total(SizesIn(r.outputs.size, sizes + 1)) = 5
            BY <2>5, <2>7, <3>1, <3>2
        <3>. QED
            BY <2>2, <2>4, <2>5, <3>3
    <2>9. CalculateShaderOutputsCount(r) = 5 * Len(Fragments)
        BY <1>1, <2>2, <2>8 DEF CalculateShaderOutputsCount
    <2>10. 5 * Len(Fragments) = Len(Fragments) * FragmentDwords
        BY FragmentsLength DEF FragmentDwords
    <2>. QED
        BY <2>1, <2>9, <2>10 DEF r
<1>. QED
    BY <1>3, <1>4

\* Nobody waits for more dwords than are sent: block, frontend and unit, counting each on
\* its own, agree on those of a request, unit, frontend and vertex shader on those of an
\* answer, and the fragment shader's full batch has room for all of its fragments' dwords.
THEOREM CountsAgreeAlways == Spec => []CountsAgree
<1>1. WordsInv /\ RequestInv /\ StreamInv => CountsAgree
    <2>. SUFFICES ASSUME WordsInv, RequestInv, StreamInv
                  PROVE  CountsAgree
        OBVIOUS
    <2>1. ASSUME phase \in {"requested", "fed"}
          PROVE  Len(stream) = CalculateShaderInputsCount(request)
        <3>1. /\ request = RequestOf(binary) /\ BinaryTyped(binary) /\ Built(binary)
              /\ stream = DataOf(binary, scene)
            BY <2>1, RequestOfPhase DEF StreamInv, LoadedPhases
        <3>. QED
            BY <3>1, DataCounted
    <2>2. ASSUME phase = "fed"
          PROVE  CalculateShaderInputsCount(request) = DemandedCount(request.threads)
        <3>1. /\ request = RequestOf(binary) /\ BinaryTyped(binary) /\ Built(binary)
              /\ isaMetadata = binary.header /\ request.threads \in Nat
            BY <2>2, RequestOfPhase DEF LoadedPhases
        <3>. QED
            BY <3>1, UnitCounts
    <2>3. ASSUME phase = "answered"
          PROVE  /\ IsVs(binary) => CalculateShaderOutputsCount(request) = VsOutputsCount(VsPsCustomComponents(binary))
                 /\ IsFs(binary) => CalculateShaderOutputsCount(request) = Len(Fragments) * FragmentDwords
        <3>1. request = RequestOf(binary) /\ BinaryTyped(binary) /\ Built(binary)
            BY <2>3, RequestOfPhase DEF LoadedPhases
        <3>. QED
            BY <3>1, AnswerOfBlock
    <2>4. Len(Fragments) * FragmentDwords <= FsOutputsCount
        <3>1. Len(Fragments) \in Nat /\ Len(Fragments) <= 32
            BY FragmentsLength, ProgramAssumption DEF SimdSize
        <3>2. FragmentDwords = 5 /\ FsOutputsCount = 32 * 5
            BY DEF FragmentDwords, FsOutputsCount, SimdSize
        <3>. QED
            BY <3>1, <3>2
    <2>. QED
        BY <2>1, <2>2, <2>3, <2>4 DEF CountsAgree, StreamInv
<1>. QED
    BY <1>1, StreamAlways, PTL

-----------------------------------------------------------------------------
(* What the generated code does to registers before the user's begins.       *)

LEMMA ExecuteLoads ==
    ASSUME NEW regs, NEW values
    PROVE  /\ Execute(regs, Word("lduni", <<>>), values) = LoadUniforms(regs)
           /\ Execute(regs, Word("initregs", <<>>), values) = ZeroInitializeUnused(regs)
<1>. DEFINE u == Word("lduni", <<>>)
            i == Word("initregs", <<>>)
<1>1. u.op = "lduni" /\ i.op = "initregs"
    BY DEF Word
<1>2. /\ "lduni" \notin UnaryOps /\ "lduni" \notin BinaryOps /\ "lduni" \notin DOMAIN OperationOf
      /\ "initregs" \notin UnaryOps /\ "initregs" \notin BinaryOps /\ "initregs" \notin DOMAIN OperationOf
    BY DEF UnaryOps, BinaryOps, OperationOf
<1>. HIDE DEF u, i
<1>3. Execute(regs, u, values) = LoadUniforms(regs)
    BY <1>1, <1>2, Zenon DEF Execute
<1>4. Execute(regs, i, values) = ZeroInitializeUnused(regs)
    BY <1>1, <1>2, Zenon DEF Execute
<1>. QED
    BY <1>3, <1>4 DEF u, i

LEMMA SizeOfLoads == Size(Word("lduni", <<>>)) = 1 /\ Size(Word("initregs", <<>>)) = 1
<1>1. /\ "lduni" \notin DOMAIN OperationOf /\ "initregs" \notin DOMAIN OperationOf
    BY DEF OperationOf
<1>. QED
    BY <1>1 DEF Size, HasImmediates, Word

LEMMA PartOfWhole ==
    ASSUME NEW n \in Nat, NEW ss, Counted(ss, n), NEW l, Counted(l, n),
           \A k \in 1 .. n : IsSeq(ss[k]) /\ Len(ss[k]) = l[k], NEW k \in 1 .. n
    PROVE  Part(FlattenSeq(ss), l, k) = ss[k]
<1>. DEFINE S == UNION {Range(ss[j]) : j \in 1 .. n}
<1>1. \A j \in 1 .. n : ss[j] \in Seq(S)
    <2>. SUFFICES ASSUME NEW j \in 1 .. n
                  PROVE  ss[j] \in Seq(S)
        OBVIOUS
    <2>. DEFINE s == ss[j]
    <2>1. /\ s \in Seq(Range(s)) /\ Len(s) \in Nat /\ DOMAIN s = 1 .. Len(s)
          /\ s = [i \in 1 .. Len(s) |-> s[i]]
        BY LenProperties DEF IsSeq
    <2>2. Range(s) \subseteq S
        OBVIOUS
    <2>. HIDE DEF s, S
    <2>3. \A i \in 1 .. Len(s) : s[i] \in S
        BY <2>1, <2>2 DEF Range
    <2>4. s \in Seq(S)
        BY <2>1, <2>3
    <2>. QED
        BY <2>4 DEF s
<1>. HIDE DEF S
<1>2. ss \in [1 .. n -> Seq(S)] /\ DOMAIN ss = 1 .. n
    BY <1>1 DEF Counted
<1>3. Lengths(ss) = l
    BY <1>2 DEF Lengths, Counted
<1>4. Part(FlattenSeq(ss), Lengths(ss), k) = ss[k]
    BY <1>2, PartOfFlattened
<1>. QED
    BY <1>3, <1>4

\* The unit reads in the header what the directives said.
LEMMA HeaderRead ==
    ASSUME BinaryTyped(binary), Built(binary), isaMetadata = binary.header
    PROVE  /\ InputCount = Len(binary.io["input"]) /\ UniformCount = Len(binary.io["uniform"])
           /\ InputCount \in 1 .. 3 /\ UniformCount \in 0 .. 3
           /\ \A k \in 1 .. InputCount : InputRegister(k) = Index(binary, "input", k)
           /\ \A k \in 1 .. UniformCount : UniformRegister(k) = Index(binary, "uniform", k)
           /\ InputRegisters = Indices(binary, "input") /\ UniformRegisters = Indices(binary, "uniform")
           /\ \A k \in 1 .. InputCount : Decoded(isaMetadata.inputs.size[k]) = Components(binary, "input", k)
           /\ \A k \in 1 .. UniformCount : Decoded(isaMetadata.uniforms.size[k]) = Components(binary, "uniform", k)
<1>. DEFINE h == isaMetadata
            i == Len(binary.io["input"])
            u == Len(binary.io["uniform"])
<1>1. /\ h.inputs.count = Encoded(i) /\ i \in 1 .. 3 /\ h.uniforms.count = u /\ u \in 0 .. 3
      /\ \A k \in 1 .. 3 : /\ h.inputs.size[k] = Encoded(Components(binary, "input", k))
                           /\ h.uniforms.size[k] = Encoded(Components(binary, "uniform", k))
                           /\ h.inputs.reg[k] = Index(binary, "input", k)
                           /\ h.uniforms.reg[k] = Index(binary, "uniform", k)
    BY BuiltHeader DEF HeaderFacts
<1>2. /\ DOMAIN binary.io["input"] = 1 .. i /\ DOMAIN binary.io["uniform"] = 1 .. u
      /\ \A k \in 1 .. i : Components(binary, "input", k) \in 1 .. 4
                           /\ Index(binary, "input", k) = binary.io["input"][k].index
      /\ \A k \in 1 .. u : Components(binary, "uniform", k) \in 1 .. 4
                           /\ Index(binary, "uniform", k) = binary.io["uniform"][k].index
    BY IoSizes DEF IoTypes
<1>3. /\ \A m \in 1 .. 3 : Decoded(Encoded(m)) = m
      /\ \A m \in 1 .. 4 : Decoded(Encoded(m)) = m
    BY EncodedCounts
<1>4. \A m \in 0 .. 3 : \A k \in 1 .. m : k \in 1 .. 3
    OBVIOUS
<1>5. InputCount = Decoded(h.inputs.count) /\ UniformCount = h.uniforms.count
    BY DEF InputCount, UniformCount
<1>6. \A k : InputRegister(k) = h.inputs.reg[k] /\ UniformRegister(k) = h.uniforms.reg[k]
    BY DEF InputRegister, UniformRegister
<1>. HIDE DEF h, i, u
<1>7. InputCount = i /\ UniformCount = u /\ i \in 0 .. 3
    BY <1>1, <1>3, <1>5
<1>8. /\ \A k \in 1 .. i : InputRegister(k) = Index(binary, "input", k)
      /\ \A k \in 1 .. u : UniformRegister(k) = Index(binary, "uniform", k)
    BY <1>1, <1>4, <1>6, <1>7
<1>9. InputRegisters = Indices(binary, "input") /\ UniformRegisters = Indices(binary, "uniform")
    BY <1>2, <1>7, <1>8 DEF InputRegisters, UniformRegisters, Indices
<1>10. /\ \A k \in 1 .. i : Decoded(h.inputs.size[k]) = Components(binary, "input", k)
       /\ \A k \in 1 .. u : Decoded(h.uniforms.size[k]) = Components(binary, "uniform", k)
    BY <1>1, <1>2, <1>3, <1>4, <1>7
<1>. QED
    BY <1>1, <1>7, <1>8, <1>9, <1>10 DEF h, i, u

\* Registers of a type are told apart by their index.
LEMMA IndexInjective ==
    ASSUME NEW b, BinaryTyped(b), NEW t \in IoTypes,
           NEW j \in 1 .. Len(b.io[t]), NEW k \in 1 .. Len(b.io[t]), Index(b, t, j) = Index(b, t, k)
    PROVE  j = k
<1>1. Index(b, t, j) = b.io[t][j].index /\ Index(b, t, k) = b.io[t][k].index
    BY IoSizes
<1>. QED
    BY <1>1 DEF BinaryTyped, IoTyped

\* The value on the pins of the k-th uniform.
UniformOf(k) == Padded(SubSeq(UniformValue[k], 1, Components(binary, "uniform", k)))

LEMMA UniformsLoaded ==
    ASSUME BinaryTyped(binary), Built(binary), isaMetadata = binary.header,
           uniformDwords = UniformData(Uniforms(binary), UniformValue), NEW regs
    PROVE  /\ \A k \in DOMAIN binary.io["uniform"] : LoadUniforms(regs)[Index(binary, "uniform", k)] = UniformOf(k)
           /\ \A r \in Registers : r \notin Indices(binary, "uniform") => LoadUniforms(regs)[r] = regs[r]
<1>. DEFINE n == UniformCount
            size(k) == Components(binary, "uniform", k)
            ss == [k \in 1 .. n |-> SubSeq(UniformValue[k], 1, size(k))]
            l == UniformSizes
<1>1. /\ n = Len(binary.io["uniform"]) /\ n \in 0 .. 3 /\ n \in Nat
      /\ \A k \in 1 .. n : UniformRegister(k) = Index(binary, "uniform", k)
      /\ UniformRegisters = Indices(binary, "uniform")
      /\ \A k \in 1 .. n : Decoded(isaMetadata.uniforms.size[k]) = size(k)
    BY HeaderRead
<1>2. /\ DOMAIN binary.io["uniform"] = 1 .. n
      /\ \A k \in 1 .. n : size(k) \in 1 .. 4 /\ Index(binary, "uniform", k) \in Registers
    BY <1>1, IoSizes DEF IoTypes
<1>3. Uniforms(binary).count = n /\ \A k \in 1 .. n : Decoded(Uniforms(binary).comp[k]) = size(k)
    BY <1>1, PinsTyped, PinsOfBuilt
<1>4. uniformDwords = FlattenSeq(ss)
    <2>. HIDE DEF n, size
    <2>1. UniformData(Uniforms(binary), UniformValue)
              = FlattenSeq([k \in 1 .. n |-> SubSeq(UniformValue[k], 1, Decoded(Uniforms(binary).comp[k]))])
        BY <1>3 DEF UniformData
    <2>2. [k \in 1 .. n |-> SubSeq(UniformValue[k], 1, Decoded(Uniforms(binary).comp[k]))] = ss
        BY <1>3
    <2>. QED
        BY <2>1, <2>2
<1>5. Counted(l, n) /\ \A k \in 1 .. n : l[k] = size(k)
    BY <1>1 DEF UniformSizes, Counted
<1>6. Counted(ss, n)
    BY DEF Counted
<1>. HIDE DEF n, size, l
<1>7. \A k \in 1 .. n : IsSeq(ss[k]) /\ Len(ss[k]) = size(k)
    <2>. SUFFICES ASSUME NEW k \in 1 .. n
                  PROVE  IsSeq(ss[k]) /\ Len(ss[k]) = size(k)
        OBVIOUS
    <2>1. size(k) \in Nat /\ 0 \in Nat /\ 0 + 1 = 1 /\ 0 + size(k) = size(k)
        BY <1>2
    <2>2. ss[k] = Slice(UniformValue[k], 0, size(k))
        BY <2>1 DEF Slice
    <2>. DEFINE value == Slice(UniformValue[k], 0, size(k))
    <2>3. IsSeq(value) /\ Len(value) = size(k)
        BY <2>1, SliceIsSeq
    <2>. HIDE DEF ss, value
    <2>. QED
        BY <2>2, <2>3 DEF value
<1>8. ASSUME NEW k \in 1 .. n
      PROVE  LoadUniforms(regs)[Index(binary, "uniform", k)] = UniformOf(k)
    <2>. DEFINE r == Index(binary, "uniform", k)
                j == CHOOSE j \in 1 .. UniformCount : UniformRegister(j) = r
    <2>1. r \in Registers /\ r \in UniformRegisters
        BY <1>1, <1>2 DEF UniformRegisters, n
    <2>2. LoadUniforms(regs)[r] = Padded(Part(uniformDwords, UniformSizes, j))
        BY <2>1 DEF LoadUniforms
    <2>3. UniformRegister(k) = r /\ \A i \in 1 .. n : UniformRegister(i) = r => i = k
        <3>1. \A i \in 1 .. n : Index(binary, "uniform", i) = r => i = k
            BY <1>1, IndexInjective DEF IoTypes
        <3>. QED
            BY <1>1, <3>1
    <2>4. j = k
        BY <2>3 DEF n
    <2>5. Part(uniformDwords, UniformSizes, k) = ss[k]
        <3>. DEFINE F == FlattenSeq(ss)
        <3>. HIDE DEF ss
        <3>1. Part(F, l, k) = ss[k]
            BY <1>1, <1>5, <1>6, <1>7, PartOfWhole
        <3>. QED
            BY <1>4, <3>1 DEF l
    <2>6. ss[k] = SubSeq(UniformValue[k], 1, size(k))
        OBVIOUS
    <2>. HIDE DEF ss, j, r
    <2>. QED
        BY <2>2, <2>4, <2>5, <2>6 DEF UniformOf, size, r
<1>9. ASSUME NEW r \in Registers, r \notin Indices(binary, "uniform")
      PROVE  LoadUniforms(regs)[r] = regs[r]
    BY <1>1, <1>9 DEF LoadUniforms
<1>. QED
    BY <1>2, <1>8, <1>9

LEMMA UnusedZeroed ==
    ASSUME BinaryTyped(binary), Built(binary), isaMetadata = binary.header, NEW regs, NEW r \in Registers
    PROVE  ZeroInitializeUnused(regs)[r] = IF r \in Indices(binary, "uniform") \cup Indices(binary, "input")
                                           THEN regs[r] ELSE BlankRegister
<1>1. InputRegisters = Indices(binary, "input") /\ UniformRegisters = Indices(binary, "uniform")
    BY HeaderRead
<1>. QED
    BY <1>1 DEF ZeroInitializeUnused

-----------------------------------------------------------------------------
(* What is in the registers when the user's code begins.                     *)

LEMMA SliceFound ==
    ASSUME NEW s, NEW a \in Nat, NEW y, IsSeq(y), \A i \in 1 .. Len(y) : s[a + i] = y[i]
    PROVE  Slice(s, a, Len(y)) = y
<1>. DEFINE n == Len(y)
            z == Slice(s, a, n)
<1>1. n \in Nat /\ y = [i \in 1 .. n |-> y[i]]
    BY LenProperties DEF IsSeq
<1>. HIDE DEF n
<1>2. IsSeq(z) /\ Len(z) = n /\ \A i \in 1 .. n : z[i] = s[a + i]
    BY <1>1, SliceIsSeq
<1>. HIDE DEF z
<1>3. z = [i \in 1 .. n |-> z[i]]
    <2>1. z = [i \in 1 .. Len(z) |-> z[i]]
        BY <1>2, LenProperties DEF IsSeq
    <2>. QED
        BY <1>2, <2>1
<1>4. \A i \in 1 .. n : z[i] = y[i]
    BY <1>2 DEF n
<1>. QED
    BY <1>1, <1>3, <1>4 DEF z, n

\* The unit looks for the uniforms where the block has put them.
LEMMA UniformsFound ==
    ASSUME BinaryTyped(binary), Built(binary), isaMetadata = binary.header, NEW r, r = RequestOf(binary),
           r.threads \in Nat, NEW s
    PROVE  Slice(DataOf(binary, s), r.threads * PerThreadCount, Total(UniformSizes))
               = UniformData(Uniforms(binary), UniformValue)
<1>. DEFINE x == UniformData(Uniforms(binary), UniformValue)
            d == DataOf(binary, s)
            P == r.threads * PerThreadCount
            U == Total(UniformSizes)
            i == Len(binary.io["input"])
            u == Len(binary.io["uniform"])
<1>1. /\ UniformCount = u /\ InputCount = i /\ i \in 1 .. 3 /\ u \in 0 .. 3
      /\ \A k \in 1 .. InputCount : Decoded(isaMetadata.inputs.size[k]) = Components(binary, "input", k)
      /\ \A k \in 1 .. UniformCount : Decoded(isaMetadata.uniforms.size[k]) = Components(binary, "uniform", k)
    BY HeaderRead
<1>2. /\ \A k \in 1 .. u : Components(binary, "uniform", k) \in 1 .. 4
      /\ \A k \in 1 .. i : Components(binary, "input", k) \in 1 .. 4
    BY IoSizes DEF IoTypes
<1>3. /\ Uniforms(binary).count = u
      /\ \A k \in 1 .. u : Decoded(Uniforms(binary).comp[k]) = Components(binary, "uniform", k)
    BY PinsTyped, PinsOfBuilt
<1>4. IsSeq(x) /\ Len(x) = U
    <2>1. IsSeq(x) /\ Len(x) = Total(SizesIn(Uniforms(binary).comp, Uniforms(binary).count))
        <3>1. \A k \in 1 .. Uniforms(binary).count : Decoded(Uniforms(binary).comp[k]) \in 1 .. 4
            BY <1>2, <1>3
        <3>. QED
            BY <1>1, <1>3, <3>1, UniformLength
    <2>2. UniformSizes = SizesIn(Uniforms(binary).comp, Uniforms(binary).count)
        BY <1>1, <1>3 DEF UniformSizes, SizesIn
    <2>. QED
        BY <2>1, <2>2
<1>5. r.threads = (IF IsVs(binary) THEN 3 ELSE Len(Fragments)) /\ isaMetadata.programType = binary.programType
    BY RequestDescribed, BuiltHeader DEF HeaderFacts
<1>6. CASE IsVs(binary)
    <2>. DEFINE I == VsCustomInputComponents(binary)
                T == Total(SizesIn(I.comp, I.count))
                v == FetchedVertices(I, s[1])
    <2>1. I.count = i /\ \A k \in 1 .. i : Decoded(I.comp[k]) = Components(binary, "input", k)
        <3>1. I.count = i
            BY <1>6, PinsOfBuilt
        <3>2. \A k \in 1 .. I.count : Decoded(I.comp[k]) = Components(binary, "input", k)
            BY <1>6, PinsTyped
        <3>. HIDE DEF I
        <3>. QED
            BY <3>1, <3>2
    <2>2. ~IsFragmentShader
        BY <1>5, <1>6 DEF IsFragmentShader, IsVs
    <2>3. PerThreadCount = T
        <3>1. InputSizes = SizesIn(I.comp, I.count)
            <4>. HIDE DEF I, i
            <4>. QED
                BY <1>1, <2>1, <2>2 DEF InputSizes, SizesIn
        <3>. QED
            BY <2>2, <3>1 DEF PerThreadCount
    <2>4. T \in Nat
        <3>. HIDE DEF I, i
        <3>1. \A k \in 1 .. I.count : Decoded(I.comp[k]) \in 1 .. 4
            BY <1>2, <2>1
        <3>2. I.count \in 0 .. 3
            BY <1>1, <2>1
        <3>. QED
            BY <3>1, <3>2, SizesTyped
    <2>5. IsSeq(v) /\ Len(v) = 3 * T
        <3>. HIDE DEF I
        <3>. QED
            BY <2>4, VerticesLength
    <2>6. d = v \o x
        BY <1>6 DEF DataOf
    <2>7. P = 3 * T
        <3>. HIDE DEF T
        <3>. QED
            BY <1>5, <1>6, <2>3
    <2>. HIDE DEF v, x, d, P, T, U
    <2>8. Joins(v, x, d)
        BY <1>4, <2>5, <2>6, ConcatIsSeq
    <2>9. P \in Nat /\ \A k \in 1 .. Len(x) : d[P + k] = x[k]
        BY <2>4, <2>5, <2>7, <2>8 DEF Joins
    <2>10. Slice(d, P, Len(x)) = x
        BY <1>4, <2>9, SliceFound
    <2>. QED
        BY <1>4, <2>10 DEF x, d, P, U
<1>7. CASE ~IsVs(binary)
    <2>. DEFINE f == FragmentData
                a == TriangleAttributes(s, VsPsCustomComponents(binary))
                g == f \o x
    <2>1. IsFs(binary)
        BY <1>7 DEF Built, IsVs, IsFs
    <2>2. PerThreadCount = 2
        BY <1>5, <2>1 DEF PerThreadCount, IsFragmentShader, IsFs
    <2>3. IsSeq(f) /\ Len(f) = 2 * Len(Fragments) /\ Len(Fragments) \in Nat
        BY FragmentsLength
    <2>4. IsSeq(a)
        <3>. DEFINE A == VsPsCustomComponents(binary)
        <3>1. A.count \in 0 .. 2 /\ A.count = i - 1
            BY <2>1, PinsTyped, PinsOfBuilt
        <3>2. \A k \in 1 .. A.count : Decoded(A.comp[k]) = Components(binary, "input", k + 1)
            BY <2>1, PinsTyped
        <3>. HIDE DEF A, i
        <3>3. A.count \in 0 .. 3 /\ \A k \in 1 .. A.count : k + 1 \in 1 .. i
            BY <1>1, <3>1
        <3>4. \A k \in 1 .. A.count : Decoded(A.comp[k]) \in 1 .. 4
            BY <1>2, <3>2, <3>3
        <3>. QED
            BY <3>3, <3>4, AttributesLength DEF A
    <2>5. P = Len(f) /\ P \in Nat
        BY <1>5, <1>7, <2>2, <2>3
    <2>6. d = g \o a
        BY <1>7 DEF DataOf
    <2>. HIDE DEF f, a, x, P, U, d
    <2>7. IsSeq(g) /\ Joins(f, x, g)
        BY <1>4, <2>3, ConcatIsSeq
    <2>. HIDE DEF g
    <2>8. Joins(g, a, d)
        BY <2>4, <2>6, <2>7, ConcatIsSeq
    <2>9. Len(x) \in Nat /\ Len(f) \in Nat
        BY <1>4, <2>3, LenProperties DEF IsSeq
    <2>10. \A k \in 1 .. Len(x) : d[P + k] = x[k]
        BY <2>5, <2>7, <2>8, <2>9 DEF Joins
    <2>11. Slice(d, P, Len(x)) = x
        BY <1>4, <2>5, <2>10, SliceFound
    <2>. QED
        BY <1>4, <2>11 DEF x, d, P, U
<1>. QED
    BY <1>6, <1>7

-----------------------------------------------------------------------------
(* Where the components of a vertex are, and what keeps them in place.       *)

\* A part ends inside the whole.
LEMMA SizesBefore ==
    ASSUME NEW n \in Nat, NEW s \in [1 .. n -> Nat], NEW k \in 1 .. n
    PROVE  /\ Total([i \in 1 .. k - 1 |-> s[i]]) \in Nat
           /\ \A j \in 1 .. s[k] : Total([i \in 1 .. k - 1 |-> s[i]]) + j \in 1 .. Total(s)
<1>. DEFINE part(i) == [j \in 1 .. s[i] |-> 0]
            ss == [i \in 1 .. n |-> part(i)]
<1>1. ASSUME NEW i \in 1 .. n
      PROVE  part(i) \in Seq({0}) /\ Len(part(i)) = s[i]
    <2>1. s[i] \in Nat
        OBVIOUS
    <2>2. part(i) \in [1 .. s[i] -> {0}]
        OBVIOUS
    <2>. HIDE DEF part
    <2>. QED
        BY <2>1, <2>2
<1>. HIDE DEF part
<1>2. ss \in [1 .. n -> Seq({0})] /\ DOMAIN ss = 1 .. n /\ \A i \in 1 .. n : Len(ss[i]) = s[i]
    BY <1>1
<1>. HIDE DEF ss
<1>3. (\A i \in 1 .. n : Before(ss, i) \in Nat) /\ Placed(ss)
    BY <1>2, FlattenProperties
<1>4. Lengths(ss) = s
    BY <1>2 DEF Lengths
<1>5. Before(ss, k) = Total([i \in 1 .. k - 1 |-> s[i]])
    <2>1. \A i \in 1 .. k - 1 : i \in 1 .. n
        OBVIOUS
    <2>2. [i \in 1 .. k - 1 |-> Len(ss[i])] = [i \in 1 .. k - 1 |-> s[i]]
        BY <1>2, <2>1
    <2>. QED
        BY <2>2 DEF Before
<1>. QED
    BY <1>2, <1>3, <1>4, <1>5 DEF Placed

\* A vertex of the triangle begins t vertices after the first.
LEMMA VertexPlace ==
    ASSUME NEW T \in Nat, NEW t \in 0 .. 2
    PROVE  t * T \in Nat /\ t * T + T <= 3 * T
<1>1. t = 0 \/ t = 1 \/ t = 2
    OBVIOUS
<1>. QED
    BY <1>1

LEMMA VertexAddress ==
    ASSUME NEW triangle \in Nat, NEW T \in Nat, NEW t \in 0 .. 2, NEW x \in Nat \ {0}
    PROVE  (triangle * (3 * T) * 4 + ((t * T + x) - 1) * 4) \div 4 = (triangle * 3 + (t + 1) - 1) * T + x - 1
<1>. DEFINE m == triangle * T
            p == t * T
            e == (triangle * 3 + (t + 1) - 1) * T + x - 1
            f == triangle * (3 * T) * 4 + ((t * T + x) - 1) * 4
<1>1. m \in Nat /\ p \in Nat
    BY VertexPlace
<1>2. triangle * (3 * T) = 3 * m /\ (triangle * 3 + (t + 1) - 1) * T = 3 * m + p
    OBVIOUS
<1>3. e = 3 * m + p + x - 1 /\ f = (3 * m) * 4 + ((p + x) - 1) * 4
    BY <1>2
<1>. HIDE DEF m, p, e, f
<1>4. f = 4 * e /\ e \in Nat
    BY <1>1, <1>3
<1>5. f \div 4 = e
    BY <1>4
<1>. QED
    BY <1>5 DEF e, f

\* d is what is fetched for a triangle whose vertices have T components.
FetchedFrom(d, triangle, T) ==
    \A j \in 1 .. 3 * T : d[j] = VertexBuffer((triangle * (3 * T) * 4 + (j - 1) * 4) \div 4)

\* What is read of d for part k of lane t is what the buffer has for it.
ReadsVertex(d, s, k, triangle, t) ==
    LET T == Total(s)
        before == Total([i \in 1 .. k - 1 |-> s[i]])
    IN  Padded(Part(Slice(d, t * T, T), s, k))
            = Padded([c \in 1 .. s[k] |-> VertexBuffer((triangle * 3 + (t + 1) - 1) * T + before + c - 1)])

\* Vertices of n parts of sizes s lie one after the other in the buffer.
LEMMA VertexRead ==
    ASSUME NEW n \in Nat, NEW s \in [1 .. n -> Nat], NEW k \in 1 .. n, NEW triangle \in Nat, NEW t \in 0 .. 2,
           NEW d, FetchedFrom(d, triangle, Total(s))
    PROVE  ReadsVertex(d, s, k, triangle, t)
<1>. DEFINE T == Total(s)
            before == Total([i \in 1 .. k - 1 |-> s[i]])
<1>0. T \in Nat /\ FetchedFrom(d, triangle, T)
    BY TotalTyped
<1>. DEFINE first == t * T
            own == Slice(d, first, T)
            skip == Total(SubSeq(s, 1, k - 1))
            w == s[k]
            z == Slice(own, skip, w)
            base == (triangle * 3 + (t + 1) - 1) * T
            v(c) == VertexBuffer(base + before + c - 1)
            y == [c \in 1 .. w |-> v(c)]
<1>1. skip = before
    <2>1. SubSeq(s, 1, k - 1) = [i \in 1 .. k - 1 |-> s[i]]
        OBVIOUS
    <2>. QED
        BY <2>1
<1>. HIDE DEF T, before
<1>2. before \in Nat /\ w \in Nat /\ \A j \in 1 .. w : before + j \in 1 .. T
    BY SizesBefore DEF T, before
<1>3. first \in Nat /\ first + T <= 3 * T
    BY <1>0, VertexPlace
<1>4. base \in Nat
    <2>1. \A a, b \in Nat : a * b \in Nat
        OBVIOUS
    <2>2. triangle * 3 + (t + 1) - 1 \in Nat
        OBVIOUS
    <2>. QED
        BY <1>0, <2>1, <2>2
<1>5. ASSUME NEW x \in 1 .. T
      PROVE  d[first + x] = VertexBuffer(base + x - 1)
    <2>1. x \in Nat \ {0} /\ first + x \in 1 .. 3 * T
        <3>. HIDE DEF first
        <3>. QED
            BY <1>0, <1>3
    <2>2. d[first + x] = VertexBuffer((triangle * (3 * T) * 4 + ((first + x) - 1) * 4) \div 4)
        <3>. HIDE DEF first
        <3>. QED
            BY <1>0, <2>1 DEF FetchedFrom
    <2>. QED
        BY <1>0, <2>1, <2>2, VertexAddress
<1>. HIDE DEF first, base
<1>6. \A i \in 1 .. T : own[i] = d[first + i]
    BY <1>0, <1>3, SliceIsSeq
<1>7. Part(own, s, k) = z
    BY DEF Part
<1>. HIDE DEF own, w, v
<1>8. IsSeq(z) /\ Len(z) = w /\ \A i \in 1 .. w : z[i] = own[before + i]
    <2>1. z = Slice(own, before, w)
        BY <1>1
    <2>. DEFINE q == Slice(own, before, w)
    <2>2. IsSeq(q) /\ Len(q) = w /\ \A i \in 1 .. w : q[i] = own[before + i]
        <3>1. before \in Nat /\ w \in Nat
            BY <1>2
        <3>2. \A a \in Nat, m \in Nat :
                  /\ IsSeq(Slice(own, a, m)) /\ Len(Slice(own, a, m)) = m
                  /\ \A i \in 1 .. m : Slice(own, a, m)[i] = own[a + i]
            BY SliceIsSeq
        <3>. HIDE DEF z, skip, y
        <3>. QED
            BY <3>1, <3>2
    <2>. HIDE DEF z, q
    <2>. QED
        BY <2>1, <2>2 DEF q
<1>. HIDE DEF z
<1>9. ASSUME NEW i \in 1 .. w
      PROVE  z[i] = v(i)
    <2>1. before + i \in 1 .. T
        BY <1>2
    <2>2. z[i] = VertexBuffer(base + (before + i) - 1)
        BY <1>5, <1>6, <1>8, <2>1
    <2>3. base + (before + i) - 1 = base + before + i - 1
        BY <1>2, <1>4
    <2>. QED
        BY <2>2, <2>3 DEF v
<1>10. Counted(y, w) /\ \A i \in 1 .. w : y[i] = v(i)
    BY DEF Counted
<1>. HIDE DEF y
<1>11. Len(y) = w
    BY <1>2, <1>10, CountedIsSeq
<1>12. \A c \in 1 .. 4 : c <= w => c \in 1 .. w
    BY <1>2
<1>13. Padded(z) = Padded(y)
    BY <1>8, <1>9, <1>10, <1>11, <1>12 DEF Padded
<1>. QED
    BY <1>7, <1>13 DEF ReadsVertex, own, y, v, w, first, base, T, before

\* A lane has every register, of four components each.
LaneTyped(g) == (g = [r \in Registers |-> g[r]]) /\ \A r \in Registers : Counted(g[r], 4)

LEMMA FourComponents == Counted(BlankRegister, 4) /\ \A v : Counted(Padded(v), 4)
BY DEF Counted, BlankRegister, Padded

LEMMA NoMask == \A c \in 1 .. 4 : ~InMask(0, c)
<1>1. \A c \in 1 .. 4 : 4 - c \in 0 .. 3
    OBVIOUS
<1>2. \A n \in 0 .. 3 : ~IsBitSet(0, n)
    <2>1. /\ 2 ^ 0 = 1 /\ 2 ^ 1 = 2 /\ 2 ^ 2 = 4 /\ 2 ^ 3 = 8
          /\ 0 \div 1 = 0 /\ 0 \div 2 = 0 /\ 0 \div 4 = 0 /\ 0 \div 8 = 0 /\ 0 % 2 = 0
        OBVIOUS
    <2>2. \A n \in 0 .. 3 : n = 0 \/ n = 1 \/ n = 2 \/ n = 3
        OBVIOUS
    <2>3. ~IsBitSet(0, 0) /\ ~IsBitSet(0, 1) /\ ~IsBitSet(0, 2) /\ ~IsBitSet(0, 3)
        BY <2>1 DEF IsBitSet
    <2>. QED
        BY <2>2, <2>3
<1>. QED
    BY <1>1, <1>2 DEF InMask

\* The words before the code of a vertex shader that used another binary before.
LEMMA BlankDoesNothing ==
    ASSUME NEW g, LaneTyped(g), NEW values
    PROVE  Execute(g, BlankWord, values) = g
<1>. DEFINE x == BlankWord
            value == [c \in 1 .. 4 |-> BinaryFunction(x.op, g[x.f[2]][c], g[x.f[3]][c])]
<1>1. x.op = "fadd" /\ x.f = <<0, 0, 0, 0>> /\ x.f[1] = 0 /\ x.f[4] = 0
    BY DEF BlankWord, Word
<1>2. /\ "fadd" \in BinaryOps \ {"fcross", "fdot", "fcross2"} /\ "fadd" \notin UnaryOps
      /\ "fadd" \notin DOMAIN OperationOf
      /\ "fadd" # "fnorm" /\ "fadd" # "fcross" /\ "fadd" # "fdot" /\ "fadd" # "fcross2"
      /\ "fadd" # "fmad" /\ "fadd" # "init"
    BY DEF BinaryOps, UnaryOps, OperationOf
<1>. HIDE DEF x
<1>3. Execute(g, x, values) = Masked(g, x.f[1], x.f[4], value)
    BY <1>1, <1>2, Zenon DEF Execute
<1>4. g = [r \in Registers |-> g[r]] /\ g[0] = [c \in 1 .. 4 |-> g[0][c]]
    <2>1. 0 \in Registers
        BY DEF Registers, RegisterCount
    <2>. QED
        BY <2>1 DEF LaneTyped, Counted
<1>. HIDE DEF value
<1>5. [c \in 1 .. 4 |-> IF InMask(0, c) THEN value[c] ELSE g[0][c]] = g[0]
    BY <1>4, NoMask
<1>6. Masked(g, 0, 0, value) = [g EXCEPT ![0] = g[0]]
    BY <1>5, Zenon DEF Masked
<1>7. [g EXCEPT ![0] = g[0]] = g
    BY <1>4
<1>. QED
    BY <1>1, <1>3, <1>6, <1>7 DEF x

-----------------------------------------------------------------------------
(* The unit goes through the generated code, and loads before the user's.    *)

\* The place of the instruction that loads the uniforms.
FirstLoad(b, s) == s - (IF b.undefinedRegs THEN 1 ELSE 2)

\* No instruction before the loads reaches over them, and what is executed from there.
LEMMA GeneratedStep ==
    ASSUME WordsInv, StartInv, RequestInv, RunUnit, NEW l, l = FirstLoad(binary, start)
    PROVE  /\ l \in Nat /\ start \in Nat /\ l < start /\ pc \in Nat /\ pc' \in Nat
           /\ pc < l => pc' <= l
           /\ pc < l /\ IsVs(binary) /\ (\A t \in DOMAIN gpr : LaneTyped(gpr[t])) =>
                  gpr' = [t \in DOMAIN gpr |-> gpr[t]]
           /\ pc = l => pc' = l + 1 /\ gpr' = [t \in DOMAIN gpr |-> LoadUniforms(gpr[t])]
           /\ pc > l /\ pc < start =>
                  /\ ~binary.undefinedRegs /\ pc' = start
                  /\ gpr' = [t \in DOMAIN gpr |-> ZeroInitializeUnused(gpr[t])]
           /\ pc >= start => pc' > start
<1>. DEFINE word == isa[pc + 1]
            values == [k \in 1 .. Size(word) - 1 |-> isa[pc + 1 + k].f[1]]
<1>1. phase = "executing" /\ pc < isaMetadata.programLength /\ pc' = pc + Size(word)
    BY DEF RunUnit, ExecuteInstruction
<1>2. gpr' = [t \in DOMAIN gpr |-> Execute(gpr[t], word, values)]
    BY DEF RunUnit, ExecuteInstruction
<1>3. isaMetadata = binary.header /\ isa = binary.words
    BY <1>1, RequestOfPhase DEF LoadedPhases
<1>4. isaMetadata.programLength = Len(isa) /\ Len(isa) \in Nat
    <2>1. isaMetadata.programLength = Len(isa) /\ IsSeq(isa)
        BY <1>1, <1>3 DEF WordsInv, ReadyPhases, LoadedPhases, WellCut
    <2>. QED
        BY <2>1, LenProperties DEF IsSeq
<1>5. Loads(binary, start)
    BY <1>1 DEF StartInv, ReadyPhases, LoadedPhases
<1>6. /\ l = start - (IF binary.undefinedRegs THEN 1 ELSE 2) /\ l \in Nat /\ start \in Nat /\ start > l
      /\ isa[l + 1] = Word("lduni", <<>>)
      /\ ~binary.undefinedRegs => isa[l + 2] = Word("initregs", <<>>)
      /\ IsVs(binary) => \A q \in 1 .. l : isa[q] = BlankWord
    BY <1>3, <1>5 DEF Loads, FirstLoad
<1>7. PICK B : Cut(isa, B) /\ pc \in B
    BY <1>1 DEF WordsInv
<1>8. /\ pc \in Nat /\ Size(word) \in Nat \ {0}
      /\ \A q \in pc + 1 .. pc' - 1 : isa[q + 1].op = "imm"
    <2>1. pc \in 0 .. Len(isa) /\ pc \in B \ {Len(isa)}
        BY <1>1, <1>4, <1>7 DEF Cut
    <2>. QED
        BY <1>1, <2>1, <1>7 DEF Cut
<1>9. pc' \in Nat /\ pc' > pc
    BY <1>1, <1>8
<1>. HIDE DEF values
<1>10. ASSUME pc < l
       PROVE  pc' <= l
    <2>. SUFFICES ASSUME pc' > l PROVE FALSE
        BY <1>6, <1>9
    <2>1. l \in pc + 1 .. pc' - 1
        BY <1>6, <1>8, <1>9, <1>10
    <2>2. isa[l + 1].op = "imm"
        BY <1>8, <2>1
    <2>. QED
        BY <1>6, <2>2 DEF Word
<1>11. ASSUME pc < l, IsVs(binary), \A t \in DOMAIN gpr : LaneTyped(gpr[t])
       PROVE  gpr' = [t \in DOMAIN gpr |-> gpr[t]]
    <2>1. pc + 1 \in 1 .. l
        BY <1>6, <1>8, <1>11
    <2>2. word = BlankWord
        BY <1>6, <1>11, <2>1
    <2>. HIDE DEF word
    <2>3. \A t \in DOMAIN gpr : Execute(gpr[t], word, values) = gpr[t]
        BY <1>11, <2>2, BlankDoesNothing
    <2>. QED
        BY <1>2, <2>3
<1>12. ASSUME pc = l
       PROVE  pc' = l + 1 /\ gpr' = [t \in DOMAIN gpr |-> LoadUniforms(gpr[t])]
    <2>1. word = Word("lduni", <<>>)
        BY <1>6, <1>12
    <2>2. \A regs : Execute(regs, word, values) = LoadUniforms(regs)
        BY <2>1, ExecuteLoads
    <2>3. pc' = l + 1
        BY <1>1, <1>12, <2>1, SizeOfLoads
    <2>. HIDE DEF word
    <2>. QED
        BY <1>2, <2>2, <2>3
<1>13. ASSUME pc > l, pc < start
       PROVE  /\ ~binary.undefinedRegs /\ pc' = start
              /\ gpr' = [t \in DOMAIN gpr |-> ZeroInitializeUnused(gpr[t])]
    <2>1. ~binary.undefinedRegs /\ pc = l + 1 /\ start = l + 2
        BY <1>6, <1>8, <1>13
    <2>2. word = Word("initregs", <<>>)
        <3>1. pc + 1 = l + 2
            BY <1>6, <2>1
        <3>. QED
            BY <1>6, <2>1, <3>1
    <2>3. \A regs : Execute(regs, word, values) = ZeroInitializeUnused(regs)
        BY <2>2, ExecuteLoads
    <2>4. pc' = start
        BY <1>1, <1>6, <2>1, <2>2, SizeOfLoads
    <2>. HIDE DEF word
    <2>. QED
        BY <1>2, <2>1, <2>3, <2>4
<1>14. pc >= start => pc' > start
    BY <1>6, <1>8, <1>9
<1>. QED
    BY <1>6, <1>8, <1>9, <1>10, <1>11, <1>12, <1>13, <1>14

UniformsSet(b, g) ==
    \A t \in DOMAIN g : \A k \in DOMAIN b.io["uniform"] :
        g[t][Index(b, "uniform", k)] = Padded(SubSeq(UniformValue[k], 1, Components(b, "uniform", k)))
UnusedBlank(b, g) ==
    \A t \in DOMAIN g : \A r \in Registers : r \notin Indices(b, "uniform") \cup Indices(b, "input") =>
        g[t][r] = BlankRegister

\* From the uniforms' load on the uniforms are set, and at the user's code unused
\* registers are blank.
LoadInv ==
    phase = "executing" =>
        /\ uniformDwords = UniformData(Uniforms(binary), UniformValue)
        /\ pc > FirstLoad(binary, start) /\ pc <= start => UniformsSet(binary, gpr)
        /\ pc = start /\ ~binary.undefinedRegs => UnusedBlank(binary, gpr)

LEMMA UniformsInLanes ==
    ASSUME BinaryTyped(binary), Built(binary), isaMetadata = binary.header,
           uniformDwords = UniformData(Uniforms(binary), UniformValue), NEW g, NEW h,
           h = [t \in DOMAIN g |-> LoadUniforms(g[t])]
    PROVE  UniformsSet(binary, h)
<1>. SUFFICES ASSUME NEW t \in DOMAIN g, NEW k \in DOMAIN binary.io["uniform"]
              PROVE  h[t][Index(binary, "uniform", k)]
                         = Padded(SubSeq(UniformValue[k], 1, Components(binary, "uniform", k)))
    BY DEF UniformsSet
<1>1. LoadUniforms(g[t])[Index(binary, "uniform", k)] = UniformOf(k)
    BY UniformsLoaded
<1>2. h[t] = LoadUniforms(g[t])
    OBVIOUS
<1>. QED
    BY <1>1, <1>2 DEF UniformOf

LEMMA ZeroedLanes ==
    ASSUME BinaryTyped(binary), Built(binary), isaMetadata = binary.header, NEW g, NEW h,
           h = [t \in DOMAIN g |-> ZeroInitializeUnused(g[t])]
    PROVE  /\ UnusedBlank(binary, h)
           /\ UniformsSet(binary, g) => UniformsSet(binary, h)
<1>1. \A t \in DOMAIN g : h[t] = ZeroInitializeUnused(g[t])
    OBVIOUS
<1>2. \A t \in DOMAIN g : \A r \in Registers :
          h[t][r] = IF r \in Indices(binary, "uniform") \cup Indices(binary, "input") THEN g[t][r] ELSE BlankRegister
    BY <1>1, UnusedZeroed
<1>3. \A k \in DOMAIN binary.io["uniform"] :
          Index(binary, "uniform", k) \in Registers /\ Index(binary, "uniform", k) \in Indices(binary, "uniform")
    <2>1. DOMAIN binary.io["uniform"] = 1 .. Len(binary.io["uniform"])
        BY IoSizes DEF IoTypes
    <2>2. \A k \in 1 .. Len(binary.io["uniform"]) :
              Index(binary, "uniform", k) \in Registers /\ Index(binary, "uniform", k) = binary.io["uniform"][k].index
        BY IoSizes DEF IoTypes
    <2>. QED
        BY <2>1, <2>2 DEF Indices
<1>4. DOMAIN h = DOMAIN g
    OBVIOUS
<1>5. UnusedBlank(binary, h)
    BY <1>2, <1>4 DEF UnusedBlank
<1>6. UniformsSet(binary, g) => UniformsSet(binary, h)
    BY <1>2, <1>3, <1>4 DEF UniformsSet
<1>. QED
    BY <1>5, <1>6

LEMMA LoadStart == WordsInv /\ StartInv /\ RequestInv /\ StreamInv /\ StartUnit => LoadInv'
<1>. SUFFICES ASSUME WordsInv, StartInv, RequestInv, StreamInv, StartUnit
              PROVE  LoadInv'
    OBVIOUS
<1>1. phase = "fed" /\ binary' = binary /\ start' = start /\ pc' = 0
    BY DEF StartUnit, InitializeInputRegisters
<1>2. uniformDwords' = Slice(stream, request.threads * PerThreadCount, Total(UniformSizes))
    BY DEF StartUnit, InitializeInputRegisters
<1>3. /\ request = RequestOf(binary) /\ BinaryTyped(binary) /\ Built(binary)
      /\ isaMetadata = binary.header /\ request.threads \in Nat
    BY <1>1, RequestOfPhase DEF LoadedPhases
<1>4. stream = DataOf(binary, scene)
    BY <1>1 DEF StreamInv, LoadedPhases
<1>5. uniformDwords' = UniformData(Uniforms(binary), UniformValue)
    BY <1>2, <1>3, <1>4, UniformsFound
<1>6. uniformDwords' = UniformData(Uniforms(binary'), UniformValue)
    BY <1>1, <1>5
<1>7. Loads(binary, start)
    BY <1>1 DEF StartInv, ReadyPhases, LoadedPhases
<1>8. FirstLoad(binary, start) \in Nat /\ start \in Nat /\ start > FirstLoad(binary, start)
    BY <1>7 DEF Loads, FirstLoad
<1>9. ~(pc' > FirstLoad(binary', start')) /\ ~(pc' = start')
    BY <1>1, <1>8
<1>. QED
    BY <1>6, <1>9 DEF LoadInv

LEMMA LoadRun == WordsInv /\ StartInv /\ RequestInv /\ LoadInv /\ RunUnit => LoadInv'
<1>. SUFFICES ASSUME WordsInv, StartInv, RequestInv, LoadInv, RunUnit
              PROVE  LoadInv'
    OBVIOUS
<1>. DEFINE l == FirstLoad(binary, start)
<1>1. /\ phase = "executing" /\ phase' = phase /\ binary' = binary /\ start' = start
      /\ uniformDwords' = uniformDwords
    BY DEF RunUnit, ExecuteInstruction, programVars
<1>2. BinaryTyped(binary) /\ Built(binary) /\ isaMetadata = binary.header
    BY <1>1, RequestOfPhase DEF LoadedPhases
<1>3. uniformDwords = UniformData(Uniforms(binary), UniformValue)
    BY <1>1 DEF LoadInv
<1>4. FirstLoad(binary', start') = l
    BY <1>1
<1>. HIDE DEF l
<1>5. /\ l \in Nat /\ start \in Nat /\ l < start /\ pc \in Nat /\ pc' \in Nat
      /\ pc < l => pc' <= l
      /\ pc = l => pc' = l + 1 /\ gpr' = [t \in DOMAIN gpr |-> LoadUniforms(gpr[t])]
      /\ pc > l /\ pc < start =>
             /\ ~binary.undefinedRegs /\ pc' = start
             /\ gpr' = [t \in DOMAIN gpr |-> ZeroInitializeUnused(gpr[t])]
      /\ pc >= start => pc' > start
    BY GeneratedStep DEF l
<1>. DEFINE g == gpr
            h == gpr'
<1>6. CASE pc < l
    <2>1. ~(pc' > l) /\ ~(pc' = start)
        BY <1>5, <1>6
    <2>. QED
        BY <1>1, <1>3, <1>4, <2>1 DEF LoadInv
<1>7. CASE pc = l
    <2>1. UniformsSet(binary, h)
        <3>1. h = [t \in DOMAIN g |-> LoadUniforms(g[t])]
            BY <1>5, <1>7
        <3>. HIDE DEF g, h
        <3>. QED
            BY <1>2, <1>3, <3>1, UniformsInLanes
    <2>2. ~(pc' = start /\ ~binary.undefinedRegs)
        <3>1. pc' = l + 1
            BY <1>5, <1>7
        <3>2. l = start - (IF binary.undefinedRegs THEN 1 ELSE 2)
            BY DEF l, FirstLoad
        <3>. QED
            BY <1>5, <3>1, <3>2
    <2>. QED
        BY <1>1, <1>3, <2>1, <2>2 DEF LoadInv
<1>8. CASE pc > l /\ pc < start
    <2>1. UniformsSet(binary, g)
        BY <1>1, <1>5, <1>8 DEF LoadInv, l
    <2>2. UniformsSet(binary, h) /\ UnusedBlank(binary, h)
        <3>1. h = [t \in DOMAIN g |-> ZeroInitializeUnused(g[t])]
            BY <1>5, <1>8
        <3>. HIDE DEF g, h
        <3>. QED
            BY <1>2, <2>1, <3>1, ZeroedLanes
    <2>. QED
        BY <1>1, <1>3, <2>2 DEF LoadInv
<1>9. CASE pc >= start
    <2>1. ~(pc' <= start) /\ ~(pc' = start)
        BY <1>5, <1>9
    <2>. QED
        BY <1>1, <1>3, <2>1 DEF LoadInv
<1>. QED
    BY <1>5, <1>6, <1>7, <1>8, <1>9

LEMMA LoadStep == WordsInv /\ StartInv /\ RequestInv /\ StreamInv /\ LoadInv /\ [Next]_vars => LoadInv'
<1>. SUFFICES ASSUME WordsInv, StartInv, RequestInv, StreamInv, LoadInv, [Next]_vars
              PROVE  LoadInv'
    OBVIOUS
<1>1. CASE StartUnit
    BY <1>1, LoadStart
<1>2. CASE RunUnit
    BY <1>2, LoadRun
<1>3. CASE Finished \/ UNCHANGED vars
    <2>1. UNCHANGED vars
        BY <1>3 DEF Finished
    <2>2. UNCHANGED <<phase, binary, start, gpr, pc, uniformDwords>>
        BY <2>1 DEF vars, unitVars, programVars
    <2>. QED
        BY <2>2 DEF LoadInv
<1>4. CASE \/ Assemble \/ Reset \/ FeedUnit \/ Answer
           \/ \E triangle \in 0 .. PrimitiveCount - 1 : RequestVertices(triangle)
           \/ \E triangle \in Triangles : RequestFragments(triangle)
    <2>1. phase' # "executing"
        BY <1>4 DEF Assemble, ParseDirective, FinalizeDirectives, ParseInstruction, FinalizeInstructions, Reset,
                    FeedUnit, Answer, RequestVertices, RequestFragments
    <2>. QED
        BY <2>1 DEF LoadInv
<1>. QED
    BY <1>1, <1>2, <1>3, <1>4 DEF Next, Serve

\* When the user's code begins the uniforms have the values of the pins, whatever the
\* generated code did before, and nothing of an earlier shader is left in a register.
THEOREM UniformsAndZeroesAlways == Spec => []UniformsAndZeroes
<1>1. WordsInv /\ StartInv /\ RequestInv /\ StreamInv /\ LoadInv => UniformsAndZeroes
    <2>. SUFFICES ASSUME WordsInv, StartInv, RequestInv, StreamInv, LoadInv, AtUserCode,
                         NEW t \in Threads
                  PROVE  /\ \A k \in DOMAIN binary.io["uniform"] :
                                Reg(t, Index(binary, "uniform", k))
                                    = Padded(SubSeq(UniformValue[k], 1, Components(binary, "uniform", k)))
                         /\ ~binary.undefinedRegs =>
                                \A r \in Registers \ (Indices(binary, "input") \cup Indices(binary, "uniform")) :
                                    Reg(t, r) = BlankRegister
        BY DEF UniformsAndZeroes
    <2>1. phase = "executing" /\ pc = start
        BY DEF AtUserCode
    <2>2. start > FirstLoad(binary, start) /\ start \in Nat
        <3>1. Loads(binary, start)
            BY <2>1 DEF StartInv, ReadyPhases, LoadedPhases
        <3>. QED
            BY <3>1 DEF Loads, FirstLoad
    <2>3. pc <= start
        BY <2>1, <2>2
    <2>4. UniformsSet(binary, gpr) /\ (~binary.undefinedRegs => UnusedBlank(binary, gpr))
        BY <2>1, <2>2, <2>3 DEF LoadInv
    <2>5. t - 1 \in DOMAIN gpr
        <3>1. DOMAIN gpr = Lanes(request.threads)
            BY <2>1 DEF StreamInv
        <3>2. t \in 1 .. request.threads
            BY DEF Threads
        <3>3. request.threads \in Nat
            BY <2>1, RequestOfPhase DEF LoadedPhases
        <3>4. t - 1 \in 0 .. request.threads - 1
            BY <3>2, <3>3
        <3>. QED
            BY <3>1, <3>4 DEF Lanes
    <2>. QED
        BY <2>4, <2>5 DEF Reg, UniformsSet, UnusedBlank
<1>2. Init => LoadInv
    BY DEF Init, LoadInv
<1>. QED
    BY <1>1, <1>2, StreamAlways, LoadStep, PTL DEF Spec

-----------------------------------------------------------------------------
(* The inputs of a vertex shader, from the buffer to the user's code.        *)

\* What thread t of the triangle in scene s has for input k.
VertexOf(b, s, t, k) ==
    LET Width(j) == Components(b, "input", j)
        before == Total([j \in 1 .. k - 1 |-> Width(j)])
        vertex == (s[1] * 3 + t - 1) * Total([j \in DOMAIN b.io["input"] |-> Width(j)])
    IN  Padded([c \in 1 .. Width(k) |-> VertexBuffer(vertex + before + c - 1)])

OwnOf(b) == {k \in DOMAIN b.io["input"] : Index(b, "input", k) \notin Indices(b, "uniform")}

VertexLane(b, s, t, g) == LaneTyped(g) /\ \A k \in OwnOf(b) : g[Index(b, "input", k)] = VertexOf(b, s, t + 1, k)

VertexInv ==
    phase = "executing" /\ IsVs(binary) /\ pc <= start =>
        \A t \in DOMAIN gpr : VertexLane(binary, scene, t, gpr[t])

LEMMA InputIndex ==
    ASSUME NEW b, BinaryTyped(b), NEW k \in DOMAIN b.io["input"]
    PROVE  /\ k \in 1 .. Len(b.io["input"]) /\ Index(b, "input", k) \in Registers
           /\ Index(b, "input", k) \in Indices(b, "input")
<1>1. DOMAIN b.io["input"] = 1 .. Len(b.io["input"])
    BY IoSizes DEF IoTypes
<1>2. \A j \in 1 .. Len(b.io["input"]) :
          Index(b, "input", j) \in Registers /\ Index(b, "input", j) = b.io["input"][j].index
    BY IoSizes DEF IoTypes
<1>. QED
    BY <1>1, <1>2 DEF Indices

\* The loads leave a lane its registers.
LEMMA LoadsLane ==
    ASSUME NEW g, LaneTyped(g)
    PROVE  LaneTyped(LoadUniforms(g)) /\ LaneTyped(ZeroInitializeUnused(g))
<1>. DEFINE h == LoadUniforms(g)
            z == ZeroInitializeUnused(g)
<1>1. h = [r \in Registers |-> h[r]] /\ z = [r \in Registers |-> z[r]]
    BY DEF LoadUniforms, ZeroInitializeUnused
<1>2. \A r \in Registers : h[r] = g[r] \/ \E v : h[r] = Padded(v)
    BY DEF LoadUniforms
<1>3. \A r \in Registers : z[r] = g[r] \/ z[r] = BlankRegister
    BY DEF ZeroInitializeUnused
<1>4. \A r \in Registers : Counted(g[r], 4)
    BY DEF LaneTyped
<1>. HIDE DEF h, z
<1>5. \A r \in Registers : Counted(h[r], 4) /\ Counted(z[r], 4)
    BY <1>2, <1>3, <1>4, FourComponents
<1>. QED
    BY <1>1, <1>5 DEF LaneTyped, h, z

LEMMA LoadedLane ==
    ASSUME BinaryTyped(binary), Built(binary), isaMetadata = binary.header,
           uniformDwords = UniformData(Uniforms(binary), UniformValue),
           NEW s, NEW t, NEW g, VertexLane(binary, s, t, g)
    PROVE  VertexLane(binary, s, t, LoadUniforms(g))
<1>. DEFINE h == LoadUniforms(g)
<1>1. LaneTyped(g) /\ \A k \in OwnOf(binary) : g[Index(binary, "input", k)] = VertexOf(binary, s, t + 1, k)
    BY DEF VertexLane
<1>2. \A r \in Registers : r \notin Indices(binary, "uniform") => h[r] = g[r]
    BY UniformsLoaded
<1>3. LaneTyped(h)
    BY <1>1, LoadsLane
<1>. HIDE DEF h
<1>4. \A k \in OwnOf(binary) : Index(binary, "input", k) \in Registers /\ Index(binary, "input", k) \notin Indices(binary, "uniform")
    BY InputIndex DEF OwnOf
<1>. QED
    BY <1>1, <1>2, <1>3, <1>4 DEF VertexLane, h

LEMMA ZeroedLane ==
    ASSUME BinaryTyped(binary), Built(binary), isaMetadata = binary.header,
           NEW s, NEW t, NEW g, VertexLane(binary, s, t, g)
    PROVE  VertexLane(binary, s, t, ZeroInitializeUnused(g))
<1>. DEFINE h == ZeroInitializeUnused(g)
<1>1. LaneTyped(g) /\ \A k \in OwnOf(binary) : g[Index(binary, "input", k)] = VertexOf(binary, s, t + 1, k)
    BY DEF VertexLane
<1>2. \A r \in Registers :
          h[r] = IF r \in Indices(binary, "uniform") \cup Indices(binary, "input") THEN g[r] ELSE BlankRegister
    BY UnusedZeroed
<1>3. LaneTyped(h)
    BY <1>1, LoadsLane
<1>. HIDE DEF h
<1>4. \A k \in OwnOf(binary) : Index(binary, "input", k) \in Registers /\ Index(binary, "input", k) \in Indices(binary, "input")
    BY InputIndex DEF OwnOf
<1>. QED
    BY <1>1, <1>2, <1>3, <1>4 DEF VertexLane, h

\* The registers of a vertex shader's lane: own inputs, and nothing in the others.
LEMMA VertexRegisters ==
    ASSUME ~IsFragmentShader, NEW own, NEW attributes, NEW g, g = InitialRegisters(own, attributes)
    PROVE  /\ LaneTyped(g)
           /\ \A k \in 1 .. InputCount :
                 (\A j \in 1 .. InputCount : InputRegister(j) = InputRegister(k) => j = k)
                 /\ InputRegister(k) \in Registers
                     => g[InputRegister(k)] = Padded(Part(own, InputSizes, k))
<1>. DEFINE Input(r) == CHOOSE k \in 1 .. InputCount : InputRegister(k) = r
<1>1. g = [r \in Registers |-> g[r]]
    BY DEF InitialRegisters
<1>2. ASSUME NEW r \in Registers
      PROVE  g[r] = IF r \in InputRegisters THEN Padded(Part(own, InputSizes, Input(r))) ELSE BlankRegister
    BY SMTT(30) DEF InitialRegisters
<1>. HIDE DEF Input
<1>3. \A r \in Registers : Counted(g[r], 4)
    BY <1>2, FourComponents
<1>4. ASSUME NEW k \in 1 .. InputCount, \A j \in 1 .. InputCount : InputRegister(j) = InputRegister(k) => j = k,
             InputRegister(k) \in Registers
      PROVE  g[InputRegister(k)] = Padded(Part(own, InputSizes, k))
    <2>1. InputRegister(k) \in InputRegisters
        BY DEF InputRegisters
    <2>2. Input(InputRegister(k)) = k
        BY <1>4 DEF Input
    <2>. QED
        BY <1>2, <1>4, <2>1, <2>2
<1>. QED
    BY <1>1, <1>3, <1>4 DEF LaneTyped

\* The unit finds each component of a vertex where the primitive assembler put it.
LEMMA VertexStarted ==
    ASSUME BinaryTyped(binary), Built(binary), isaMetadata = binary.header, IsVs(binary),
           NEW s, s[1] \in Nat, NEW t \in 0 .. 2, NEW attributes, NEW g,
           g = InitialRegisters(Slice(DataOf(binary, s), t * PerThreadCount, PerThreadCount), attributes)
    PROVE  VertexLane(binary, s, t, g)
<1>. DEFINE n == InputCount
            z == InputSizes
            T == Total(z)
            d == DataOf(binary, s)
            own == Slice(d, t * T, T)
            I == VsCustomInputComponents(binary)
            i == Len(binary.io["input"])
<1>1. /\ n = i /\ n \in 1 .. 3
      /\ \A k \in 1 .. n : InputRegister(k) = Index(binary, "input", k)
      /\ \A k \in 1 .. n : Decoded(isaMetadata.inputs.size[k]) = Components(binary, "input", k)
    BY HeaderRead
<1>2. /\ DOMAIN binary.io["input"] = 1 .. n
      /\ \A k \in 1 .. n : Components(binary, "input", k) \in 1 .. 4 /\ Index(binary, "input", k) \in Registers
    BY <1>1, IoSizes DEF IoTypes
<1>3. ~IsFragmentShader
    <2>1. isaMetadata.programType = binary.programType
        BY BuiltHeader DEF HeaderFacts
    <2>. QED
        BY <2>1 DEF IsFragmentShader, IsVs
<1>4. z = [k \in 1 .. n |-> Components(binary, "input", k)]
    BY <1>1, <1>3 DEF InputSizes
<1>5. z \in [1 .. n -> Nat] /\ n \in Nat /\ T \in Nat /\ \A k \in 1 .. n : z[k] = Components(binary, "input", k)
    <2>. HIDE DEF n, z
    <2>1. \A k \in 1 .. n : Components(binary, "input", k) \in Nat
        BY <1>2
    <2>2. z \in [1 .. n -> Nat] /\ n \in Nat
        BY <1>1, <1>4, <2>1
    <2>. QED
        BY <1>4, <2>2, TotalTyped
<1>6. PerThreadCount = T
    BY <1>3 DEF PerThreadCount
<1>7. g = InitialRegisters(own, attributes)
    BY <1>6
<1>8. FetchedFrom(d, s[1], T)
    <2>. DEFINE v == FetchedVertices(I, s[1])
                x == UniformData(Uniforms(binary), UniformValue)
                C == TotalCustomComponents(I)
    <2>1. I.count = n /\ \A k \in 1 .. n : Decoded(I.comp[k]) = Components(binary, "input", k)
        <3>1. I.count = i /\ \A k \in 1 .. I.count : Decoded(I.comp[k]) = Components(binary, "input", k)
            BY PinsOfBuilt, PinsTyped
        <3>. HIDE DEF I, n, i
        <3>. QED
            BY <1>1, <3>1
    <2>2. SizesIn(I.comp, I.count) = z
        <3>. HIDE DEF I, n, z
        <3>. QED
            BY <1>4, <2>1 DEF SizesIn
    <2>3. C = T
        <3>1. C = Total(SizesIn(I.comp, I.count))
            BY DEF TotalCustomComponents, Total, SizesIn
        <3>. QED
            BY <2>2, <3>1
    <2>4. IsSeq(v) /\ Len(v) = 3 * T
        <3>1. Total(SizesIn(I.comp, I.count)) = T
            BY <2>2
        <3>. HIDE DEF I, T, z
        <3>. QED
            BY <1>5, <3>1, VerticesLength
    <2>5. v = [j \in 1 .. 3 * T |-> VertexBuffer((s[1] * (3 * T) * 4 + (j - 1) * 4) \div 4)]
        <3>. HIDE DEF C
        <3>1. v = [j \in 1 .. 3 * C |-> VertexBuffer((s[1] * (3 * C) * 4 + (j - 1) * 4) \div 4)]
            BY DEF FetchedVertices, Vertices, C
        <3>. HIDE DEF v, T
        <3>. QED
            BY <2>3, <3>1
    <2>6. d = v \o x
        BY DEF DataOf
    <2>7. IsSeq(x)
        <3>1. Uniforms(binary).count \in 0 .. 3
            BY PinsTyped
        <3>2. \A k \in 1 .. Uniforms(binary).count : Components(binary, "uniform", k) \in 1 .. 4
            <4>1. Uniforms(binary).count = Len(binary.io["uniform"])
                BY PinsOfBuilt
            <4>. QED
                BY <4>1, IoSizes DEF IoTypes
        <3>3. \A k \in 1 .. Uniforms(binary).count : Decoded(Uniforms(binary).comp[k]) \in 1 .. 4
            BY <3>2, PinsTyped
        <3>. QED
            BY <3>1, <3>3, UniformLength
    <2>. HIDE DEF v, x, d, T
    <2>8. Joins(v, x, d)
        BY <2>4, <2>6, <2>7, ConcatIsSeq
    <2>9. \A j \in 1 .. 3 * T : d[j] = v[j]
        BY <2>4, <2>8 DEF Joins
    <2>10. \A j \in 1 .. 3 * T : v[j] = VertexBuffer((s[1] * (3 * T) * 4 + (j - 1) * 4) \div 4)
        BY <2>5
    <2>. QED
        BY <2>9, <2>10 DEF FetchedFrom
<1>9. LaneTyped(g)
    <2>. HIDE DEF own
    <2>. QED
        BY <1>3, <1>7, VertexRegisters
<1>10. ASSUME NEW k \in OwnOf(binary)
       PROVE  g[Index(binary, "input", k)] = VertexOf(binary, s, t + 1, k)
    <2>. DEFINE Width(j) == Components(binary, "input", j)
                before == Total([j \in 1 .. k - 1 |-> Width(j)])
                b == Total([j \in 1 .. k - 1 |-> z[j]])
    <2>1. k \in 1 .. n
        BY <1>2, <1>10 DEF OwnOf
    <2>2. g[InputRegister(k)] = Padded(Part(own, z, k))
        <3>1. \A j \in 1 .. n : Index(binary, "input", j) = Index(binary, "input", k) => j = k
            BY <1>1, <2>1, IndexInjective DEF IoTypes
        <3>2. \A j \in 1 .. n : InputRegister(j) = InputRegister(k) => j = k
            BY <1>1, <2>1, <3>1
        <3>3. InputRegister(k) \in Registers
            BY <1>1, <1>2, <2>1
        <3>. HIDE DEF own
        <3>. QED
            BY <1>3, <1>7, <2>1, <3>2, <3>3, VertexRegisters
    <2>3. InputRegister(k) = Index(binary, "input", k)
        BY <1>1, <2>1
    <2>4. before = b
        <3>1. \A j \in 1 .. k - 1 : j \in 1 .. n
            BY <1>1, <2>1
        <3>2. [j \in 1 .. k - 1 |-> Width(j)] = [j \in 1 .. k - 1 |-> z[j]]
            <4>. HIDE DEF z, n
            <4>. QED
                BY <1>5, <3>1
        <3>. QED
            BY <3>2
    <2>5. Padded(Part(own, z, k))
              = Padded([c \in 1 .. z[k] |-> VertexBuffer((s[1] * 3 + (t + 1) - 1) * T + b + c - 1)])
        <3>. DEFINE total == Total(z)
        <3>1. k \in 1 .. n /\ z \in [1 .. n -> Nat] /\ n \in Nat /\ total \in Nat /\ s[1] \in Nat
            BY <1>5, <2>1
        <3>2. FetchedFrom(d, s[1], total)
            BY <1>8
        <3>. HIDE DEF d, z, n, T, own, b, total
        <3>3. T = total /\ total = Total(z) /\ b = Total([j \in 1 .. k - 1 |-> z[j]])
            BY DEF T, total, b
        <3>4. own = Slice(d, t * T, T)
            BY DEF own
        <3>5. ReadsVertex(d, z, k, s[1], t)
            BY <3>1, <3>2, <3>3, VertexRead
        <3>. QED
            BY <3>3, <3>4, <3>5 DEF ReadsVertex
    <2>6. T = Total([j \in DOMAIN binary.io["input"] |-> Width(j)])
        BY <1>2, <1>4
    <2>7. z[k] = Width(k)
        BY <1>5, <2>1
    <2>8. VertexOf(binary, s, t + 1, k)
              = Padded([c \in 1 .. Width(k) |-> VertexBuffer((s[1] * 3 + (t + 1) - 1) * T + before + c - 1)])
        BY <2>6 DEF VertexOf
    <2>. HIDE DEF z, T, own, b, before, Width
    <2>. QED
        BY <2>2, <2>3, <2>4, <2>5, <2>7, <2>8
<1>. QED
    BY <1>9, <1>10 DEF VertexLane

LEMMA VertexStart ==
    WordsInv /\ StartInv /\ RequestInv /\ StreamInv /\ StartUnit => VertexInv'
<1>. SUFFICES ASSUME WordsInv, StartInv, RequestInv, StreamInv, StartUnit
              PROVE  VertexInv'
    OBVIOUS
<1>. SUFFICES ASSUME IsVs(binary)
              PROVE  VertexInv'
    <2>1. binary' = binary
        BY DEF StartUnit
    <2>. QED
        BY <2>1 DEF VertexInv
<1>1. /\ phase = "fed" /\ binary' = binary /\ scene' = scene
      /\ gpr' = [t \in Lanes(request.threads) |->
                    InitialRegisters(Slice(stream, t * PerThreadCount, PerThreadCount),
                        Slice(stream, request.threads * PerThreadCount + Total(UniformSizes), AttributesCount))]
    BY DEF StartUnit, InitializeInputRegisters
<1>2. /\ request = RequestOf(binary) /\ BinaryTyped(binary) /\ Built(binary) /\ isaMetadata = binary.header
    BY <1>1, RequestOfPhase DEF LoadedPhases
<1>3. request.threads = 3
    BY <1>2, RequestDescribed
<1>4. Lanes(3) = 0 .. 2
    BY DEF Lanes
<1>5. stream = DataOf(binary, scene) /\ scene[1] \in Nat
    BY <1>1 DEF StreamInv, LoadedPhases
<1>. DEFINE attributes == Slice(stream, request.threads * PerThreadCount + Total(UniformSizes), AttributesCount)
<1>. HIDE DEF attributes
<1>6. gpr' = [t \in 0 .. 2 |-> InitialRegisters(Slice(stream, t * PerThreadCount, PerThreadCount), attributes)]
    BY <1>1, <1>3, <1>4 DEF attributes
<1>7. ASSUME NEW t \in DOMAIN gpr'
      PROVE  VertexLane(binary, scene, t, gpr'[t])
    <2>. DEFINE g == gpr'[t]
    <2>1. t \in 0 .. 2 /\ g = InitialRegisters(Slice(DataOf(binary, scene), t * PerThreadCount, PerThreadCount), attributes)
        BY <1>5, <1>6, <1>7
    <2>. HIDE DEF g
    <2>2. VertexLane(binary, scene, t, g)
        BY <1>2, <1>5, <2>1, VertexStarted
    <2>. QED
        BY <2>2 DEF g
<1>. QED
    BY <1>1, <1>7 DEF VertexInv

LEMMA VertexRun ==
    WordsInv /\ StartInv /\ RequestInv /\ LoadInv /\ VertexInv /\ RunUnit => VertexInv'
<1>. SUFFICES ASSUME WordsInv, StartInv, RequestInv, LoadInv, VertexInv, RunUnit
              PROVE  VertexInv'
    OBVIOUS
<1>. SUFFICES ASSUME IsVs(binary), pc' <= start
              PROVE  VertexInv'
    <2>1. binary' = binary /\ start' = start
        BY DEF RunUnit, programVars
    <2>. QED
        BY <2>1 DEF VertexInv
<1>. DEFINE l == FirstLoad(binary, start)
<1>1. /\ phase = "executing" /\ binary' = binary /\ start' = start /\ scene' = scene
    BY DEF RunUnit, programVars
<1>2. BinaryTyped(binary) /\ Built(binary) /\ isaMetadata = binary.header
    BY <1>1, RequestOfPhase DEF LoadedPhases
<1>3. uniformDwords = UniformData(Uniforms(binary), UniformValue)
    BY <1>1 DEF LoadInv
<1>. HIDE DEF l
<1>4. /\ l \in Nat /\ start \in Nat /\ l < start /\ pc \in Nat /\ pc' \in Nat
      /\ pc < l /\ IsVs(binary) /\ (\A t \in DOMAIN gpr : LaneTyped(gpr[t])) =>
             gpr' = [t \in DOMAIN gpr |-> gpr[t]]
      /\ pc = l => pc' = l + 1 /\ gpr' = [t \in DOMAIN gpr |-> LoadUniforms(gpr[t])]
      /\ pc > l /\ pc < start =>
             /\ ~binary.undefinedRegs /\ pc' = start
             /\ gpr' = [t \in DOMAIN gpr |-> ZeroInitializeUnused(gpr[t])]
      /\ pc >= start => pc' > start
    BY GeneratedStep DEF l
<1>5. pc < start
    BY <1>4
<1>6. \A t \in DOMAIN gpr : VertexLane(binary, scene, t, gpr[t])
    BY <1>1, <1>4, <1>5 DEF VertexInv
<1>7. \A t \in DOMAIN gpr' : VertexLane(binary, scene, t, gpr'[t])
    <2>1. CASE pc < l
        <3>1. \A t \in DOMAIN gpr : LaneTyped(gpr[t])
            BY <1>6 DEF VertexLane
        <3>2. gpr' = [t \in DOMAIN gpr |-> gpr[t]]
            BY <1>4, <2>1, <3>1
        <3>. QED
            BY <1>6, <3>2
    <2>2. CASE pc = l
        <3>1. gpr' = [t \in DOMAIN gpr |-> LoadUniforms(gpr[t])]
            BY <1>4, <2>2
        <3>2. \A t \in DOMAIN gpr : VertexLane(binary, scene, t, LoadUniforms(gpr[t]))
            BY <1>2, <1>3, <1>6, LoadedLane
        <3>. QED
            BY <3>1, <3>2
    <2>3. CASE pc > l
        <3>1. gpr' = [t \in DOMAIN gpr |-> ZeroInitializeUnused(gpr[t])]
            BY <1>4, <1>5, <2>3
        <3>2. \A t \in DOMAIN gpr : VertexLane(binary, scene, t, ZeroInitializeUnused(gpr[t]))
            BY <1>2, <1>6, ZeroedLane
        <3>. QED
            BY <3>1, <3>2
    <2>. QED
        BY <1>4, <2>1, <2>2, <2>3
<1>. QED
    BY <1>1, <1>7 DEF VertexInv

LEMMA VertexStep ==
    WordsInv /\ StartInv /\ RequestInv /\ StreamInv /\ LoadInv /\ VertexInv /\ [Next]_vars => VertexInv'
<1>. SUFFICES ASSUME WordsInv, StartInv, RequestInv, StreamInv, LoadInv, VertexInv, [Next]_vars
              PROVE  VertexInv'
    OBVIOUS
<1>1. CASE StartUnit
    BY <1>1, VertexStart
<1>2. CASE RunUnit
    BY <1>2, VertexRun
<1>3. CASE Finished \/ UNCHANGED vars
    <2>1. UNCHANGED vars
        BY <1>3 DEF Finished
    <2>2. UNCHANGED <<phase, binary, start, scene, gpr, pc>>
        BY <2>1 DEF vars, unitVars, programVars
    <2>. QED
        BY <2>2 DEF VertexInv
<1>4. CASE \/ Assemble \/ Reset \/ FeedUnit \/ Answer
           \/ \E triangle \in 0 .. PrimitiveCount - 1 : RequestVertices(triangle)
           \/ \E triangle \in Triangles : RequestFragments(triangle)
    <2>1. phase' # "executing"
        BY <1>4 DEF Assemble, ParseDirective, FinalizeDirectives, ParseInstruction, FinalizeInstructions, Reset,
                    FeedUnit, Answer, RequestVertices, RequestFragments
    <2>. QED
        BY <2>1 DEF VertexInv
<1>. QED
    BY <1>1, <1>2, <1>3, <1>4 DEF Next, Serve

LEMMA LoadsAlways == Spec => [](WordsInv /\ StartInv /\ RequestInv /\ StreamInv /\ LoadInv /\ VertexInv)
<1>1. Init => LoadInv /\ VertexInv
    BY DEF Init, LoadInv, VertexInv
<1>. QED
    BY <1>1, StreamAlways, LoadStep, VertexStep, PTL DEF Spec

\* Each thread of a vertex shader begins the user's code with the components of its own
\* vertex of its own triangle in the registers the directives name, whatever the sizes.
THEOREM VertexInputsAlways == Spec => []VertexInputs
<1>1. WordsInv /\ StartInv /\ RequestInv /\ StreamInv /\ VertexInv => VertexInputs
    <2>. SUFFICES ASSUME WordsInv, StartInv, RequestInv, StreamInv, VertexInv, AtUserCode, IsVs(binary),
                         NEW t \in Threads, NEW k \in OwnInputs
                  PROVE  Reg(t, Index(binary, "input", k)) = VertexOf(binary, scene, t, k)
        <3>1. ASSUME AtUserCode, IsVs(binary), NEW t \in Threads, NEW k \in OwnInputs,
                     Reg(t, Index(binary, "input", k)) = VertexOf(binary, scene, t, k)
              PROVE  LET Width(j) == Components(binary, "input", j)
                         before == Total([j \in 1 .. k - 1 |-> Width(j)])
                         vertex == (scene[1] * Vertices + t - 1) * Total([j \in InputIndices |-> Width(j)])
                     IN  Reg(t, Index(binary, "input", k)) =
                             Padded([c \in 1 .. Width(k) |-> VertexBuffer(vertex + before + c - 1)])
            BY <3>1 DEF VertexOf, InputIndices, Vertices
        <3>. QED
            BY <3>1 DEF VertexInputs
    <2>1. phase = "executing" /\ pc = start
        BY DEF AtUserCode
    <2>2. pc <= start
        <3>1. start \in Nat
            BY <2>1 DEF StartInv, ReadyPhases, LoadedPhases, Loads
        <3>. QED
            BY <2>1, <3>1
    <2>3. t - 1 \in DOMAIN gpr /\ (t - 1) + 1 = t
        <3>1. DOMAIN gpr = Lanes(request.threads)
            BY <2>1 DEF StreamInv
        <3>2. t \in 1 .. request.threads /\ request.threads \in Nat
            BY <2>1, RequestOfPhase DEF Threads, LoadedPhases
        <3>3. t - 1 \in 0 .. request.threads - 1 /\ (t - 1) + 1 = t
            BY <3>2
        <3>. QED
            BY <3>1, <3>3 DEF Lanes
    <2>4. VertexLane(binary, scene, t - 1, gpr[t - 1])
        BY <2>1, <2>2, <2>3 DEF VertexInv
    <2>5. k \in OwnOf(binary)
        BY DEF OwnInputs, OwnOf, InputIndices
    <2>. QED
        BY <2>3, <2>4, <2>5 DEF VertexLane, Reg
<1>. QED
    BY <1>1, LoadsAlways, PTL

-----------------------------------------------------------------------------
(* The user's lines are in the words from start on, one after the other.     *)

TextWords(text, n) == Total([k \in 1 .. n |-> Len(Assembled(text[k]))])

Written(w, s, text, m) ==
    \A n \in 1 .. m : \A k \in 1 .. Len(Assembled(text[n])) :
        /\ s + TextWords(text, n - 1) + k \in 1 .. Len(w)
        /\ w[s + TextWords(text, n - 1) + k] = Assembled(text[n])[k]

LEMMA TextMore ==
    ASSUME NEW text, NEW n \in Nat
    PROVE  TextWords(text, n + 1) = TextWords(text, n) + Len(Assembled(text[n + 1]))
<1>. DEFINE s == [k \in 1 .. n + 1 |-> Len(Assembled(text[k]))]
            r == [k \in 1 .. n |-> Len(Assembled(text[k]))]
<1>1. DOMAIN s = 1 .. n + 1 /\ s[n + 1] = Len(Assembled(text[n + 1]))
    OBVIOUS
<1>2. [k \in 1 .. n |-> s[k]] = r
    OBVIOUS
<1>3. TextWords(text, n + 1) = Total(s) /\ TextWords(text, n) = Total(r)
    BY DEF TextWords
<1>. HIDE DEF s, r
<1>. QED
    BY <1>1, <1>2, <1>3, TotalMore

LEMMA TextTyped ==
    ASSUME NEW n \in Nat, NEW text, \A k \in 1 .. n : IsSeq(Assembled(text[k]))
    PROVE  TextWords(text, n) \in Nat
<1>. DEFINE s == [k \in 1 .. n |-> Len(Assembled(text[k]))]
<1>1. \A k \in 1 .. n : Len(Assembled(text[k])) \in Nat
    BY LenProperties DEF IsSeq
<1>2. s \in [1 .. n -> Nat]
    BY <1>1
<1>. HIDE DEF s
<1>3. Total(s) \in Nat
    BY <1>2, TotalTyped
<1>. QED
    BY <1>3 DEF TextWords, s

LEMMA WrittenLonger ==
    ASSUME NEW w, NEW x, NEW y, Joins(w, x, y), NEW s, NEW text, NEW m, Written(w, s, text, m)
    PROVE  Written(y, s, text, m)
<1>1. \A p \in 1 .. Len(w) : p \in 1 .. Len(y) /\ y[p] = w[p]
    BY DEF Joins
<1>. QED
    BY <1>1 DEF Written

LEMMA WrittenMore ==
    ASSUME NEW text, NEW m \in Nat, NEW w, NEW y, Joins(w, Assembled(text[m + 1]), y), NEW s \in Nat,
           Written(w, s, text, m), Len(w) = s + TextWords(text, m), TextWords(text, m) \in Nat
    PROVE  Written(y, s, text, m + 1) /\ Len(y) = s + TextWords(text, m + 1)
<1>. DEFINE x == Assembled(text[m + 1])
            T == TextWords(text, m)
<1>1. Len(w) \in Nat /\ Len(x) \in Nat /\ Len(y) = Len(w) + Len(x)
    BY DEF Joins
<1>2. \A k \in 1 .. Len(x) : y[Len(w) + k] = x[k]
    BY DEF Joins
<1>3. TextWords(text, m + 1) = T + Len(x)
    BY TextMore
<1>4. Written(y, s, text, m)
    BY WrittenLonger
<1>5. ASSUME NEW k \in 1 .. Len(x)
      PROVE  s + T + k \in 1 .. Len(y) /\ y[s + T + k] = x[k]
    <2>1. Len(w) + k \in 1 .. Len(y)
        BY <1>1
    <2>. QED
        BY <1>2, <2>1
<1>6. ASSUME NEW n \in 1 .. m + 1, NEW k \in 1 .. Len(Assembled(text[n]))
      PROVE  /\ s + TextWords(text, n - 1) + k \in 1 .. Len(y)
             /\ y[s + TextWords(text, n - 1) + k] = Assembled(text[n])[k]
    <2>1. CASE n \in 1 .. m
        BY <1>4, <2>1 DEF Written
    <2>2. CASE n = m + 1
        <3>1. n - 1 = m
            BY <2>2
        <3>2. TextWords(text, n - 1) = T /\ Assembled(text[n]) = x
            BY <2>2, <3>1
        <3>. HIDE DEF T, x
        <3>. QED
            BY <1>5, <3>2
    <2>. QED
        BY <2>1, <2>2
<1>. HIDE DEF x, T
<1>7. Len(y) = s + (T + Len(x))
    <2>1. T \in Nat /\ Len(w) = s + T
        BY DEF T
    <2>. QED
        BY <1>1, <2>1
<1>. QED
    BY <1>3, <1>6, <1>7 DEF Written

TextInv ==
    /\ phase = "instructions" =>
          Written(binary.words, start, source, lines) /\ Len(binary.words) = start + TextWords(source, lines)
    /\ phase \in ReadyPhases => source \in Sources /\ Written(binary.words, start, source, Len(source))

LEMMA TextFacts ==
    ASSUME NEW text \in Sources
    PROVE  /\ Len(text) \in Nat /\ DOMAIN text = 1 .. Len(text)
           /\ \A n \in 1 .. Len(text) : IsLine(text[n]) /\ IsSeq(Assembled(text[n]))
<1>1. text \in Seq(Range(text)) /\ \A n \in DOMAIN text : IsLine(text[n])
    BY ProgramAssumption
<1>2. Len(text) \in Nat /\ DOMAIN text = 1 .. Len(text)
    BY <1>1, LenProperties
<1>. QED
    BY <1>1, <1>2, CutAssembled DEF WellCut

LEMMA TextStep == WordsInv /\ WordsInv' /\ StartInv /\ TextInv /\ [Next]_vars => TextInv'
<1>. SUFFICES ASSUME WordsInv, WordsInv', StartInv, TextInv, [Next]_vars
              PROVE  TextInv'
    OBVIOUS
<1>1. CASE FinalizeDirectives
    <2>1. /\ phase' \in {"refused", "instructions"} /\ start' = Len(binary'.words) /\ lines' = 0
        BY <1>1 DEF FinalizeDirectives
    <2>2. Len(binary'.words) \in Nat
        BY LenProperties DEF WordsInv, WellCut, IsSeq
    <2>3. TextWords(source', 0) = 0
        <3>1. DOMAIN [k \in 1 .. 0 |-> Len(Assembled(source'[k]))] = {}
            OBVIOUS
        <3>. QED
            BY <3>1, TotalNone DEF TextWords
    <2>4. Written(binary'.words, start', source', 0)
        BY DEF Written
    <2>. QED
        BY <2>1, <2>2, <2>3, <2>4 DEF TextInv, ReadyPhases, LoadedPhases
<1>2. CASE ParseInstruction
    <2>. DEFINE x == Assembled(source[lines + 1])
    <2>1. /\ phase = "instructions" /\ lines < Len(source) /\ start' = start /\ source' = source
          /\ lines' = lines + 1
          /\ \/ binary' = Encode(binary, x) /\ phase' = phase
             \/ binary' = binary /\ phase' = "stopped"
        BY <1>2 DEF ParseInstruction
    <2>2. source \in Sources /\ lines \in 0 .. Len(source)
        BY <2>1 DEF WordsInv
    <2>3. /\ Len(source) \in Nat /\ lines \in Nat /\ lines + 1 \in 1 .. Len(source)
          /\ \A n \in 1 .. Len(source) : IsSeq(Assembled(source[n]))
        BY <2>1, <2>2, TextFacts
    <2>4. TextWords(source, lines) \in Nat
        <3>1. \A n \in 1 .. lines : n \in 1 .. Len(source)
            BY <2>3
        <3>. QED
            BY <2>3, <3>1, TextTyped
    <2>5. CASE phase' = "stopped"
        BY <2>5 DEF TextInv, ReadyPhases, LoadedPhases
    <2>6. CASE binary' = Encode(binary, x) /\ phase' = phase
        <3>1. binary'.words = binary.words \o x
            BY <2>6, EncodeTyped DEF WordsInv
        <3>2. IsSeq(binary.words) /\ IsSeq(x)
            BY <2>3 DEF WordsInv, WellCut
        <3>3. Joins(binary.words, x, binary'.words)
            BY <3>1, <3>2, ConcatIsSeq
        <3>4. start \in Nat
            BY <2>1 DEF StartInv, Loads
        <3>5. Written(binary.words, start, source, lines) /\ Len(binary.words) = start + TextWords(source, lines)
            BY <2>1 DEF TextInv
        <3>6. Written(binary'.words, start, source, lines + 1)
              /\ Len(binary'.words) = start + TextWords(source, lines + 1)
            <4>. DEFINE w == binary.words
                        y == binary'.words
            <4>1. /\ Joins(w, Assembled(source[lines + 1]), y) /\ Written(w, start, source, lines)
                  /\ Len(w) = start + TextWords(source, lines)
                BY <3>3, <3>5
            <4>. HIDE DEF w, y
            <4>2. Written(y, start, source, lines + 1) /\ Len(y) = start + TextWords(source, lines + 1)
                BY <2>3, <2>4, <3>4, <4>1, WrittenMore
            <4>. QED
                BY <4>2 DEF y
        <3>7. phase' \notin ReadyPhases
            BY <2>1, <2>6 DEF ReadyPhases, LoadedPhases
        <3>. QED
            BY <2>1, <3>6, <3>7 DEF TextInv
    <2>. QED
        BY <2>1, <2>5, <2>6
<1>3. CASE FinalizeInstructions
    <2>1. /\ phase = "instructions" /\ binary' = Finalized(binary) /\ start' = start /\ source' = source
          /\ lines = Len(source) /\ phase' \in {"assembled", "stopped"}
        BY <1>3 DEF FinalizeInstructions
    <2>2. binary'.words = binary.words \o Epilogue(binary)
        BY <2>1, FinalizedTyped DEF WordsInv
    <2>3. IsSeq(binary.words) /\ IsSeq(Epilogue(binary))
        BY CutEpilogue DEF WordsInv, WellCut
    <2>4. Joins(binary.words, Epilogue(binary), binary'.words)
        BY <2>2, <2>3, ConcatIsSeq
    <2>5. Written(binary'.words, start, source, Len(source)) /\ source \in Sources
        BY <2>1, <2>4, WrittenLonger DEF TextInv, WordsInv
    <2>. QED
        BY <2>1, <2>5 DEF TextInv
<1>4. CASE (\E d \in Directives : ParseDirective(d)) \/ Reset
    <2>1. phase' \in {"directives", "refused"}
        BY <1>4 DEF ParseDirective, Reset
    <2>. QED
        BY <2>1 DEF TextInv, ReadyPhases, LoadedPhases
<1>5. CASE Serve \/ Finished \/ UNCHANGED vars
    <2>1. /\ binary' = binary /\ start' = start /\ source' = source /\ lines' = lines
          /\ phase' = phase \/ (phase \in ReadyPhases /\ phase' # "instructions")
        BY <1>5 DEF Serve, RequestVertices, RequestFragments, FeedUnit, StartUnit, RunUnit, Answer,
                    Finished, programVars, vars, ReadyPhases, LoadedPhases
    <2>. QED
        BY <2>1 DEF TextInv
<1>. QED
    BY <1>1, <1>2, <1>3, <1>4, <1>5 DEF Next, Assemble

-----------------------------------------------------------------------------
(* What an instruction does to a lane, opcode by opcode.                     *)

ExecutesAs(g, w, v, op, f, h) ==
    /\ op = "fnorm" => h = [g EXCEPT ![f[1]] = Normalized(g[f[2]])]
    /\ op = "fcross" => h = [g EXCEPT ![f[1]] = Cross(g[f[2]], g[f[3]])]
    /\ op = "fdot" => h = Masked(g, f[1], f[4], Splat(Dot(g[f[2]], g[f[3]])))
    /\ op = "fcross2" => h = Masked(g, f[1], f[4], Splat(Cross2(g[f[2]], g[f[3]], 1, 2)))
    /\ op \in UnaryOps \ {"fnorm"} =>
          h = Masked(g, f[1], f[3], [c \in 1 .. 4 |-> UnaryFunction(op, g[f[2]][c])])
    /\ op \in BinaryOps \ {"fcross", "fdot", "fcross2"} =>
          h = Masked(g, f[1], f[4], [c \in 1 .. 4 |-> BinaryFunction(op, g[f[2]][c], g[f[3]][c])])
    /\ op = "fmad" =>
          h = Masked(g, f[1], f[5], [c \in 1 .. 4 |-> Plus(Times(g[f[2]][c], g[f[3]][c]), g[f[4]][c])])
    /\ op = "init" => h = Masked(g, f[1], f[2], [c \in 1 .. 4 |-> ImmediateFor(v, f[2], c)])
    /\ op \in DOMAIN OperationOf =>
          h = Masked(g, f[1], f[3], [c \in 1 .. 4 |-> BinaryFunction(OperationOf[op], g[f[2]][c],
                                                                     ImmediateFor(v, f[3], c))])
    /\ op = "swizzle" =>
          h = SwizzleComponent(SwizzleComponent(SwizzleComponent(SwizzleComponent(g, w, 1), w, 2), w, 3), w, 4)
    /\ op = "lduni" => h = LoadUniforms(g)
    /\ op = "initregs" => h = ZeroInitializeUnused(g)
    /\ op \notin UnaryOps \cup BinaryOps \cup DOMAIN OperationOf
                     \cup {"fmad", "init", "swizzle", "lduni", "initregs"} => h = g

LEMMA ExecuteArms ==
    ASSUME NEW g, NEW w, NEW v
    PROVE  ExecutesAs(g, w, v, w.op, w.f, Execute(g, w, v))
<1>. DEFINE op == w.op
            f == w.f
            h == Execute(g, w, v)
<1>. SUFFICES ExecutesAs(g, w, v, op, f, h)
    OBVIOUS
<1>0. op = w.op /\ f = w.f /\ h = Execute(g, w, v)
    OBVIOUS
<1>. HIDE DEF op, f, h
<1>. DEFINE U == op \in UnaryOps \ {"fnorm"}
            B == op \in BinaryOps \ {"fcross", "fdot", "fcross2"}
            I == op \in DOMAIN OperationOf
            O == /\ op # "fnorm" /\ op # "fcross" /\ op # "fdot" /\ op # "fcross2" /\ op # "fmad" /\ op # "init"
                 /\ op # "swizzle" /\ op # "lduni" /\ op # "initregs"
<1>1. U \/ B \/ I => O
    BY DEF UnaryOps, BinaryOps, OperationOf
<1>2. ~(U /\ B) /\ ~(U /\ I) /\ ~(B /\ I)
    BY DEF UnaryOps, BinaryOps, OperationOf
<1>3. CASE op = "fnorm"
    <2>1. ~U /\ ~B /\ ~I
        BY <1>1, <1>3
    <2>2. h = [g EXCEPT ![f[1]] = Normalized(g[f[2]])]
        BY <1>3, <2>1, <1>0, Zenon DEF Execute
    <2>. QED
        BY <1>3, <2>1, <2>2 DEF UnaryOps, BinaryOps, ExecutesAs
<1>4. CASE op = "fcross"
    <2>1. ~U /\ ~B /\ ~I
        BY <1>1, <1>4
    <2>2. h = [g EXCEPT ![f[1]] = Cross(g[f[2]], g[f[3]])]
        BY <1>4, <2>1, <1>0, Zenon DEF Execute
    <2>. QED
        BY <1>4, <2>1, <2>2 DEF UnaryOps, BinaryOps, ExecutesAs
<1>5. CASE op = "fdot"
    <2>1. ~U /\ ~B /\ ~I
        BY <1>1, <1>5
    <2>2. h = Masked(g, f[1], f[4], Splat(Dot(g[f[2]], g[f[3]])))
        BY <1>5, <2>1, <1>0, Zenon DEF Execute
    <2>. QED
        BY <1>5, <2>1, <2>2 DEF UnaryOps, BinaryOps, ExecutesAs
<1>6. CASE op = "fcross2"
    <2>1. ~U /\ ~B /\ ~I
        BY <1>1, <1>6
    <2>2. h = Masked(g, f[1], f[4], Splat(Cross2(g[f[2]], g[f[3]], 1, 2)))
        BY <1>6, <2>1, <1>0, Zenon DEF Execute
    <2>. QED
        BY <1>6, <2>1, <2>2 DEF UnaryOps, BinaryOps, ExecutesAs
<1>7. CASE U
    <2>1. O /\ ~B /\ ~I
        BY <1>1, <1>2, <1>7
    <2>2. h = Masked(g, f[1], f[3], [c \in 1 .. 4 |-> UnaryFunction(op, g[f[2]][c])])
        BY <1>7, <2>1, <1>0, Zenon DEF Execute
    <2>. QED
        BY <1>7, <2>1, <2>2 DEF ExecutesAs
<1>8. CASE B
    <2>1. O /\ ~U /\ ~I
        BY <1>1, <1>2, <1>8
    <2>2. h = Masked(g, f[1], f[4], [c \in 1 .. 4 |-> BinaryFunction(op, g[f[2]][c], g[f[3]][c])])
        BY <1>8, <2>1, <1>0, Zenon DEF Execute
    <2>. QED
        BY <1>8, <2>1, <2>2 DEF ExecutesAs
<1>9. CASE op = "fmad"
    <2>1. ~U /\ ~B /\ ~I
        BY <1>1, <1>9
    <2>2. h = Masked(g, f[1], f[5], [c \in 1 .. 4 |-> Plus(Times(g[f[2]][c], g[f[3]][c]), g[f[4]][c])])
        BY <1>9, <2>1, <1>0, Zenon DEF Execute
    <2>. QED
        BY <1>9, <2>1, <2>2 DEF ExecutesAs
<1>10. CASE op = "init"
    <2>1. ~U /\ ~B /\ ~I
        BY <1>1, <1>10
    <2>2. h = Masked(g, f[1], f[2], [c \in 1 .. 4 |-> ImmediateFor(v, f[2], c)])
        BY <1>10, <2>1, <1>0, Zenon DEF Execute
    <2>. QED
        BY <1>10, <2>1, <2>2 DEF ExecutesAs
<1>11. CASE I
    <2>1. O /\ ~U /\ ~B
        BY <1>1, <1>2, <1>11
    <2>2. h = Masked(g, f[1], f[3], [c \in 1 .. 4 |-> BinaryFunction(OperationOf[op], g[f[2]][c],
                                                                     ImmediateFor(v, f[3], c))])
        BY <1>11, <2>1, <1>0, Zenon DEF Execute
    <2>. QED
        BY <1>11, <2>1, <2>2 DEF ExecutesAs
<1>12. CASE op = "swizzle"
    <2>1. ~U /\ ~B /\ ~I
        BY <1>1, <1>12
    <2>2. h = SwizzleComponent(SwizzleComponent(SwizzleComponent(SwizzleComponent(g, w, 1), w, 2), w, 3), w, 4)
        BY <1>12, <2>1, <1>0, Zenon DEF Execute
    <2>. QED
        BY <1>12, <2>1, <2>2 DEF ExecutesAs
<1>13. CASE op = "lduni"
    <2>1. ~U /\ ~B /\ ~I
        BY <1>1, <1>13
    <2>2. h = LoadUniforms(g)
        BY <1>13, <2>1, <1>0, Zenon DEF Execute
    <2>. QED
        BY <1>13, <2>1, <2>2 DEF ExecutesAs
<1>14. CASE op = "initregs"
    <2>1. ~U /\ ~B /\ ~I
        BY <1>1, <1>14
    <2>2. h = ZeroInitializeUnused(g)
        BY <1>14, <2>1, <1>0, Zenon DEF Execute
    <2>. QED
        BY <1>14, <2>1, <2>2 DEF ExecutesAs
<1>15. CASE O /\ ~U /\ ~B /\ ~I
    <2>1. h = g
        BY <1>15, <1>0, Zenon DEF Execute
    <2>. QED
        BY <1>15, <2>1 DEF ExecutesAs
<1>. QED
    BY <1>3, <1>4, <1>5, <1>6, <1>7, <1>8, <1>9, <1>10, <1>11, <1>12, <1>13, <1>14, <1>15 DEF ExecutesAs

LEMMA LaneSet ==
    ASSUME NEW g, LaneTyped(g), NEW d, NEW v, Counted(v, 4)
    PROVE  LaneTyped([g EXCEPT ![d] = v])
<1>. DEFINE h == [g EXCEPT ![d] = v]
<1>1. g = [r \in Registers |-> g[r]] /\ \A r \in Registers : Counted(g[r], 4)
    BY DEF LaneTyped
<1>2. h = [r \in Registers |-> h[r]]
    BY <1>1
<1>3. \A r \in Registers : h[r] = IF r = d THEN v ELSE g[r]
    BY <1>1
<1>. HIDE DEF h
<1>4. \A r \in Registers : Counted(h[r], 4)
    BY <1>1, <1>3
<1>. QED
    BY <1>2, <1>4 DEF LaneTyped, h

LEMMA MaskedLane ==
    ASSUME NEW g, LaneTyped(g), NEW d, NEW m, NEW v
    PROVE  LaneTyped(Masked(g, d, m, v))
<1>. DEFINE x == [c \in 1 .. 4 |-> IF InMask(m, c) THEN v[c] ELSE g[d][c]]
<1>1. Counted(x, 4)
    BY DEF Counted
<1>2. Masked(g, d, m, v) = [g EXCEPT ![d] = x]
    BY Zenon DEF Masked
<1>. HIDE DEF x
<1>3. LaneTyped([g EXCEPT ![d] = x])
    BY <1>1, LaneSet, Zenon
<1>. QED
    BY <1>2, <1>3, Zenon

LEMMA SwizzledLane ==
    ASSUME NEW g, LaneTyped(g), NEW w, NEW c
    PROVE  LaneTyped(SwizzleComponent(g, w, c))
<1>. DEFINE d == w.f[1]
            e == g[w.f[2]][w.f[2 + c] + 1]
            x == [g[d] EXCEPT ![c] = e]
<1>1. SwizzleComponent(g, w, c) = [g EXCEPT ![d] = x]
    BY DEF SwizzleComponent
<1>. HIDE DEF e
<1>2. CASE d \in Registers
    <2>1. g[d] = [k \in 1 .. 4 |-> g[d][k]]
        BY <1>2 DEF LaneTyped, Counted
    <2>2. Counted(x, 4)
        BY <2>1 DEF Counted
    <2>. HIDE DEF x, d
    <2>3. LaneTyped([g EXCEPT ![d] = x])
        BY <2>2, LaneSet, Zenon
    <2>. QED
        BY <1>1, <2>3, Zenon
<1>3. CASE d \notin Registers
    <2>1. g = [r \in Registers |-> g[r]]
        BY DEF LaneTyped
    <2>. HIDE DEF x, d
    <2>2. [g EXCEPT ![d] = x] = g
        <3>1. \A r \in Registers : r # d
            BY <1>3
        <3>2. [g EXCEPT ![d] = x] = [r \in Registers |-> g[r]]
            BY <2>1, <3>1
        <3>. QED
            BY <2>1, <3>2, Zenon
    <2>. QED
        BY <1>1, <2>2, Zenon
<1>. QED
    BY <1>2, <1>3

LEMMA ExecutedLane ==
    ASSUME NEW g, LaneTyped(g), NEW w, NEW v
    PROVE  LaneTyped(Execute(g, w, v))
<1>. DEFINE op == w.op
            f == w.f
            h == Execute(g, w, v)
            All == UnaryOps \cup BinaryOps \cup DOMAIN OperationOf
                       \cup {"fmad", "init", "swizzle", "lduni", "initregs"}
<1>1. op = w.op /\ f = w.f /\ h = Execute(g, w, v)
    OBVIOUS
<1>0. ExecutesAs(g, w, v, op, f, h)
    BY ExecuteArms
<1>. HIDE DEF op, f, h
<1>2. CASE op = "fnorm"
    <2>. DEFINE x == Normalized(g[f[2]])
    <2>1. Counted(x, 4)
        BY DEF Counted, Normalized
    <2>2. h = [g EXCEPT ![f[1]] = x]
        BY <1>1, <1>2, <1>0, Zenon DEF ExecutesAs
    <2>. HIDE DEF x
    <2>3. LaneTyped([g EXCEPT ![f[1]] = x])
        BY <2>1, LaneSet, Zenon
    <2>. QED
        BY <1>1, <2>2, <2>3, Zenon
<1>3. CASE op = "fcross"
    <2>. DEFINE x == Cross(g[f[2]], g[f[3]])
    <2>1. Counted(x, 4)
        BY DEF Counted, Cross
    <2>2. h = [g EXCEPT ![f[1]] = x]
        BY <1>1, <1>3, <1>0, Zenon DEF ExecutesAs
    <2>. HIDE DEF x
    <2>3. LaneTyped([g EXCEPT ![f[1]] = x])
        BY <2>1, LaneSet, Zenon
    <2>. QED
        BY <1>1, <2>2, <2>3, Zenon
<1>4. CASE op = "swizzle"
    <2>. DEFINE a == SwizzleComponent(g, w, 1)
                b == SwizzleComponent(a, w, 2)
                c == SwizzleComponent(b, w, 3)
                d == SwizzleComponent(c, w, 4)
    <2>1. h = d
        BY <1>1, <1>4, <1>0, Zenon DEF ExecutesAs
    <2>2. LaneTyped(a)
        BY SwizzledLane, Zenon
    <2>. HIDE DEF a
    <2>3. LaneTyped(b)
        BY <2>2, SwizzledLane, Zenon
    <2>. HIDE DEF b
    <2>4. LaneTyped(c)
        BY <2>3, SwizzledLane, Zenon
    <2>. HIDE DEF c
    <2>5. LaneTyped(d)
        BY <2>4, SwizzledLane, Zenon
    <2>. QED
        BY <1>1, <2>1, <2>5, Zenon
<1>5. CASE op = "lduni"
    <2>1. h = LoadUniforms(g)
        BY <1>1, <1>5, <1>0, Zenon DEF ExecutesAs
    <2>2. LaneTyped(LoadUniforms(g))
        BY LoadsLane
    <2>. QED
        BY <1>1, <2>1, <2>2, Zenon
<1>6. CASE op = "initregs"
    <2>1. h = ZeroInitializeUnused(g)
        BY <1>1, <1>6, <1>0, Zenon DEF ExecutesAs
    <2>2. LaneTyped(ZeroInitializeUnused(g))
        BY LoadsLane
    <2>. QED
        BY <1>1, <2>1, <2>2, Zenon
<1>7. CASE op \notin All
    <2>1. h = g
        BY <1>1, <1>7, <1>0, Zenon DEF ExecutesAs
    <2>. QED
        BY <1>1, <2>1, Zenon
<1>8. \A d, m, x : LaneTyped(Masked(g, d, m, x))
    BY MaskedLane, Zenon
<1>9. CASE op = "fdot"
    <2>. DEFINE x == Splat(Dot(g[f[2]], g[f[3]]))
    <2>1. h = Masked(g, f[1], f[4], x)
        BY <1>0, <1>9, Zenon DEF ExecutesAs
    <2>. HIDE DEF x
    <2>. QED
        BY <1>1, <1>8, <2>1, Zenon
<1>10. CASE op = "fcross2"
    <2>. DEFINE x == Splat(Cross2(g[f[2]], g[f[3]], 1, 2))
    <2>1. h = Masked(g, f[1], f[4], x)
        BY <1>0, <1>10, Zenon DEF ExecutesAs
    <2>. HIDE DEF x
    <2>. QED
        BY <1>1, <1>8, <2>1, Zenon
<1>11. CASE op = "fmad"
    <2>. DEFINE x == [c \in 1 .. 4 |-> Plus(Times(g[f[2]][c], g[f[3]][c]), g[f[4]][c])]
    <2>1. h = Masked(g, f[1], f[5], x)
        BY <1>0, <1>11, Zenon DEF ExecutesAs
    <2>. HIDE DEF x
    <2>. QED
        BY <1>1, <1>8, <2>1, Zenon
<1>12. CASE op = "init"
    <2>. DEFINE x == [c \in 1 .. 4 |-> ImmediateFor(v, f[2], c)]
    <2>1. h = Masked(g, f[1], f[2], x)
        BY <1>0, <1>12, Zenon DEF ExecutesAs
    <2>. HIDE DEF x
    <2>. QED
        BY <1>1, <1>8, <2>1, Zenon
<1>13. CASE op \in UnaryOps \ {"fnorm"}
    <2>. DEFINE x == [c \in 1 .. 4 |-> UnaryFunction(op, g[f[2]][c])]
    <2>1. h = Masked(g, f[1], f[3], x)
        BY <1>0, <1>13, Zenon DEF ExecutesAs
    <2>. HIDE DEF x
    <2>. QED
        BY <1>1, <1>8, <2>1, Zenon
<1>14. CASE op \in BinaryOps \ {"fcross", "fdot", "fcross2"}
    <2>. DEFINE x == [c \in 1 .. 4 |-> BinaryFunction(op, g[f[2]][c], g[f[3]][c])]
    <2>1. h = Masked(g, f[1], f[4], x)
        BY <1>0, <1>14, Zenon DEF ExecutesAs
    <2>. HIDE DEF x
    <2>. QED
        BY <1>1, <1>8, <2>1, Zenon
<1>15. CASE op \in DOMAIN OperationOf
    <2>. DEFINE x == [c \in 1 .. 4 |-> BinaryFunction(OperationOf[op], g[f[2]][c], ImmediateFor(v, f[3], c))]
    <2>1. h = Masked(g, f[1], f[3], x)
        BY <1>0, <1>15, Zenon DEF ExecutesAs
    <2>. HIDE DEF x
    <2>. QED
        BY <1>1, <1>8, <2>1, Zenon
<1>. QED
    <2>1. \/ op \in {"fdot", "fcross2", "fmad", "init"} \/ op \in {"fnorm", "fcross", "swizzle", "lduni", "initregs"}
          \/ op \in UnaryOps \ {"fnorm"} \/ op \in BinaryOps \ {"fcross", "fdot", "fcross2"}
          \/ op \in DOMAIN OperationOf \/ op \notin All
        OBVIOUS
    <2>2. op \in {"fnorm", "fcross", "swizzle", "lduni", "initregs"} => LaneTyped(h)
        BY <1>1, <1>2, <1>3, <1>4, <1>5, <1>6
    <2>. QED
        BY <1>1, <1>7, <1>9, <1>10, <1>11, <1>12, <1>13, <1>14, <1>15, <2>1, <2>2

\* While the unit executes, each lane has every register.
LanesInv == phase = "executing" => \A t \in DOMAIN gpr : LaneTyped(gpr[t])

LEMMA InitialLane ==
    ASSUME NEW own, NEW attributes
    PROVE  LaneTyped(InitialRegisters(own, attributes))
<1>. DEFINE g == InitialRegisters(own, attributes)
            Vertex(v) == Slice(attributes, (v - 1) * Total(InputSizes), Total(InputSizes))
            places == (1 .. Vertices) \X (1 .. InputCount)
            stored == [at \in places |-> AttributeRegister(at[1], at[2])]
            Input(r) == CHOOSE k \in 1 .. InputCount : InputRegister(k) = r
            At(r) == CHOOSE at \in places : stored[at] = r
            Own(r) == IF ~IsFragmentShader THEN Padded(Part(own, InputSizes, Input(r)))
                      ELSE IF Input(r) = 1 THEN Padded(own) ELSE BlankRegister
            Attribute(r) == Padded(Part(Vertex(At(r)[1]), InputSizes, At(r)[2]))
            Value(r) == CASE r \in InputRegisters -> Own(r)
                          [] IsFragmentShader /\ r \in {stored[at] : at \in places} -> Attribute(r)
                          [] OTHER -> BlankRegister
<1>1. g = [r \in Registers |-> Value(r)]
    BY Zenon DEF InitialRegisters
<1>2. \A r : Counted(Own(r), 4) /\ Counted(Attribute(r), 4)
    <2>. HIDE DEF Input, At, Vertex
    <2>. QED
        BY FourComponents
<1>. HIDE DEF g, Own, Attribute, Input, At, Vertex, stored, places
<1>3. \A r : Value(r) = Own(r) \/ Value(r) = Attribute(r) \/ Value(r) = BlankRegister
    OBVIOUS
<1>. HIDE DEF Value
<1>4. \A r \in Registers : g[r] = Value(r)
    BY <1>1
<1>5. \A r \in Registers : Counted(g[r], 4)
    BY <1>2, <1>3, <1>4, FourComponents
<1>6. g = [r \in Registers |-> g[r]]
    BY <1>1
<1>. QED
    BY <1>5, <1>6 DEF LaneTyped, g

LEMMA LanesStep == LanesInv /\ [Next]_vars => LanesInv'
<1>. SUFFICES ASSUME LanesInv, [Next]_vars
              PROVE  LanesInv'
    OBVIOUS
<1>1. CASE StartUnit
    <2>. DEFINE n == request.threads
                perThread == n * PerThreadCount
                own == [t \in Lanes(n) |-> Slice(stream, t * PerThreadCount, PerThreadCount)]
                attributes == Slice(stream, perThread + Total(UniformSizes), AttributesCount)
    <2>1. gpr' = [t \in Lanes(n) |-> InitialRegisters(own[t], attributes)]
        BY <1>1 DEF StartUnit, InitializeInputRegisters
    <2>. HIDE DEF own, attributes
    <2>2. \A t \in DOMAIN gpr' : gpr'[t] = InitialRegisters(own[t], attributes)
        BY <2>1
    <2>. QED
        BY <2>2, InitialLane DEF LanesInv
<1>2. CASE RunUnit
    <2>. DEFINE w == isa[pc + 1]
                v == [k \in 1 .. Size(w) - 1 |-> isa[pc + 1 + k].f[1]]
    <2>1. phase = "executing" /\ gpr' = [t \in DOMAIN gpr |-> Execute(gpr[t], w, v)]
        BY <1>2 DEF RunUnit, ExecuteInstruction
    <2>. HIDE DEF w, v
    <2>2. DOMAIN gpr' = DOMAIN gpr /\ \A t \in DOMAIN gpr : gpr'[t] = Execute(gpr[t], w, v)
        BY <2>1
    <2>3. \A t \in DOMAIN gpr : LaneTyped(gpr[t])
        BY <2>1 DEF LanesInv
    <2>. QED
        BY <2>2, <2>3, ExecutedLane DEF LanesInv
<1>3. CASE Finished \/ UNCHANGED vars
    <2>1. UNCHANGED <<phase, gpr>>
        BY <1>3 DEF Finished, vars, unitVars, programVars
    <2>. QED
        BY <2>1 DEF LanesInv
<1>4. CASE \/ Assemble \/ Reset \/ FeedUnit \/ Answer
           \/ \E triangle \in 0 .. PrimitiveCount - 1 : RequestVertices(triangle)
           \/ \E triangle \in Triangles : RequestFragments(triangle)
    <2>1. phase' # "executing"
        BY <1>4 DEF Assemble, ParseDirective, FinalizeDirectives, ParseInstruction, FinalizeInstructions, Reset,
                    FeedUnit, Answer, RequestVertices, RequestFragments
    <2>. QED
        BY <2>1 DEF LanesInv
<1>. QED
    BY <1>1, <1>2, <1>3, <1>4 DEF Next, Serve

-----------------------------------------------------------------------------
(* What the documents say of a line, mnemonic by mnemonic.                   *)

\* The immediate value of component c.
DocumentedImmediate(i, c) ==
    LET place == Cardinality({b \in 1 .. c : InMask(i.mask, b)})
    IN  i.imm[IF place <= Len(i.imm) THEN place ELSE Len(i.imm)]

Documented(i, g) == [c \in 1 .. 4 |-> DocumentedResult(i, g, c)]

DocumentedAs(i, g, c, m, d) ==
    /\ ~InMask(i.mask, c) => d = g[i.dest][c]
    /\ InMask(i.mask, c) =>
          /\ m \in {"finit", "iinit"} => d = DocumentedImmediate(i, c)
          /\ m = "swizzle" => d = g[i.src[1]][i.src[c + 1] + 1]
          /\ m = "fdot" => d = Dot(g[i.src[1]], g[i.src[2]])
          /\ m = "fcross" => d = Cross(g[i.src[1]], g[i.src[2]])[c]
          /\ m = "fcross2" => d = Cross2(g[i.src[1]], g[i.src[2]], 1, 2)
          /\ m = "fnorm" => d = Normalized(g[i.src[1]])[c]
          /\ m \in UnaryOps \ {"fnorm"} => d = UnaryFunction(m, g[i.src[1]][c])
          /\ m \in BinaryOps \ {"fdot", "fcross", "fcross2"} =>
                d = BinaryFunction(m, g[i.src[1]][c], IF i.imm = <<>> THEN g[i.src[2]][c] ELSE DocumentedImmediate(i, c))

LEMMA DocumentedArms ==
    ASSUME NEW i, NEW g, NEW c
    PROVE  DocumentedAs(i, g, c, i.mnemonic, DocumentedResult(i, g, c))
<1>. DEFINE m == i.mnemonic
            d == DocumentedResult(i, g, c)
            imm == DocumentedImmediate(i, c)
            U == m \in UnaryOps \ {"fnorm"}
<1>1. U => /\ m # "fnorm" /\ m # "swizzle" /\ m # "fdot" /\ m # "fcross" /\ m # "fcross2" /\ m # "fmad"
           /\ m \notin {"finit", "iinit"}
    BY DEF UnaryOps
<1>2. m \in BinaryOps \ {"fdot", "fcross", "fcross2"} =>
           /\ m # "fnorm" /\ m # "swizzle" /\ m # "fdot" /\ m # "fcross" /\ m # "fcross2" /\ m # "fmad"
           /\ m \notin {"finit", "iinit"} /\ ~U
    BY DEF UnaryOps, BinaryOps
<1>3. /\ "fnorm" \notin UnaryOps \ {"fnorm"} /\ "swizzle" \notin UnaryOps /\ "fdot" \notin UnaryOps
      /\ "fcross" \notin UnaryOps /\ "fcross2" \notin UnaryOps /\ "fmad" \notin UnaryOps
      /\ "finit" \notin UnaryOps /\ "iinit" \notin UnaryOps
    BY DEF UnaryOps
<1>4. imm = i.imm[IF Cardinality({b \in 1 .. c : InMask(i.mask, b)}) <= Len(i.imm)
                  THEN Cardinality({b \in 1 .. c : InMask(i.mask, b)}) ELSE Len(i.imm)]
    BY DEF DocumentedImmediate
<1>5. ~InMask(i.mask, c) => d = g[i.dest][c]
    BY DEF DocumentedResult
<1>. SUFFICES ASSUME InMask(i.mask, c)
              PROVE  DocumentedAs(i, g, c, m, d)
    BY <1>5 DEF DocumentedAs
<1>6. CASE m \in {"finit", "iinit"}
    <2>1. /\ m # "fnorm" /\ m # "swizzle" /\ m # "fdot" /\ m # "fcross" /\ m # "fcross2" /\ m # "fmad" /\ ~U
          /\ m \notin BinaryOps
        BY <1>6 DEF UnaryOps, BinaryOps
    <2>2. d = imm
        BY <1>4, <1>6, <2>1, Zenon DEF DocumentedResult
    <2>. QED
        BY <1>6, <2>1, <2>2 DEF DocumentedAs
<1>7. CASE m = "swizzle"
    <2>1. d = g[i.src[1]][i.src[c + 1] + 1]
        BY <1>3, <1>7, Zenon DEF DocumentedResult
    <2>. QED
        BY <1>7, <2>1 DEF DocumentedAs, UnaryOps, BinaryOps
<1>8. CASE m = "fdot"
    <2>1. d = Dot(g[i.src[1]], g[i.src[2]])
        BY <1>3, <1>8, Zenon DEF DocumentedResult
    <2>. QED
        BY <1>8, <2>1 DEF DocumentedAs, UnaryOps, BinaryOps
<1>9. CASE m = "fcross"
    <2>1. d = Cross(g[i.src[1]], g[i.src[2]])[c]
        BY <1>3, <1>9, Zenon DEF DocumentedResult
    <2>. QED
        BY <1>9, <2>1 DEF DocumentedAs, UnaryOps, BinaryOps
<1>10. CASE m = "fcross2"
    <2>1. d = Cross2(g[i.src[1]], g[i.src[2]], 1, 2)
        BY <1>3, <1>10, Zenon DEF DocumentedResult
    <2>. QED
        BY <1>10, <2>1 DEF DocumentedAs, UnaryOps, BinaryOps
<1>11. CASE m = "fnorm"
    <2>1. d = Normalized(g[i.src[1]])[c]
        BY <1>3, <1>11, Zenon DEF DocumentedResult
    <2>. QED
        BY <1>11, <2>1 DEF DocumentedAs, UnaryOps, BinaryOps
<1>12. CASE U
    <2>1. d = UnaryFunction(m, g[i.src[1]][c])
        BY <1>1, <1>12, Zenon DEF DocumentedResult
    <2>2. m \notin BinaryOps
        BY <1>12 DEF UnaryOps, BinaryOps
    <2>. QED
        BY <1>1, <1>12, <2>1, <2>2 DEF DocumentedAs
<1>13. CASE m \in BinaryOps \ {"fdot", "fcross", "fcross2"}
    <2>1. d = BinaryFunction(m, g[i.src[1]][c], IF i.imm = <<>> THEN g[i.src[2]][c] ELSE imm)
        BY <1>2, <1>4, <1>13, Zenon DEF DocumentedResult
    <2>. QED
        BY <1>2, <1>13, <2>1 DEF DocumentedAs
<1>. QED
    BY <1>6, <1>7, <1>8, <1>9, <1>10, <1>11, <1>12, <1>13 DEF DocumentedAs

\* The next immediate value for each component of the mask, counted either way.
LEMMA SameImmediate ==
    ASSUME NEW i, NEW c \in 1 .. 4, InMask(i.mask, c), Len(i.imm) \in 1 .. 4
    PROVE  ImmediateFor(i.imm, i.mask, c) = DocumentedImmediate(i, c)
<1>. DEFINE E == {b \in 1 .. c - 1 : InMask(i.mask, b)}
            P == {b \in 1 .. c : InMask(i.mask, b)}
<1>1. P = E \cup {c} /\ c \notin E
    OBVIOUS
<1>2. IsFiniteSet(E)
    <2>1. IsFiniteSet(1 .. c - 1) /\ E \subseteq 1 .. c - 1
        BY FS_Interval
    <2>. QED
        BY <2>1, FS_Subset
<1>3. ImmediateFor(i.imm, i.mask, c) = i.imm[IF Cardinality(E) < Len(i.imm) THEN Cardinality(E) + 1 ELSE Len(i.imm)]
    BY DEF ImmediateFor
<1>4. DocumentedImmediate(i, c) = i.imm[IF Cardinality(P) <= Len(i.imm) THEN Cardinality(P) ELSE Len(i.imm)]
    BY DEF DocumentedImmediate
<1>. HIDE DEF E, P
<1>5. Cardinality(E) \in Nat /\ Cardinality(P) = Cardinality(E) + 1
    BY <1>1, <1>2, FS_CardinalityType, FS_AddElement
<1>. QED
    BY <1>3, <1>4, <1>5

LEMMA FullMask == \A c \in 1 .. 4 : InMask(15, c)
<1>1. \A c \in 1 .. 4 : 4 - c \in 0 .. 3
    OBVIOUS
<1>2. \A n \in 0 .. 3 : IsBitSet(15, n)
    <2>1. /\ 2 ^ 0 = 1 /\ 2 ^ 1 = 2 /\ 2 ^ 2 = 4 /\ 2 ^ 3 = 8
          /\ 15 \div 1 = 15 /\ 15 \div 2 = 7 /\ 15 \div 4 = 3 /\ 15 \div 8 = 1
          /\ 15 % 2 = 1 /\ 7 % 2 = 1 /\ 3 % 2 = 1 /\ 1 % 2 = 1
        OBVIOUS
    <2>2. \A n \in 0 .. 3 : n = 0 \/ n = 1 \/ n = 2 \/ n = 3
        OBVIOUS
    <2>3. IsBitSet(15, 0) /\ IsBitSet(15, 1) /\ IsBitSet(15, 2) /\ IsBitSet(15, 3)
        BY <2>1 DEF IsBitSet
    <2>. QED
        BY <2>2, <2>3
<1>. QED
    BY <1>1, <1>2 DEF InMask

\* An instruction that writes the components of the mask writes what is documented,
\* when it computes that for the components of the mask.
LEMMA MaskedResult ==
    ASSUME NEW i, NEW g, NEW x, \A c \in 1 .. 4 : InMask(i.mask, c) => x[c] = DocumentedResult(i, g, c)
    PROVE  Masked(g, i.dest, i.mask, x) = [g EXCEPT ![i.dest] = Documented(i, g)]
<1>. DEFINE y == [c \in 1 .. 4 |-> IF InMask(i.mask, c) THEN x[c] ELSE g[i.dest][c]]
<1>1. Masked(g, i.dest, i.mask, x) = [g EXCEPT ![i.dest] = y]
    BY Zenon DEF Masked
<1>2. \A c \in 1 .. 4 : ~InMask(i.mask, c) => DocumentedResult(i, g, c) = g[i.dest][c]
    BY DocumentedArms DEF DocumentedAs
<1>3. y = Documented(i, g)
    BY <1>2 DEF Documented
<1>. HIDE DEF y
<1>. QED
    BY <1>1, <1>3

-----------------------------------------------------------------------------
(* A swizzle, component after component.                                     *)

\* The first c components are written.
Swizzled(g, d, s, P, c) == [g EXCEPT ![d] = [k \in 1 .. 4 |-> IF k <= c THEN g[s][P[k]] ELSE g[d][k]]]

LEMMA SwizzleOne ==
    ASSUME NEW g, LaneTyped(g), NEW d \in Registers, NEW s \in Registers, NEW P \in [1 .. 4 -> 1 .. 4],
           s = d => \A k \in 1 .. 4 : P[k] < k => P[P[k]] = P[k],
           NEW w, w.f[1] = d, w.f[2] = s, \A k \in 1 .. 4 : w.f[2 + k] + 1 = P[k],
           NEW c \in 1 .. 4
    PROVE  SwizzleComponent(Swizzled(g, d, s, P, c - 1), w, c) = Swizzled(g, d, s, P, c)
<1>. DEFINE x == [k \in 1 .. 4 |-> IF k <= c - 1 THEN g[s][P[k]] ELSE g[d][k]]
            h == Swizzled(g, d, s, P, c - 1)
            y == [k \in 1 .. 4 |-> IF k <= c THEN g[s][P[k]] ELSE g[d][k]]
<1>1. g = [r \in Registers |-> g[r]]
    BY DEF LaneTyped
<1>2. h = [g EXCEPT ![d] = x] /\ h[d] = x /\ h = [r \in Registers |-> h[r]] /\ \A r \in Registers : r # d => h[r] = g[r]
    BY <1>1 DEF Swizzled
<1>3. h[s][P[c]] = g[s][P[c]]
    <2>1. P[c] \in 1 .. 4
        OBVIOUS
    <2>2. CASE s # d
        BY <1>2, <2>2
    <2>3. CASE s = d
        <3>1. x[P[c]] = IF P[c] <= c - 1 THEN g[s][P[P[c]]] ELSE g[d][P[c]]
            BY <2>1
        <3>2. P[c] <= c - 1 => P[P[c]] = P[c]
            BY <2>1, <2>3
        <3>. QED
            BY <1>2, <2>3, <3>1, <3>2
    <2>. QED
        BY <2>2, <2>3
<1>4. SwizzleComponent(h, w, c) = [h EXCEPT ![d] = [h[d] EXCEPT ![c] = h[s][P[c]]]]
    <2>1. w.f[2 + c] + 1 = P[c]
        OBVIOUS
    <2>. HIDE DEF h
    <2>. QED
        BY <2>1, Zenon DEF SwizzleComponent
<1>5. [x EXCEPT ![c] = g[s][P[c]]] = y
    <2>1. \A k \in 1 .. 4 : k <= c <=> (k <= c - 1 \/ k = c)
        OBVIOUS
    <2>. QED
        BY <2>1
<1>. HIDE DEF h, x, y
<1>6. SwizzleComponent(h, w, c) = [h EXCEPT ![d] = y]
    BY <1>2, <1>3, <1>4, <1>5
<1>7. [h EXCEPT ![d] = y] = [g EXCEPT ![d] = y]
    BY <1>1, <1>2
<1>. QED
    BY <1>6, <1>7 DEF Swizzled, h, y

LEMMA SwizzleAll ==
    ASSUME NEW g, LaneTyped(g), NEW d \in Registers, NEW s \in Registers, NEW P \in [1 .. 4 -> 1 .. 4],
           s = d => \A k \in 1 .. 4 : P[k] < k => P[P[k]] = P[k],
           NEW w, w.f[1] = d, w.f[2] = s, \A k \in 1 .. 4 : w.f[2 + k] + 1 = P[k]
    PROVE  SwizzleComponent(SwizzleComponent(SwizzleComponent(SwizzleComponent(g, w, 1), w, 2), w, 3), w, 4)
               = Swizzled(g, d, s, P, 4)
<1>. DEFINE S(c) == Swizzled(g, d, s, P, c)
<1>1. S(0) = g
    <2>1. g = [r \in Registers |-> g[r]] /\ g[d] = [k \in 1 .. 4 |-> g[d][k]]
        BY DEF LaneTyped, Counted
    <2>2. [k \in 1 .. 4 |-> IF k <= 0 THEN g[s][P[k]] ELSE g[d][k]] = g[d]
        BY <2>1
    <2>. QED
        BY <2>1, <2>2 DEF Swizzled
<1>2. \A c \in 1 .. 4 : SwizzleComponent(S(c - 1), w, c) = S(c)
    BY SwizzleOne
<1>. HIDE DEF S
<1>3. 1 - 1 = 0 /\ 2 - 1 = 1 /\ 3 - 1 = 2 /\ 4 - 1 = 3
    OBVIOUS
<1>4. /\ SwizzleComponent(S(0), w, 1) = S(1) /\ SwizzleComponent(S(1), w, 2) = S(2)
      /\ SwizzleComponent(S(2), w, 3) = S(3) /\ SwizzleComponent(S(3), w, 4) = S(4)
    BY <1>2, <1>3
<1>. QED
    BY <1>1, <1>4 DEF S

-----------------------------------------------------------------------------
(* The words that a line is encoded in.                                      *)

\* v are the immediate values the unit reads after the first word w.
WordOf(i, m, w, v) ==
    /\ m \in UnaryOps => w = Word(m, <<i.dest, i.src[1], i.mask>>)
    /\ m = "fcross" => w = Word("fcross", <<i.dest, i.src[1], i.src[2], 15>>)
    /\ m \in BinaryOps \ {"fcross"} =>
          /\ i.imm = <<>> => w = Word(m, <<i.dest, i.src[1], i.src[2], i.mask>>)
          /\ i.imm # <<>> =>
                /\ \E op \in DOMAIN OperationOf :
                      /\ OperationOf[op] = m
                      /\ w = Word(op, <<i.dest, i.src[1], i.mask, Encoded(Len(i.imm))>>)
                /\ v = i.imm /\ Len(i.imm) \in 1 .. 4
    /\ m \in {"finit", "iinit"} =>
          w = Word("init", <<i.dest, i.mask, Encoded(Len(i.imm))>>) /\ v = i.imm /\ Len(i.imm) \in 1 .. 4
    /\ m = "swizzle" => w = Word("swizzle", <<i.dest, i.src[1]>> \o Tail(i.src))

ValuesIn(words) == [k \in 1 .. Size(words[1]) - 1 |-> words[1 + k].f[1]]

LEMMA LaidOutValues ==
    ASSUME NEW words, NEW first, NEW values, values \in Seq(Range(values)), LaidOut(words, first, values)
    PROVE  words[1] = first /\ ValuesIn(words) = values
<1>1. Len(values) \in Nat /\ values = [k \in 1 .. Len(values) |-> values[k]]
    BY LenProperties
<1>2. Size(words[1]) - 1 = Len(values)
    BY <1>1 DEF LaidOut
<1>3. \A x : Word("imm", <<x>>).f[1] = x
    BY DEF Word
<1>4. \A k \in 1 .. Len(values) : words[1 + k].f[1] = values[k]
    BY <1>3 DEF LaidOut
<1>5. ValuesIn(words) = [k \in 1 .. Len(values) |-> words[1 + k].f[1]]
    BY <1>2 DEF ValuesIn
<1>. QED
    BY <1>1, <1>4, <1>5 DEF LaidOut

LEMMA LineWord ==
    ASSUME NEW i, IsLine(i), i.mnemonic \notin {"fmad", "trap"}
    PROVE  WordOf(i, i.mnemonic, Assembled(i)[1], ValuesIn(Assembled(i))) /\ Len(Assembled(i)) \in Nat \ {0}
<1>. DEFINE m == i.mnemonic
            Unary == m \in UnaryOps
            Fcross == m = "fcross"
            Binary == m \in BinaryOps \ {"fcross"}
            Fmad == m = "fmad"
            Initial == m \in {"finit", "iinit"}
            Swizzles == m = "swizzle"
            Nothing == m \in NullaryOps
<1>1. /\ m \in UnaryOps \cup BinaryOps \cup {"fmad", "finit", "iinit", "swizzle", "trap"}
      /\ i.imm \in Seq(Range(i.imm))
    BY DEF IsLine
<1>2. CASE Unary
    <2>1. ~Fcross /\ ~Binary /\ ~Fmad /\ ~Initial /\ ~Swizzles /\ ~Nothing
        BY <1>2 DEF UnaryOps, BinaryOps, NullaryOps
    <2>2. Assembled(i) = UnaryMath(m, i.dest, i.src[1], i.mask)
        BY <1>2, <2>1, Zenon DEF Assembled
    <2>3. Assembled(i)[1] = Word(m, <<i.dest, i.src[1], i.mask>>) /\ Len(Assembled(i)) = 1
        BY <2>2 DEF UnaryMath
    <2>. QED
        BY <2>1, <2>3 DEF WordOf
<1>3. CASE Fcross
    <2>1. ~Unary /\ ~Binary /\ ~Fmad /\ ~Initial /\ ~Swizzles /\ ~Nothing
        BY <1>3 DEF UnaryOps, BinaryOps, NullaryOps
    <2>2. Assembled(i) = BinaryMath("fcross", i.dest, i.src[1], i.src[2], 15)
        BY <1>3, <2>1, Zenon DEF Assembled
    <2>3. Assembled(i)[1] = Word("fcross", <<i.dest, i.src[1], i.src[2], 15>>) /\ Len(Assembled(i)) = 1
        BY <2>2 DEF BinaryMath
    <2>. QED
        BY <1>3, <2>1, <2>3 DEF WordOf
<1>4. CASE Binary
    <2>1. ~Unary /\ ~Fcross /\ ~Fmad /\ ~Initial /\ ~Swizzles /\ ~Nothing
        BY <1>4 DEF UnaryOps, BinaryOps, NullaryOps
    <2>2. Assembled(i) = IF i.imm = <<>>
                         THEN BinaryMath(m, i.dest, i.src[1], i.src[2], i.mask)
                         ELSE BinaryMathImm(ImmediateForm(m), i.dest, i.src[1], i.mask, i.imm)
        BY <1>4, <2>1, Zenon DEF Assembled
    <2>3. CASE i.imm = <<>>
        <3>1. Assembled(i)[1] = Word(m, <<i.dest, i.src[1], i.src[2], i.mask>>) /\ Len(Assembled(i)) = 1
            BY <2>2, <2>3 DEF BinaryMath
        <3>. QED
            BY <2>1, <2>3, <3>1 DEF WordOf
    <2>4. CASE i.imm # <<>>
        <3>. DEFINE op == ImmediateForm(m)
                    f == <<i.dest, i.src[1], i.mask, Encoded(Len(i.imm))>>
        <3>1. Len(i.imm) # 0 /\ Len(i.imm) \in Nat
            BY <1>1, <2>4, EmptySeq
        <3>2. m \in Range(OperationOf) /\ Len(i.imm) \in 1 .. 4
            <4>1. m \in Range(OperationOf) /\ Len(i.imm) \in 0 .. 1
                BY <2>1, <3>1 DEF IsLine
            <4>. QED
                BY <3>1, <4>1
        <3>3. op \in DOMAIN OperationOf /\ OperationOf[op] = m
            BY <3>2 DEF ImmediateForm, Range
        <3>4. op # "init"
            BY <3>3 DEF OperationOf
        <3>5. f[4] = Encoded(Len(i.imm))
            OBVIOUS
        <3>6. Assembled(i) = <<Word(op, f)>> \o Immediates(i.imm)
            BY <2>2, <2>4 DEF BinaryMathImm
        <3>. HIDE DEF op, f
        <3>7. LaidOut(Assembled(i), Word(op, f), i.imm)
            BY <1>1, <3>2, <3>3, <3>4, <3>5, <3>6, ImmediateWords
        <3>8. /\ Assembled(i)[1] = Word(op, f) /\ ValuesIn(Assembled(i)) = i.imm
              /\ Len(Assembled(i)) \in Nat \ {0}
            BY <1>1, <3>2, <3>7, LaidOutValues DEF LaidOut
        <3>. QED
            BY <2>1, <2>4, <3>2, <3>3, <3>8 DEF WordOf, f
    <2>. QED
        BY <2>3, <2>4
<1>5. CASE Initial
    <2>. DEFINE f == <<i.dest, i.mask, Encoded(Len(i.imm))>>
    <2>1. ~Unary /\ ~Fcross /\ ~Binary /\ ~Fmad /\ ~Swizzles /\ ~Nothing
        BY <1>5 DEF UnaryOps, BinaryOps, NullaryOps
    <2>2. Assembled(i) = UnaryMathImm("init", i.dest, i.mask, i.imm)
        BY <1>5, <2>1, Zenon DEF Assembled
    <2>3. Len(i.imm) \in 1 .. 4 /\ f[3] = Encoded(Len(i.imm))
        BY <1>5 DEF IsLine
    <2>4. Assembled(i) = <<Word("init", f)>> \o Immediates(i.imm)
        BY <2>2 DEF UnaryMathImm
    <2>. HIDE DEF f
    <2>5. LaidOut(Assembled(i), Word("init", f), i.imm)
        BY <1>1, <2>3, <2>4, ImmediateWords
    <2>6. /\ Assembled(i)[1] = Word("init", f) /\ ValuesIn(Assembled(i)) = i.imm
          /\ Len(Assembled(i)) \in Nat \ {0}
        BY <1>1, <2>3, <2>5, LaidOutValues DEF LaidOut
    <2>. QED
        BY <2>1, <2>3, <2>6 DEF WordOf, f
<1>6. CASE Swizzles
    <2>1. ~Unary /\ ~Fcross /\ ~Binary /\ ~Fmad /\ ~Initial /\ ~Nothing
        BY <1>6 DEF UnaryOps, BinaryOps, NullaryOps
    <2>2. Assembled(i) = Swizzle(i.dest, i.src[1], Tail(i.src))
        BY <1>6, <2>1, Zenon DEF Assembled
    <2>3. Assembled(i)[1] = Word("swizzle", <<i.dest, i.src[1]>> \o Tail(i.src)) /\ Len(Assembled(i)) = 1
        BY <2>2 DEF Swizzle
    <2>. QED
        BY <2>1, <2>3 DEF WordOf
<1>. QED
    BY <1>1, <1>2, <1>3, <1>4, <1>5, <1>6

\* The first word of an unexceptional line, with its immediate values, writes the
\* destination as documented.
WritesAs(i, g, h) == h = [g EXCEPT ![i.dest] = Documented(i, g)]

LEMMA SwizzleResult ==
    ASSUME NEW i, IsLine(i), Unexceptional(i), i.mnemonic = "swizzle", NEW g, LaneTyped(g),
           NEW w, w.f = <<i.dest, i.src[1]>> \o Tail(i.src)
    PROVE  WritesAs(i, g, SwizzleComponent(SwizzleComponent(SwizzleComponent(SwizzleComponent(g, w, 1), w, 2), w, 3), w, 4))
<1>. DEFINE P == [k \in 1 .. 4 |-> i.src[k + 1] + 1]
            d == i.dest
            s == i.src[1]
<1>1. /\ i.dest \in Registers /\ i.mask = 15 /\ i.src \in Seq(Registers) /\ Len(i.src) = 5
      /\ \A c \in 1 .. 4 : i.src[c + 1] \in 0 .. 3
    BY DEF IsLine
<1>2. d \in Registers /\ s \in Registers
    BY <1>1
<1>3. P \in [1 .. 4 -> 1 .. 4]
    BY <1>1
<1>4. s = d => \A k \in 1 .. 4 : P[k] < k => P[P[k]] = P[k]
    <2>1. s = d => \A k \in 1 .. 4 : i.src[k + 1] + 1 < k => i.src[(i.src[k + 1] + 1) + 1] + 1 = i.src[k + 1] + 1
        BY DEF Unexceptional
    <2>2. \A k \in 1 .. 4 : P[k] = i.src[k + 1] + 1 /\ P[k] \in 1 .. 4
        BY <1>3
    <2>3. \A k \in 1 .. 4 : P[P[k]] = i.src[P[k] + 1] + 1
        BY <2>2
    <2>. HIDE DEF P
    <2>. QED
        BY <2>1, <2>2, <2>3
<1>5. w.f[1] = d /\ w.f[2] = s /\ \A k \in 1 .. 4 : w.f[2 + k] + 1 = P[k]
    <2>. DEFINE a == <<i.dest, i.src[1]>>
                b == Tail(i.src)
    <2>1. b \in Seq(Registers) /\ Len(b) = 4 /\ \A k \in 1 .. 4 : b[k] = i.src[k + 1]
        BY <1>1
    <2>2. a \in Seq(Registers) /\ Len(a) = 2 /\ a[1] = i.dest /\ a[2] = i.src[1]
        BY <1>2
    <2>3. w.f = a \o b
        OBVIOUS
    <2>. HIDE DEF a, b
    <2>4. Joins(a, b, w.f)
        BY <2>1, <2>2, <2>3, SeqIsSeq, ConcatIsSeq
    <2>5. w.f[1] = a[1] /\ w.f[2] = a[2] /\ \A k \in 1 .. 4 : w.f[2 + k] = b[k]
        BY <2>1, <2>2, <2>4 DEF Joins
    <2>. QED
        BY <2>1, <2>2, <2>5
<1>6. [k \in 1 .. 4 |-> g[s][P[k]]] = Documented(i, g)
    <2>1. \A c \in 1 .. 4 : InMask(i.mask, c)
        BY <1>1, FullMask
    <2>2. \A c \in 1 .. 4 : DocumentedResult(i, g, c) = g[i.src[1]][i.src[c + 1] + 1]
        BY <2>1, DocumentedArms DEF DocumentedAs
    <2>. QED
        BY <2>2 DEF Documented
<1>. HIDE DEF P, d, s
<1>7. SwizzleComponent(SwizzleComponent(SwizzleComponent(SwizzleComponent(g, w, 1), w, 2), w, 3), w, 4)
          = Swizzled(g, d, s, P, 4)
    BY <1>2, <1>3, <1>4, <1>5, SwizzleAll
<1>8. [k \in 1 .. 4 |-> IF k <= 4 THEN g[s][P[k]] ELSE g[d][k]] = [k \in 1 .. 4 |-> g[s][P[k]]]
    OBVIOUS
<1>. QED
    BY <1>6, <1>7, <1>8, Zenon DEF Swizzled, WritesAs, d

LEMMA LineResult ==
    ASSUME NEW i, IsLine(i), Unexceptional(i), NEW g, LaneTyped(g), NEW w, NEW v, WordOf(i, i.mnemonic, w, v)
    PROVE  WritesAs(i, g, Execute(g, w, v))
<1>. DEFINE m == i.mnemonic
            op == w.op
            f == w.f
            h == Execute(g, w, v)
            a == g[i.src[1]]
            b == g[i.src[2]]
            I == OperationOf
<1>1. ExecutesAs(g, w, v, op, f, h)
    BY ExecuteArms
<1>2. WordOf(i, m, w, v) /\ op = w.op /\ f = w.f
    OBVIOUS
<1>3. \A c : DocumentedAs(i, g, c, m, DocumentedResult(i, g, c))
    BY DocumentedArms
<1>4. /\ m \in UnaryOps \cup BinaryOps \cup {"finit", "iinit", "swizzle"}
      /\ m \in {"fnorm", "fcross"} => i.mask = 15
    BY DEF IsLine, Unexceptional
<1>5. \A o, x : Word(o, x).op = o /\ Word(o, x).f = x
    BY DEF Word
<1>. SUFFICES WritesAs(i, g, h)
    OBVIOUS
<1>6. ASSUME NEW x, h = Masked(g, i.dest, i.mask, x),
             \A c \in 1 .. 4 : InMask(i.mask, c) => x[c] = DocumentedResult(i, g, c)
      PROVE  WritesAs(i, g, h)
    BY <1>6, MaskedResult DEF WritesAs
<1>7. ASSUME NEW x, h = [g EXCEPT ![i.dest] = x], i.mask = 15, Counted(x, 4),
             \A c \in 1 .. 4 : InMask(i.mask, c) => x[c] = DocumentedResult(i, g, c)
      PROVE  WritesAs(i, g, h)
    <2>1. \A c \in 1 .. 4 : x[c] = DocumentedResult(i, g, c)
        BY <1>7, FullMask
    <2>2. x = Documented(i, g)
        BY <1>7, <2>1 DEF Counted, Documented
    <2>. QED
        BY <1>7, <2>2 DEF WritesAs
<1>. HIDE DEF h, m, op, f
<1>8. CASE m = "fnorm"
    <2>. DEFINE x == Normalized(a)
    <2>1. op = "fnorm" /\ f = <<i.dest, i.src[1], i.mask>>
        BY <1>2, <1>5, <1>8 DEF WordOf, UnaryOps
    <2>2. h = [g EXCEPT ![f[1]] = Normalized(g[f[2]])]
        BY <1>1, <2>1, Zenon DEF ExecutesAs
    <2>3. f[1] = i.dest /\ f[2] = i.src[1]
        BY <2>1
    <2>4. h = [g EXCEPT ![i.dest] = x]
        BY <2>2, <2>3, Zenon
    <2>5. \A c \in 1 .. 4 : InMask(i.mask, c) => x[c] = DocumentedResult(i, g, c)
        BY <1>3, <1>8 DEF DocumentedAs
    <2>6. Counted(x, 4) /\ i.mask = 15
        BY <1>4, <1>8 DEF Counted, Normalized
    <2>. HIDE DEF x
    <2>. QED
        BY <1>7, <2>4, <2>5, <2>6
<1>9. CASE m = "fcross"
    <2>. DEFINE x == Cross(a, b)
    <2>1. op = "fcross" /\ f = <<i.dest, i.src[1], i.src[2], 15>>
        BY <1>2, <1>5, <1>9 DEF WordOf
    <2>2. h = [g EXCEPT ![f[1]] = Cross(g[f[2]], g[f[3]])]
        BY <1>1, <2>1, Zenon DEF ExecutesAs
    <2>3. f[1] = i.dest /\ f[2] = i.src[1] /\ f[3] = i.src[2]
        BY <2>1
    <2>4. h = [g EXCEPT ![i.dest] = x]
        BY <2>2, <2>3, Zenon
    <2>5. \A c \in 1 .. 4 : InMask(i.mask, c) => x[c] = DocumentedResult(i, g, c)
        BY <1>3, <1>9 DEF DocumentedAs
    <2>6. Counted(x, 4) /\ i.mask = 15
        BY <1>4, <1>9 DEF Counted, Cross
    <2>. HIDE DEF x
    <2>. QED
        BY <1>7, <2>4, <2>5, <2>6
<1>10. CASE m \in UnaryOps \ {"fnorm"}
    <2>. DEFINE x == [c \in 1 .. 4 |-> UnaryFunction(m, a[c])]
    <2>1. op = m /\ f = <<i.dest, i.src[1], i.mask>>
        BY <1>2, <1>5, <1>10 DEF WordOf
    <2>2. h = Masked(g, f[1], f[3], [c \in 1 .. 4 |-> UnaryFunction(op, g[f[2]][c])])
        BY <1>1, <1>10, <2>1, Zenon DEF ExecutesAs
    <2>3. f[1] = i.dest /\ f[2] = i.src[1] /\ f[3] = i.mask
        BY <2>1
    <2>4. h = Masked(g, i.dest, i.mask, x)
        BY <2>1, <2>2, <2>3, Zenon
    <2>5. \A c \in 1 .. 4 : InMask(i.mask, c) => x[c] = DocumentedResult(i, g, c)
        BY <1>3, <1>10 DEF DocumentedAs
    <2>. HIDE DEF x
    <2>. QED
        BY <1>6, <2>4, <2>5
<1>11. CASE m \in {"fdot", "fcross2"}
    <2>. DEFINE e == IF m = "fdot" THEN Dot(a, b) ELSE Cross2(a, b, 1, 2)
                x == Splat(e)
    <2>1. i.imm = <<>>
        <3>1. i.imm \in Seq(Range(i.imm)) /\ Len(i.imm) \in {0}
            BY <1>11 DEF IsLine, m, OperationOf, Range
        <3>. QED
            BY <3>1, EmptySeq
    <2>2. op = m /\ f = <<i.dest, i.src[1], i.src[2], i.mask>>
        BY <1>2, <1>5, <1>11, <2>1 DEF WordOf, BinaryOps
    <2>3. h = Masked(g, f[1], f[4], Splat(IF m = "fdot" THEN Dot(g[f[2]], g[f[3]]) ELSE Cross2(g[f[2]], g[f[3]], 1, 2)))
        <3>1. CASE m = "fdot"
            BY <1>1, <2>2, <3>1, Zenon DEF ExecutesAs
        <3>2. CASE m = "fcross2"
            BY <1>1, <2>2, <3>2, Zenon DEF ExecutesAs
        <3>. QED
            BY <1>11, <3>1, <3>2
    <2>4. f[1] = i.dest /\ f[2] = i.src[1] /\ f[3] = i.src[2] /\ f[4] = i.mask
        BY <2>2
    <2>5. h = Masked(g, i.dest, i.mask, x)
        BY <2>3, <2>4, Zenon
    <2>6. \A c \in 1 .. 4 : InMask(i.mask, c) => e = DocumentedResult(i, g, c)
        BY <1>3, <1>11 DEF DocumentedAs
    <2>. HIDE DEF e
    <2>7. \A c \in 1 .. 4 : x[c] = e
        BY DEF Splat
    <2>. HIDE DEF x
    <2>. QED
        BY <1>6, <2>5, <2>6, <2>7
<1>12. CASE m \in BinaryOps \ {"fcross", "fdot", "fcross2"} /\ i.imm = <<>>
    <2>. DEFINE x == [c \in 1 .. 4 |-> BinaryFunction(m, a[c], b[c])]
    <2>1. op = m /\ f = <<i.dest, i.src[1], i.src[2], i.mask>>
        BY <1>2, <1>5, <1>12 DEF WordOf
    <2>2. h = Masked(g, f[1], f[4], [c \in 1 .. 4 |-> BinaryFunction(op, g[f[2]][c], g[f[3]][c])])
        BY <1>1, <1>12, <2>1, Zenon DEF ExecutesAs
    <2>3. f[1] = i.dest /\ f[2] = i.src[1] /\ f[3] = i.src[2] /\ f[4] = i.mask
        BY <2>1
    <2>4. h = Masked(g, i.dest, i.mask, x)
        BY <2>1, <2>2, <2>3, Zenon
    <2>5. \A c \in 1 .. 4 : InMask(i.mask, c) => x[c] = DocumentedResult(i, g, c)
        BY <1>3, <1>12 DEF DocumentedAs
    <2>. HIDE DEF x
    <2>. QED
        BY <1>6, <2>4, <2>5
<1>13. CASE m \in BinaryOps \ {"fcross", "fdot", "fcross2"} /\ i.imm # <<>>
    <2>. DEFINE x == [c \in 1 .. 4 |-> BinaryFunction(m, a[c], ImmediateFor(i.imm, i.mask, c))]
    <2>1. PICK o \in DOMAIN OperationOf :
             OperationOf[o] = m /\ w = Word(o, <<i.dest, i.src[1], i.mask, Encoded(Len(i.imm))>>)
        BY <1>2, <1>13 DEF WordOf
    <2>2. v = i.imm /\ Len(i.imm) \in 1 .. 4
        BY <1>2, <1>13 DEF WordOf
    <2>3. op = o /\ f = <<i.dest, i.src[1], i.mask, Encoded(Len(i.imm))>>
        BY <1>2, <1>5, <2>1
    <2>4. h = Masked(g, f[1], f[3], [c \in 1 .. 4 |-> BinaryFunction(OperationOf[op], g[f[2]][c], ImmediateFor(v, f[3], c))])
        BY <1>1, <2>1, <2>3, Zenon DEF ExecutesAs
    <2>5. f[1] = i.dest /\ f[2] = i.src[1] /\ f[3] = i.mask
        BY <2>3
    <2>6. h = Masked(g, i.dest, i.mask, x)
        BY <2>1, <2>2, <2>3, <2>4, <2>5, Zenon
    <2>7. \A c \in 1 .. 4 : InMask(i.mask, c) => ImmediateFor(i.imm, i.mask, c) = DocumentedImmediate(i, c)
        BY <2>2, SameImmediate
    <2>8. \A c \in 1 .. 4 : InMask(i.mask, c) => x[c] = DocumentedResult(i, g, c)
        BY <1>3, <1>13, <2>7 DEF DocumentedAs
    <2>. HIDE DEF x
    <2>. QED
        BY <1>6, <2>6, <2>8
<1>14. CASE m \in {"finit", "iinit"}
    <2>. DEFINE x == [c \in 1 .. 4 |-> ImmediateFor(i.imm, i.mask, c)]
    <2>1. /\ w = Word("init", <<i.dest, i.mask, Encoded(Len(i.imm))>>) /\ v = i.imm /\ Len(i.imm) \in 1 .. 4
        BY <1>2, <1>14 DEF WordOf
    <2>2. op = "init" /\ f = <<i.dest, i.mask, Encoded(Len(i.imm))>>
        BY <1>2, <1>5, <2>1
    <2>3. h = Masked(g, f[1], f[2], [c \in 1 .. 4 |-> ImmediateFor(v, f[2], c)])
        BY <1>1, <2>2, Zenon DEF ExecutesAs
    <2>4. f[1] = i.dest /\ f[2] = i.mask
        BY <2>2
    <2>5. h = Masked(g, i.dest, i.mask, x)
        BY <2>1, <2>3, <2>4, Zenon
    <2>6. \A c \in 1 .. 4 : InMask(i.mask, c) => ImmediateFor(i.imm, i.mask, c) = DocumentedImmediate(i, c)
        BY <2>1, SameImmediate
    <2>7. \A c \in 1 .. 4 : InMask(i.mask, c) => x[c] = DocumentedResult(i, g, c)
        BY <1>3, <1>14, <2>6 DEF DocumentedAs
    <2>. HIDE DEF x
    <2>. QED
        BY <1>6, <2>5, <2>7
<1>15. CASE m = "swizzle"
    <2>. DEFINE fields == <<i.dest, i.src[1]>> \o Tail(i.src)
    <2>1. op = "swizzle" /\ w.f = fields
        <3>1. w = Word("swizzle", fields)
            BY <1>2, <1>15, Zenon DEF WordOf
        <3>. HIDE DEF fields
        <3>. QED
            BY <1>2, <1>5, <3>1
    <2>2. h = SwizzleComponent(SwizzleComponent(SwizzleComponent(SwizzleComponent(g, w, 1), w, 2), w, 3), w, 4)
        BY <1>1, <2>1, Zenon DEF ExecutesAs
    <2>3. i.mnemonic = "swizzle"
        BY <1>15 DEF m
    <2>. QED
        BY <2>1, <2>2, <2>3, SwizzleResult
<1>. QED
    BY <1>4, <1>8, <1>9, <1>10, <1>11, <1>12, <1>13, <1>14, <1>15

\* The unit finds the words of the n-th line when it is there.
LEMMA LineFound ==
    ASSUME WordsInv, StartInv, TextInv, phase = "executing", NEW n \in DOMAIN source,
           source[n].mnemonic \notin {"fmad", "trap"}, pc = start + TextWords(source, n - 1)
    PROVE  /\ IsLine(source[n])
           /\ WordOf(source[n], source[n].mnemonic, isa[pc + 1],
                     [k \in 1 .. Size(isa[pc + 1]) - 1 |-> isa[pc + 1 + k].f[1]])
<1>. DEFINE i == source[n]
            A == Assembled(i)
            w == isa[pc + 1]
            v == [k \in 1 .. Size(w) - 1 |-> isa[pc + 1 + k].f[1]]
<1>1. isa = binary.words /\ start \in Nat /\ source \in Sources /\ Written(binary.words, start, source, Len(source))
    BY DEF WordsInv, StartInv, TextInv, ReadyPhases, LoadedPhases, Loads
<1>2. n \in 1 .. Len(source) /\ IsLine(i) /\ Len(source) \in Nat
    BY <1>1, TextFacts
<1>3. \A k \in 1 .. Len(A) : isa[pc + k] = A[k]
    BY <1>1, <1>2 DEF Written
<1>4. WordOf(i, i.mnemonic, A[1], ValuesIn(A)) /\ Len(A) \in Nat \ {0}
    BY <1>2, LineWord
<1>5. Size(A[1]) \in 1 .. Len(A)
    <2>1. WellCut(A)
        BY <1>2, CutAssembled
    <2>. HIDE DEF A
    <2>2. PICK B : Cut(A, B)
        BY <2>1 DEF WellCut
    <2>3. 0 \in B \ {Len(A)} /\ B \subseteq 0 .. Len(A)
        BY <1>4, <2>2 DEF Cut
    <2>4. Size(A[0 + 1]) \in Nat \ {0} /\ 0 + Size(A[0 + 1]) \in B
        BY <2>2, <2>3 DEF Cut
    <2>. QED
        BY <1>4, <2>3, <2>4
<1>6. pc \in Nat
    <2>1. \A k \in 1 .. n - 1 : k \in 1 .. Len(source)
        BY <1>2
    <2>2. n - 1 \in Nat /\ \A k \in 1 .. n - 1 : IsSeq(Assembled(source[k]))
        BY <1>1, <1>2, <2>1, TextFacts
    <2>3. TextWords(source, n - 1) \in Nat
        BY <2>2, TextTyped
    <2>. QED
        BY <1>1, <2>3
<1>. HIDE DEF A
<1>7. w = A[1]
    BY <1>3, <1>4
<1>8. v = ValuesIn(A)
    <2>. DEFINE m == Size(A[1])
    <2>1. \A k \in 1 .. m - 1 : 1 + k \in 1 .. Len(A) /\ pc + 1 + k = pc + (1 + k)
        BY <1>4, <1>5, <1>6
    <2>2. \A k \in 1 .. m - 1 : isa[pc + 1 + k].f[1] = A[1 + k].f[1]
        BY <1>3, <2>1
    <2>3. v = [k \in 1 .. m - 1 |-> isa[pc + 1 + k].f[1]] /\ ValuesIn(A) = [k \in 1 .. m - 1 |-> A[1 + k].f[1]]
        BY <1>7 DEF ValuesIn
    <2>. HIDE DEF v, m
    <2>. QED
        BY <2>2, <2>3
<1>9. WordOf(i, i.mnemonic, w, v)
    BY <1>4, <1>7, <1>8
<1>. QED
    BY <1>2, <1>9

LEMMA LineStep ==
    ASSUME WordsInv, StartInv, TextInv, LanesInv, NEW n \in DOMAIN source, AtLine(n), Unexceptional(source[n])
    PROVE  DoesAsDocumented(n)
<1>. DEFINE i == source[n]
            w == isa[pc + 1]
            v == [k \in 1 .. Size(w) - 1 |-> isa[pc + 1 + k].f[1]]
<1>1. /\ phase = "executing" /\ gpr' = [t \in DOMAIN gpr |-> Execute(gpr[t], w, v)]
      /\ pc = start + TextWords(source, n - 1)
    BY DEF AtLine, RunUnit, ExecuteInstruction, WordsOf, TextWords
<1>2. IsLine(i) /\ WordOf(i, i.mnemonic, w, v)
    BY <1>1, LineFound DEF Unexceptional
<1>3. \A t \in DOMAIN gpr : LaneTyped(gpr[t])
    BY <1>1 DEF LanesInv
<1>. HIDE DEF w, v
<1>4. ASSUME NEW t \in DOMAIN gpr, NEW r \in Registers
      PROVE  gpr'[t][r] = IF r = i.dest THEN Documented(i, gpr[t]) ELSE gpr[t][r]
    <2>. DEFINE g == gpr[t]
                h == Execute(g, w, v)
    <2>1. LaneTyped(g) /\ gpr'[t] = h
        BY <1>1, <1>3
    <2>. HIDE DEF g
    <2>2. WritesAs(i, g, h)
        BY <1>2, <2>1, LineResult
    <2>. HIDE DEF h
    <2>3. h = [g EXCEPT ![i.dest] = Documented(i, g)] /\ g = [q \in Registers |-> g[q]]
        BY <2>1, <2>2 DEF WritesAs, LaneTyped
    <2>4. h[r] = IF r = i.dest THEN Documented(i, g) ELSE g[r]
        BY <2>3
    <2>. QED
        BY <2>1, <2>4 DEF g
<1>. QED
    BY <1>4, Zenon DEF DoesAsDocumented, Documented

LEMMA LinesAlways == Spec => [](WordsInv /\ StartInv /\ TextInv /\ LanesInv)
<1>1. Init => TextInv /\ LanesInv
    BY DEF Init, TextInv, LanesInv, ReadyPhases, LoadedPhases
<1>. QED
    BY <1>1, RequestsAlways, TextStep, LanesStep, PTL DEF Spec

\* Wherever a line is in the text and whatever was generated before it, the step of
\* the unit through its words does to each lane what docs/ShaderProgramming.md says of
\* its mnemonic, for every line that is none of the exceptions of Unexceptional.
THEOREM OtherLinesDoAsDocumentedAlways == Spec => OtherLinesDoAsDocumented
<1>1. WordsInv /\ StartInv /\ TextInv /\ LanesInv =>
         \A n \in DOMAIN source : AtLine(n) /\ Unexceptional(source[n]) => DoesAsDocumented(n)
    BY LineStep
<1>. QED
    BY <1>1, LinesAlways, PTL DEF OtherLinesDoAsDocumented

-----------------------------------------------------------------------------
(* A line of the user's code has the size its first word tells, and writes   *)
(* nothing but its destination.                                              *)

Destined(i, w) ==
    IF i.mnemonic = "trap" THEN w.op = "trap" ELSE w.op \notin {"lduni", "initregs", "trap"} /\ w.f[1] = i.dest

LineSized(i, words) == Len(words) \in Nat \ {0} /\ Size(words[1]) = Len(words) /\ Destined(i, words[1])

\* A line of one word.
LEMMA OneWordLine ==
    ASSUME NEW i, NEW op, NEW f, op \notin {"init"} \cup DOMAIN OperationOf, Destined(i, Word(op, f))
    PROVE  LineSized(i, <<Word(op, f)>>)
<1>. DEFINE w == Word(op, f)
<1>1. w.op = op
    BY DEF Word
<1>. HIDE DEF w
<1>2. ~HasImmediates(w)
    BY <1>1 DEF HasImmediates
<1>3. Size(w) = 1
    BY <1>2 DEF Size
<1>4. <<w>>[1] = w /\ Len(<<w>>) = 1
    OBVIOUS
<1>. QED
    BY <1>3, <1>4 DEF LineSized, w

LEMMA LineSize ==
    ASSUME NEW i, IsLine(i)
    PROVE  LineSized(i, Assembled(i))
<1>. DEFINE m == i.mnemonic
            Unary == m \in UnaryOps
            Fcross == m = "fcross"
            Binary == m \in BinaryOps \ {"fcross"}
            Fmad == m = "fmad"
            Initial == m \in {"finit", "iinit"}
            Swizzles == m = "swizzle"
            Nothing == m \in NullaryOps
<1>1. /\ m \in UnaryOps \cup BinaryOps \cup {"fmad", "finit", "iinit", "swizzle", "trap"}
      /\ i.imm \in Seq(Range(i.imm))
    BY DEF IsLine
<1>2. ASSUME NEW op, NEW f, op \notin {"init"} \cup DOMAIN OperationOf, m # "trap", op \notin NullaryOps,
             f[1] = i.dest
      PROVE  LineSized(i, <<Word(op, f)>>)
    <2>1. Destined(i, Word(op, f))
        BY <1>2 DEF Destined, Word, NullaryOps
    <2>. QED
        BY <1>2, <2>1, OneWordLine
<1>3. ASSUME NEW op \in {"init"} \cup DOMAIN OperationOf, NEW f, m # "trap", f[1] = i.dest,
             f[IF op = "init" THEN 3 ELSE 4] = Encoded(Len(i.imm)), Len(i.imm) \in 1 .. 4
      PROVE  LineSized(i, <<Word(op, f)>> \o Immediates(i.imm))
    <2>. DEFINE A == <<Word(op, f)>> \o Immediates(i.imm)
    <2>1. LaidOut(A, Word(op, f), i.imm)
        BY <1>1, <1>3, ImmediateWords
    <2>2. Destined(i, Word(op, f))
        BY <1>3 DEF Destined, Word, OperationOf
    <2>. HIDE DEF A
    <2>3. A[1] = Word(op, f) /\ Size(A[1]) = Len(A) /\ Len(A) = 1 + Len(i.imm)
        BY <2>1 DEF LaidOut
    <2>4. LineSized(i, A)
        BY <1>3, <2>2, <2>3 DEF LineSized
    <2>. QED
        BY <2>4 DEF A
<1>5. CASE Unary
    <2>1. ~Fcross /\ ~Binary /\ ~Fmad /\ ~Initial /\ ~Swizzles /\ ~Nothing
        BY <1>5 DEF UnaryOps, BinaryOps, NullaryOps
    <2>. DEFINE f == <<i.dest, i.src[1], i.mask>>
    <2>2. Assembled(i) = UnaryMath(m, i.dest, i.src[1], i.mask)
        BY <1>5, <2>1, Zenon DEF Assembled
    <2>3. Assembled(i) = <<Word(m, f)>> /\ f[1] = i.dest
        BY <2>2 DEF UnaryMath
    <2>4. m \notin {"init"} \cup DOMAIN OperationOf /\ m # "trap" /\ m \notin NullaryOps
        BY <1>5 DEF UnaryOps, OperationOf, NullaryOps
    <2>. HIDE DEF f
    <2>. QED
        BY <1>2, <2>3, <2>4
<1>6. CASE Fcross
    <2>1. ~Unary /\ ~Binary /\ ~Fmad /\ ~Initial /\ ~Swizzles /\ ~Nothing
        BY <1>6 DEF UnaryOps, BinaryOps, NullaryOps
    <2>. DEFINE f == <<i.dest, i.src[1], i.src[2], 15>>
    <2>2. Assembled(i) = BinaryMath("fcross", i.dest, i.src[1], i.src[2], 15)
        BY <1>6, <2>1, Zenon DEF Assembled
    <2>3. Assembled(i) = <<Word("fcross", f)>> /\ f[1] = i.dest
        BY <2>2 DEF BinaryMath
    <2>4. "fcross" \notin {"init"} \cup DOMAIN OperationOf /\ m # "trap" /\ "fcross" \notin NullaryOps
        BY <1>6 DEF OperationOf, NullaryOps
    <2>. HIDE DEF f
    <2>. QED
        BY <1>2, <2>3, <2>4
<1>7. CASE Binary
    <2>1. ~Unary /\ ~Fcross /\ ~Fmad /\ ~Initial /\ ~Swizzles /\ ~Nothing
        BY <1>7 DEF UnaryOps, BinaryOps, NullaryOps
    <2>2. Assembled(i) = IF i.imm = <<>>
                         THEN BinaryMath(m, i.dest, i.src[1], i.src[2], i.mask)
                         ELSE BinaryMathImm(ImmediateForm(m), i.dest, i.src[1], i.mask, i.imm)
        BY <1>7, <2>1, Zenon DEF Assembled
    <2>3. m \notin {"init"} \cup DOMAIN OperationOf /\ m # "trap" /\ m \notin NullaryOps
        BY <1>7 DEF BinaryOps, OperationOf, NullaryOps
    <2>4. CASE i.imm = <<>>
        <3>. DEFINE f == <<i.dest, i.src[1], i.src[2], i.mask>>
        <3>1. Assembled(i) = <<Word(m, f)>> /\ f[1] = i.dest
            BY <2>2, <2>4 DEF BinaryMath
        <3>. HIDE DEF f
        <3>. QED
            BY <1>2, <2>3, <3>1
    <2>5. CASE i.imm # <<>>
        <3>. DEFINE op == ImmediateForm(m)
                    f == <<i.dest, i.src[1], i.mask, Encoded(Len(i.imm))>>
        <3>1. Len(i.imm) # 0 /\ Len(i.imm) \in Nat
            BY <1>1, <2>5, EmptySeq
        <3>2. m \in Range(OperationOf) /\ Len(i.imm) \in 1 .. 4
            <4>1. m \in Range(OperationOf) /\ Len(i.imm) \in 0 .. 1
                BY <2>1, <3>1 DEF IsLine
            <4>. QED
                BY <3>1, <4>1
        <3>3. op \in DOMAIN OperationOf
            BY <3>2 DEF ImmediateForm, Range
        <3>4. op # "init"
            BY <3>3 DEF OperationOf
        <3>5. f[4] = Encoded(Len(i.imm)) /\ f[1] = i.dest
            OBVIOUS
        <3>6. Assembled(i) = <<Word(op, f)>> \o Immediates(i.imm)
            BY <2>2, <2>5 DEF BinaryMathImm
        <3>. HIDE DEF op, f
        <3>. QED
            BY <1>3, <2>3, <3>2, <3>3, <3>4, <3>5, <3>6
    <2>. QED
        BY <2>4, <2>5
<1>8. CASE Fmad
    <2>1. ~Unary /\ ~Fcross /\ ~Binary /\ ~Initial /\ ~Swizzles /\ ~Nothing
        BY <1>8 DEF UnaryOps, BinaryOps, NullaryOps
    <2>. DEFINE f == <<i.dest, i.src[1], i.src[2], i.src[3], i.mask>>
    <2>2. Assembled(i) = TernaryMath("fcross2", i.dest, i.src[1], i.src[2], i.src[3], i.mask)
        BY <1>8, <2>1, Zenon DEF Assembled
    <2>3. Assembled(i) = <<Word("fcross2", f)>> /\ f[1] = i.dest
        BY <2>2 DEF TernaryMath
    <2>4. "fcross2" \notin {"init"} \cup DOMAIN OperationOf /\ m # "trap" /\ "fcross2" \notin NullaryOps
        BY <1>8 DEF OperationOf, NullaryOps
    <2>. HIDE DEF f
    <2>. QED
        BY <1>2, <2>3, <2>4
<1>9. CASE Initial
    <2>. DEFINE f == <<i.dest, i.mask, Encoded(Len(i.imm))>>
    <2>1. ~Unary /\ ~Fcross /\ ~Binary /\ ~Fmad /\ ~Swizzles /\ ~Nothing /\ m # "trap"
        BY <1>9 DEF UnaryOps, BinaryOps, NullaryOps
    <2>2. Assembled(i) = UnaryMathImm("init", i.dest, i.mask, i.imm)
        BY <1>9, <2>1, Zenon DEF Assembled
    <2>3. Len(i.imm) \in 1 .. 4 /\ f[3] = Encoded(Len(i.imm)) /\ f[1] = i.dest
        BY <1>9 DEF IsLine
    <2>4. Assembled(i) = <<Word("init", f)>> \o Immediates(i.imm)
        BY <2>2 DEF UnaryMathImm
    <2>5. f[IF "init" = "init" THEN 3 ELSE 4] = Encoded(Len(i.imm))
        BY <2>3
    <2>. HIDE DEF f
    <2>. QED
        BY <1>3, <2>1, <2>3, <2>4, <2>5
<1>10. CASE Swizzles
    <2>1. ~Unary /\ ~Fcross /\ ~Binary /\ ~Fmad /\ ~Initial /\ ~Nothing
        BY <1>10 DEF UnaryOps, BinaryOps, NullaryOps
    <2>. DEFINE a == <<i.dest, i.src[1]>>
                b == Tail(i.src)
                f == a \o b
    <2>2. Assembled(i) = Swizzle(i.dest, i.src[1], Tail(i.src))
        BY <1>10, <2>1, Zenon DEF Assembled
    <2>3. Assembled(i) = <<Word("swizzle", f)>>
        BY <2>2 DEF Swizzle
    <2>4. f[1] = i.dest
        <3>1. i.src \in Seq(Registers) /\ Len(i.src) = 5 /\ i.dest \in Registers
            BY <1>10 DEF IsLine
        <3>2. b \in Seq(Registers) /\ Len(b) = 4
            BY <3>1
        <3>3. i.src[1] \in Registers
            BY <3>1
        <3>4. a \in Seq(Registers) /\ Len(a) = 2 /\ a[1] = i.dest
            BY <3>1, <3>3
        <3>. HIDE DEF a, b
        <3>5. Joins(a, b, f)
            BY <3>2, <3>4, SeqIsSeq, ConcatIsSeq
        <3>. HIDE DEF f
        <3>. QED
            BY <3>4, <3>5 DEF Joins
    <2>5. "swizzle" \notin {"init"} \cup DOMAIN OperationOf /\ m # "trap" /\ "swizzle" \notin NullaryOps
        BY <1>10 DEF OperationOf, NullaryOps
    <2>. HIDE DEF f
    <2>. QED
        BY <1>2, <2>3, <2>4, <2>5
<1>11. CASE Nothing
    <2>1. ~Unary /\ ~Fcross /\ ~Binary /\ ~Fmad /\ ~Initial /\ ~Swizzles /\ m = "trap"
        BY <1>1, <1>11 DEF UnaryOps, BinaryOps, NullaryOps
    <2>2. Assembled(i) = Nullary(m)
        BY <1>11, <2>1, Zenon DEF Assembled
    <2>3. Assembled(i) = <<Word("trap", <<>>)>>
        BY <2>1, <2>2 DEF Nullary
    <2>4. Destined(i, Word("trap", <<>>))
        BY <2>1 DEF Destined, Word
    <2>5. "trap" \notin {"init"} \cup DOMAIN OperationOf
        BY DEF OperationOf
    <2>. QED
        BY <2>3, <2>4, <2>5, OneWordLine
<1>. QED
    BY <1>1, <1>5, <1>6, <1>7, <1>8, <1>9, <1>10, <1>11 DEF NullaryOps

\* Another register than the destination stays as it is.
LEMMA SetOthers ==
    ASSUME NEW g, LaneTyped(g), NEW d, NEW x, NEW r \in Registers, r # d
    PROVE  [g EXCEPT ![d] = x][r] = g[r]
<1>1. g = [q \in Registers |-> g[q]]
    BY DEF LaneTyped
<1>. QED
    BY <1>1

LEMMA MaskedOthers ==
    ASSUME NEW g, LaneTyped(g), NEW d, NEW m, NEW v, NEW r \in Registers, r # d
    PROVE  Masked(g, d, m, v)[r] = g[r]
<1>. DEFINE x == [c \in 1 .. 4 |-> IF InMask(m, c) THEN v[c] ELSE g[d][c]]
<1>1. Masked(g, d, m, v) = [g EXCEPT ![d] = x]
    BY Zenon DEF Masked
<1>. HIDE DEF x
<1>. QED
    BY <1>1, SetOthers

LEMMA SwizzleOthers ==
    ASSUME NEW g, LaneTyped(g), NEW w, NEW c, NEW r \in Registers, r # w.f[1]
    PROVE  SwizzleComponent(g, w, c)[r] = g[r]
<1>. DEFINE d == w.f[1]
            x == [g[d] EXCEPT ![c] = g[w.f[2]][w.f[2 + c] + 1]]
<1>1. SwizzleComponent(g, w, c) = [g EXCEPT ![d] = x]
    BY DEF SwizzleComponent
<1>2. r # d
    OBVIOUS
<1>. HIDE DEF x, d
<1>. QED
    BY <1>1, <1>2, SetOthers

LEMMA OnlyDestination ==
    ASSUME NEW g, LaneTyped(g), NEW w, w.op \notin {"lduni", "initregs"}, NEW v, NEW r \in Registers,
           r # w.f[1] \/ w.op = "trap"
    PROVE  Execute(g, w, v)[r] = g[r]
<1>. DEFINE op == w.op
            f == w.f
            h == Execute(g, w, v)
            All == UnaryOps \cup BinaryOps \cup DOMAIN OperationOf
<1>1. ExecutesAs(g, w, v, op, f, h)
    BY ExecuteArms
<1>2. op \notin {"lduni", "initregs"} /\ (r # f[1] \/ op = "trap")
    OBVIOUS
<1>3. \A d, m, x : r # d => Masked(g, d, m, x)[r] = g[r]
    BY MaskedOthers
<1>4. \A d, x : r # d => [g EXCEPT ![d] = x][r] = g[r]
    BY SetOthers
<1>5. r # f[1] => SwizzleComponent(SwizzleComponent(SwizzleComponent(SwizzleComponent(g, w, 1), w, 2), w, 3), w, 4)[r] = g[r]
    <2>. DEFINE g1 == SwizzleComponent(g, w, 1)
                g2 == SwizzleComponent(g1, w, 2)
                g3 == SwizzleComponent(g2, w, 3)
    <2>. SUFFICES ASSUME r # w.f[1] PROVE SwizzleComponent(g3, w, 4)[r] = g[r]
        OBVIOUS
    <2>1. LaneTyped(g1) /\ g1[r] = g[r]
        BY SwizzledLane, SwizzleOthers
    <2>. HIDE DEF g1
    <2>2. LaneTyped(g2) /\ g2[r] = g1[r]
        BY <2>1, SwizzledLane, SwizzleOthers
    <2>. HIDE DEF g2
    <2>3. LaneTyped(g3) /\ g3[r] = g2[r]
        BY <2>2, SwizzledLane, SwizzleOthers
    <2>. HIDE DEF g3
    <2>4. SwizzleComponent(g3, w, 4)[r] = g3[r]
        BY <2>3, SwizzleOthers
    <2>. QED
        BY <2>1, <2>2, <2>3, <2>4
<1>. HIDE DEF op, f, h
<1>6. op = "trap" => op \notin All \cup {"fmad", "init", "swizzle", "lduni", "initregs"}
    BY DEF UnaryOps, BinaryOps, OperationOf
<1>7. CASE op = "trap"
    <2>1. h = g
        BY <1>1, <1>6, <1>7 DEF ExecutesAs
    <2>. QED
        BY <2>1 DEF h
<1>8. CASE op # "trap" /\ r # f[1]
    <2>1. CASE op = "fnorm"
        <3>. DEFINE x == Normalized(g[f[2]])
        <3>1. h = [g EXCEPT ![f[1]] = x]
            BY <1>1, <2>1 DEF ExecutesAs
        <3>. HIDE DEF x
        <3>2. [g EXCEPT ![f[1]] = x][r] = g[r]
            BY <1>4, <1>8
        <3>. QED
            BY <3>1, <3>2, Zenon DEF h
    <2>2. CASE op = "fcross"
        <3>. DEFINE x == Cross(g[f[2]], g[f[3]])
        <3>1. h = [g EXCEPT ![f[1]] = x]
            BY <1>1, <2>2 DEF ExecutesAs
        <3>. HIDE DEF x
        <3>2. [g EXCEPT ![f[1]] = x][r] = g[r]
            BY <1>4, <1>8
        <3>. QED
            BY <3>1, <3>2, Zenon DEF h
    <2>3. CASE op = "fdot"
        <3>. DEFINE x == Splat(Dot(g[f[2]], g[f[3]]))
        <3>1. h = Masked(g, f[1], f[4], x)
            BY <1>1, <2>3 DEF ExecutesAs
        <3>. HIDE DEF x
        <3>2. Masked(g, f[1], f[4], x)[r] = g[r]
            BY <1>3, <1>8
        <3>. QED
            BY <3>1, <3>2, Zenon DEF h
    <2>4. CASE op = "fcross2"
        <3>. DEFINE x == Splat(Cross2(g[f[2]], g[f[3]], 1, 2))
        <3>1. h = Masked(g, f[1], f[4], x)
            BY <1>1, <2>4 DEF ExecutesAs
        <3>. HIDE DEF x
        <3>2. Masked(g, f[1], f[4], x)[r] = g[r]
            BY <1>3, <1>8
        <3>. QED
            BY <3>1, <3>2, Zenon DEF h
    <2>5. CASE op \in UnaryOps \ {"fnorm"}
        <3>. DEFINE x == [c \in 1 .. 4 |-> UnaryFunction(op, g[f[2]][c])]
        <3>1. h = Masked(g, f[1], f[3], x)
            BY <1>1, <2>5, Zenon DEF ExecutesAs
        <3>. HIDE DEF x
        <3>2. Masked(g, f[1], f[3], x)[r] = g[r]
            BY <1>3, <1>8
        <3>. QED
            BY <3>1, <3>2, Zenon DEF h
    <2>6. CASE op \in BinaryOps \ {"fcross", "fdot", "fcross2"}
        <3>. DEFINE x == [c \in 1 .. 4 |-> BinaryFunction(op, g[f[2]][c], g[f[3]][c])]
        <3>1. h = Masked(g, f[1], f[4], x)
            BY <1>1, <2>6, Zenon DEF ExecutesAs
        <3>. HIDE DEF x
        <3>2. Masked(g, f[1], f[4], x)[r] = g[r]
            BY <1>3, <1>8
        <3>. QED
            BY <3>1, <3>2, Zenon DEF h
    <2>7. CASE op = "fmad"
        <3>. DEFINE x == [c \in 1 .. 4 |-> Plus(Times(g[f[2]][c], g[f[3]][c]), g[f[4]][c])]
        <3>1. h = Masked(g, f[1], f[5], x)
            BY <1>1, <2>7, Zenon DEF ExecutesAs
        <3>. HIDE DEF x
        <3>2. Masked(g, f[1], f[5], x)[r] = g[r]
            BY <1>3, <1>8
        <3>. QED
            BY <3>1, <3>2, Zenon DEF h
    <2>8. CASE op = "init"
        <3>. DEFINE x == [c \in 1 .. 4 |-> ImmediateFor(v, f[2], c)]
        <3>1. h = Masked(g, f[1], f[2], x)
            BY <1>1, <2>8, Zenon DEF ExecutesAs
        <3>. HIDE DEF x
        <3>2. Masked(g, f[1], f[2], x)[r] = g[r]
            BY <1>3, <1>8
        <3>. QED
            BY <3>1, <3>2, Zenon DEF h
    <2>9. CASE op \in DOMAIN OperationOf
        <3>. DEFINE x == [c \in 1 .. 4 |-> BinaryFunction(OperationOf[op], g[f[2]][c], ImmediateFor(v, f[3], c))]
        <3>1. h = Masked(g, f[1], f[3], x)
            BY <1>1, <2>9, Zenon DEF ExecutesAs
        <3>. HIDE DEF x
        <3>2. Masked(g, f[1], f[3], x)[r] = g[r]
            BY <1>3, <1>8
        <3>. QED
            BY <3>1, <3>2, Zenon DEF h
    <2>10. CASE op = "swizzle"
        <3>1. h = SwizzleComponent(SwizzleComponent(SwizzleComponent(SwizzleComponent(g, w, 1), w, 2), w, 3), w, 4)
            BY <1>1, <2>10, Zenon DEF ExecutesAs
        <3>. QED
            BY <1>5, <1>8, <3>1, Zenon DEF h
    <2>11. CASE op \notin All \cup {"fmad", "init", "swizzle", "lduni", "initregs"}
        <3>1. h = g
            BY <1>1, <2>11, Zenon DEF ExecutesAs
        <3>. QED
            BY <3>1 DEF h
    <2>12. op \in All => \/ op = "fnorm" \/ op = "fcross" \/ op = "fdot" \/ op = "fcross2" \/ op \in UnaryOps \ {"fnorm"}
                         \/ op \in BinaryOps \ {"fcross", "fdot", "fcross2"} \/ op \in DOMAIN OperationOf
        OBVIOUS
    <2>. HIDE DEF All
    <2>. QED
        BY <1>2, <2>1, <2>2, <2>3, <2>4, <2>5, <2>6, <2>7, <2>8, <2>9, <2>10, <2>11, <2>12
<1>. QED
    BY <1>2, <1>7, <1>8

-----------------------------------------------------------------------------
(* The last word of a fragment shader, after the user's lines.               *)

\* The place of the word after the user's lines.
End == start + TextWords(source, Len(source))

DepthWord(w, p) == w.op = "swizzle" /\ w.f[1] = p /\ w.f[2] = p /\ \A k \in 1 .. 4 : w.f[2 + k] = 2

EndInv ==
    phase \in ReadyPhases /\ IsFs(binary) =>
        Len(binary.words) = End + 1 /\ DepthWord(binary.words[End + 1], Index(binary, "input", 1))

LEMMA EpilogueWord ==
    ASSUME NEW b, IsFs(b), Index(b, "input", 1) \in Registers
    PROVE  Len(Epilogue(b)) = 1 /\ DepthWord(Epilogue(b)[1], Index(b, "input", 1))
<1>. DEFINE p == Index(b, "input", 1)
            w == Word("swizzle", <<p, p>> \o <<2, 2, 2, 2>>)
<1>1. Epilogue(b) = <<w>>
    BY DEF Epilogue, Swizzle
<1>2. w.op = "swizzle" /\ w.f = <<p, p>> \o <<2, 2, 2, 2>>
    BY DEF Word
<1>. HIDE DEF w
<1>3. w.f[1] = p /\ w.f[2] = p /\ \A k \in 1 .. 4 : w.f[2 + k] = 2
    <2>. DEFINE x == <<p, p>>
                y == <<2, 2, 2, 2>>
    <2>1. x \in Seq(Registers) /\ Len(x) = 2 /\ x[1] = p /\ x[2] = p
        OBVIOUS
    <2>2. y \in Seq({2}) /\ Len(y) = 4 /\ \A k \in 1 .. 4 : y[k] = 2
        OBVIOUS
    <2>3. w.f = x \o y
        BY <1>2
    <2>. HIDE DEF x, y, p
    <2>4. Joins(x, y, w.f)
        BY <2>1, <2>2, <2>3, SeqIsSeq, ConcatIsSeq
    <2>. QED
        BY <2>1, <2>2, <2>4 DEF Joins
<1>. HIDE DEF p
<1>4. Len(<<w>>) = 1 /\ <<w>>[1] = w
    OBVIOUS
<1>. QED
    BY <1>1, <1>2, <1>3, <1>4 DEF DepthWord, p

LEMMA PositionRegister ==
    ASSUME NEW b, BinaryTyped(b), Built(b)
    PROVE  /\ Index(b, "input", 1) \in Registers /\ 1 \in DOMAIN b.io["input"]
           /\ DOMAIN b.io["input"] = 1 .. Len(b.io["input"]) /\ Len(b.io["input"]) \in 1 .. 3
<1>1. Len(b.io["input"]) \in 1 .. 3
    BY BuiltHeader DEF HeaderFacts
<1>2. /\ DOMAIN b.io["input"] = 1 .. Len(b.io["input"])
      /\ \A k \in 1 .. Len(b.io["input"]) : Index(b, "input", k) \in Registers
    BY IoSizes DEF IoTypes
<1>3. \A n \in 1 .. 3 : 1 \in 1 .. n
    OBVIOUS
<1>4. 1 \in 1 .. Len(b.io["input"])
    BY <1>1, <1>3, Zenon
<1>. QED
    BY <1>1, <1>2, <1>4, Zenon

LEMMA EndStep == WordsInv /\ WordsInv' /\ StartInv /\ TextInv /\ EndInv /\ [Next]_vars => EndInv'
<1>. SUFFICES ASSUME WordsInv, WordsInv', StartInv, TextInv, EndInv, [Next]_vars
              PROVE  EndInv'
    OBVIOUS
<1>1. CASE FinalizeInstructions
    <2>. DEFINE p == Index(binary, "input", 1)
                T == TextWords(source, Len(source))
    <2>1. /\ phase = "instructions" /\ binary' = Finalized(binary) /\ start' = start /\ source' = source
          /\ lines = Len(source)
        BY <1>1 DEF FinalizeInstructions
    <2>2. /\ binary'.words = binary.words \o Epilogue(binary) /\ binary'.io = binary.io
          /\ binary'.programType = binary.programType
        BY <2>1, FinalizedTyped DEF WordsInv
    <2>3. IsSeq(binary.words) /\ IsSeq(Epilogue(binary))
        BY CutEpilogue DEF WordsInv, WellCut
    <2>4. Joins(binary.words, Epilogue(binary), binary'.words)
        BY <2>2, <2>3, ConcatIsSeq
    <2>5. p \in Registers
        BY <2>1, PositionRegister DEF WordsInv
    <2>6. Len(binary.words) = start + T
        BY <2>1 DEF TextInv
    <2>7. End' = start + T /\ IsFs(binary') = IsFs(binary) /\ Index(binary', "input", 1) = p
        BY <2>1, <2>2 DEF End, IsFs, Index
    <2>8. ASSUME IsFs(binary)
          PROVE  Len(binary'.words) = start + T + 1 /\ DepthWord(binary'.words[start + T + 1], p)
        <3>1. Len(Epilogue(binary)) = 1 /\ DepthWord(Epilogue(binary)[1], p)
            BY <2>5, <2>8, EpilogueWord
        <3>. HIDE DEF p, T
        <3>2. Len(binary'.words) = Len(binary.words) + 1 /\ binary'.words[Len(binary.words) + 1] = Epilogue(binary)[1]
            BY <2>4, <3>1 DEF Joins
        <3>. QED
            BY <2>6, <3>1, <3>2
    <2>. HIDE DEF p, T
    <2>9. IsFs(binary') => Len(binary'.words) = End' + 1 /\ DepthWord(binary'.words[End' + 1], Index(binary', "input", 1))
        BY <2>7, <2>8
    <2>. QED
        BY <2>9 DEF EndInv
<1>2. CASE (\E d \in Directives : ParseDirective(d)) \/ Reset \/ FinalizeDirectives \/ ParseInstruction
    <2>1. phase' \in {"directives", "refused", "instructions", "stopped"}
        BY <1>2 DEF ParseDirective, Reset, FinalizeDirectives, ParseInstruction
    <2>. QED
        BY <2>1 DEF EndInv, ReadyPhases, LoadedPhases
<1>3. CASE Serve \/ Finished \/ UNCHANGED vars
    <2>1. /\ binary' = binary /\ start' = start /\ source' = source
          /\ phase' = phase \/ phase \in ReadyPhases
        BY <1>3 DEF Serve, RequestVertices, RequestFragments, FeedUnit, StartUnit, RunUnit, Answer,
                    Finished, programVars, vars, ReadyPhases, LoadedPhases
    <2>2. End' = End
        BY <2>1 DEF End
    <2>. QED
        BY <2>1, <2>2 DEF EndInv
<1>. QED
    BY <1>1, <1>2, <1>3 DEF Next, Assemble

\* The word puts the third component into all four.
LEMMA DepthMoved ==
    ASSUME NEW g, LaneTyped(g), NEW p \in Registers, NEW w, DepthWord(w, p), NEW v
    PROVE  Execute(g, w, v)[p][1] = g[p][3] /\ Size(w) = 1
<1>. DEFINE P == [k \in 1 .. 4 |-> 3]
            h == Execute(g, w, v)
            S == SwizzleComponent(SwizzleComponent(SwizzleComponent(SwizzleComponent(g, w, 1), w, 2), w, 3), w, 4)
<1>1. w.op = "swizzle" /\ w.f[1] = p /\ w.f[2] = p /\ \A k \in 1 .. 4 : w.f[2 + k] = 2
    BY DEF DepthWord
<1>2. h = S
    <2>1. ExecutesAs(g, w, v, w.op, w.f, h)
        BY ExecuteArms
    <2>. HIDE DEF h
    <2>. QED
        BY <1>1, <2>1, Zenon DEF ExecutesAs
<1>3. /\ P \in [1 .. 4 -> 1 .. 4] /\ \A k \in 1 .. 4 : P[k] < k => P[P[k]] = P[k]
      /\ \A k \in 1 .. 4 : w.f[2 + k] + 1 = P[k]
    BY <1>1
<1>4. P[1] = 3
    OBVIOUS
<1>. HIDE DEF P, h
<1>5. S = Swizzled(g, p, p, P, 4)
    BY <1>1, <1>3, SwizzleAll
<1>. HIDE DEF S
<1>6. Swizzled(g, p, p, P, 4)[p][1] = g[p][P[1]]
    <2>. DEFINE x == [k \in 1 .. 4 |-> IF k <= 4 THEN g[p][P[k]] ELSE g[p][k]]
    <2>1. Swizzled(g, p, p, P, 4) = [g EXCEPT ![p] = x]
        BY Zenon DEF Swizzled
    <2>2. x[1] = g[p][P[1]]
        OBVIOUS
    <2>. HIDE DEF x
    <2>3. g = [q \in Registers |-> g[q]]
        BY DEF LaneTyped
    <2>4. [g EXCEPT ![p] = x][p] = x
        BY <2>3
    <2>. QED
        BY <2>1, <2>2, <2>4, Zenon
<1>7. Size(w) = 1
    <2>1. ~HasImmediates(w)
        BY <1>1 DEF HasImmediates, OperationOf
    <2>. QED
        BY <2>1 DEF Size
<1>. QED
    BY <1>2, <1>4, <1>5, <1>6, <1>7 DEF h

-----------------------------------------------------------------------------
(* The depth of a fragment, from the user's code to the answer.              *)

\* Component c of the position has the depth, in every lane.
DepthIn(c) == \A t \in Threads : Reg(t, Index(binary, "input", 1))[c] = Depth(scene, Fragments[t])

AtLineOf(n) == pc = start + TextWords(source, n)

DepthInv ==
    phase = "executing" /\ IsFs(binary) /\ PositionKept /\ pc >= start =>
        \/ \E n \in 0 .. Len(source) : AtLineOf(n) /\ DepthIn(3)
        \/ pc = Len(isa) /\ DepthIn(1)

\* What holds while the unit executes a fragment shader's user's code.
LEMMA ExecutingFacts ==
    ASSUME WordsInv, StartInv, RequestInv, StreamInv, TextInv, LanesInv, phase = "executing"
    PROVE  /\ BinaryTyped(binary) /\ Built(binary) /\ isa = binary.words /\ isaMetadata = binary.header
           /\ Len(isa) \in Nat /\ isaMetadata.programLength = Len(isa)
           /\ start \in Nat /\ request.threads \in Nat /\ DOMAIN gpr = Lanes(request.threads)
           /\ \A t \in DOMAIN gpr : LaneTyped(gpr[t])
           /\ \A t \in Threads : t - 1 \in DOMAIN gpr
           /\ source \in Sources /\ Len(source) \in Nat /\ DOMAIN source = 1 .. Len(source)
           /\ \A n \in 1 .. Len(source) : IsLine(source[n])
           /\ Written(isa, start, source, Len(source))
           /\ \A n \in 0 .. Len(source) : TextWords(source, n) \in Nat
           /\ TextWords(source, 0) = 0
           /\ Index(binary, "input", 1) \in Registers
<1>1. request.threads \in Nat /\ BinaryTyped(binary) /\ Built(binary) /\ isa = binary.words /\ isaMetadata = binary.header
    BY RequestOfPhase DEF LoadedPhases
<1>2. isaMetadata.programLength = Len(isa) /\ Len(isa) \in Nat
    <2>1. isaMetadata.programLength = Len(isa) /\ IsSeq(isa)
        BY <1>1 DEF WordsInv, ReadyPhases, LoadedPhases, WellCut
    <2>. QED
        BY <2>1, LenProperties DEF IsSeq
<1>3. start \in Nat
    BY DEF StartInv, ReadyPhases, LoadedPhases, Loads
<1>4. DOMAIN gpr = Lanes(request.threads) /\ \A t \in DOMAIN gpr : LaneTyped(gpr[t])
    BY DEF StreamInv, LanesInv
<1>5. \A t \in Threads : t - 1 \in DOMAIN gpr
    <2>1. \A t \in 1 .. request.threads : t - 1 \in 0 .. request.threads - 1
        BY <1>1
    <2>. QED
        BY <1>4, <2>1 DEF Threads, Lanes
<1>6. source \in Sources /\ Written(isa, start, source, Len(source))
    BY <1>1 DEF TextInv, ReadyPhases, LoadedPhases
<1>7. /\ Len(source) \in Nat /\ DOMAIN source = 1 .. Len(source)
      /\ \A n \in 1 .. Len(source) : IsLine(source[n]) /\ IsSeq(Assembled(source[n]))
    BY <1>6, TextFacts
<1>8. ASSUME NEW n \in 0 .. Len(source)
      PROVE  TextWords(source, n) \in Nat
    <2>1. n \in Nat /\ \A k \in 1 .. n : k \in 1 .. Len(source)
        BY <1>7
    <2>2. \A k \in 1 .. n : IsSeq(Assembled(source[k]))
        BY <1>7, <2>1
    <2>. QED
        BY <2>1, <2>2, TextTyped
<1>9. TextWords(source, 0) = 0
    <2>1. DOMAIN [k \in 1 .. 0 |-> Len(Assembled(source[k]))] = {}
        OBVIOUS
    <2>. QED
        BY <2>1, TotalNone DEF TextWords
<1>10. Index(binary, "input", 1) \in Registers
    BY <1>1, PositionRegister
<1>. QED
    BY <1>1, <1>2, <1>3, <1>4, <1>5, <1>6, <1>7, <1>8, <1>9, <1>10

\* A step through a line goes to the next and leaves other registers alone.
LEMMA LinePassed ==
    ASSUME WordsInv, StartInv, RequestInv, StreamInv, TextInv, LanesInv, RunUnit,
           NEW n \in 0 .. Len(source) - 1, AtLineOf(n),
           NEW r \in Registers, source[n + 1].mnemonic # "trap" => source[n + 1].dest # r
    PROVE  /\ AtLineOf(n + 1)' /\ n + 1 \in 0 .. Len(source)
           /\ \A t \in DOMAIN gpr : gpr'[t][r] = gpr[t][r]
           /\ DOMAIN gpr' = DOMAIN gpr
<1>. DEFINE i == source[n + 1]
            w == isa[pc + 1]
            v == [k \in 1 .. Size(w) - 1 |-> isa[pc + 1 + k].f[1]]
            A == Assembled(i)
<1>1. /\ phase = "executing" /\ gpr' = [t \in DOMAIN gpr |-> Execute(gpr[t], w, v)] /\ pc' = pc + Size(w)
      /\ start' = start /\ source' = source
    BY DEF RunUnit, ExecuteInstruction, programVars
<1>2. /\ start \in Nat /\ Len(source) \in Nat /\ \A k \in 1 .. Len(source) : IsLine(source[k])
      /\ Written(isa, start, source, Len(source)) /\ \A t \in DOMAIN gpr : LaneTyped(gpr[t])
      /\ \A k \in 0 .. Len(source) : TextWords(source, k) \in Nat
    BY <1>1, ExecutingFacts
<1>3. n \in Nat /\ n + 1 \in 1 .. Len(source) /\ n + 1 \in 0 .. Len(source) /\ n \in 0 .. Len(source) /\ n + 1 - 1 = n
    BY <1>2
<1>4. LineSized(i, A)
    BY <1>2, <1>3, LineSize
<1>5. w = A[1]
    <2>1. \A k \in 1 .. Len(Assembled(source[n + 1])) :
              isa[start + TextWords(source, (n + 1) - 1) + k] = Assembled(source[n + 1])[k]
        BY <1>2, <1>3 DEF Written
    <2>2. \A k \in 1 .. Len(A) : isa[pc + k] = A[k]
        BY <1>3, <2>1 DEF AtLineOf
    <2>3. 1 \in 1 .. Len(A)
        BY <1>4 DEF LineSized
    <2>. QED
        BY <2>2, <2>3
<1>6. AtLineOf(n + 1)'
    <2>1. TextWords(source, n + 1) = TextWords(source, n) + Len(A)
        BY <1>3, TextMore
    <2>2. Size(w) = Len(A) /\ Len(A) \in Nat
        BY <1>4, <1>5 DEF LineSized
    <2>3. pc = start + TextWords(source, n) /\ TextWords(source, n) \in Nat
        BY <1>2, <1>3 DEF AtLineOf
    <2>. HIDE DEF A, w
    <2>4. pc' = start + TextWords(source, n + 1)
        BY <1>1, <1>2, <2>1, <2>2, <2>3
    <2>. QED
        BY <1>1, <2>4 DEF AtLineOf
<1>7. w.op \notin {"lduni", "initregs"} /\ (r # w.f[1] \/ w.op = "trap")
    BY <1>4, <1>5 DEF LineSized, Destined
<1>. HIDE DEF w, v
<1>8. \A t \in DOMAIN gpr : Execute(gpr[t], w, v)[r] = gpr[t][r]
    BY <1>2, <1>7, OnlyDestination
<1>. QED
    BY <1>1, <1>3, <1>6, <1>8

\* The step through the last word puts the depth where it goes out.
LEMMA EndPassed ==
    ASSUME WordsInv, StartInv, RequestInv, StreamInv, TextInv, LanesInv, EndInv, RunUnit, IsFs(binary),
           AtLineOf(Len(source))
    PROVE  /\ pc' = Len(isa)
           /\ \A t \in DOMAIN gpr : gpr'[t][Index(binary, "input", 1)][1] = gpr[t][Index(binary, "input", 1)][3]
           /\ DOMAIN gpr' = DOMAIN gpr
<1>. DEFINE p == Index(binary, "input", 1)
            w == isa[pc + 1]
            v == [k \in 1 .. Size(w) - 1 |-> isa[pc + 1 + k].f[1]]
<1>1. phase = "executing" /\ gpr' = [t \in DOMAIN gpr |-> Execute(gpr[t], w, v)] /\ pc' = pc + Size(w)
    BY DEF RunUnit, ExecuteInstruction, programVars
<1>2. isa = binary.words /\ p \in Registers /\ \A t \in DOMAIN gpr : LaneTyped(gpr[t])
    BY <1>1, ExecutingFacts
<1>3. pc = End
    BY DEF AtLineOf, End
<1>4. Len(isa) = pc + 1 /\ DepthWord(w, p)
    BY <1>1, <1>2, <1>3 DEF EndInv, ReadyPhases, LoadedPhases
<1>. HIDE DEF w, v, p
<1>5. \A t \in DOMAIN gpr : LaneTyped(gpr[t]) => Execute(gpr[t], w, v)[p][1] = gpr[t][p][3] /\ Size(w) = 1
    BY <1>2, <1>4, DepthMoved
<1>6. Size(w) = 1
    <2>1. w.op = "swizzle"
        BY <1>4 DEF DepthWord
    <2>2. ~HasImmediates(w)
        BY <2>1 DEF HasImmediates, OperationOf
    <2>. QED
        BY <2>2 DEF Size
<1>. QED
    BY <1>1, <1>2, <1>4, <1>5, <1>6 DEF p

LEMMA DepthRun ==
    ASSUME WordsInv, StartInv, RequestInv, StreamInv, TextInv, LanesInv, EndInv, DepthInv, FragmentInputs', RunUnit
    PROVE  DepthInv'
<1>. DEFINE p == Index(binary, "input", 1)
<1>1. /\ phase = "executing" /\ phase' = phase /\ binary' = binary /\ start' = start /\ source' = source
      /\ isa' = isa /\ request' = request /\ scene' = scene /\ pc < isaMetadata.programLength
    BY DEF RunUnit, ExecuteInstruction, programVars
<1>. SUFFICES ASSUME IsFs(binary), PositionKept, pc' >= start
              PROVE  \/ \E n \in 0 .. Len(source) : AtLineOf(n)' /\ DepthIn(3)'
                     \/ pc' = Len(isa) /\ DepthIn(1)'
    BY <1>1 DEF DepthInv, PositionKept, OwnInputs, InputIndices
<1>2. /\ Len(isa) \in Nat /\ isaMetadata.programLength = Len(isa) /\ start \in Nat
      /\ \A t \in Threads : t - 1 \in DOMAIN gpr
      /\ Len(source) \in Nat /\ DOMAIN source = 1 .. Len(source)
      /\ TextWords(source, 0) = 0 /\ p \in Registers
    BY <1>1, ExecutingFacts
<1>3. \A c : DepthIn(c)' = \A t \in Threads : gpr'[t - 1][p][c] = Depth(scene, Fragments[t])
    BY <1>1 DEF DepthIn, Threads, Reg
<1>4. \A c : DepthIn(c) = \A t \in Threads : gpr[t - 1][p][c] = Depth(scene, Fragments[t])
    BY DEF DepthIn, Reg
<1>5. /\ pc \in Nat /\ pc' \in Nat
      /\ pc < start => pc' <= start
    <2>. DEFINE l == FirstLoad(binary, start)
    <2>1. /\ l \in Nat /\ start \in Nat /\ l < start /\ pc \in Nat /\ pc' \in Nat
          /\ pc < l => pc' <= l
          /\ pc = l => pc' = l + 1 /\ gpr' = [t \in DOMAIN gpr |-> LoadUniforms(gpr[t])]
          /\ pc > l /\ pc < start =>
                 /\ ~binary.undefinedRegs /\ pc' = start
                 /\ gpr' = [t \in DOMAIN gpr |-> ZeroInitializeUnused(gpr[t])]
        BY GeneratedStep
    <2>. HIDE DEF l
    <2>2. pc < l \/ pc = l \/ (pc > l /\ pc < start) \/ pc >= start
        BY <2>1
    <2>3. (pc < l => pc' <= start) /\ (pc = l => pc' <= start) /\ (pc > l /\ pc < start => pc' <= start)
        BY <2>1
    <2>. QED
        BY <2>1, <2>2, <2>3
<1>6. CASE pc < start
    <2>1. pc' = start
        BY <1>2, <1>5, <1>6
    <2>2. AtUserCode' /\ IsFs(binary')
        BY <1>1, <2>1 DEF AtUserCode
    <2>3. 1 \in OwnInputs'
        BY <1>1 DEF PositionKept, OwnInputs, InputIndices
    <2>4. \A t \in Threads' : Reg(t, Index(binary, "input", 1))' = <<Whole(Fragments[t][1]), Whole(Fragments[t][2]), Depth(scene, Fragments[t]), Zero>>
        BY <1>1, <2>2, <2>3 DEF FragmentInputs
    <2>5. \A t \in Threads : gpr'[t - 1][p] = <<Whole(Fragments[t][1]), Whole(Fragments[t][2]), Depth(scene, Fragments[t]), Zero>>
        BY <1>1, <2>4 DEF Threads, Reg
    <2>6. ASSUME NEW t \in Threads
          PROVE  gpr'[t - 1][p][3] = Depth(scene, Fragments[t])
        <3>. DEFINE d == Depth(scene, Fragments[t])
                    position == <<Whole(Fragments[t][1]), Whole(Fragments[t][2]), d, Zero>>
        <3>1. position[3] = d
            <4>. HIDE DEF d
            <4>. QED
                OBVIOUS
        <3>2. gpr'[t - 1][p] = position
            BY <2>5
        <3>. QED
            BY <3>1, <3>2
    <2>7. DepthIn(3)'
        BY <1>3, <2>6
    <2>8. AtLineOf(0)' /\ 0 \in 0 .. Len(source)
        BY <1>1, <1>2, <2>1 DEF AtLineOf
    <2>. QED
        BY <2>7, <2>8
<1>7. CASE pc >= start
    <2>1. PICK n \in 0 .. Len(source) : AtLineOf(n) /\ DepthIn(3)
        BY <1>1, <1>2, <1>7 DEF DepthInv
    <2>2. CASE n # Len(source)
        <3>1. n \in 0 .. Len(source) - 1 /\ n + 1 \in 1 .. Len(source)
            <4>1. Len(source) \in Nat
                BY <1>2
            <4>. QED
                BY <2>2, <4>1
        <3>2. source[n + 1].mnemonic # "trap" => source[n + 1].dest # p
            BY <1>2, <3>1 DEF PositionKept
        <3>. HIDE DEF p
        <3>3. /\ AtLineOf(n + 1)' /\ n + 1 \in 0 .. Len(source)
              /\ \A t \in DOMAIN gpr : gpr'[t][p] = gpr[t][p]
            BY <1>2, <2>1, <3>1, <3>2, LinePassed
        <3>4. DepthIn(3)'
            BY <1>2, <1>3, <1>4, <2>1, <3>3
        <3>. QED
            BY <3>3, <3>4
    <2>3. CASE n = Len(source)
        <3>1. /\ pc' = Len(isa)
              /\ \A t \in DOMAIN gpr : gpr'[t][p][1] = gpr[t][p][3]
            BY <2>1, <2>3, EndPassed
        <3>. HIDE DEF p
        <3>2. DepthIn(1)'
            BY <1>2, <1>3, <1>4, <2>1, <3>1
        <3>. QED
            BY <3>1, <3>2
    <2>. QED
        BY <2>2, <2>3
<1>8. pc < start \/ pc >= start
    BY <1>2, <1>5
<1>. QED
    BY <1>6, <1>7, <1>8

LEMMA DepthStep ==
    WordsInv /\ StartInv /\ RequestInv /\ StreamInv /\ TextInv /\ LanesInv /\ EndInv /\ DepthInv
        /\ FragmentInputs' /\ [Next]_vars => DepthInv'
<1>. SUFFICES ASSUME WordsInv, StartInv, RequestInv, StreamInv, TextInv, LanesInv, EndInv, DepthInv,
                     FragmentInputs', [Next]_vars
              PROVE  DepthInv'
    OBVIOUS
<1>1. CASE StartUnit
    <2>1. phase = "fed" /\ binary' = binary /\ start' = start /\ pc' = 0
        BY <1>1 DEF StartUnit, InitializeInputRegisters
    <2>2. Loads(binary, start)
        BY <2>1 DEF StartInv, ReadyPhases, LoadedPhases
    <2>3. start \in Nat /\ start > 0
        BY <2>2 DEF Loads
    <2>4. ~(pc' >= start')
        BY <2>1, <2>3
    <2>. QED
        BY <2>4 DEF DepthInv
<1>2. CASE RunUnit
    BY <1>2, DepthRun
<1>3. CASE Finished \/ UNCHANGED vars
    <2>1. UNCHANGED vars
        BY <1>3 DEF Finished
    <2>2. UNCHANGED <<phase, binary, start, source, gpr, pc, isa, isaMetadata, request, scene>>
        BY <2>1 DEF vars, unitVars, programVars
    <2>3. /\ DepthIn(3)' = DepthIn(3) /\ DepthIn(1)' = DepthIn(1) /\ PositionKept' = PositionKept
          /\ \A n : AtLineOf(n)' = AtLineOf(n)
        BY <2>2 DEF DepthIn, PositionKept, OwnInputs, InputIndices, AtLineOf, Threads, Reg
    <2>. QED
        BY <2>2, <2>3 DEF DepthInv
<1>4. CASE \/ Assemble \/ Reset \/ FeedUnit \/ Answer
           \/ \E triangle \in 0 .. PrimitiveCount - 1 : RequestVertices(triangle)
           \/ \E triangle \in Triangles : RequestFragments(triangle)
    <2>1. phase' # "executing"
        BY <1>4 DEF Assemble, ParseDirective, FinalizeDirectives, ParseInstruction, FinalizeInstructions, Reset,
                    FeedUnit, Answer, RequestVertices, RequestFragments
    <2>. QED
        BY <2>1 DEF DepthInv
<1>. QED
    BY <1>1, <1>2, <1>3, <1>4 DEF Next, Serve

-----------------------------------------------------------------------------
(* Where the values of a fragment are in the answer.                         *)

LEMMA EqualParts ==
    ASSUME NEW m \in Nat, NEW c \in Nat, NEW ss, Counted(ss, m), \A k \in 1 .. m : IsSeq(ss[k]) /\ Len(ss[k]) = c,
           NEW t \in 1 .. m
    PROVE  Slice(FlattenSeq(ss), (t - 1) * c, c) = ss[t]
<1>. DEFINE S == UNION {Range(ss[k]) : k \in 1 .. m}
            f == FlattenSeq(ss)
<1>1. \A k \in 1 .. m : ss[k] \in Seq(S)
    <2>. SUFFICES ASSUME NEW k \in 1 .. m
                  PROVE  ss[k] \in Seq(S)
        OBVIOUS
    <2>. DEFINE x == ss[k]
    <2>1. IsSeq(x)
        OBVIOUS
    <2>2. Len(x) \in Nat /\ x = [i \in 1 .. Len(x) |-> x[i]] /\ DOMAIN x = 1 .. Len(x)
        BY <2>1, LenProperties DEF IsSeq
    <2>3. Range(x) \subseteq S
        OBVIOUS
    <2>. HIDE DEF x, S
    <2>4. \A i \in 1 .. Len(x) : x[i] \in S
        BY <2>2, <2>3 DEF Range
    <2>5. x \in Seq(S)
        BY <2>2, <2>4
    <2>. QED
        BY <2>5 DEF x
<1>2. ss \in [1 .. m -> Seq(S)]
    <2>. HIDE DEF S
    <2>. QED
        BY <1>1 DEF Counted
<1>. HIDE DEF S
<1>3. Placed(ss) /\ t \in DOMAIN ss
    BY <1>2, FlattenProperties
<1>4. Before(ss, t) = (t - 1) * c
    <2>1. \A i \in 1 .. t - 1 : i \in 1 .. m
        OBVIOUS
    <2>2. [i \in 1 .. t - 1 |-> Len(ss[i])] = [i \in 1 .. t - 1 |-> c]
        BY <2>1
    <2>3. t - 1 \in Nat /\ c * (t - 1) = (t - 1) * c
        OBVIOUS
    <2>4. Total([i \in 1 .. t - 1 |-> c]) = c * (t - 1)
        BY <2>3, TotalConstant
    <2>. QED
        BY <2>2, <2>3, <2>4 DEF Before
<1>5. (t - 1) * c \in Nat
    OBVIOUS
<1>6. \A j \in 1 .. Len(ss[t]) : f[Before(ss, t) + j] = ss[t][j]
    BY <1>3 DEF Placed
<1>. DEFINE a == (t - 1) * c
<1>7. a \in Nat /\ Before(ss, t) = a /\ IsSeq(ss[t]) /\ Len(ss[t]) = c
    BY <1>4, <1>5
<1>. HIDE DEF f, a
<1>8. Slice(f, a, Len(ss[t])) = ss[t]
    BY <1>6, <1>7, SliceFound
<1>. QED
    BY <1>7, <1>8 DEF f, a

\* The answer of a fragment is four components of its colour and one of its position.
LEMMA AnswerParts ==
    ASSUME BinaryTyped(binary), Built(binary), IsFs(binary), isaMetadata = binary.header, NEW m \in Nat,
           DOMAIN gpr = Lanes(m), \A s \in DOMAIN gpr : LaneTyped(gpr[s]), NEW t \in 1 .. m
    PROVE  LET data == Slice(OutputStream, (t - 1) * 5, 5)
           IN  /\ SubSeq(data, 1, 4) = gpr[t - 1][Index(binary, "output", 1)]
               /\ data[5] = gpr[t - 1][Index(binary, "input", 1)][1]
<1>. DEFINE h == isaMetadata
            c1 == Index(binary, "output", 1)
            c2 == Index(binary, "input", 1)
            OfThread(s) == [k \in 1 .. OutputCount |->
                               Slice(gpr[s][h.outputs.reg[k]], 0, Decoded(h.outputs.size[k]))]
            ss == [s \in 1 .. m |-> FlattenSeq(OfThread(s - 1))]
<1>1. HeaderFacts(binary) /\ DepthIsPosition(binary) /\ ColorIo(binary, "output") /\ WellUsed(binary, "output")
    BY BuiltHeader DEF Built, ColorIo, IoTypes
<1>2. /\ Len(binary.io["output"]) = 2 /\ Components(binary, "output", 1) = 4 /\ Components(binary, "output", 2) = 1
      /\ Index(binary, "output", 2) = c2
    BY <1>1 DEF WellUsed, DepthIsPosition
<1>3. \A k \in 1 .. 4 : Decoded(Encoded(k)) = k
    BY EncodedCounts
<1>4. /\ OutputCount = 2
      /\ h.outputs.reg[1] = c1 /\ h.outputs.reg[2] = c2
      /\ Decoded(h.outputs.size[1]) = 4 /\ Decoded(h.outputs.size[2]) = 1
    <2>1. /\ h.outputs.count = Encoded(2)
          /\ h.outputs.reg[1] = c1 /\ h.outputs.reg[2] = Index(binary, "output", 2)
          /\ h.outputs.size[1] = Encoded(4) /\ h.outputs.size[2] = Encoded(1)
        BY <1>1, <1>2 DEF HeaderFacts
    <2>2. Decoded(Encoded(2)) = 2 /\ Decoded(Encoded(4)) = 4 /\ Decoded(Encoded(1)) = 1
        BY <1>3
    <2>. QED
        BY <1>2, <2>1, <2>2 DEF OutputCount
<1>5. c1 \in Registers
    BY <1>2, IoSizes DEF IoTypes
<1>6. OutputStream = FlattenSeq(ss)
    <2>1. OutputStream = FlattenSeq([s \in 1 .. Cardinality(DOMAIN gpr) |-> FlattenSeq(OfThread(s - 1))])
        BY DEF OutputStream
    <2>2. Cardinality(DOMAIN gpr) = m
        <3>. DEFINE i == m - 1
        <3>1. i \in Int /\ 0 \in Int /\ (IF 0 > i THEN 0 ELSE i - 0 + 1) = m
            OBVIOUS
        <3>. HIDE DEF i
        <3>2. Cardinality(0 .. i) = IF 0 > i THEN 0 ELSE i - 0 + 1
            BY <3>1, FS_Interval
        <3>. QED
            BY <3>1, <3>2 DEF i, Lanes
    <2>. HIDE DEF OfThread
    <2>. QED
        BY <2>1, <2>2
<1>7. ASSUME NEW s
      PROVE  LET o == FlattenSeq(OfThread(s))
             IN  /\ IsSeq(o) /\ Len(o) = 5 /\ \A i \in 1 .. 4 : o[i] = gpr[s][c1][i]
                 /\ o[5] = gpr[s][c2][1]
    <2>. DEFINE os == OfThread(s)
                x == Slice(gpr[s][c1], 0, 4)
                y == Slice(gpr[s][c2], 0, 1)
                o == FlattenSeq(os)
    <2>1. os = [k \in 1 .. 2 |-> Slice(gpr[s][h.outputs.reg[k]], 0, Decoded(h.outputs.size[k]))]
        BY <1>4
    <2>2. os[1] = x /\ os[2] = y
        BY <1>4, <2>1
    <2>3. /\ IsSeq(x) /\ Len(x) = 4 /\ \A i \in 1 .. 4 : x[i] = gpr[s][c1][0 + i]
          /\ IsSeq(y) /\ Len(y) = 1 /\ \A i \in 1 .. 1 : y[i] = gpr[s][c2][0 + i]
        <3>1. 0 \in Nat /\ 4 \in Nat /\ 1 \in Nat
            OBVIOUS
        <3>. QED
            BY <3>1, SliceIsSeq
    <2>4. os = [k \in 1 .. 2 |-> os[k]]
        BY <2>1
    <2>. HIDE DEF os, x, y
    <2>. DEFINE S == {x, y}
    <2>5. os \in [1 .. 1 + 1 -> S] /\ [k \in 1 .. 1 |-> os[k]] \in [1 .. 1 -> S]
        <3>1. \A k \in 1 .. 2 : k = 1 \/ k = 2
            OBVIOUS
        <3>2. \A k \in 1 .. 2 : os[k] \in S
            BY <2>2, <3>1
        <3>. QED
            BY <2>4, <3>2
    <2>6. o = x \o y
        <3>. DEFINE z == [k \in 1 .. 1 |-> os[k]]
        <3>1. FlattenSeq(os) = FlattenSeq(z) \o os[2]
            <4>1. 1 \in Nat \ {0} /\ 1 + 1 = 2
                OBVIOUS
            <4>2. os \in [1 .. 1 + 1 -> S]
                BY <2>5
            <4>. HIDE DEF S
            <4>3. FlattenSeq(os) = FlattenSeq([k \in 1 .. 1 |-> os[k]]) \o os[1 + 1]
                BY <4>1, <4>2, FlattenMore
            <4>. QED
                BY <4>1, <4>3
        <3>2. z[1] = x
            BY <2>2
        <3>3. FlattenSeq(z) = z[1]
            <4>1. z \in [1 .. 1 -> S]
                BY <2>5
            <4>. HIDE DEF z, S
            <4>. QED
                BY <4>1, FlattenOne
        <3>. QED
            BY <2>2, <3>1, <3>2, <3>3
    <2>. HIDE DEF o, S
    <2>7. IsSeq(o) /\ Joins(x, y, o)
        BY <2>3, <2>6, ConcatIsSeq
    <2>8. Len(o) = 5 /\ (\A i \in 1 .. 4 : o[i] = x[i]) /\ o[5] = y[1]
        <3>1. Len(o) = Len(x) + Len(y) /\ (\A i \in 1 .. Len(x) : o[i] = x[i])
              /\ (\A i \in 1 .. Len(y) : o[Len(x) + i] = y[i])
            BY <2>7 DEF Joins
        <3>2. o[4 + 1] = y[1]
            BY <2>3, <3>1
        <3>. QED
            BY <2>3, <3>1, <3>2
    <2>9. IsSeq(o) /\ Len(o) = 5 /\ (\A i \in 1 .. 4 : o[i] = gpr[s][c1][i]) /\ o[5] = gpr[s][c2][1]
        <3>1. \A i \in 1 .. 4 : 0 + i = i
            OBVIOUS
        <3>2. y[1] = gpr[s][c2][1]
            <4>1. y[1] = gpr[s][c2][0 + 1]
                BY <2>3
            <4>. QED
                BY <4>1
        <3>. QED
            BY <2>3, <2>7, <2>8, <3>1, <3>2
    <2>. QED
        BY <2>9 DEF o, os
<1>. HIDE DEF OfThread, c1, c2
<1>8. Counted(ss, m) /\ \A k \in 1 .. m : IsSeq(ss[k]) /\ Len(ss[k]) = 5
    BY <1>7 DEF Counted
<1>. DEFINE d == FlattenSeq(OfThread(t - 1))
<1>9. ss[t] = d
    OBVIOUS
<1>10. Slice(OutputStream, (t - 1) * 5, 5) = d
    <2>. HIDE DEF ss, d
    <2>1. Slice(FlattenSeq(ss), (t - 1) * 5, 5) = ss[t]
        <3>1. 5 \in Nat
            OBVIOUS
        <3>. QED
            BY <1>8, <3>1, EqualParts
    <2>. QED
        BY <1>6, <1>9, <2>1
<1>11. (\A i \in 1 .. 4 : d[i] = gpr[t - 1][c1][i]) /\ d[5] = gpr[t - 1][c2][1]
    BY <1>7
<1>. DEFINE y == gpr[t - 1][c1]
<1>12. IsSeq(y) /\ Len(y) = 4
    <2>1. t - 1 \in DOMAIN gpr
        <3>1. t - 1 \in 0 .. m - 1
            OBVIOUS
        <3>. QED
            BY <3>1 DEF Lanes
    <2>2. Counted(y, 4) /\ 4 \in Nat
        BY <1>5, <2>1 DEF LaneTyped
    <2>. HIDE DEF y
    <2>. QED
        BY <2>2, CountedIsSeq
<1>13. SubSeq(d, 1, 4) = y
    <2>. HIDE DEF d, y, ss, h
    <2>1. \A i \in 1 .. Len(y) : d[0 + i] = y[i]
        <3>1. \A i \in 1 .. 4 : 0 + i = i
            OBVIOUS
        <3>. QED
            BY <1>11, <1>12, <3>1 DEF y
    <2>2. Slice(d, 0, Len(y)) = y
        <3>. DEFINE a == 0
        <3>1. a \in Nat /\ \A i \in 1 .. Len(y) : d[a + i] = y[i]
            BY <2>1
        <3>. HIDE DEF a
        <3>2. IsSeq(y)
            BY <1>12
        <3>3. Slice(d, a, Len(y)) = y
            BY <3>1, <3>2, SliceFound, Zenon
        <3>. QED
            BY <3>3 DEF a
    <2>3. 0 + 1 = 1 /\ 0 + 4 = 4
        OBVIOUS
    <2>. QED
        BY <1>12, <2>2, <2>3 DEF Slice
<1>. HIDE DEF d
<1>. QED
    BY <1>10, <1>11, <1>13 DEF c1, c2

LEMMA AnswerGiven ==
    ASSUME WordsInv, StartInv, RequestInv, StreamInv, TextInv, LanesInv, EndInv, DepthInv, Answer
    PROVE  FragmentAnswer'
<1>. DEFINE c1 == Index(binary, "output", 1)
            c2 == Index(binary, "input", 1)
<1>1. /\ phase = "executing" /\ response' = OutputStream /\ binary' = binary /\ request' = request
      /\ gpr' = gpr /\ source' = source /\ scene' = scene /\ pc >= isaMetadata.programLength
    BY DEF Answer, unitVars
<1>2. /\ BinaryTyped(binary) /\ Built(binary) /\ isa = binary.words /\ isaMetadata = binary.header
      /\ Len(isa) \in Nat /\ isaMetadata.programLength = Len(isa)
      /\ start \in Nat /\ request.threads \in Nat /\ DOMAIN gpr = Lanes(request.threads)
      /\ \A t \in DOMAIN gpr : LaneTyped(gpr[t])
      /\ Len(source) \in Nat /\ \A n \in 1 .. Len(source) : IsLine(source[n])
      /\ Written(isa, start, source, Len(source))
      /\ \A n \in 0 .. Len(source) : TextWords(source, n) \in Nat
    BY <1>1, ExecutingFacts
<1>3. PositionKept' = PositionKept
    BY <1>1 DEF PositionKept, OwnInputs, InputIndices
<1>. SUFFICES ASSUME IsFs(binary), NEW t \in 1 .. request.threads
              PROVE  LET data == Slice(OutputStream, (t - 1) * 5, 5)
                     IN  /\ SubSeq(data, 1, 4) = gpr[t - 1][c1]
                         /\ PositionKept => data[5] = Depth(scene, Fragments[t])
    BY <1>1, <1>3 DEF FragmentAnswer, Threads, Reg
<1>. DEFINE data == Slice(OutputStream, (t - 1) * 5, 5)
<1>4. SubSeq(data, 1, 4) = gpr[t - 1][c1] /\ data[5] = gpr[t - 1][c2][1]
    BY <1>2, AnswerParts
<1>. HIDE DEF data
<1>5. ASSUME PositionKept
      PROVE  gpr[t - 1][c2][1] = Depth(scene, Fragments[t])
    <2>1. start <= Len(isa)
        BY <1>1, <1>2 DEF StartInv, ReadyPhases, LoadedPhases, Loads
    <2>2. pc >= start
        <3>1. pc \in Nat
            BY <1>1, <1>2 DEF WordsInv, Cut
        <3>. QED
            BY <1>1, <1>2, <2>1, <3>1
    <2>3. ASSUME NEW n \in 0 .. Len(source), AtLineOf(n)
          PROVE  FALSE
        <3>1. pc = start + TextWords(source, n) /\ TextWords(source, n) \in Nat
            BY <1>2, <2>3 DEF AtLineOf
        <3>2. CASE n # Len(source)
            <4>. DEFINE A == Assembled(source[n + 1])
            <4>1. n + 1 \in 1 .. Len(source) /\ n + 1 - 1 = n
                BY <1>2, <3>2
            <4>2. LineSized(source[n + 1], A)
                BY <1>2, <4>1, LineSize
            <4>3. 1 \in 1 .. Len(A)
                BY <4>2 DEF LineSized
            <4>4. start + TextWords(source, n) + 1 \in 1 .. Len(isa)
                BY <1>2, <4>1, <4>3 DEF Written
            <4>. QED
                BY <1>1, <1>2, <3>1, <4>4
        <3>3. CASE n = Len(source)
            <4>1. Len(isa) = pc + 1
                BY <1>1, <1>2, <3>1, <3>3 DEF EndInv, End, ReadyPhases, LoadedPhases
            <4>. QED
                BY <1>1, <1>2, <3>1, <4>1
        <3>. QED
            BY <3>2, <3>3
    <2>4. DepthIn(1)
        BY <1>1, <1>5, <2>2, <2>3 DEF DepthInv
    <2>. QED
        BY <2>4 DEF DepthIn, Threads, Reg
<1>6. /\ SubSeq(data, 1, 4) = gpr[t - 1][c1]
      /\ PositionKept => data[5] = Depth(scene, Fragments[t])
    BY <1>4, <1>5
<1>. QED
    BY <1>6 DEF data

LEMMA AnswerStep ==
    WordsInv /\ StartInv /\ RequestInv /\ StreamInv /\ TextInv /\ LanesInv /\ EndInv /\ DepthInv
        /\ FragmentAnswer /\ [Next]_vars => FragmentAnswer'
<1>. SUFFICES ASSUME WordsInv, StartInv, RequestInv, StreamInv, TextInv, LanesInv, EndInv, DepthInv,
                     FragmentAnswer, [Next]_vars
              PROVE  FragmentAnswer'
    OBVIOUS
<1>1. CASE Answer
    BY <1>1, AnswerGiven
<1>2. CASE Finished \/ UNCHANGED vars
    <2>1. UNCHANGED vars
        BY <1>2 DEF Finished
    <2>2. UNCHANGED <<phase, binary, source, gpr, request, scene, response>>
        BY <2>1 DEF vars, unitVars, programVars
    <2>3. PositionKept' = PositionKept /\ Threads' = Threads
        BY <2>2 DEF PositionKept, OwnInputs, InputIndices, Threads
    <2>. QED
        BY <2>2, <2>3 DEF FragmentAnswer, Reg
<1>3. CASE \/ Assemble \/ Reset \/ FeedUnit \/ StartUnit \/ RunUnit
           \/ \E triangle \in 0 .. PrimitiveCount - 1 : RequestVertices(triangle)
           \/ \E triangle \in Triangles : RequestFragments(triangle)
    <2>1. phase' # "answered"
        BY <1>3 DEF Assemble, ParseDirective, FinalizeDirectives, ParseInstruction, FinalizeInstructions, Reset,
                    FeedUnit, StartUnit, RunUnit, RequestVertices, RequestFragments, programVars
    <2>. QED
        BY <2>1 DEF FragmentAnswer
<1>. QED
    BY <1>1, <1>2, <1>3 DEF Next, Serve

\* The answer to a batch of fragments is, for each, the colour the user's code left and
\* the depth of the fragment, whatever the user's code is, as long as it leaves the
\* position alone: the code put before the user's needs only to have set the inputs.
THEOREM FragmentAnswerFollows == Spec /\ []FragmentInputs => []FragmentAnswer
<1>1. Init => EndInv /\ DepthInv /\ FragmentAnswer /\ LanesInv /\ TextInv
    BY DEF Init, EndInv, DepthInv, FragmentAnswer, LanesInv, TextInv, ReadyPhases, LoadedPhases
<1>. QED
    BY <1>1, StreamAlways, LinesAlways, EndStep, DepthStep, AnswerStep, PTL DEF Spec
===============================================================================
