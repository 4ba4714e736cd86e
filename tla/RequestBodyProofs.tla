--------------------------- MODULE RequestBodyProofs ---------------------------
(***************************************************************************)
(* What the reading of a request guarantees for every maximum, every       *)
(* header and every way the body is cut into chunks.  The first part is    *)
(* about numbers written in digits.                                        *)
(***************************************************************************)
EXTENDS RequestBody, SequenceTheorems, WellFoundedInduction, TLAPS

\* A set of natural numbers that is not empty has a least element.  It stands
\* in for the induction theorems of the library: a claim that fails for some
\* number fails for a least one.
LEMMA Least ==
    ASSUME NEW T \in SUBSET Nat, T # {}
    PROVE  \E n \in T : \A m \in T : n =< m
  <1> DEFINE R == {p \in Nat \X Nat : p[1] < p[2]}
  <1>1. IsWellFoundedOn(R, Nat)
    <2>1. OpToRel(<, Nat) = R
      BY DEF OpToRel
    <2> QED
      BY <2>1, NatLessThanWellFounded
  <1>2. PICK n \in T : \A m \in T : <<m, n>> \notin R
    <2> HIDE DEF R
    <2> QED
      BY <1>1, WFMin
  <1>3. ASSUME NEW m \in T
        PROVE  n =< m
    <2>1. m \in Nat /\ n \in Nat
      OBVIOUS
    <2>2. ~(m < n)
      BY <1>2, <2>1
    <2> QED
      BY <2>1, <2>2
  <1> QED
    BY <1>3

\* f is a value for each number up to N, each computed from the one before it.
Iterates(f, N, B, base, step) ==
    /\ f \in [0 .. N -> B] /\ f[0] = base
    /\ \A n \in 1 .. N : f[n] = step[<<n, f[n - 1]>>]

\* There is such a function.
LEMMA Recursion ==
    ASSUME NEW N \in Nat, NEW B, NEW base \in B, NEW step \in [(1 .. N) \X B -> B]
    PROVE  \E f : Iterates(f, N, B, base, step)
  <1> DEFINE Good(f, m) == Iterates(f, m, B, base, step)
             T == {m \in Nat : m =< N /\ ~ \E f : Good(f, m)}
  <1>1. SUFFICES ASSUME T # {}
                 PROVE  FALSE
    OBVIOUS
  <1>2. PICK m \in T : \A n \in T : m =< n
    BY <1>1, Least
  <1>3. m # 0
    <2>1. Good([n \in 0 .. 0 |-> base], 0)
      BY DEF Iterates
    <2> QED
      BY <2>1
  <1>4. PICK f : Good(f, m - 1)
    <2> HIDE DEF Good
    <2>1. m - 1 \in Nat /\ m - 1 =< N /\ m - 1 \notin T
      BY <1>2, <1>3
    <2> QED
      BY <2>1
  <1> DEFINE v == step[<<m, f[m - 1]>>]
             g == [n \in 0 .. m |-> IF n < m THEN f[n] ELSE v]
  <1>5. m \in 1 .. N /\ f[m - 1] \in B
    BY <1>3, <1>4 DEF Iterates
  <1>6. v \in B
    BY <1>5
  <1>7. Good(g, m)
    <2> HIDE DEF v
    <2>1. g \in [0 .. m -> B] /\ g[0] = base
      BY <1>3, <1>4, <1>6 DEF Iterates
    <2>2. ASSUME NEW n \in 1 .. m
          PROVE  g[n] = step[<<n, g[n - 1]>>]
      <3>1. g[n - 1] = f[n - 1]
        OBVIOUS
      <3>2. CASE n < m
        BY <1>4, <3>1, <3>2 DEF Iterates
      <3>3. CASE n = m
        <4>1. g[n] = v /\ m - 1 = n - 1
          BY <3>3
        <4>2. v = step[<<n, f[n - 1]>>]
          BY <3>3 DEF v
        <4> QED
          BY <3>1, <4>1, <4>2
      <3> QED
        BY <3>2, <3>3
    <2> HIDE DEF g
    <2> QED
      BY <2>1, <2>2 DEF Iterates
  <1> QED
    BY <1>7

\* The value of one digit more is ten times the value, and the digit.
LEMMA PartialEquation ==
    ASSUME NEW d \in Seq(Nat)
    PROVE  /\ Partial(d) \in [0 .. Len(d) -> Nat] /\ Partial(d)[0] = 0
           /\ \A i \in 1 .. Len(d) : Partial(d)[i] = 10 * Partial(d)[i - 1] + d[i]
  <1> DEFINE N    == Len(d)
             P(f) == f = [i \in 0 .. N |-> IF i = 0 THEN 0 ELSE 10 * f[i - 1] + d[i]]
             step == [p \in (1 .. N) \X Nat |-> 10 * p[2] + d[p[1]]]
  <1>1. N \in Nat /\ \A i \in 1 .. N : d[i] \in Nat
    OBVIOUS
  <1>2. step \in [(1 .. N) \X Nat -> Nat]
    OBVIOUS
  <1>3. PICK F : Iterates(F, N, Nat, 0, step)
    <2> HIDE DEF N, step
    <2> QED
      BY <1>1, <1>2, Recursion
  <1>4. F \in [0 .. N -> Nat] /\ F[0] = 0
    BY <1>3 DEF Iterates
  <1>5. \A i \in 1 .. N : F[i] = 10 * F[i - 1] + d[i]
    <2> SUFFICES ASSUME NEW i \in 1 .. N
                 PROVE  F[i] = 10 * F[i - 1] + d[i]
      OBVIOUS
    <2>1. F[i] = step[<<i, F[i - 1]>>] /\ F[i - 1] \in Nat
      <3> HIDE DEF step, N
      <3> QED
        BY <1>1, <1>3, <1>4 DEF Iterates
    <2> QED
      BY <2>1
  <1>6. P(F)
    <2> HIDE DEF N
    <2>1. F = [i \in 0 .. N |-> F[i]]
      BY <1>4
    <2>2. \A i \in 0 .. N : F[i] = IF i = 0 THEN 0 ELSE 10 * F[i - 1] + d[i]
      BY <1>1, <1>4, <1>5
    <2> QED
      BY <2>1, <2>2
  <1>7. P(Partial(d))
    <2>1. Partial(d) = CHOOSE f : P(f)
      BY DEF Partial
    <2> HIDE DEF P
    <2> QED
      BY <1>6, <2>1
  <1> DEFINE G == Partial(d)
  <1>8. /\ DOMAIN G = 0 .. N /\ G[0] = 0
        /\ \A i \in 1 .. N : G[i] = 10 * G[i - 1] + d[i]
    <2> HIDE DEF N
    <2>1. DOMAIN G = 0 .. N
      BY <1>7
    <2>2. \A i \in 0 .. N : G[i] = IF i = 0 THEN 0 ELSE 10 * G[i - 1] + d[i]
      BY <1>7
    <2>3. 0 \in 0 .. N /\ \A i \in 1 .. N : i \in 0 .. N /\ i # 0
      BY <1>1
    <2> HIDE DEF G
    <2> QED
      BY <2>1, <2>2, <2>3
  <1>9. \A i \in 0 .. N : G[i] \in Nat
    <2> DEFINE T == {i \in Nat : i =< N /\ G[i] \notin Nat}
    <2>1. T = {}
      <3>1. SUFFICES ASSUME T # {}
                     PROVE  FALSE
        OBVIOUS
      <3>2. PICK i \in T : \A j \in T : i =< j
        BY <3>1, Least
      <3> HIDE DEF G, P, N
      <3>3. i \in 1 .. N /\ i - 1 \in Nat /\ i - 1 =< N
        BY <1>1, <1>8, <3>2
      <3>4. G[i - 1] \in Nat
        BY <1>1, <3>2, <3>3
      <3>5. d[i] \in Nat
        BY <1>1, <3>3
      <3> QED
        BY <1>8, <3>3, <3>4, <3>5
    <2> HIDE DEF G, P
    <2> QED
      BY <2>1
  <1>10. G = [i \in 0 .. N |-> G[i]]
    BY <1>7
  <1>11. G \in [0 .. N -> Nat]
    <2> HIDE DEF G, P, N
    <2> QED
      BY <1>9, <1>10
  <1> QED
    BY <1>8, <1>11

\* What holds of k, and of each number after one it holds of, holds up to N.
LEMMA Ascent ==
    ASSUME NEW k \in Nat, NEW N \in Nat, NEW G \in SUBSET Nat,
           k \in G, \A i \in k .. N - 1 : i \in G => i + 1 \in G
    PROVE  \A i \in k .. N : i \in G
  <1> DEFINE T == {i \in Nat : i \in k .. N /\ i \notin G}
  <1>1. SUFFICES ASSUME T # {}
                 PROVE  FALSE
    OBVIOUS
  <1>2. PICK i \in T : \A j \in T : i =< j
    BY <1>1, Least
  <1>3. i - 1 \in k .. N - 1 /\ i - 1 \in Nat /\ i - 1 \notin T /\ (i - 1) + 1 = i
    BY <1>2
  <1> QED
    BY <1>2, <1>3

\* Digits are numbers.
LEMMA DigitsAreNumbers ==
    ASSUME NEW d \in Seq(Digits)
    PROVE  d \in Seq(Nat) /\ Len(d) \in Nat /\ \A i \in 1 .. Len(d) : d[i] \in Nat /\ d[i] \in 0 .. 9
  BY DEF Digits

\* A number that is ahead of another stays ahead, whatever digits follow.
LEMMA StaysAhead ==
    ASSUME NEW a \in Seq(Digits), NEW b \in Seq(Digits), NEW k \in Nat,
           NEW j \in 0 .. Len(b), k + Len(b) =< Len(a),
           Partial(a)[k + j] > Partial(b)[j]
    PROVE  Partial(a)[k + Len(b)] > Value(b)
  <1> DEFINE A == Partial(a)
             B == Partial(b)
             N == Len(b)
             G == {i \in Nat : i =< N /\ A[k + i] > B[i]}
  <1>1. a \in Seq(Nat) /\ b \in Seq(Nat) /\ N \in Nat /\ Len(a) \in Nat
    BY DigitsAreNumbers
  <1>2. /\ \A i \in 0 .. Len(a) : A[i] \in Nat
        /\ \A i \in 1 .. Len(a) : A[i] = 10 * A[i - 1] + a[i]
        /\ \A i \in 0 .. N : B[i] \in Nat
        /\ \A i \in 1 .. N : B[i] = 10 * B[i - 1] + b[i]
    BY <1>1, PartialEquation
  <1> HIDE DEF A, B
  <1>3. ASSUME NEW i \in j .. N - 1, i \in G
        PROVE  i + 1 \in G
    <2>1. i \in Nat /\ i + 1 \in 1 .. N /\ k + (i + 1) \in 1 .. Len(a) /\ (i + 1) - 1 = i
          /\ (k + (i + 1)) - 1 = k + i /\ k + i \in 0 .. Len(a) /\ i \in 0 .. N
      BY <1>1
    <2>2. A[k + (i + 1)] = 10 * A[k + i] + a[k + (i + 1)]
      BY <1>2, <2>1
    <2>3. B[i + 1] = 10 * B[i] + b[i + 1]
      BY <1>2, <2>1
    <2>4. a[k + (i + 1)] \in 0 .. 9 /\ b[i + 1] \in 0 .. 9
      BY <2>1, DigitsAreNumbers
    <2>5. A[k + i] \in Nat /\ B[i] \in Nat /\ A[k + i] > B[i]
      BY <1>2, <1>3, <2>1
    <2>6. 10 * A[k + i] + a[k + (i + 1)] > 10 * B[i] + b[i + 1]
      <3>1. \A p, q \in Nat : \A x, y \in 0 .. 9 : p > q => 10 * p + x > 10 * q + y
        OBVIOUS
      <3> QED
        BY <2>4, <2>5, <3>1
    <2>7. A[k + (i + 1)] > B[i + 1]
      BY <2>2, <2>3, <2>6
    <2> QED
      BY <1>1, <2>1, <2>7
  <1>4. j \in G /\ j \in Nat
    BY <1>1 DEF A, B
  <1>5. N \in G
    <2> HIDE DEF G, N
    <2>1. G \in SUBSET Nat
      BY DEF G
    <2>2. \A i \in j .. N : i \in G
      BY <1>1, <1>3, <1>4, <2>1, Ascent
    <2> QED
      BY <1>1, <2>2 DEF N
  <1> QED
    BY <1>5 DEF A, B, Value

\* A number whose first digit is not 0 is positive.
LEMMA Positive ==
    ASSUME NEW a \in Seq(Digits), a # <<>>, a[1] # 0
    PROVE  \A i \in 1 .. Len(a) : Partial(a)[i] \in Nat /\ Partial(a)[i] >= 1
  <1> DEFINE A == Partial(a)
             N == Len(a)
             G == {i \in Nat : i =< N /\ A[i] >= 1}
  <1>1. a \in Seq(Nat) /\ N \in Nat /\ N >= 1 /\ a[1] \in Nat /\ a[1] >= 1
    BY DEF Digits
  <1>2. /\ \A i \in 0 .. N : A[i] \in Nat
        /\ A[0] = 0
        /\ \A i \in 1 .. N : A[i] = 10 * A[i - 1] + a[i]
        /\ \A i \in 1 .. N : a[i] \in Nat
    BY <1>1, PartialEquation
  <1> HIDE DEF A, N
  <1>3. 1 \in G
    <2>1. 1 \in 1 .. N /\ 1 - 1 = 0
      BY <1>1
    <2>2. A[1] = 10 * A[0] + a[1]
      BY <1>2, <2>1
    <2> QED
      BY <1>1, <1>2, <2>2
  <1>4. ASSUME NEW i \in 1 .. N - 1, i \in G
        PROVE  i + 1 \in G
    <2>1. i + 1 \in 1 .. N /\ (i + 1) - 1 = i /\ A[i] \in Nat /\ a[i + 1] \in Nat
      BY <1>1, <1>2
    <2>2. A[i + 1] = 10 * A[i] + a[i + 1]
      BY <1>2, <2>1
    <2> QED
      BY <1>1, <1>4, <2>1, <2>2
  <1>5. \A i \in 1 .. N : i \in G
    <2> HIDE DEF G
    <2>1. G \in SUBSET Nat
      BY DEF G
    <2> QED
      BY <1>1, <1>3, <1>4, <2>1, Ascent
  <1> QED
    BY <1>2, <1>5 DEF A, N

\* The values are numbers.
LEMMA ValueType == \A d \in Seq(Nat) : Value(d) \in Nat
  BY PartialEquation DEF Value

\* The longer of two numbers that start with no 0 is the larger.
LEMMA LongerIsLarger ==
    ASSUME NEW a \in Seq(Digits), NEW b \in Seq(Digits), a # <<>>, a[1] # 0,
           Len(a) > Len(b)
    PROVE  Value(a) > Value(b)
  <1> DEFINE k == Len(a) - Len(b)
  <1>1. k \in Nat /\ k \in 1 .. Len(a) /\ k + Len(b) = Len(a) /\ 0 \in 0 .. Len(b) /\ k + 0 = k
    OBVIOUS
  <1>2. Partial(a)[k] >= 1 /\ Partial(b)[0] = 0 /\ Partial(a)[k] \in Nat
    <2>1. b \in Seq(Nat)
      BY DEF Digits
    <2> QED
      BY <1>1, <2>1, Positive, PartialEquation
  <1>3. Partial(a)[k + 0] > Partial(b)[0]
    BY <1>1, <1>2
  <1>4. Partial(a)[k + Len(b)] > Value(b)
    <2> HIDE DEF k
    <2> QED
      BY <1>1, <1>3, StaysAhead
  <1> QED
    BY <1>1, <1>4 DEF Value

\* Numbers with the same digits so far have the same value so far.
LEMMA SameSoFar ==
    ASSUME NEW a \in Seq(Digits), NEW b \in Seq(Digits), NEW n \in Nat,
           n =< Len(a), n =< Len(b), \A i \in 1 .. n : a[i] = b[i]
    PROVE  Partial(a)[n] = Partial(b)[n]
  <1> DEFINE A == Partial(a)
             B == Partial(b)
             G == {i \in Nat : i =< n /\ A[i] = B[i]}
  <1>1. a \in Seq(Nat) /\ b \in Seq(Nat) /\ Len(a) \in Nat /\ Len(b) \in Nat
    BY DEF Digits
  <1>2. /\ A[0] = 0 /\ B[0] = 0
        /\ \A i \in 1 .. Len(a) : A[i] = 10 * A[i - 1] + a[i]
        /\ \A i \in 1 .. Len(b) : B[i] = 10 * B[i - 1] + b[i]
    BY <1>1, PartialEquation
  <1> HIDE DEF A, B
  <1>3. ASSUME NEW i \in 0 .. n - 1, i \in G
        PROVE  i + 1 \in G
    <2>1. /\ i + 1 \in 1 .. n /\ i + 1 \in 1 .. Len(a) /\ i + 1 \in 1 .. Len(b)
          /\ (i + 1) - 1 = i
      BY <1>1
    <2>2. A[i + 1] = 10 * A[i] + a[i + 1] /\ B[i + 1] = 10 * B[i] + b[i + 1]
      BY <1>2, <2>1
    <2>3. a[i + 1] = b[i + 1] /\ A[i] = B[i]
      BY <1>3, <2>1
    <2> QED
      BY <1>3, <2>1, <2>2, <2>3
  <1>4. \A i \in 0 .. n : i \in G
    <2>1. 0 \in G
      BY <1>2
    <2> HIDE DEF G
    <2>2. G \in SUBSET Nat
      BY DEF G
    <2> QED
      BY <1>3, <2>1, <2>2, Ascent
  <1> QED
    BY <1>4 DEF A, B

\* The first difference decides.
LEMMA GreaterIsLarger ==
    ASSUME NEW a \in Seq(Digits), NEW b \in Seq(Digits), Len(a) = Len(b), Greater(a, b)
    PROVE  Value(a) > Value(b)
  <1>1. PICK i \in 1 .. Len(a) : a[i] > b[i] /\ \A j \in 1 .. i - 1 : a[j] = b[j]
    BY DEF Greater
  <1>2. a \in Seq(Nat) /\ b \in Seq(Nat) /\ i \in Nat /\ i - 1 \in Nat /\ i \in 1 .. Len(b)
        /\ i \in 0 .. Len(b) /\ a[i] \in Nat /\ b[i] \in Nat /\ i - 1 =< Len(a)
        /\ i - 1 =< Len(b) /\ i - 1 \in 0 .. Len(a)
    BY DEF Digits
  <1>3. Partial(a)[i - 1] = Partial(b)[i - 1]
    BY <1>1, <1>2, SameSoFar
  <1>4. /\ Partial(a)[i] = 10 * Partial(a)[i - 1] + a[i]
        /\ Partial(b)[i] = 10 * Partial(b)[i - 1] + b[i]
        /\ Partial(a)[i - 1] \in Nat
    BY <1>2, PartialEquation
  <1>5. Partial(a)[0 + i] > Partial(b)[i]
    <2>1. 0 + i = i
      BY <1>2
    <2>2. \A p, x, y \in Nat : x > y => 10 * p + x > 10 * p + y
      OBVIOUS
    <2>3. 10 * Partial(a)[i - 1] + a[i] > 10 * Partial(a)[i - 1] + b[i]
      BY <1>1, <1>2, <1>4, <2>2
    <2>4. Partial(b)[i] = 10 * Partial(a)[i - 1] + b[i]
      BY <1>3, <1>4
    <2>5. Partial(a)[i] > Partial(b)[i]
      BY <1>4, <2>3, <2>4
    <2> QED
      BY <2>1, <2>5
  <1>6. Partial(a)[0 + Len(b)] > Value(b)
    <2>1. 0 \in Nat /\ 0 + Len(b) =< Len(a) /\ 0 + i = i
      BY <1>2
    <2> QED
      BY <1>2, <1>5, <2>1, StaysAhead
  <1> QED
    BY <1>6 DEF Value

\* Of two numbers of one length, one is greater or they are the same.
LEMMA OneIsGreater ==
    ASSUME NEW a \in Seq(Digits), NEW b \in Seq(Digits), Len(a) = Len(b)
    PROVE  Greater(a, b) \/ Greater(b, a) \/ Value(a) = Value(b)
  <1> DEFINE T == {i \in Nat : i \in 1 .. Len(a) /\ a[i] # b[i]}
  <1>1. CASE T = {}
    <2>1. \A i \in 1 .. Len(a) : a[i] = b[i]
      BY <1>1
    <2>2. Partial(a)[Len(a)] = Partial(b)[Len(a)]
      BY <2>1, SameSoFar
    <2> QED
      BY <2>2 DEF Value
  <1>2. CASE T # {}
    <2>1. PICK i \in T : \A j \in T : i =< j
      BY <1>2, Least
    <2>2. \A j \in 1 .. i - 1 : a[j] = b[j]
      BY <2>1
    <2>3. /\ i \in 1 .. Len(a) /\ i \in DOMAIN a /\ i \in DOMAIN b
          /\ a[i] \in Nat /\ b[i] \in Nat /\ a[i] # b[i]
      BY DEF Digits
    <2> HIDE DEF T
    <2>4. a[i] > b[i] \/ b[i] > a[i]
      BY <2>3
    <2> QED
      BY <2>2, <2>3, <2>4 DEF Greater
  <1> QED
    BY <1>1, <1>2

\* The order of strings of one length is that of their values.
LEMMA GreaterIsByValue ==
    ASSUME NEW a \in Seq(Digits), NEW b \in Seq(Digits), Len(a) = Len(b)
    PROVE  Greater(a, b) <=> Value(a) > Value(b)
  <1>1. Value(a) \in Nat /\ Value(b) \in Nat
    <2>1. a \in Seq(Nat) /\ b \in Seq(Nat)
      BY DEF Digits
    <2> QED
      BY <2>1, ValueType
  <1>2. Greater(a, b) => Value(a) > Value(b)
    BY GreaterIsLarger
  <1>3. Greater(b, a) => Value(b) > Value(a)
    BY GreaterIsLarger
  <1> QED
    BY <1>1, <1>2, <1>3, OneIsGreater

\* Zeros in front do not count.
LEMMA ZerosAreNothing ==
    ASSUME NEW d \in Seq(Nat), NEW n \in 0 .. Len(d), \A i \in 1 .. n : d[i] = 0
    PROVE  Partial(d)[n] = 0
  <1> DEFINE A == Partial(d)
             G == {i \in Nat : i =< n /\ A[i] = 0}
  <1>1. /\ A[0] = 0 /\ n \in Nat /\ Len(d) \in Nat
        /\ \A i \in 1 .. Len(d) : A[i] = 10 * A[i - 1] + d[i]
    BY PartialEquation
  <1> HIDE DEF A
  <1>2. ASSUME NEW i \in 0 .. n - 1, i \in G
        PROVE  i + 1 \in G
    <2>1. i + 1 \in 1 .. n /\ i + 1 \in 1 .. Len(d) /\ (i + 1) - 1 = i /\ d[i + 1] = 0
      BY <1>1
    <2>2. A[i + 1] = 10 * A[i] + 0
      BY <1>1, <2>1
    <2> QED
      BY <1>2, <2>1, <2>2
  <1>3. \A i \in 0 .. n : i \in G
    <2>1. 0 \in G
      BY <1>1
    <2> HIDE DEF G
    <2>2. G \in SUBSET Nat
      BY DEF G
    <2> QED
      BY <1>1, <1>2, <2>1, <2>2, Ascent
  <1> QED
    BY <1>1, <1>3 DEF A

\* What follows them has the same value alone.
LEMMA SuffixValue ==
    ASSUME NEW d \in Seq(Nat), NEW e \in Seq(Nat), NEW n \in 0 .. Len(d),
           Partial(d)[n] = 0, n + Len(e) = Len(d), \A i \in 1 .. Len(e) : e[i] = d[n + i]
    PROVE  Value(e) = Value(d)
  <1> DEFINE A == Partial(d)
             B == Partial(e)
             N == Len(e)
             G == {i \in Nat : i =< N /\ A[n + i] = B[i]}
  <1>1. /\ B[0] = 0 /\ A[n] = 0 /\ n \in Nat /\ N \in Nat /\ n + N = Len(d)
        /\ \A i \in 1 .. Len(d) : A[i] = 10 * A[i - 1] + d[i]
        /\ \A i \in 1 .. N : B[i] = 10 * B[i - 1] + e[i]
    <2>1. A[n] = 0 /\ n \in Nat /\ N \in Nat /\ n + N = Len(d)
      OBVIOUS
    <2>2. \A i \in 1 .. Len(d) : A[i] = 10 * A[i - 1] + d[i]
      BY PartialEquation
    <2>3. B[0] = 0 /\ \A i \in 1 .. N : B[i] = 10 * B[i - 1] + e[i]
      BY PartialEquation
    <2> HIDE DEF A, B, N
    <2> QED
      BY <2>1, <2>2, <2>3
  <1> HIDE DEF A, B
  <1>2. ASSUME NEW i \in 0 .. N - 1, i \in G
        PROVE  i + 1 \in G
    <2>1. /\ i + 1 \in 1 .. N /\ n + (i + 1) \in 1 .. Len(d)
          /\ (i + 1) - 1 = i /\ (n + (i + 1)) - 1 = n + i
      BY <1>1
    <2>2. A[n + (i + 1)] = 10 * A[n + i] + d[n + (i + 1)]
      BY <1>1, <2>1
    <2>3. B[i + 1] = 10 * B[i] + e[i + 1] /\ e[i + 1] = d[n + (i + 1)]
      BY <1>1, <2>1
    <2>4. A[n + i] = B[i]
      BY <1>2
    <2> QED
      BY <1>1, <2>1, <2>2, <2>3, <2>4
  <1>3. \A i \in 0 .. N : i \in G
    <2>1. 0 \in G
      BY <1>1
    <2> HIDE DEF G, N
    <2>2. G \in SUBSET Nat
      BY DEF G
    <2> QED
      BY <1>1, <1>2, <2>1, <2>2, Ascent
  <1>4. A[n + N] = B[N]
    BY <1>1, <1>3
  <1> QED
    BY <1>1, <1>4 DEF A, B, Value

\* Normalizing keeps the value, and leaves no zero in front of another digit.
LEMMA NormalizedIsEqual ==
    ASSUME NEW raw, raw \in Seq(Digits), raw # <<>>, NEW z, z = Normalized(raw)
    PROVE  /\ z \in Seq(Digits) /\ z # <<>> /\ Value(z) = Value(raw)
           /\ \/ z = <<0>> /\ Value(z) = 0
              \/ z # <<0>> /\ z[1] # 0 /\ Value(z) >= 1
  <1> DEFINE N == Len(raw)
  <1>1. raw \in Seq(Nat) /\ N \in Nat \ {0} /\ \A i \in 1 .. N : raw[i] \in Digits
        /\ DOMAIN raw = 1 .. N
    BY DEF Digits
  <1>2. CASE ToSet(raw) = {0}
    <2>1. \A i \in 1 .. N : raw[i] = 0
      BY <1>1, <1>2 DEF ToSet
    <2>2. Value(raw) = 0
      BY <1>1, <2>1, ZerosAreNothing DEF Value
    <2>3. z = <<0>>
      BY <1>2 DEF Normalized
    <2>4. <<0>> \in Seq(Digits) /\ <<0>> \in Seq(Nat) /\ Len(<<0>>) = 1 /\ <<0>>[1] = 0
      BY DEF Digits
    <2>5. Value(<<0>>) = 0
      <3>1. Partial(<<0>>)[1] = 0
        <4> DEFINE d == <<0>>
        <4>1. d \in Seq(Nat) /\ 1 \in 0 .. Len(d) /\ \A i \in 1 .. 1 : d[i] = 0
          BY <2>4
        <4> HIDE DEF d
        <4>2. Partial(d)[1] = 0
          BY <4>1, ZerosAreNothing
        <4> QED
          BY <4>2 DEF d
      <3> QED
        BY <2>4, <3>1 DEF Value
    <2> QED
      BY <2>2, <2>3, <2>4, <2>5
  <1>3. CASE ToSet(raw) # {0}
    <2> DEFINE I == {i \in 1 .. N : raw[i] # 0}
               k == Min(I)
    <2>1. I # {}
      BY <1>1, <1>3 DEF ToSet
    <2>2. k \in I /\ \A i \in I : k =< i
      <3>1. I \in SUBSET Nat
        BY <1>1
      <3>2. \E i \in I : \A j \in I : i =< j
        <4> HIDE DEF I
        <4> QED
          BY <2>1, <3>1, Least
      <3> HIDE DEF I
      <3> QED
        BY <3>2 DEF Min
    <2>3. z = SubSeq(raw, k, N)
      BY <1>3, <2>1 DEF Normalized, SelectInSeq
    <2>4. k \in 1 .. N /\ raw[k] # 0 /\ \A i \in 1 .. k - 1 : raw[i] = 0
      <3>1. \A i \in 1 .. k - 1 : i \in 1 .. N /\ ~(k =< i)
        BY <1>1, <2>2
      <3> QED
        BY <2>2, <3>1
    <2> HIDE DEF k, I, N
    <2>5. /\ z \in Seq(Digits) /\ Len(z) = N - k + 1
          /\ \A i \in 1 .. Len(z) : z[i] = raw[k + i - 1]
      <3>1. \A i \in k .. N : raw[i] \in Digits
        BY <1>1, <2>4
      <3>2. k \in Int /\ N \in Int /\ k =< N
        BY <1>1, <2>4
      <3> QED
        BY <2>3, <3>1, <3>2, SubSeqProperties
    <2>6. z # <<>> /\ z[1] # 0
      <3>1. 1 \in 1 .. Len(z) /\ k + 1 - 1 = k
        BY <1>1, <2>4, <2>5
      <3> QED
        BY <2>4, <2>5, <3>1
    <2>7. Value(z) = Value(raw)
      <3>1. k - 1 \in 0 .. N /\ k - 1 \in 0 .. Len(raw) /\ (k - 1) + Len(z) = Len(raw)
        BY <1>1, <2>4, <2>5 DEF N
      <3>2. Partial(raw)[k - 1] = 0
        BY <1>1, <2>4, <3>1, ZerosAreNothing
      <3>3. \A i \in 1 .. Len(z) : z[i] = raw[(k - 1) + i]
        <4>1. \A i \in 1 .. Len(z) : k + i - 1 = (k - 1) + i
          BY <2>4
        <4> QED
          BY <2>5, <4>1
      <3>4. z \in Seq(Nat)
        BY <2>5 DEF Digits
      <3> QED
        BY <1>1, <3>1, <3>2, <3>3, <3>4, SuffixValue
    <2>8. Value(z) >= 1
      <3>1. Len(z) \in 1 .. Len(z)
        BY <1>1, <2>4, <2>5
      <3> QED
        BY <2>5, <2>6, <3>1, Positive DEF Value
    <2>9. z # <<0>>
      BY <2>6
    <2> QED
      BY <2>5, <2>6, <2>7, <2>8, <2>9
  <1> QED
    BY <1>2, <1>3

\* The comparison that _content_length and _bounded_limit make of two strings is
\* that of the numbers they denote.
THEOREM ExceedsIsByValue ==
    ASSUME NEW raw \in Seq(Digits), raw # <<>>,
           NEW maximum \in Seq(Digits), maximum # <<>>, maximum[1] # 0
    PROVE  Exceeds(raw, maximum) <=> Value(raw) > Value(maximum)
  <1> DEFINE z == Normalized(raw)
  <1>1. /\ z \in Seq(Digits) /\ z # <<>> /\ Value(z) = Value(raw)
        /\ \/ z = <<0>> /\ Value(z) = 0
           \/ z # <<0>> /\ z[1] # 0 /\ Value(z) >= 1
    BY NormalizedIsEqual
  <1>2. Value(z) \in Nat /\ Value(maximum) \in Nat
    <2> HIDE DEF z
    <2>1. z \in Seq(Nat) /\ maximum \in Seq(Nat)
      BY <1>1, DigitsAreNumbers
    <2> QED
      BY <2>1, ValueType
  <1>3. Len(z) \in Nat /\ Len(maximum) \in Nat /\ Len(maximum) >= 1
    <2> HIDE DEF z
    <2> QED
      BY <1>1
  <1>4. Exceeds(raw, maximum) <=>
           Len(z) > Len(maximum) \/ (Len(z) = Len(maximum) /\ Greater(z, maximum))
    BY DEF Exceeds
  <1>5. Len(z) = Len(maximum) => (Greater(z, maximum) <=> Value(z) > Value(maximum))
    <2> HIDE DEF z
    <2> QED
      BY <1>1, GreaterIsByValue
  <1>6. Len(z) < Len(maximum) => Value(maximum) > Value(z)
    <2> HIDE DEF z
    <2> QED
      BY <1>1, LongerIsLarger
  <1>7. Len(z) > Len(maximum) => Value(z) > Value(maximum)
    <2>1. CASE z = <<0>>
      <3>1. Len(z) = 1
        BY <2>1
      <3> QED
        BY <1>3, <3>1
    <2>2. CASE z[1] # 0
      <3> HIDE DEF z
      <3> QED
        BY <1>1, <2>2, LongerIsLarger
    <2> HIDE DEF z
    <2> QED
      BY <1>1, <2>1, <2>2
  <1> HIDE DEF z
  <1> QED
    BY <1>1, <1>2, <1>3, <1>4, <1>5, <1>6, <1>7
-----------------------------------------------------------------------------
\* Where the reading is says what has been found of the header and the body.
PhaseIsKnown ==
    /\ header \in Headers \cup {None}
    /\ phase \in {"header", "body", "answered"}
    /\ total \in Nat /\ buffered \in Nat
    /\ phase = "header" => total = 0 /\ buffered = 0 /\ answer = "none"
    /\ phase = "body" => /\ buffered = total /\ total =< Value(Maximum) /\ answer = "none"
                         /\ header # None => IsDecimal(header) /\ ~Exceeds(header, Maximum)

\* A request that is refused as too large before a byte of its body was counted
\* has declared a number that exceeds the maximum.
RefusedForItsHeader ==
    answer = "413" /\ total = 0 =>
       header # None /\ IsDecimal(header) /\ Exceeds(header, Maximum)

\* The inductive invariant.
BInv == PhaseIsKnown /\ RefusedForItsHeader /\ ParsedIsWhole

\* The maximum is a number, and so is what any header denotes.
LEMMA MaximumIsANumber ==
    /\ Value(Maximum) \in Nat
    /\ \A h \in Headers : Value(h) \in Nat
  <1>1. Maximum \in Seq(Nat)
    BY MaximumAssumption DEF Digits
  <1>2. \A h \in Headers : h \in Seq(Nat)
    BY InputAssumption
  <1> QED
    BY <1>1, <1>2, ValueType

\* Nothing is known before the header is read.
LEMMA InitHolds == Init => BInv
  BY MaximumIsANumber DEF Init, BInv, PhaseIsKnown, RefusedForItsHeader, ParsedIsWhole

\* Every step keeps the invariant.
LEMMA NextKeeps ==
    ASSUME BInv, [Next]_vars
    PROVE  BInv'
  <1> USE MaximumIsANumber, InputAssumption DEF BInv, PhaseIsKnown
  <1>1. CASE ReadHeader
    <2>1. UNCHANGED <<header, total>> /\ phase = "header" /\ total = 0 /\ buffered = 0
          /\ answer = "none"
      BY <1>1 DEF ReadHeader
    <2>2. CASE Refuse("422")
      BY <2>1, <2>2 DEF Refuse, RefusedForItsHeader, ParsedIsWhole
    <2>3. CASE Refuse("413") /\ header # None /\ IsDecimal(header) /\ Exceeds(header, Maximum)
      BY <2>1, <2>3 DEF Refuse, RefusedForItsHeader, ParsedIsWhole
    <2>4. CASE /\ phase' = "body" /\ UNCHANGED <<buffered, answer>>
               /\ header # None => IsDecimal(header) /\ ~Exceeds(header, Maximum)
      BY <2>1, <2>4 DEF RefusedForItsHeader, ParsedIsWhole
    <2> QED
      BY <1>1, <2>2, <2>3, <2>4 DEF ReadHeader
  <1>2. CASE ReadChunk
    <2>1. PICK n \in Sizes :
             /\ total' = total + n
             /\ IF total' > Value(Maximum) THEN Refuse("413")
                ELSE buffered' = buffered + n /\ UNCHANGED <<phase, answer>>
      BY <1>2 DEF ReadChunk
    <2>2. header' = header /\ phase = "body" /\ n \in Nat
      BY <1>2 DEF ReadChunk
    <2>3. CASE total' > Value(Maximum)
      BY <2>1, <2>2, <2>3 DEF Refuse, RefusedForItsHeader, ParsedIsWhole
    <2>4. CASE ~(total' > Value(Maximum))
      BY <2>1, <2>2, <2>4 DEF RefusedForItsHeader, ParsedIsWhole
    <2> QED
      BY <2>3, <2>4
  <1>3. CASE BodyEnds
    <2>1. UNCHANGED <<header, total>> /\ phase = "body"
      BY <1>3 DEF BodyEnds
    <2>2. CASE Refuse("422")
      BY <2>1, <2>2 DEF Refuse, RefusedForItsHeader, ParsedIsWhole
    <2>3. CASE /\ phase' = "answered" /\ answer' = "parsed" /\ UNCHANGED buffered
               /\ header # None => Value(header) = total
      BY <2>1, <2>3 DEF RefusedForItsHeader, ParsedIsWhole
    <2> QED
      BY <1>3, <2>2, <2>3 DEF BodyEnds
  <1>4. CASE StreamFails
    BY <1>4 DEF StreamFails, Refuse, RefusedForItsHeader, ParsedIsWhole
  <1>5. CASE UNCHANGED vars
    BY <1>5 DEF vars, RefusedForItsHeader, ParsedIsWhole
  <1> QED
    BY <1>1, <1>2, <1>3, <1>4, <1>5 DEF Next
-----------------------------------------------------------------------------
\* The invariant holds of every behaviour.
THEOREM BodyInvariance == Spec => []BInv
  BY InitHolds, NextKeeps, PTL DEF Spec

\* What is parsed is what has arrived and what was declared, and never more than
\* the maximum is kept, however the body is cut.
THEOREM BodiesAreWhole == Spec => []ParsedIsWhole
  <1>1. BInv => ParsedIsWhole
    BY DEF BInv
  <1> QED
    BY BodyInvariance, <1>1, PTL

\* Headers and limits are judged by the numbers they denote, for headers of any
\* length and a maximum of any number of digits.
THEOREM HeadersAreJudgedByValue == Spec => []DigitsAreJudgedByValue
  <1>1. ASSUME BInv
        PROVE  DigitsAreJudgedByValue
    <2>1. CASE header = None
      BY <1>1, <2>1 DEF BInv, RefusedForItsHeader, DigitsAreJudgedByValue
    <2>2. CASE header # None
      <3>1. header \in Seq(Nat) /\ Value(header) \in Nat /\ Value(Maximum) \in Nat
        BY <1>1, <2>2, InputAssumption, MaximumIsANumber DEF BInv, PhaseIsKnown
      <3>2. IsDecimal(header) => header \in Seq(Digits) /\ header # <<>>
        <4>1. SUFFICES ASSUME header # <<>>, ToSet(header) \subseteq Digits
                       PROVE  header \in Seq(Digits)
          BY DEF IsDecimal
        <4>2. \A i \in 1 .. Len(header) : header[i] \in Digits
          BY <3>1, <4>1 DEF ToSet
        <4> HIDE DEF Digits
        <4> QED
          BY <3>1, <4>2
      <3>3. IsDecimal(header) => (Exceeds(header, Maximum) <=> Value(header) > Value(Maximum))
        BY <3>2, ExceedsIsByValue, MaximumAssumption
      <3>4. IsDecimal(header) => (Normalized(header) # <<0>> <=> Value(header) >= 1)
        <4>1. SUFFICES ASSUME IsDecimal(header)
                       PROVE  Normalized(header) # <<0>> <=> Value(header) >= 1
          OBVIOUS
        <4>2. /\ Value(Normalized(header)) = Value(header)
              /\ \/ Normalized(header) = <<0>> /\ Value(Normalized(header)) = 0
                 \/ Normalized(header) # <<0>> /\ Value(Normalized(header)) >= 1
          BY <3>2, <4>1, NormalizedIsEqual
        <4> QED
          BY <3>1, <4>2
      <3>5. phase = "body" => Value(header) =< Value(Maximum)
        BY <1>1, <2>2, <3>1, <3>3 DEF BInv, PhaseIsKnown
      <3>6. answer = "413" /\ total = 0 => Value(header) > Value(Maximum)
        BY <1>1, <3>3 DEF BInv, RefusedForItsHeader
      <3>7. LimitAccepted(header, Maximum) <=>
               IsDecimal(header) /\ Value(header) \in 1 .. Value(Maximum)
        BY <3>1, <3>3, <3>4 DEF LimitAccepted
      <3> QED
        BY <3>5, <3>6, <3>7 DEF DigitsAreJudgedByValue
    <2> QED
      BY <2>1, <2>2
  <1> QED
    BY BodyInvariance, <1>1, PTL
=============================================================================
