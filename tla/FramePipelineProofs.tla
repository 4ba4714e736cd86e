--------------------------- MODULE FramePipelineProofs ---------------------------
(***************************************************************************)
(* What a pipeline guarantees for every media, rate, limit and model, over *)
(* any number of runs, with floats of any precision.                       *)
(***************************************************************************)
EXTENDS FramePipeline, FiniteSetTheorems, SequenceTheorems, WellFoundedInduction, TLAPS

\* A set of natural numbers that is not empty has a least element.  It stands
\* in for the induction theorems of the library: a claim that fails for some
\* number fails for a least one.
LEMMA Least ==
    ASSUME NEW T \in SUBSET Nat, T # {}
    PROVE  \E n \in T : \A m \in T : n =< m
  <1> DEFINE R == {p \in Nat \X Nat : p[1] < p[2]}
  <1>1. IsWellFoundedOn(R, Nat)
    <2>1. OpToRel(<, Nat) = R
      BY DEF OpToRel
    <2> QED
      BY <2>1, NatLessThanWellFounded
  <1>2. PICK n \in T : \A m \in T : <<m, n>> \notin R
    <2> HIDE DEF R
    <2> QED
      BY <1>1, WFMin
  <1>3. ASSUME NEW m \in T
        PROVE  n =< m
    <2>1. m \in Nat /\ n \in Nat
      OBVIOUS
    <2>2. ~(m < n)
      BY <1>2, <2>1
    <2> QED
      BY <2>1, <2>2
  <1> QED
    BY <1>3

\* f is Ulp as far as n.
UlpUpTo(f, n) == \A q \in 0 .. n : f[q] = IF q < 2 * Half THEN 1 ELSE 2 * f[q \div 2]

\* Halving ends.
LEMMA Halves == \A q \in Nat : q >= 2 * Half => q \div 2 \in Nat /\ q \div 2 < q
  BY FloatAssumption

\* The distances can be computed as far as any number.
LEMMA UlpAsFarAs == \A n \in Nat : \E f : UlpUpTo(f, n)
  <1> USE FloatAssumption
  <1> DEFINE T == {n \in Nat : ~ \E f : UlpUpTo(f, n)}
  <1> SUFFICES ASSUME T # {}
               PROVE  FALSE
    OBVIOUS
  <1>1. PICK n \in T : \A m \in T : n =< m
    BY Least
  <1>2. n # 0
    <2>1. UlpUpTo([q \in 0 .. 0 |-> 1], 0)
      BY DEF UlpUpTo
    <2> QED
      BY <2>1
  <1>3. PICK f : UlpUpTo(f, n - 1)
    BY <1>1, <1>2
  <1> DEFINE g == [q \in 0 .. n |->
                     IF q < n THEN f[q] ELSE IF n < 2 * Half THEN 1 ELSE 2 * f[n \div 2]]
  <1>4. UlpUpTo(g, n)
    <2> SUFFICES ASSUME NEW q \in 0 .. n
                 PROVE  g[q] = IF q < 2 * Half THEN 1 ELSE 2 * g[q \div 2]
      BY DEF UlpUpTo
    <2>1. q >= 2 * Half => q \div 2 \in 0 .. n - 1 /\ g[q \div 2] = f[q \div 2]
      BY Halves
    <2>2. q < n => f[q] = IF q < 2 * Half THEN 1 ELSE 2 * f[q \div 2]
      BY <1>3 DEF UlpUpTo
    <2> QED
      BY <2>1, <2>2
  <1> QED
    BY <1>4

\* However far they are computed, they are the same.
LEMMA UlpIsUnique ==
    ASSUME NEW f, NEW g, NEW m \in Nat, NEW n \in Nat, UlpUpTo(f, m), UlpUpTo(g, n), m =< n
    PROVE  f[m] = g[m]
  <1> USE FloatAssumption
  <1> DEFINE T == {q \in Nat : q =< m /\ f[q] # g[q]}
  <1>1. SUFFICES ASSUME T # {}
                 PROVE  FALSE
    OBVIOUS
  <1>2. PICK q \in T : \A p \in T : q =< p
    BY <1>1, Least
  <1>3. q >= 2 * Half => q \div 2 \in 0 .. m /\ q \div 2 \notin T
    BY <1>2, Halves
  <1>4. q >= 2 * Half => f[q \div 2] = g[q \div 2]
    BY <1>3
  <1>5. f[q] = IF q < 2 * Half THEN 1 ELSE 2 * f[q \div 2]
    BY DEF UlpUpTo
  <1>6. g[q] = IF q < 2 * Half THEN 1 ELSE 2 * g[q \div 2]
    BY DEF UlpUpTo
  <1> QED
    BY <1>4, <1>5, <1>6

\* The equation of Ulp has a solution, so Ulp is one.
LEMMA UlpEquation == \A q \in Nat : Ulp[q] = IF q < 2 * Half THEN 1 ELSE 2 * Ulp[q \div 2]
  <1> USE FloatAssumption
  <1> DEFINE P(f) == f = [q \in Nat |-> IF q < 2 * Half THEN 1 ELSE 2 * f[q \div 2]]
             c(n) == CHOOSE f : UlpUpTo(f, n)
             F == [q \in Nat |-> c(q)[q]]
  <1>1. \A n \in Nat : UlpUpTo(c(n), n)
    BY UlpAsFarAs
  <1>2. ASSUME NEW q \in Nat
        PROVE  F[q] = IF q < 2 * Half THEN 1 ELSE 2 * F[q \div 2]
    <2> HIDE DEF c
    <2>1. F[q] = IF q < 2 * Half THEN 1 ELSE 2 * c(q)[q \div 2]
      BY <1>1 DEF UlpUpTo
    <2>2. ASSUME q >= 2 * Half
          PROVE  c(q)[q \div 2] = F[q \div 2]
      <3> DEFINE h == q \div 2
      <3>1. h \in Nat /\ h =< q
        BY <2>2, Halves
      <3> HIDE DEF h
      <3>2. c(h)[h] = c(q)[h]
        BY <1>1, <3>1, UlpIsUnique
      <3>3. F[h] = c(h)[h]
        BY <3>1
      <3> QED
        BY <3>2, <3>3 DEF h
    <2> QED
      BY <2>1, <2>2
  <1>3. P(F)
    <2> HIDE DEF c
    <2>1. F = [q \in Nat |-> F[q]]
      OBVIOUS
    <2> HIDE DEF F
    <2> QED
      BY <1>2, <2>1
  <1>4. P(Ulp)
    <2>1. Ulp = CHOOSE f : P(f)
      BY DEF Ulp
    <2> HIDE DEF P
    <2> QED
      BY <1>3, <2>1
  <1> HIDE DEF F
  <1> QED
    BY <1>4

\* It is a positive number.
LEMMA UlpType == \A q \in Nat : Ulp[q] \in Nat \ {0}
  <1> USE FloatAssumption
  <1> DEFINE T == {q \in Nat : Ulp[q] \notin Nat \ {0}}
  <1> SUFFICES ASSUME T # {}
               PROVE  FALSE
    OBVIOUS
  <1>1. PICK q \in T : \A p \in T : q =< p
    BY Least
  <1>2. q >= 2 * Half => q \div 2 \in Nat /\ q \div 2 \notin T
    BY <1>1, Halves
  <1>3. Ulp[q] = IF q < 2 * Half THEN 1 ELSE 2 * Ulp[q \div 2]
    BY UlpEquation
  <1> QED
    BY <1>2, <1>3

\* It does not shrink as numbers grow.
LEMMA UlpMonotone == \A p, q \in Nat : p =< q => Ulp[p] =< Ulp[q]
  <1> USE FloatAssumption
  <1> DEFINE T == {q \in Nat : \E p \in 0 .. q : Ulp[p] > Ulp[q]}
  <1>1. SUFFICES T = {}
    BY UlpType
  <1> SUFFICES ASSUME T # {}
               PROVE  FALSE
    OBVIOUS
  <1>2. PICK q \in T : \A n \in T : q =< n
    BY Least
  <1>3. PICK p \in 0 .. q : Ulp[p] > Ulp[q]
    BY <1>2
  <1>4. /\ Ulp[q] = IF q < 2 * Half THEN 1 ELSE 2 * Ulp[q \div 2]
        /\ Ulp[p] = IF p < 2 * Half THEN 1 ELSE 2 * Ulp[p \div 2]
        /\ Ulp[q] \in Nat \ {0}
    BY UlpEquation, UlpType
  <1>5. p >= 2 * Half
    BY <1>3, <1>4
  <1>6. q \div 2 \in Nat /\ q \div 2 < q /\ p \div 2 \in 0 .. q \div 2
    BY <1>5
  <1>7. ~(Ulp[p \div 2] > Ulp[q \div 2])
    BY <1>2, <1>6
  <1> QED
    BY <1>3, <1>4, <1>5, <1>6, <1>7, UlpType

\* A float beyond the smallest ones has at least Half units, and a number of
\* Half units has no smaller unit.
LEMMA UlpScale == \A q \in Nat : /\ Ulp[q] = 1 \/ Half * Ulp[q] =< q
                                 /\ Ulp[Half * Ulp[q]] >= Ulp[q]
  <1> USE FloatAssumption
  <1> DEFINE Good(q) == /\ Ulp[q] = 1 \/ Half * Ulp[q] =< q
                        /\ Ulp[Half * Ulp[q]] >= Ulp[q]
             T == {q \in Nat : ~Good(q)}
  <1> SUFFICES ASSUME T # {}
               PROVE  FALSE
    OBVIOUS
  <1>1. PICK q \in T : \A p \in T : q =< p
    BY Least
  <1>2. CASE q < 2 * Half
    <2>1. Ulp[q] = 1 /\ Ulp[Half] = 1
      BY <1>2, UlpEquation
    <2> QED
      BY <2>1
  <1>3. CASE q >= 2 * Half
    <2> DEFINE h == q \div 2
               u == Ulp[h]
    <2>1. h \in Nat /\ h \notin T /\ Ulp[q] = 2 * u /\ u \in Nat \ {0} /\ 2 * h =< q
      BY <1>1, <1>3, Halves, UlpEquation, UlpType
    <2>2. Good(h)
      BY <2>1
    <2> HIDE DEF h, u
    <2>3. Half * Ulp[q] = 2 * (Half * u) /\ Half * u \in Nat /\ Half * u >= Half
      BY <2>1
    <2>4. Half * Ulp[q] =< q
      BY <1>3, <2>1, <2>2, <2>3 DEF u
    <2>5. Ulp[Half * Ulp[q]] = 2 * Ulp[Half * u]
      <3> DEFINE m == Half * u
      <3>1. m \in Nat /\ 2 * m \in Nat /\ 2 * m >= 2 * Half /\ (2 * m) \div 2 = m
        BY <2>3
      <3>2. Ulp[2 * m] = 2 * Ulp[m]
        <4> HIDE DEF m
        <4> QED
          BY <3>1, UlpEquation
      <3> QED
        BY <2>3, <3>2
    <2>6. Ulp[Half * u] \in Nat
      BY <2>3, UlpType
    <2>7. Ulp[Half * u] >= u
      BY <2>2 DEF u
    <2> QED
      BY <2>1, <2>4, <2>5, <2>6, <2>7
  <1> QED
    BY <1>2, <1>3

\* Products keep the order of their factors, and show it.
LEMMA Products ==
    ASSUME NEW a \in Int, NEW b \in Int, NEW c \in Nat \ {0}
    PROVE  /\ a =< b <=> a * c =< b * c
           /\ a < b <=> a * c < b * c
  OBVIOUS

\* Division leaves a remainder less than the divisor.
LEMMA Divisions ==
    ASSUME NEW n \in Nat, NEW d \in Nat \ {0}
    PROVE  /\ n \div d \in Nat /\ n % d \in 0 .. d - 1
           /\ n = (n \div d) * d + (n % d)
  OBVIOUS

\* Rounding moves a number by half a unit at most, and the unit is no larger
\* than that of the float it makes.
LEMMA Rounding ==
    ASSUME NEW n \in Nat, NEW d \in Nat \ {0}
    PROVE  /\ Nearest(n, d) \in Nat
           /\ Ulp[n \div d] \in Nat \ {0} /\ Ulp[Nearest(n, d)] \in Nat \ {0}
           /\ 2 * (Nearest(n, d) * d - n) =< Ulp[n \div d] * d
           /\ 2 * (n - Nearest(n, d) * d) =< Ulp[n \div d] * d
           /\ Ulp[n \div d] =< Ulp[Nearest(n, d)]
  <1> USE FloatAssumption
  <1> DEFINE q    == n \div d
             u    == Ulp[q]
             grid == d * u
             low  == n \div grid
             r    == Nearest(n, d)
  <1>1. q \in Nat /\ n = q * d + (n % d) /\ n % d \in 0 .. d - 1
    BY Divisions
  <1>2. u \in Nat \ {0}
    BY <1>1, UlpType
  <1>3. grid \in Nat \ {0}
    <2> HIDE DEF u
    <2> QED
      BY <1>2
  <1>4. low \in Nat /\ n % grid \in 0 .. grid - 1 /\ n = low * grid + (n % grid)
    <2> HIDE DEF grid
    <2> QED
      BY <1>3, Divisions
  <1>5. \/ r = low * u /\ 2 * (n % grid) =< grid
        \/ r = (low + 1) * u /\ 2 * (n % grid) >= grid
    <2>1. r = (IF 2 * (n % grid) > grid \/ (2 * (n % grid) = grid /\ low % 2 = 1)
               THEN low + 1 ELSE low) * u
      BY DEF Nearest
    <2> HIDE DEF r, low, grid, u
    <2> QED
      BY <1>2, <1>3, <1>4, <2>1
  <1> DEFINE rest == n % grid
  <1>6. (low * u) * d = low * grid /\ ((low + 1) * u) * d = low * grid + grid
    <2> HIDE DEF low, u, q
    <2> QED
      BY <1>2, <1>4
  <1>7. r \in Nat /\ r >= low * u
    <2> HIDE DEF r, low, u
    <2> QED
      BY <1>2, <1>4, <1>5
  <1>8. low * grid \in Nat
    <2> HIDE DEF low, grid
    <2> QED
      BY <1>3, <1>4
  <1>9. 2 * (r * d - n) =< grid /\ 2 * (n - r * d) =< grid
    <2> DEFINE lg == low * grid
    <2>1. n = lg + rest /\ lg \in Nat /\ rest \in Nat
      <3> HIDE DEF low, grid
      <3> QED
        BY <1>4, <1>8
    <2>2. \/ r * d = lg /\ 2 * rest =< grid
          \/ r * d = lg + grid /\ 2 * rest >= grid
      <3> HIDE DEF r, low, u
      <3> QED
        BY <1>5, <1>6
    <2>3. rest =< grid
      <3> HIDE DEF low, grid
      <3> QED
        BY <1>3, <1>4
    <2> HIDE DEF r, lg, rest, grid
    <2> QED
      BY <1>3, <1>7, <2>1, <2>2, <2>3
  <1>10. u =< Ulp[r]
    <2>1. CASE u = 1
      BY <1>7, <2>1, UlpType
    <2>2. CASE u # 1
      <3>1. Half * u =< q
        BY <1>1, <2>2, UlpScale
      <3>2. (Half * u) * d =< q * d /\ q * d =< n
        <4>1. q * d =< n
          <5> HIDE DEF q
          <5> QED
            BY <1>1
        <4> HIDE DEF u, q
        <4>2. Half * u \in Int
          BY <1>2
        <4>3. (Half * u) * d =< q * d
          BY <1>1, <3>1, <4>2, Products
        <4> QED
          BY <4>1, <4>3
      <3>3. Half * grid < (low + 1) * grid
        <4>1. Half * grid =< n
          <5> HIDE DEF u, q
          <5> QED
            BY <1>1, <1>2, <3>2
        <4> HIDE DEF low, grid
        <4> QED
          BY <1>3, <1>4, <4>1
      <3>4. Half =< low
        <4> HIDE DEF low, grid
        <4> QED
          BY <1>3, <1>4, <3>3, Products
      <3>5. Half * u =< low * u
        <4> HIDE DEF low, u
        <4> QED
          BY <1>2, <1>4, <3>4, Products
      <3>6. Half * u \in Nat /\ Half * u =< r
        <4> HIDE DEF r, low, u
        <4> QED
          BY <1>2, <1>4, <1>7, <3>5
      <3>7. Ulp[Half * u] =< Ulp[r]
        <4> HIDE DEF r, u
        <4> QED
          BY <1>7, <3>6, UlpMonotone
      <3>8. u =< Ulp[Half * u]
        BY <1>1, UlpScale
      <3> HIDE DEF r, u
      <3> QED
        BY <1>2, <1>7, <3>6, <3>7, <3>8, UlpType
    <2> QED
      BY <2>1, <2>2
  <1>11. grid = u * d
    <2> HIDE DEF u
    <2> QED
      BY <1>2
  <1> QED
    BY <1>2, <1>7, <1>9, <1>10, <1>11, UlpType

\* 1.0 and 0.0 are floats: divisions that make them are exact.
LEMMA WholesAreExact ==
    ASSUME NEW d \in Nat \ {0}
    PROVE  Nearest(d * One, d) = One /\ Nearest(0, d) = 0
  <1> USE FloatAssumption
  <1>1. (d * One) \div d = One
    OBVIOUS
  <1> DEFINE u == Ulp[One]
  <1>2. u \in Nat \ {0} /\ One % u = 0
    BY UlpType
  <1> DEFINE low == One \div u
  <1>3. One = low * u /\ low \in Nat
    <2> HIDE DEF u
    <2> QED
      BY <1>2, Divisions
  <1> DEFINE grid == d * u
  <1>4. grid \in Nat \ {0} /\ d * One = low * grid
    <2> HIDE DEF u, low
    <2> QED
      BY <1>2, <1>3
  <1>5. (d * One) \div grid = low /\ (d * One) % grid = 0
    <2> HIDE DEF grid, low
    <2> QED
      BY <1>3, <1>4
  <1>6. Nearest(d * One, d) = One
    <2>1. Nearest(d * One, d) = (IF 2 * ((d * One) % grid) > grid
                                    \/ (2 * ((d * One) % grid) = grid
                                        /\ ((d * One) \div grid) % 2 = 1)
                                 THEN (d * One) \div grid + 1
                                 ELSE (d * One) \div grid) * u
      BY <1>1 DEF Nearest
    <2> HIDE DEF grid, low, u
    <2> QED
      BY <1>3, <1>4, <1>5, <2>1
  <1>7. 0 \div d = 0 /\ Ulp[0] = 1
    BY UlpEquation
  <1>8. 0 \div d = 0 /\ 0 % d = 0
    OBVIOUS
  <1>9. Nearest(0, d) = 0
    BY <1>7, <1>8 DEF Nearest
  <1> QED
    BY <1>6, <1>9
-----------------------------------------------------------------------------
\* f is a value for each number up to N, each computed from the one before it.
Iterates(f, N, B, base, step) ==
    /\ f \in [0 .. N -> B] /\ f[0] = base
    /\ \A n \in 1 .. N : f[n] = step[<<n, f[n - 1]>>]

\* There is such a function.
LEMMA Recursion ==
    ASSUME NEW N \in Nat, NEW B, NEW base \in B, NEW step \in [(1 .. N) \X B -> B]
    PROVE  \E f : Iterates(f, N, B, base, step)
  <1> DEFINE Good(f, m) == Iterates(f, m, B, base, step)
             T == {m \in Nat : m =< N /\ ~ \E f : Good(f, m)}
  <1>1. SUFFICES ASSUME T # {}
                 PROVE  FALSE
    OBVIOUS
  <1>2. PICK m \in T : \A n \in T : m =< n
    BY <1>1, Least
  <1>3. m # 0
    <2>1. Good([n \in 0 .. 0 |-> base], 0)
      BY DEF Iterates
    <2> QED
      BY <2>1
  <1>4. PICK f : Good(f, m - 1)
    <2> HIDE DEF Good
    <2>1. m - 1 \in Nat /\ m - 1 =< N /\ m - 1 \notin T
      BY <1>2, <1>3
    <2> QED
      BY <2>1
  <1> DEFINE v == step[<<m, f[m - 1]>>]
             g == [n \in 0 .. m |-> IF n < m THEN f[n] ELSE v]
  <1>5. m \in 1 .. N /\ f[m - 1] \in B
    BY <1>3, <1>4 DEF Iterates
  <1>6. v \in B
    BY <1>5
  <1>7. Good(g, m)
    <2> HIDE DEF v
    <2>1. g \in [0 .. m -> B] /\ g[0] = base
      BY <1>3, <1>4, <1>6 DEF Iterates
    <2>2. ASSUME NEW n \in 1 .. m
          PROVE  g[n] = step[<<n, g[n - 1]>>]
      <3>1. g[n - 1] = f[n - 1]
        OBVIOUS
      <3>2. CASE n < m
        BY <1>4, <3>1, <3>2 DEF Iterates
      <3>3. CASE n = m
        <4>1. g[n] = v /\ m - 1 = n - 1
          BY <3>3
        <4>2. v = step[<<n, f[n - 1]>>]
          BY <3>3 DEF v
        <4> QED
          BY <3>1, <4>1, <4>2
      <3> QED
        BY <3>2, <3>3
    <2> HIDE DEF g
    <2> QED
      BY <2>1, <2>2 DEF Iterates
  <1> QED
    BY <1>7

\* The detections of the first n rows are those of one fewer, and that of row n
\* when its confidence is high enough.
LEMMA FoundEquation ==
    ASSUME NEW raw \in Seq(Rows)
    PROVE  /\ Found(raw) \in [0 .. Len(raw) -> Seq({DetectionOf(raw[i]) : i \in DOMAIN raw})]
           /\ Found(raw)[0] = <<>>
           /\ \A n \in 1 .. Len(raw) :
                 Found(raw)[n] = IF AboveThreshold(raw[n])
                                 THEN Append(Found(raw)[n - 1], DetectionOf(raw[n]))
                                 ELSE Found(raw)[n - 1]
  <1> DEFINE N == Len(raw)
             B == Seq({DetectionOf(raw[i]) : i \in DOMAIN raw})
             P(f) == f = [n \in 0 .. N |->
                            IF n = 0 THEN <<>>
                            ELSE IF AboveThreshold(raw[n])
                                 THEN Append(f[n - 1], DetectionOf(raw[n]))
                                 ELSE f[n - 1]]
             step == [p \in (1 .. N) \X B |->
                        IF AboveThreshold(raw[p[1]]) THEN Append(p[2], DetectionOf(raw[p[1]]))
                        ELSE p[2]]
  <1>1. N \in Nat /\ DOMAIN raw = 1 .. N /\ <<>> \in B
    OBVIOUS
  <1>2. step \in [(1 .. N) \X B -> B]
    <2> SUFFICES ASSUME NEW n \in 1 .. N, NEW b \in B
                 PROVE  Append(b, DetectionOf(raw[n])) \in B
      OBVIOUS
    <2> QED
      BY <1>1
  <1>3. PICK F : Iterates(F, N, B, <<>>, step)
    <2> HIDE DEF N, B, step
    <2> QED
      BY <1>1, <1>2, Recursion
  <1>4. ASSUME NEW f, P(f)
        PROVE  /\ DOMAIN f = 0 .. N /\ f[0] = <<>>
               /\ \A n \in 1 .. N : f[n] = IF AboveThreshold(raw[n])
                                          THEN Append(f[n - 1], DetectionOf(raw[n]))
                                          ELSE f[n - 1]
    <2>1. DOMAIN f = 0 .. N
      BY <1>4
    <2>2. \A n \in 0 .. N : f[n] = IF n = 0 THEN <<>>
                                 ELSE IF AboveThreshold(raw[n])
                                      THEN Append(f[n - 1], DetectionOf(raw[n]))
                                      ELSE f[n - 1]
      BY <1>4
    <2> HIDE DEF P, N
    <2>3. 0 \in 0 .. N /\ \A n \in 1 .. N : n \in 0 .. N /\ n # 0
      BY <1>1
    <2>4. f[0] = <<>>
      BY <2>2, <2>3
    <2> QED
      BY <2>1, <2>2, <2>3, <2>4
  <1>5. P(F)
    <2>1. F = [n \in 0 .. N |-> F[n]]
      <3> HIDE DEF N, B, step
      <3> QED
        BY <1>3 DEF Iterates
    <2>2. ASSUME NEW n \in 0 .. N
          PROVE  F[n] = IF n = 0 THEN <<>>
                        ELSE IF AboveThreshold(raw[n])
                             THEN Append(F[n - 1], DetectionOf(raw[n]))
                             ELSE F[n - 1]
      <3>1. CASE n = 0
        BY <1>3, <3>1 DEF Iterates
      <3>2. CASE n # 0
        <4>1. n \in 1 .. N /\ F[n - 1] \in B
          <5> HIDE DEF B
          <5> QED
            BY <1>1, <1>3, <3>2 DEF Iterates
        <4>2. F[n] = step[<<n, F[n - 1]>>]
          BY <1>3, <4>1 DEF Iterates
        <4> HIDE DEF B, N
        <4> QED
          BY <3>2, <4>1, <4>2
      <3> QED
        BY <3>1, <3>2
    <2> HIDE DEF N
    <2> QED
      BY <2>1, <2>2
  <1>6. P(Found(raw))
    <2>1. Found(raw) = CHOOSE f : P(f)
      BY DEF Found
    <2> HIDE DEF P
    <2> QED
      BY <1>5, <2>1
  <1>7. Found(raw) \in [0 .. N -> B]
    <2> DEFINE f == Found(raw)
               T == {n \in Nat : n =< N /\ f[n] \notin B}
    <2>1. T = {}
      <3>1. SUFFICES ASSUME T # {}
                     PROVE  FALSE
        OBVIOUS
      <3>2. PICK n \in T : \A m \in T : n =< m
        BY <3>1, Least
      <3>3. n # 0 /\ n \in 1 .. N
        <4> HIDE DEF P, B, f, N
        <4> QED
          BY <1>1, <1>4, <1>6 DEF f
      <3>4. f[n - 1] \in B
        BY <3>2, <3>3
      <3>5. f[n] = IF AboveThreshold(raw[n]) THEN Append(f[n - 1], DetectionOf(raw[n]))
                   ELSE f[n - 1]
        <4> HIDE DEF P, N
        <4> QED
          BY <1>4, <1>6, <3>3
      <3>6. f[n] \in B
        <4> HIDE DEF f
        <4> QED
          BY <1>1, <3>3, <3>4, <3>5
      <3> QED
        BY <3>6
    <2>2. DOMAIN f = 0 .. N /\ f = [n \in 0 .. N |-> f[n]]
      BY <1>6
    <2>3. \A n \in 0 .. N : f[n] \in B
      BY <1>1, <2>1
    <2> HIDE DEF B, N
    <2> QED
      BY <2>2, <2>3
  <1> HIDE DEF P, B
  <1> QED
    BY <1>4, <1>6, <1>7 DEF B

\* How many of the first n indices are in a set.
Count(S, n) == Cardinality(S \cap 1 .. n)

\* A count starts at nothing, grows by one at each index that is in the set,
\* and ends with the whole of it.
LEMMA Counting ==
    ASSUME NEW N \in Nat, NEW S \in SUBSET (1 .. N)
    PROVE  /\ Count(S, 0) = 0 /\ Count(S, N) = Cardinality(S)
           /\ \A n \in 0 .. N : Count(S, n) \in Nat
           /\ \A n \in 1 .. N : Count(S, n) = IF n \in S THEN Count(S, n - 1) + 1
                                            ELSE Count(S, n - 1)
           /\ \A m, n \in 0 .. N : m =< n => Count(S, m) =< Count(S, n)
  <1>1. \A n \in 0 .. N : IsFiniteSet(S \cap 1 .. n)
    <2> SUFFICES ASSUME NEW n \in 0 .. N
                 PROVE  IsFiniteSet(S \cap 1 .. n)
      OBVIOUS
    <2>1. IsFiniteSet(1 .. n)
      BY FS_Interval
    <2> QED
      BY <2>1, FS_Subset
  <1>2. S \cap 1 .. 0 = {} /\ S \cap 1 .. N = S
    <2>1. S \cap 1 .. 0 = {}
      OBVIOUS
    <2>2. S \cap 1 .. N = S
      BY Zenon
    <2> QED
      BY <2>1, <2>2
  <1>3. \A n \in 0 .. N : Cardinality(S \cap 1 .. n) \in Nat
    BY <1>1, FS_CardinalityType
  <1>4. ASSUME NEW n \in 1 .. N
        PROVE  Cardinality(S \cap 1 .. n) =
                 IF n \in S THEN Cardinality(S \cap 1 .. n - 1) + 1
                 ELSE Cardinality(S \cap 1 .. n - 1)
    <2>1. IsFiniteSet(S \cap 1 .. n - 1) /\ n \notin S \cap 1 .. n - 1
      BY <1>1
    <2>2. CASE n \in S
      <3>1. S \cap 1 .. n = (S \cap 1 .. n - 1) \cup {n}
        BY <2>2
      <3>2. Cardinality((S \cap 1 .. n - 1) \cup {n}) = Cardinality(S \cap 1 .. n - 1) + 1
        BY <2>1, FS_AddElement
      <3> QED
        BY <2>2, <3>1, <3>2
    <2>3. CASE n \notin S
      <3>1. S \cap 1 .. n = S \cap 1 .. n - 1
        BY <2>3
      <3> QED
        BY <2>3, <3>1
    <2> QED
      BY <2>2, <2>3
  <1>5. ASSUME NEW m \in 0 .. N, NEW n \in 0 .. N, m =< n
        PROVE  Cardinality(S \cap 1 .. m) =< Cardinality(S \cap 1 .. n)
    <2>1. S \cap 1 .. m \subseteq S \cap 1 .. n
      BY <1>5
    <2> QED
      BY <1>1, <2>1, FS_Subset
  <1>6. Cardinality(S \cap 1 .. 0) = 0
    BY <1>2, FS_EmptySet
  <1> QED
    BY <1>2, <1>3, <1>4, <1>5, <1>6 DEF Count

\* The rows that are shown.
Shown(raw) == {i \in DOMAIN raw : AboveThreshold(raw[i])}

\* Each row that is shown has its detection, in the place of the row among them.
LEMMA FoundInOrder ==
    ASSUME NEW raw \in Seq(Rows), NEW found, found = Found(raw)[Len(raw)]
    PROVE  /\ DOMAIN found = 1 .. Len(found) /\ Len(found) = Cardinality(Shown(raw))
           /\ \A i \in Shown(raw) :
                 /\ Cardinality(Shown(raw) \cap 1 .. i) \in DOMAIN found
                 /\ found[Cardinality(Shown(raw) \cap 1 .. i)] = DetectionOf(raw[i])
  <1> DEFINE N    == Len(raw)
             B    == {DetectionOf(raw[i]) : i \in DOMAIN raw}
             S    == Shown(raw)
             c(n) == Count(S, n)
             f    == Found(raw)
             Good(n) == /\ Len(f[n]) = c(n)
                        /\ \A i \in 1 .. n : i \in S => f[n][c(i)] = DetectionOf(raw[i])
  <1>1. N \in Nat /\ DOMAIN raw = 1 .. N /\ S \in SUBSET (1 .. N)
    BY DEF Shown
  <1>2. /\ c(0) = 0 /\ c(N) = Cardinality(S)
        /\ \A n \in 0 .. N : c(n) \in Nat
        /\ \A n \in 1 .. N : c(n) = IF n \in S THEN c(n - 1) + 1 ELSE c(n - 1)
        /\ \A m, n \in 0 .. N : m =< n => c(m) =< c(n)
    <2> HIDE DEF N, S
    <2> QED
      BY <1>1, Counting
  <1>3. /\ f \in [0 .. N -> Seq(B)] /\ f[0] = <<>>
        /\ \A n \in 1 .. N : f[n] = IF AboveThreshold(raw[n])
                                   THEN Append(f[n - 1], DetectionOf(raw[n]))
                                   ELSE f[n - 1]
    BY FoundEquation
  <1> HIDE DEF c, f
  <1>4. \A n \in 1 .. N : n \in S <=> AboveThreshold(raw[n])
    BY <1>1 DEF Shown
  <1>5. \A n \in 1 .. N : DetectionOf(raw[n]) \in B
    BY <1>1
  <1> HIDE DEF N, S, B
  <1>6. \A i \in S : c(i) \in 1 .. c(N)
    <2> SUFFICES ASSUME NEW i \in S
                 PROVE  c(i) \in 1 .. c(N)
      OBVIOUS
    <2>1. i \in 1 .. N /\ i - 1 \in 0 .. N
      BY <1>1
    <2>2. c(i) = c(i - 1) + 1 /\ c(i - 1) \in Nat /\ c(i) =< c(N) /\ c(N) \in Nat
      BY <1>1, <1>2, <2>1
    <2> QED
      BY <2>2
  <1>7. ASSUME NEW n \in 1 .. N, Good(n - 1)
        PROVE  Good(n)
    <2>1. f[n - 1] \in Seq(B) /\ n - 1 \in 0 .. N
      BY <1>1, <1>3
    <2>2. CASE n \in S
      <3>1. f[n] = Append(f[n - 1], DetectionOf(raw[n]))
        BY <1>3, <1>4, <2>2
      <3>2. /\ Len(f[n]) = Len(f[n - 1]) + 1
            /\ \A k \in 1 .. Len(f[n - 1]) : f[n][k] = f[n - 1][k]
            /\ f[n][Len(f[n - 1]) + 1] = DetectionOf(raw[n])
        BY <1>5, <2>1, <3>1, AppendProperties
      <3>3. c(n) = c(n - 1) + 1 /\ Len(f[n - 1]) = c(n - 1) /\ c(n - 1) \in Nat
        BY <1>2, <1>7, <2>1, <2>2
      <3>4. ASSUME NEW i \in 1 .. n, i \in S
            PROVE  f[n][c(i)] = DetectionOf(raw[i])
        <4>1. CASE i = n
          BY <3>2, <3>3, <4>1
        <4>2. CASE i # n
          <5>1. i \in 1 .. n - 1 /\ i - 1 \in 0 .. N /\ i \in 1 .. N
            BY <1>1, <4>2
          <5>2. f[n - 1][c(i)] = DetectionOf(raw[i])
            BY <1>7, <3>4, <5>1
          <5>3. c(i) = c(i - 1) + 1 /\ c(i - 1) \in Nat /\ c(i) =< c(n - 1)
            BY <1>1, <1>2, <2>1, <3>4, <5>1
          <5>4. c(i) \in 1 .. Len(f[n - 1])
            BY <3>3, <5>3
          <5> QED
            BY <3>2, <5>2, <5>4
        <4> QED
          BY <4>1, <4>2
      <3> QED
        BY <3>2, <3>3, <3>4
    <2>3. CASE n \notin S
      <3>1. f[n] = f[n - 1] /\ c(n) = c(n - 1)
        BY <1>2, <1>3, <1>4, <2>3
      <3>2. \A i \in 1 .. n : i \in S => i \in 1 .. n - 1
        BY <1>1, <2>3
      <3> QED
        BY <1>7, <3>1, <3>2
    <2> QED
      BY <2>2, <2>3
  <1>8. Good(N)
    <2> DEFINE T == {n \in Nat : n =< N /\ ~Good(n)}
    <2>1. SUFFICES ASSUME T # {}
                   PROVE  FALSE
      BY <1>1
    <2>2. PICK n \in T : \A m \in T : n =< m
      BY <2>1, Least
    <2>3. n # 0
      <3>1. Good(0)
        BY <1>2, <1>3
      <3> QED
        BY <3>1
    <2> HIDE DEF Good
    <2>4. n \in 1 .. N /\ n - 1 \in Nat /\ n - 1 =< N /\ n - 1 \notin T
      BY <1>1, <2>2, <2>3
    <2>5. Good(n - 1)
      BY <2>4
    <2> QED
      BY <1>7, <2>4, <2>5
  <1>9. found = f[N] /\ f[N] \in Seq(B)
    BY <1>1, <1>3 DEF f, N
  <1>10. DOMAIN found = 1 .. Len(found) /\ Len(found) = c(N)
    BY <1>8, <1>9
  <1>11. \A i \in S : c(i) \in DOMAIN found /\ found[c(i)] = DetectionOf(raw[i])
    BY <1>1, <1>6, <1>8, <1>9, <1>10
  <1> QED
    BY <1>2, <1>10, <1>11 DEF c, S, Count

\* An edge of a box is where the model saw it, to within the rounding of one
\* division, or on the border of the frame.
LEMMA EdgeIsClose ==
    ASSUME NEW b \in Int, NEW size \in Nat \ {0}, NEW d, d = Quotient(Clip(b, size), size)
    PROVE  /\ d \in Nat
           /\ \/ d = 0 /\ b <= 0
              \/ d = One /\ b >= size * One
              \/ /\ 2 * (d * size - b) <= Ulp[d] * size
                 /\ 2 * (b - d * size) <= Ulp[d] * size
  <1> USE FloatAssumption, DetectionAssumption
  <1>1. CASE b < 0
    <2>1. d = Nearest(0, size)
      BY <1>1 DEF Clip, Quotient
    <2> QED
      BY <1>1, <2>1, WholesAreExact
  <1>2. CASE b > size * One
    <2>1. size * One \in Nat
      OBVIOUS
    <2>2. d = Nearest(size * One, size)
      BY <1>2, <2>1 DEF Clip, Quotient
    <2>3. d = One
      BY <2>2, WholesAreExact
    <2> QED
      BY <1>2, <2>1, <2>3
  <1>3. CASE ~(b < 0) /\ ~(b > size * One)
    <2>1. b \in Nat /\ d = Nearest(b, size)
      BY <1>3 DEF Clip, Quotient
    <2> DEFINE u == Ulp[b \div size]
               v == Ulp[d]
    <2>2. /\ d \in Nat /\ u \in Nat /\ v \in Nat
          /\ 2 * (d * size - b) =< u * size /\ 2 * (b - d * size) =< u * size
          /\ u =< v
      BY <2>1, Rounding
    <2> HIDE DEF u, v
    <2>3. u * size =< v * size
      BY <2>2, Products
    <2>4. u * size \in Nat /\ v * size \in Nat /\ d * size \in Nat
      BY <2>2
    <2>5. /\ 2 * (d * size - b) <= v * size
          /\ 2 * (b - d * size) <= v * size
      BY <2>2, <2>3, <2>4
    <2> QED
      BY <2>2, <2>5 DEF v
  <1> QED
    BY <1>1, <1>2, <1>3

\* What infer makes of a frame shows it.
LEMMA ResultsShowTheFrame ==
    ASSUME event \in Results
    PROVE  EventShowsTheFrame
  <1> USE FloatAssumption, DetectionAssumption
  <1>1. PICK raw \in Raws : /\ event = [raw |-> raw, detections |-> Convert(raw)]
                            /\ Convert(raw) # Refused
    BY DEF Results
  <1> DEFINE found == Found(raw)[Len(raw)]
  <1>2. /\ raw \in Seq(Rows) /\ \A i \in DOMAIN raw : RowAccepted(raw[i])
        /\ event.raw = raw /\ event.detections = found
        /\ \A j \in DOMAIN found : Contract(found[j])
    <2> HIDE DEF found
    <2>1. WellFormed(raw) /\ \A i \in DOMAIN raw : RowAccepted(raw[i])
      BY <1>1 DEF Convert
    <2>2. Convert(raw) = IF \A j \in DOMAIN found : Contract(found[j]) THEN found ELSE Refused
      BY <2>1 DEF Convert, found
    <2>3. raw \in Seq(Rows)
      BY <2>1, FrameAssumption DEF WellFormed
    <2> QED
      BY <1>1, <2>1, <2>2, <2>3
  <1> DEFINE S        == Shown(raw)
             place(i) == Cardinality(S \cap 1 .. i)
  <1>3. /\ Len(found) = Cardinality(S)
        /\ \A i \in S : place(i) \in DOMAIN found /\ found[place(i)] = DetectionOf(raw[i])
    <2> HIDE DEF found
    <2> QED
      BY <1>2, FoundInOrder DEF found
  <1> HIDE DEF found
  <1>4. ASSUME NEW i \in S
        PROVE  LET d == found[place(i)].box  b == raw[i].box IN
                 /\ 0 <= d[1] /\ d[1] < d[3] /\ d[3] <= One
                 /\ 0 <= d[2] /\ d[2] < d[4] /\ d[4] <= One
                 /\ \A k \in 1 .. 4 :
                      \/ d[k] = 0 /\ b[k] <= 0
                      \/ d[k] = One /\ b[k] >= Size[k] * One
                      \/ /\ 2 * (d[k] * Size[k] - b[k]) <= Ulp[d[k]] * Size[k]
                         /\ 2 * (b[k] - d[k] * Size[k]) <= Ulp[d[k]] * Size[k]
    <2> DEFINE d == found[place(i)].box
               b == raw[i].box
    <2>1. i \in DOMAIN raw /\ raw[i] \in Rows
      BY <1>2 DEF Shown
    <2>2. \A k \in 1 .. 4 : b[k] \in Int
      BY <1>2, <2>1 DEF Rows, Numbers, RowAccepted, BoxAccepted
    <2>3. found[place(i)] = DetectionOf(raw[i]) /\ Contract(found[place(i)])
      <3> HIDE DEF S, place
      <3> QED
        BY <1>2, <1>3
    <2>4. d = Normalize(b)
      <3> HIDE DEF place
      <3> QED
        BY <2>3 DEF DetectionOf
    <2>5. /\ 0 <= d[1] /\ d[1] < d[3] /\ d[3] <= One
          /\ 0 <= d[2] /\ d[2] < d[4] /\ d[4] <= One
      <3> HIDE DEF place
      <3> QED
        BY <2>3 DEF Contract, Ordered
    <2>6. ASSUME NEW k \in 1 .. 4
          PROVE  \/ d[k] = 0 /\ b[k] <= 0
                 \/ d[k] = One /\ b[k] >= Size[k] * One
                 \/ /\ 2 * (d[k] * Size[k] - b[k]) <= Ulp[d[k]] * Size[k]
                    /\ 2 * (b[k] - d[k] * Size[k]) <= Ulp[d[k]] * Size[k]
      <3> HIDE DEF d, b
      <3>1. Size[k] \in Nat \ {0}
        BY DEF Size
      <3>2. d[k] = Quotient(Clip(b[k], Size[k]), Size[k])
        BY <2>4 DEF Normalize, Clipped
      <3> QED
        BY <2>2, <3>1, <3>2, EdgeIsClose
    <2> QED
      BY <2>5, <2>6
  <1>5. S = {i \in DOMAIN event.raw : AboveThreshold(event.raw[i])}
    BY <1>2 DEF Shown
  <1> DEFINE shown == {i \in DOMAIN event.raw : AboveThreshold(event.raw[i])}
             spot(i) == Cardinality(shown \cap 1 .. i)
  <1>6. Len(event.detections) = Cardinality(shown)
    BY <1>2, <1>3, <1>5
  <1>7. \A i \in DOMAIN event.raw : RowAccepted(event.raw[i])
    BY <1>2
  <1>8. ASSUME NEW i \in shown
        PROVE  LET d == event.detections[spot(i)].box  b == event.raw[i].box IN
                 /\ 0 <= d[1] /\ d[1] < d[3] /\ d[3] <= One
                 /\ 0 <= d[2] /\ d[2] < d[4] /\ d[4] <= One
                 /\ \A k \in 1 .. 4 :
                      \/ d[k] = 0 /\ b[k] <= 0
                      \/ d[k] = One /\ b[k] >= Size[k] * One
                      \/ /\ 2 * (d[k] * Size[k] - b[k]) <= Ulp[d[k]] * Size[k]
                         /\ 2 * (b[k] - d[k] * Size[k]) <= Ulp[d[k]] * Size[k]
    <2>1. i \in S /\ spot(i) = place(i)
      BY <1>5
    <2> HIDE DEF S, shown, place, spot
    <2> QED
      BY <1>2, <1>4, <2>1
  <1>9. ASSUME NEW i \in shown
        PROVE  LET d == event.detections[spot(i)]  row == event.raw[i] IN
                 d.confidence = row.confidence /\ d.class = row.class /\ d.track = row.track
    <2>1. i \in S /\ spot(i) = place(i)
      BY <1>5
    <2> HIDE DEF S, shown, place, spot
    <2>2. event.detections[spot(i)] = DetectionOf(event.raw[i])
      BY <1>2, <1>3, <2>1
    <2> QED
      BY <2>2 DEF DetectionOf
  <1> HIDE DEF S, place
  <1> QED
    BY <1>6, <1>7, <1>8, <1>9 DEF EventShowsTheFrame
-----------------------------------------------------------------------------

\* The time of a frame is its exact time, rounded; the clock returns floats.
Timed(c) == /\ c.time \in Nat /\ c.num \in Nat
            /\ c.den = IF media.fps = None THEN 1 ELSE media.fps
            /\ c.time = Quotient(c.num, c.den) \/ (c.den = 1 /\ c.time = c.num)

\* A time that is rounded is within half its unit of the exact one; and when it
\* is no earlier than a float f, the exact time is no earlier than f by more
\* than half the unit of f.
LEMMA TimeIsClose ==
    ASSUME NEW c, c.time \in Nat, c.num \in Nat, c.den \in Nat \ {0},
           c.time = Quotient(c.num, c.den) \/ (c.den = 1 /\ c.time = c.num)
    PROVE  /\ 2 * (c.num - c.time * c.den) =< Ulp[c.time] * c.den
           /\ 2 * (c.time * c.den - c.num) =< Ulp[c.time] * c.den
           /\ \A f \in Nat : c.time >= f => 2 * (f * c.den - c.num) =< Ulp[f] * c.den
  <1> DEFINE x == c.time
             n == c.num
             d == c.den
  <1>1. x \in Nat /\ n \in Nat /\ d \in Nat \ {0}
    OBVIOUS
  <1>2. \A f \in Nat : Ulp[f] \in Nat /\ Ulp[f] * d \in Nat
    <2> SUFFICES ASSUME NEW f \in Nat
                 PROVE  Ulp[f] \in Nat /\ Ulp[f] * d \in Nat
      OBVIOUS
    <2>1. Ulp[f] \in Nat
      BY UlpType
    <2> HIDE DEF d
    <2> QED
      BY <1>1, <2>1
  <1>3. CASE d = 1 /\ x = n
    <2> HIDE DEF x, n, d
    <2>1. x * d = n
      BY <1>1, <1>3
    <2>2. \A f \in Nat : f * d = f
      BY <1>3
    <2>3. 2 * (n - x * d) =< Ulp[x] * d /\ 2 * (x * d - n) =< Ulp[x] * d
      BY <1>1, <1>2, <2>1
    <2>4. \A f \in Nat : x >= f => 2 * (f * d - n) =< Ulp[f] * d
      BY <1>1, <1>2, <1>3, <2>2
    <2> QED
      BY <2>3, <2>4 DEF x, n, d
  <1>4. CASE x = Nearest(n, d)
    <2> DEFINE q == n \div d
               u == Ulp[q]
    <2>1. /\ u \in Nat /\ u =< Ulp[x]
          /\ 2 * (x * d - n) =< u * d /\ 2 * (n - x * d) =< u * d
      <3> HIDE DEF x, n, d
      <3> QED
        BY <1>1, <1>4, Rounding
    <2>2. q \in Nat /\ q * d =< n
      <3> HIDE DEF x, n, d
      <3> QED
        BY <1>1
    <2> HIDE DEF u, q, x, n, d
    <2>3. u * d =< Ulp[x] * d /\ u * d \in Nat /\ x * d \in Nat
      BY <1>1, <1>2, <2>1, Products
    <2>4. 2 * (n - x * d) =< Ulp[x] * d /\ 2 * (x * d - n) =< Ulp[x] * d
      BY <1>1, <1>2, <2>1, <2>3
    <2>5. ASSUME NEW f \in Nat, x >= f
          PROVE  2 * (f * d - n) =< Ulp[f] * d
      <3>1. f * d \in Nat /\ f * d =< x * d
        BY <1>1, <2>5, Products
      <3>2. CASE u =< Ulp[f]
        <4>1. u * d =< Ulp[f] * d
          BY <1>1, <1>2, <2>1, <3>2, Products
        <4> QED
          BY <1>1, <1>2, <2>1, <2>3, <3>1, <4>1
      <3>3. CASE ~(u =< Ulp[f])
        <4>1. f =< q
          <5>1. q =< f => u =< Ulp[f]
            BY <2>2, UlpMonotone DEF u
          <5> QED
            BY <2>2, <3>3, <5>1
        <4>2. f * d =< q * d
          BY <1>1, <2>2, <4>1, Products
        <4>3. q * d \in Nat
          BY <1>1, <2>2
        <4> QED
          BY <1>1, <1>2, <2>2, <3>1, <4>2, <4>3
      <3> QED
        BY <3>2, <3>3
    <2> QED
      BY <2>4, <2>5 DEF x, n, d
  <1> QED
    BY <1>3, <1>4 DEF Quotient

\* The float after an interval is within half its unit of the sum, and no term
\* of the sum has a larger unit.
LEMMA SumIsClose ==
    ASSUME NEW y \in Nat, NEW i \in Nat
    PROVE  /\ Plus(y, i) \in Nat /\ Ulp[Plus(y, i)] \in Nat
           /\ 2 * (Plus(y, i) - (y + i)) =< Ulp[Plus(y, i)]
           /\ 2 * ((y + i) - Plus(y, i)) =< Ulp[Plus(y, i)]
           /\ Ulp[y] =< Ulp[Plus(y, i)] /\ Ulp[i] =< Ulp[Plus(y, i)]
  <1> DEFINE s == y + i
             p == Plus(y, i)
             u == Ulp[s \div 1]
             v == Ulp[p]
  <1>1. s \in Nat /\ s \div 1 = s /\ p = Nearest(s, 1)
    BY DEF Plus
  <1>2. /\ p \in Nat /\ u \in Nat /\ v \in Nat /\ u =< v
        /\ 2 * (p * 1 - s) =< u * 1 /\ 2 * (s - p * 1) =< u * 1
    <2> HIDE DEF s, p
    <2>1. /\ Nearest(s, 1) \in Nat /\ u \in Nat /\ Ulp[Nearest(s, 1)] \in Nat
          /\ u =< Ulp[Nearest(s, 1)]
          /\ 2 * (Nearest(s, 1) * 1 - s) =< u * 1 /\ 2 * (s - Nearest(s, 1) * 1) =< u * 1
      BY <1>1, Rounding, 1 \in Nat \ {0}
    <2> QED
      BY <1>1, <2>1
  <1>3. Ulp[y] =< Ulp[s] /\ Ulp[i] =< Ulp[s]
    BY <1>1, UlpMonotone
  <1>4. Ulp[y] \in Nat /\ Ulp[i] \in Nat /\ u = Ulp[s]
    BY <1>1, UlpType
  <1> HIDE DEF p, u, v
  <1> QED
    BY <1>1, <1>2, <1>3, <1>4 DEF p, v

\* What the rounding of two times, the interval and their sum amounts to.
LEMMA RoundingsAddUp ==
    ASSUME NEW n \in Nat, NEW m \in Nat, NEW d \in Nat \ {0}, NEW r \in Nat \ {0},
           NEW y \in Nat, NEW i \in Nat, NEW f \in Nat, NEW u \in Nat, NEW e \in Nat,
           2 * (f - (y + i)) =< u, 2 * ((y + i) - f) =< u,
           2 * (m - y * d) =< u * d, 2 * (y * d - m) =< u * d,
           2 * (e - i * r) =< u * r, 2 * (i * r - e) =< u * r
    PROVE  /\ 2 * (f * d - n) =< u * d
                 => (n - m) * r + 2 * u * d * r >= e * d
           /\ 2 * (n - f * d) < u * d
                 => (n - m) * r < e * d + 2 * u * d * r
  <1> DEFINE ud == u * d
             yd == y * d
             id == i * d
             fd == f * d
  <1>1. ud \in Nat /\ yd \in Nat /\ id \in Nat /\ fd \in Nat
    OBVIOUS
  <1>2. 2 * (fd - (yd + id)) =< ud /\ 2 * ((yd + id) - fd) =< ud
    <2>1. /\ (2 * (f - (y + i))) * d =< u * d /\ (2 * ((y + i) - f)) * d =< u * d
      <3>1. 2 * (f - (y + i)) \in Int /\ 2 * ((y + i) - f) \in Int
        OBVIOUS
      <3> QED
        BY <3>1, Products
    <2>2. /\ (2 * (f - (y + i))) * d = 2 * (fd - (yd + id))
          /\ (2 * ((y + i) - f)) * d = 2 * ((yd + id) - fd)
      OBVIOUS
    <2> QED
      BY <2>1, <2>2
  <1>3. 2 * (m - yd) =< ud /\ 2 * (yd - m) =< ud
    OBVIOUS
  <1> DEFINE udr == ud * r
             idr == id * r
             od  == e * d
             nm  == (n - m) * r
  <1>4. udr \in Nat /\ idr \in Nat /\ od \in Nat /\ nm \in Int
    OBVIOUS
  <1>5. 2 * (od - idr) =< udr /\ 2 * (idr - od) =< udr
    <2>1. /\ (2 * (e - i * r)) * d =< (u * r) * d
          /\ (2 * (i * r - e)) * d =< (u * r) * d
      <3>1. 2 * (e - i * r) \in Int /\ 2 * (i * r - e) \in Int /\ u * r \in Int
        OBVIOUS
      <3> QED
        BY <3>1, Products
    <2>2. /\ (2 * (e - i * r)) * d = 2 * (od - idr)
          /\ (2 * (i * r - e)) * d = 2 * (idr - od)
          /\ (u * r) * d = udr
      OBVIOUS
    <2> QED
      BY <2>1, <2>2
  <1> HIDE DEF ud, yd, id, fd
  <1>6. ASSUME 2 * (fd - n) =< ud
        PROVE  nm + 2 * udr >= od
    <2>1. 2 * id =< 2 * (n - m) + 3 * ud
      BY <1>1, <1>2, <1>3, <1>6
    <2>2. (2 * id) * r =< (2 * (n - m) + 3 * ud) * r
      <3>1. 2 * id \in Int /\ 2 * (n - m) + 3 * ud \in Int
        BY <1>1
      <3> QED
        BY <2>1, <3>1, Products
    <2>3. (2 * id) * r = 2 * idr /\ (2 * (n - m) + 3 * ud) * r = 2 * nm + 3 * udr
      BY <1>1
    <2> HIDE DEF udr, idr, od, nm
    <2> QED
      BY <1>4, <1>5, <2>2, <2>3
  <1>7. ASSUME 2 * (n - fd) < ud
        PROVE  nm < od + 2 * udr
    <2>1. 2 * (n - m) < 2 * id + 3 * ud
      BY <1>1, <1>2, <1>3, <1>7
    <2>2. (2 * (n - m)) * r < (2 * id + 3 * ud) * r
      <3>1. 2 * (n - m) \in Int /\ 2 * id + 3 * ud \in Int
        BY <1>1
      <3> QED
        BY <2>1, <3>1, Products
    <2>3. (2 * (n - m)) * r = 2 * nm /\ (2 * id + 3 * ud) * r = 2 * idr + 3 * udr
      BY <1>1
    <2> HIDE DEF udr, idr, od, nm
    <2> QED
      BY <1>4, <1>5, <2>2, <2>3
  <1>8. 2 * u * d * r = 2 * udr
    BY DEF ud
  <1> QED
    BY <1>6, <1>7, <1>8 DEF ud, fd
-----------------------------------------------------------------------------
Names == [seq : Nat, id : Nat, nonce : Nat]

\* What the pipeline remembers is what it has spent: as many numbers as events,
\* and every identifier and nonce.
NamesAreSpent ==
    /\ names \in Seq(Names)
    /\ issued.seq = Len(names)
    /\ \A i \in DOMAIN names : names[i].id \in issued.ids /\ names[i].nonce \in issued.nonces
    /\ EventsAreNamedOnce

\* The frames and picks of the run are counted, none being lost on the way from
\* the source to the sink; a run under way has no outcome.
FramesAreCounted ==
    /\ pc \in {"idle", "read", "sample", "process", "deliver"}
    /\ pc # "idle" => outcome = None
    /\ seen = [frames |-> seen.frames, picks |-> seen.picks, picked |-> seen.picked]
    /\ seen.frames \in Nat /\ seen.picks \in Nat /\ emitted \in Nat
    /\ index = seen.frames
    /\ pc \in {"read", "sample"} => emitted = seen.picks
    /\ pc \in {"process", "deliver"} => emitted + 1 = seen.picks

\* The frame in hand and the last one picked have the times the source gave
\* them, and the gate opens one interval after the latter.
TimesAreRated ==
    /\ rate \in Rates
    /\ pc # "idle" => media \in Media
    /\ pc = "sample" => Timed(captured)
    /\ pc # "idle" /\ seen.picked # None =>
          Timed(seen.picked) /\ gate.next = Plus(seen.picked.time, Interval)

\* The event in hand is what infer made of a frame.
EventIsAResult == event # None => event \in Results

\* The inductive invariant, in two parts.
Accounts == NamesAreSpent /\ FramesAreCounted /\ CleanEndIsComplete
PInv == Accounts /\ TimesAreRated /\ EventIsAResult
-----------------------------------------------------------------------------
\* A pipeline that has issued nothing has nothing to account for.
LEMMA InitHolds == Init => PInv
  <1> USE FrameAssumption
  <1> SUFFICES ASSUME Init
               PROVE  PInv
    OBVIOUS
  <1>1. names = <<>> /\ issued.seq = 0
    BY DEF Init
  <1>2. <<>> \in Seq(Names) /\ Len(<<>>) = 0 /\ DOMAIN <<>> = {}
    OBVIOUS
  <1>3. NamesAreSpent
    BY <1>1, <1>2 DEF NamesAreSpent, EventsAreNamedOnce
  <1>4. FramesAreCounted /\ CleanEndIsComplete
    BY DEF Init, FramesAreCounted, CleanEndIsComplete
  <1>5. TimesAreRated /\ EventIsAResult
    BY DEF Init, TimesAreRated, EventIsAResult
  <1> QED
    BY <1>3, <1>4, <1>5 DEF PInv, Accounts

\* An event takes names that no event before it has.
LEMMA ProcessKeepsNames ==
    ASSUME NamesAreSpent, Process
    PROVE  NamesAreSpent'
  <1> DEFINE n == Len(names)
  <1>1. PICK id \in Identifiers, nonce \in Identifiers :
           /\ id \notin issued.ids /\ nonce \notin issued.nonces
           /\ Remember(id, nonce)
           /\ names' = Append(names, [seq |-> issued.seq, id |-> id, nonce |-> nonce])
    BY DEF Process
  <1>2. n \in Nat /\ issued.seq = n /\ DOMAIN names = 1 .. n
    BY DEF NamesAreSpent
  <1> DEFINE name == [seq |-> n, id |-> id, nonce |-> nonce]
  <1>3. /\ name \in Names /\ name.seq = n /\ name.id = id /\ name.nonce = nonce
    BY <1>1, <1>2 DEF Names, Identifiers
  <1>4. names' = Append(names, name)
    BY <1>1, <1>2
  <1> HIDE DEF name
  <1>5. /\ names' \in Seq(Names) /\ Len(names') = n + 1 /\ DOMAIN names' = 1 .. n + 1
        /\ \A i \in 1 .. n : names'[i] = names[i]
        /\ names'[n + 1] = name
    BY <1>2, <1>3, <1>4, AppendProperties DEF NamesAreSpent
  <1>6. /\ issued'.seq = n + 1
        /\ issued'.ids = issued.ids \cup {id} /\ issued'.nonces = issued.nonces \cup {nonce}
    BY <1>1, <1>2 DEF Remember
  <1>7. \A i \in 1 .. n + 1 : i \in 1 .. n \/ i = n + 1
    BY <1>2
  <1>8. \A i \in 1 .. n : /\ names[i].id \in issued.ids /\ names[i].nonce \in issued.nonces
                          /\ names[i].id # id /\ names[i].nonce # nonce
    BY <1>1, <1>2 DEF NamesAreSpent
  <1>9. \A i \in DOMAIN names' : names'[i].id \in issued'.ids /\ names'[i].nonce \in issued'.nonces
    BY <1>3, <1>5, <1>6, <1>7, <1>8
  <1>10. EventsAreNamedOnce'
    <2>1. ASSUME NEW i \in 1 .. n
          PROVE  /\ names'[i].seq = i - 1
                 /\ \A j \in 1 .. i - 1 : /\ names'[i].id # names'[j].id
                                          /\ names'[i].nonce # names'[j].nonce
      <3>1. \A j \in 1 .. i - 1 : j \in 1 .. n
        BY <1>2
      <3>2. names'[i] = names[i] /\ \A j \in 1 .. i - 1 : names'[j] = names[j]
        BY <1>5, <3>1
      <3> QED
        BY <1>2, <3>1, <3>2 DEF NamesAreSpent, EventsAreNamedOnce
    <2>2. /\ names'[n + 1].seq = (n + 1) - 1
          /\ \A j \in 1 .. (n + 1) - 1 : /\ names'[n + 1].id # names'[j].id
                                         /\ names'[n + 1].nonce # names'[j].nonce
      <3>1. (n + 1) - 1 = n
        BY <1>2
      <3> QED
        BY <1>3, <1>5, <1>8, <3>1
    <2> QED
      BY <1>5, <1>7, <2>1, <2>2 DEF EventsAreNamedOnce
  <1> QED
    BY <1>2, <1>5, <1>6, <1>9, <1>10 DEF NamesAreSpent

\* Nothing else names an event.
LEMMA NamesStaySpent ==
    ASSUME NamesAreSpent, UNCHANGED <<names, issued>>
    PROVE  NamesAreSpent'
  BY DEF NamesAreSpent, EventsAreNamedOnce

\* A run ends with an error, or as if nothing was wrong with it.
LEMMA EndKeepsFrames ==
    ASSUME FramesAreCounted, NEW o, End(o), UNCHANGED <<media, index, seen>>, emitted' \in Nat,
           o = "eof" => /\ pc = "read" /\ emitted' = emitted
                        /\ ~media.camera /\ Complete
    PROVE  FramesAreCounted' /\ CleanEndIsComplete'
  <1> USE FrameAssumption
  <1>1. pc' = "idle" /\ outcome' \in {o, "error"}
    BY DEF End
  <1>2. FramesAreCounted'
    BY <1>1 DEF FramesAreCounted
  <1>3. CleanEndIsComplete'
    BY <1>1 DEF FramesAreCounted, CleanEndIsComplete, Complete
  <1> QED
    BY <1>2, <1>3

\* Every step keeps the accounts.
LEMMA NextKeepsAccounts ==
    ASSUME Accounts, [Next]_vars
    PROVE  Accounts'
  <1> USE FrameAssumption
  <1> USE DEF Accounts
  <1>1. CASE Process
    <2>1. FramesAreCounted'
      BY <1>1 DEF Process, Running, FramesAreCounted
    <2>2. CleanEndIsComplete'
      BY <1>1 DEF Process, Running, FramesAreCounted, CleanEndIsComplete
    <2> QED
      BY <1>1, <2>1, <2>2, ProcessKeepsNames
  <1>2. CASE Open
    <2>1. FramesAreCounted' /\ CleanEndIsComplete'
      BY <1>2 DEF Open, StartIndex, FramesAreCounted, CleanEndIsComplete
    <2> QED
      BY <1>2, <2>1, NamesStaySpent DEF Open
  <1>3. CASE ReadNothing
    <2>1. FramesAreCounted' /\ CleanEndIsComplete'
      BY <1>3, EndKeepsFrames DEF ReadNothing, FramesAreCounted
    <2> QED
      BY <1>3, <2>1, NamesStaySpent DEF ReadNothing
  <1>4. CASE ReadFrame
    <2>1. FramesAreCounted'
      BY <1>4 DEF ReadFrame, Running, FramesAreCounted
    <2>2. CleanEndIsComplete'
      BY <1>4 DEF ReadFrame, Running, FramesAreCounted, CleanEndIsComplete
    <2> QED
      BY <1>4, <2>1, <2>2, NamesStaySpent DEF ReadFrame
  <1>5. CASE Sample
    <2>1. FramesAreCounted' /\ CleanEndIsComplete'
      <3>1. CASE End("error") /\ UNCHANGED <<gate, seen>>
        BY <1>5, <3>1, EndKeepsFrames DEF Sample, FramesAreCounted
      <3>2. CASE seen' = seen /\ pc' = "read" /\ Running
        BY <1>5, <3>2 DEF Sample, Running, FramesAreCounted, CleanEndIsComplete
      <3>3. CASE /\ seen' = [seen EXCEPT !.picks = @ + 1, !.picked = captured]
                 /\ pc' = "process" /\ Running
        <4>1. /\ seen'.frames = seen.frames /\ seen'.picks = seen.picks + 1
              /\ seen' = [frames |-> seen'.frames, picks |-> seen'.picks, picked |-> seen'.picked]
          BY <3>3 DEF FramesAreCounted
        <4>2. /\ pc = "sample" /\ index' = index /\ emitted' = emitted /\ outcome' = None
              /\ pc' = "process"
          BY <1>5, <3>3 DEF Sample, Running, FramesAreCounted
        <4>3. FramesAreCounted'
          BY <4>1, <4>2 DEF FramesAreCounted
        <4> QED
          BY <4>2, <4>3 DEF CleanEndIsComplete
      <3> QED
        BY <1>5, <3>1, <3>2, <3>3 DEF Sample
    <2> QED
      BY <1>5, <2>1, NamesStaySpent DEF Sample
  <1>6. CASE ProcessFails \/ Raises
    <2>1. /\ End("error") /\ UNCHANGED <<media, index, seen, emitted, names, issued>>
      BY <1>6 DEF ProcessFails, Raises
    <2>2. FramesAreCounted' /\ CleanEndIsComplete'
      BY <2>1, EndKeepsFrames DEF FramesAreCounted
    <2> QED
      BY <2>1, <2>2, NamesStaySpent
  <1>7. CASE Deliver
    <2>1. FramesAreCounted' /\ CleanEndIsComplete'
      <3>1. CASE End("limit")
        BY <1>7, <3>1, EndKeepsFrames DEF Deliver, FramesAreCounted
      <3>2. CASE pc' = "read" /\ Running
        BY <1>7, <3>2 DEF Deliver, Running, FramesAreCounted, CleanEndIsComplete
      <3> QED
        BY <1>7, <3>1, <3>2 DEF Deliver
    <2> QED
      BY <1>7, <2>1, NamesStaySpent DEF Deliver
  <1>8. CASE UNCHANGED vars
    BY <1>8, NamesStaySpent DEF vars, FramesAreCounted, CleanEndIsComplete, Complete
  <1> QED
    BY <1>1, <1>2, <1>3, <1>4, <1>5, <1>6, <1>7, <1>8 DEF Next
\* A frame is timed when it is read.
LEMMA ReadFrameTimes ==
    ASSUME ReadFrame, media \in Media, index \in Nat
    PROVE  Timed(captured)'
  <1> USE FrameAssumption
  <1>1. media' = media
    BY DEF ReadFrame
  <1>2. CASE media.fps = None
    <2>1. PICK t \in Readings : captured' = [time |-> t, num |-> t, den |-> 1]
      BY <1>2 DEF ReadFrame
    <2> QED
      BY <1>1, <1>2, <2>1 DEF Timed
  <1>3. CASE media.fps # None
    <2> DEFINE n == index * One * One
               t == Ratio(index * One, media.fps)
    <2>1. captured' = [time |-> t, num |-> n, den |-> media.fps]
      BY <1>3 DEF ReadFrame
    <2>2. n \in Nat /\ media.fps \in Nat \ {0}
      BY <1>3, FloatAssumption
    <2>3. t = Nearest(n, media.fps)
      BY DEF Ratio
    <2>4. t \in Nat
      <3> HIDE DEF n, t
      <3> QED
        BY <2>2, <2>3, Rounding
    <2> HIDE DEF t, n
    <2>5. /\ captured'.time = t /\ captured'.num = n /\ captured'.den = media.fps
      BY <2>1
    <2> QED
      BY <1>1, <1>3, <2>2, <2>3, <2>4, <2>5 DEF Timed, Quotient
  <1> QED
    BY <1>2, <1>3

\* Every step keeps the times of the run and the origin of the event.
LEMMA NextKeepsTimes ==
    ASSUME PInv, [Next]_vars
    PROVE  TimesAreRated' /\ EventIsAResult'
  <1> USE FrameAssumption DEF PInv
  <1>1. CASE Open
    BY <1>1 DEF Open, TimesAreRated, EventIsAResult
  <1>2. CASE ReadFrame
    <2>1. pc = "read" /\ pc' = "sample" /\ UNCHANGED <<rate, media, gate, event>>
          /\ seen'.picked = seen.picked
      BY <1>2 DEF ReadFrame, Accounts, FramesAreCounted
    <2>2. Timed(captured)'
      BY <1>2, <2>1, ReadFrameTimes DEF TimesAreRated, Accounts, FramesAreCounted
    <2>3. seen.picked # None => Timed(seen.picked)' /\ gate'.next = Plus(seen'.picked.time, Interval')
      BY <2>1 DEF TimesAreRated, Timed, Interval
    <2> QED
      BY <2>1, <2>2, <2>3 DEF TimesAreRated, EventIsAResult
  <1>3. CASE Sample
    <2>1. pc = "sample" /\ UNCHANGED <<rate, media>> /\ Interval' = Interval
      BY <1>3 DEF Sample, Interval
    <2>2. CASE End("error")
      BY <2>1, <2>2 DEF End, TimesAreRated, EventIsAResult
    <2>3. CASE gate' = GateAfter(captured.time, Picks(captured.time)) /\ Picks(captured.time)
               /\ seen' = [seen EXCEPT !.picks = @ + 1, !.picked = captured]
               /\ pc' = "process" /\ UNCHANGED event
      <3>1. seen'.picked = captured
        BY <2>3 DEF Accounts, FramesAreCounted
      <3>2. gate'.next = Plus(captured.time, Interval)
        BY <2>3 DEF GateAfter
      <3>3. Timed(seen.picked)'
        BY <2>1, <3>1 DEF TimesAreRated, Timed
      <3> QED
        BY <2>1, <2>3, <3>1, <3>2, <3>3 DEF TimesAreRated, EventIsAResult
    <2>4. CASE gate' = GateAfter(captured.time, Picks(captured.time)) /\ ~Picks(captured.time)
               /\ seen' = seen /\ pc' = "read" /\ UNCHANGED event
      <3>1. gate'.next = gate.next
        BY <2>4 DEF GateAfter
      <3> QED
        BY <2>1, <2>4, <3>1 DEF TimesAreRated, Timed, EventIsAResult
    <2> QED
      BY <1>3, <2>2, <2>3, <2>4 DEF Sample
  <1>4. CASE Process
    <2>1. event' \in Results /\ Results' = Results
      BY <1>4 DEF Process, Results
    <2>2. UNCHANGED <<rate, media, gate, seen>> /\ pc = "process" /\ pc' = "deliver"
      BY <1>4 DEF Process
    <2> QED
      BY <2>1, <2>2 DEF TimesAreRated, Timed, Interval, EventIsAResult
  <1>5. CASE ReadNothing \/ ProcessFails \/ Raises
    BY <1>5 DEF ReadNothing, ProcessFails, Raises, End, TimesAreRated, EventIsAResult
  <1>6. CASE Deliver
    <2>1. pc = "deliver" /\ UNCHANGED <<rate, media, gate, seen>> /\ event' = None
          /\ pc' \in {"read", "idle"}
      BY <1>6 DEF Deliver, End
    <2> QED
      BY <2>1 DEF TimesAreRated, Timed, Interval, EventIsAResult
  <1>7. CASE UNCHANGED vars
    BY <1>7 DEF vars, TimesAreRated, Timed, Interval, EventIsAResult, Results
  <1> QED
    BY <1>1, <1>2, <1>3, <1>4, <1>5, <1>6, <1>7 DEF Next

\* Every step keeps the invariant.
LEMMA NextKeeps ==
    ASSUME PInv, [Next]_vars
    PROVE  PInv'
  BY NextKeepsAccounts, NextKeepsTimes DEF PInv

\* A frame that is picked is due, and one that is left out is not, but for the
\* rounding of two times, the interval and their sum.
LEMMA SampleKeepsTheRate ==
    ASSUME TimesAreRated, Sample, seen.picked # None
    PROVE  /\ pc' = "process" => GapScaled + SlackScaled >= PeriodScaled
           /\ pc' = "read"    => GapScaled < PeriodScaled + SlackScaled
  <1> USE FrameAssumption
  <1> DEFINE n == captured.num
             x == captured.time
             d == captured.den
             m == seen.picked.num
             y == seen.picked.time
             f == gate.next
             u == Ulp[f]
             i == Interval
             e == One * One
  <1>0. e \in Nat
    BY FloatAssumption
  <1>1. pc = "sample" /\ media \in Media /\ rate \in Nat \ {0}
    BY DEF Sample, TimesAreRated
  <1>2. Timed(captured) /\ Timed(seen.picked) /\ f = Plus(y, i)
    BY <1>1 DEF TimesAreRated
  <1>3. /\ n \in Nat /\ x \in Nat /\ d \in Nat \ {0} /\ m \in Nat /\ y \in Nat
        /\ seen.picked.den = d
    BY <1>1, <1>2 DEF Timed
  <1>4. /\ 2 * (n - x * d) =< Ulp[x] * d
        /\ \A g \in Nat : x >= g => 2 * (g * d - n) =< Ulp[g] * d
    BY <1>2, <1>3, TimeIsClose DEF Timed
  <1>5. 2 * (m - y * d) =< Ulp[y] * d /\ 2 * (y * d - m) =< Ulp[y] * d
    BY <1>2, <1>3, TimeIsClose DEF Timed
  <1> HIDE DEF n, x, d, m, y
  <1>6. /\ i \in Nat /\ Ulp[i] \in Nat
        /\ 2 * (i * rate - e) =< Ulp[i] * rate /\ 2 * (e - i * rate) =< Ulp[i] * rate
    <2> DEFINE w == Ulp[e \div rate]
    <2>1. e \in Nat
      BY <1>0
    <2>2. /\ i \in Nat /\ w \in Nat /\ Ulp[i] \in Nat /\ w =< Ulp[i]
          /\ 2 * (i * rate - e) =< w * rate /\ 2 * (e - i * rate) =< w * rate
      BY <1>1, <2>1, Rounding DEF Interval, Ratio
    <2> HIDE DEF w, i
    <2>3. w * rate =< Ulp[i] * rate
      <3>1. w \in Int /\ Ulp[i] \in Int
        BY <2>2
      <3>2. w =< Ulp[i] <=> w * rate =< Ulp[i] * rate
        BY <1>1, <3>1, Products
      <3> QED
        BY <2>2, <3>2
    <2> DEFINE ir == i * rate
               wr == w * rate
               v  == Ulp[i] * rate
    <2>4. /\ ir \in Int /\ wr \in Int /\ v \in Int /\ wr =< v
          /\ 2 * (ir - e) =< wr /\ 2 * (e - ir) =< wr
      BY <1>1, <2>2, <2>3
    <2> HIDE DEF ir, wr, v
    <2>5. 2 * (ir - e) =< v /\ 2 * (e - ir) =< v
      BY <2>1, <2>4
    <2> QED
      BY <2>2, <2>5 DEF ir, v
  <1> HIDE DEF i
  <1>7. /\ f \in Nat /\ u \in Nat /\ Ulp[y] =< u /\ Ulp[i] =< u
        /\ 2 * (f - (y + i)) =< u /\ 2 * ((y + i) - f) =< u
    <2> HIDE DEF f
    <2> QED
      BY <1>2, <1>3, <1>6, SumIsClose
  <1> HIDE DEF f, u, e
  <1>8. 2 * (m - y * d) =< u * d /\ 2 * (y * d - m) =< u * d
    <2>1. Ulp[y] \in Nat
      BY <1>3, UlpType
    <2>2. Ulp[y] * d =< u * d
      BY <1>3, <1>7, <2>1, Products
    <2>3. Ulp[y] * d \in Nat /\ u * d \in Nat /\ y * d \in Nat
      BY <1>3, <1>7, <2>1
    <2> DEFINE yd == y * d
               v  == Ulp[y] * d
               ud == u * d
    <2>4. /\ m \in Int /\ yd \in Int /\ v \in Int /\ ud \in Int /\ v =< ud
          /\ 2 * (m - yd) =< v /\ 2 * (yd - m) =< v
      <3>1. 2 * (m - yd) =< v /\ 2 * (yd - m) =< v
        BY <1>5
      <3> HIDE DEF yd, v, ud
      <3>2. yd \in Int /\ v \in Int /\ ud \in Int /\ v =< ud
        BY <2>2, <2>3 DEF yd, v, ud
      <3> QED
        BY <1>3, <3>1, <3>2
    <2> HIDE DEF yd, v, ud
    <2>5. 2 * (m - yd) =< ud /\ 2 * (yd - m) =< ud
      BY <2>4
    <2> QED
      BY <2>5 DEF yd, ud
  <1>9. 2 * (i * rate - e) =< u * rate /\ 2 * (e - i * rate) =< u * rate
    <2>1. Ulp[i] * rate =< u * rate
      BY <1>1, <1>6, <1>7, Products
    <2>2. Ulp[i] * rate \in Nat /\ u * rate \in Nat /\ i * rate \in Nat
      BY <1>1, <1>6, <1>7
    <2> DEFINE ir == i * rate
               v  == Ulp[i] * rate
               ur == u * rate
    <2>3. /\ e \in Int /\ ir \in Int /\ v \in Int /\ ur \in Int /\ v =< ur
          /\ 2 * (ir - e) =< v /\ 2 * (e - ir) =< v
      BY <1>6, <2>1, <2>2, <1>0
    <2> HIDE DEF ir, v, ur
    <2>4. 2 * (ir - e) =< ur /\ 2 * (e - ir) =< ur
      BY <2>3
    <2> QED
      BY <2>4 DEF ir, ur
  <1>10. /\ 2 * (f * d - n) =< u * d => (n - m) * rate + 2 * u * d * rate >= e * d
         /\ 2 * (n - f * d) < u * d  => (n - m) * rate < e * d + 2 * u * d * rate
    BY <1>0, <1>1, <1>3, <1>6, <1>7, <1>8, <1>9, RoundingsAddUp
  <1>11. /\ GapScaled = (n - m) * rate /\ PeriodScaled = e * d
         /\ SlackScaled = 2 * u * d * rate
    BY DEF GapScaled, PeriodScaled, SlackScaled, n, m, d, u, f, e
  <1>12. gate.next # None
    BY <1>7 DEF f
  <1>13. CASE pc' = "process"
    <2>1. x >= f
      BY <1>12, <1>13 DEF Sample, End, Picks, x, f
    <2>2. 2 * (f * d - n) =< u * d
      BY <1>4, <1>7, <2>1 DEF u
    <2> QED
      BY <1>10, <1>11, <1>13, <2>2
  <1>14. CASE pc' = "read"
    <2>1. ~(x >= f)
      BY <1>14 DEF Sample, End, Picks, x, f
    <2>2. Ulp[x] =< u /\ Ulp[x] \in Nat
      <3>1. x =< f
        BY <1>3, <1>7, <2>1
      <3>2. Ulp[x] =< Ulp[f]
        BY <1>3, <1>7, <3>1, UlpMonotone
      <3>3. Ulp[x] \in Nat
        BY <1>3, UlpType
      <3> QED
        BY <3>2, <3>3 DEF u
    <2>3. Ulp[x] * d =< u * d /\ x * d < f * d
      <3>1. Ulp[x] * d =< u * d
        BY <1>3, <1>7, <2>2, Products
      <3>2. x * d < f * d
        BY <1>3, <1>7, <2>1, Products
      <3> QED
        BY <3>1, <3>2
    <2>4. Ulp[x] * d \in Nat /\ u * d \in Nat /\ x * d \in Nat /\ f * d \in Nat
      BY <1>3, <1>7, <2>2
    <2>5. 2 * (n - f * d) < u * d
      BY <1>3, <1>4, <2>3, <2>4
    <2> QED
      BY <1>10, <1>11, <1>14, <2>5
  <1> QED
    BY <1>13, <1>14
-----------------------------------------------------------------------------
\* The invariant holds of every behaviour.
THEOREM PipelineInvariance == Spec => []PInv
  BY InitHolds, NextKeeps, PTL DEF Spec

\* The events of a pipeline are numbered without a gap and share no identifier
\* and no nonce, over all its runs.
THEOREM NamesAreUnique == Spec => []EventsAreNamedOnce
  <1>1. PInv => EventsAreNamedOnce
    BY DEF PInv, Accounts, NamesAreSpent
  <1> QED
    BY PipelineInvariance, <1>1, PTL

\* A run that ends as its media does has read every frame the file declares and
\* delivered every frame it picked.
THEOREM CleanEndsAreComplete == Spec => []CleanEndIsComplete
  <1>1. PInv => CleanEndIsComplete
    BY DEF PInv, Accounts
  <1> QED
    BY PipelineInvariance, <1>1, PTL

\* An event shows its frame: each row of the model that is confident enough, in
\* order and once, as the model rated and named it, in a box that is inside the
\* frame, not empty, and off by no more than the rounding of one division.
THEOREM EventsShowTheirFrames == Spec => []EventShowsTheFrame
  <1>1. PInv => EventShowsTheFrame
    <2>1. CASE event = None
      BY <2>1 DEF EventShowsTheFrame
    <2>2. CASE event # None
      BY <2>2, ResultsShowTheFrame DEF PInv, EventIsAResult
    <2> QED
      BY <2>1, <2>2
  <1> QED
    BY PipelineInvariance, <1>1, PTL

\* No two frames are delivered closer together than the rate allows, and none is
\* left out that the rate asks for, but for rounding; for every two positive floats
\* as frame rate and sample rate, whatever the precision and the clock's readings.
THEOREM RateIsKept == Spec => SamplingKeepsTheRate
  <1>1. ASSUME PInv, [Next]_vars, pc = "sample", seen.picked # None
        PROVE  /\ pc' = "process" => GapScaled + SlackScaled >= PeriodScaled
               /\ pc' = "read"    => GapScaled < PeriodScaled + SlackScaled
    <2>1. CASE Sample
      BY <1>1, <2>1, SampleKeepsTheRate DEF PInv
    <2>2. CASE Raises \/ UNCHANGED vars
      BY <1>1, <2>2 DEF Raises, End, vars
    <2> QED
      BY <1>1, <2>1, <2>2 DEF Next, Open, ReadNothing, ReadFrame, Process, ProcessFails, Deliver
  <1>2. PInv /\ [Next]_vars =>
          [pc = "sample" /\ seen.picked # None =>
             /\ pc' = "process" => GapScaled + SlackScaled >= PeriodScaled
             /\ pc' = "read"    => GapScaled < PeriodScaled + SlackScaled]_vars
    BY <1>1
  <1> QED
    BY PipelineInvariance, <1>2, PTL DEF Spec, SamplingKeepsTheRate
=============================================================================
