---------------------------- MODULE InductionFacts ----------------------------
(***************************************************************************)
(* What the recursive helpers of the models compute, for every argument:   *)
(* the total of a function of numbers (FoldFunction) and the concatenation *)
(* of a sequence of sequences (FlattenSeq), on which RangePipeline counts  *)
(* and collects the entries of the shards; the powers of two that sizes    *)
(* are rounded to; and the remainders by which a probe walks a table.      *)
(*                                                                         *)
(* Induction is stated for sets of numbers, which needs no operator as a   *)
(* parameter: what is to be proved of n is membership of n in a set.  That *)
(* a recursive definition has a solution is proved first, by extending a   *)
(* solution up to n to one up to n + 1.                                    *)
(***************************************************************************)
EXTENDS PowersOfTwo, SequencesExt, FiniteSetTheorems, SequenceTheorems, WellFoundedInduction, TLAPS

\* A set of natural numbers has a least element.
LEMMA LeastNatural ==
    ASSUME NEW T, T \subseteq Nat, T # {}
    PROVE  \E x \in T : \A y \in T : x <= y
<1>1. PICK x \in T : \A y \in T : ~(<<y, x>> \in OpToRel(<, Nat))
  BY NatLessThanWellFounded, WFMin
<1>2. \A y \in T : ~(y < x)
  BY <1>1 DEF OpToRel
<1>3. QED
  BY <1>2

\* A set with 0, and with n + 1 whenever it has n, has every number.
LEMMA SetInduction ==
    ASSUME NEW T, 0 \in T, \A n \in Nat : n \in T => n + 1 \in T
    PROVE  Nat \subseteq T
<1>1. SUFFICES ASSUME Nat \ T # {} PROVE FALSE
  OBVIOUS
<1>2. PICK x \in Nat \ T : \A y \in Nat \ T : x <= y
  BY <1>1, LeastNatural
<1>3. x # 0 /\ x - 1 \in Nat /\ ~(x <= x - 1)
  BY <1>2
<1>4. QED
  BY <1>2, <1>3
-------------------------------------------------------------------------------
\* f starts at c and goes from one value to the next by a given step, n times.
Recursion(f, S, c, step, n) ==
    f \in [0..n -> S] /\ f[0] = c /\ \A i \in 1..n : f[i] = step[<<i, f[i - 1]>>]

\* There is such an f.
LEMMA FiniteRecursion ==
    ASSUME NEW S, NEW c \in S, NEW n \in Nat, NEW step \in [Nat \X S -> S]
    PROVE  \E f : Recursion(f, S, c, step, n)
<1> DEFINE T == {k \in Nat : \E f : Recursion(f, S, c, step, k)}
<1>1. 0 \in T
  <2>1. Recursion([i \in 0..0 |-> c], S, c, step, 0)
    BY DEF Recursion
  <2>2. QED
    BY <2>1
<1>2. ASSUME NEW k \in Nat, k \in T PROVE k + 1 \in T
  <2>1. PICK f : Recursion(f, S, c, step, k)
    BY <1>2
  <2> DEFINE g == [i \in 0..(k + 1) |-> IF i = k + 1 THEN step[<<k + 1, f[k]>>] ELSE f[i]]
  <2>2. f[k] \in S /\ step[<<k + 1, f[k]>>] \in S
    BY <2>1 DEF Recursion
  <2>3. g \in [0..(k + 1) -> S] /\ g[0] = c
    BY <2>1, <2>2 DEF Recursion
  <2>4. ASSUME NEW i \in 1..(k + 1) PROVE g[i] = step[<<i, g[i - 1]>>]
    <3>1. CASE i = k + 1
      <4>1. i - 1 = k /\ k \in 0..(k + 1) /\ k # k + 1 /\ i \in 0..(k + 1)
        BY <3>1
      <4>2. g[k] = f[k] /\ g[i] = step[<<k + 1, f[k]>>]
        BY <3>1, <4>1
      <4>3. QED
        BY <3>1, <4>1, <4>2
    <3>2. CASE i # k + 1
      <4>1. i \in 1..k /\ g[i] = f[i] /\ g[i - 1] = f[i - 1]
        BY <3>2
      <4>2. QED
        BY <4>1, <2>1 DEF Recursion
    <3>3. QED
      BY <3>1, <3>2
  <2>5. Recursion(g, S, c, step, k + 1)
    BY <2>3, <2>4 DEF Recursion
  <2>6. QED
    BY <2>5
<1>3. n \in T
  <2> HIDE DEF T
  <2>1. QED
    BY <1>1, <1>2, SetInduction
<1>4. QED
  BY <1>3

\* 1 << i.
LEMMA PowerDef ==
    Power = [i \in Nat |-> IF i = 0 THEN 1 ELSE 2 * Power[i - 1]]
<1> DEFINE step == [x \in Nat \X Nat |-> 2 * x[2]]
           Solves(f, n) ==
             f \in [0..n -> Nat] /\ f[0] = 1 /\ \A i \in 1..n : f[i] = 2 * f[i - 1]
           F(n) == CHOOSE f : Solves(f, n)
           g == [n \in Nat |-> F(n)[n]]
           Right(f) == [i \in Nat |-> IF i = 0 THEN 1 ELSE 2 * f[i - 1]]
<1>1. ASSUME NEW n \in Nat PROVE Solves(F(n), n)
  <2>1. step \in [Nat \X Nat -> Nat] /\ 1 \in Nat
    OBVIOUS
  <2>2. PICK f : Recursion(f, Nat, 1, step, n)
    <3> HIDE DEF step
    <3>1. QED
      BY <2>1, FiniteRecursion
  <2>3. ASSUME NEW i \in 1..n PROVE f[i] = 2 * f[i - 1]
    <3>1. i \in Nat /\ f[i - 1] \in Nat /\ f[i] = step[<<i, f[i - 1]>>]
      BY <2>2 DEF Recursion
    <3>2. QED
      BY <3>1
  <2>4. Solves(f, n)
    BY <2>2, <2>3 DEF Recursion
  <2> HIDE DEF Solves
  <2>5. QED
    BY <2>4
<1>2. ASSUME NEW n \in Nat, NEW f, NEW h, Solves(f, n), Solves(h, n + 1)
      PROVE  f[n] = h[n]
  <2> DEFINE T == {i \in Nat : i <= n => f[i] = h[i]}
  <2>1. 0 \in T
    BY <1>2
  <2>2. ASSUME NEW i \in Nat, i \in T PROVE i + 1 \in T
    <3>1. SUFFICES ASSUME i + 1 <= n PROVE f[i + 1] = h[i + 1]
      OBVIOUS
    <3>2. i + 1 \in 1..n /\ i + 1 \in 1..(n + 1) /\ i <= n /\ (i + 1) - 1 = i
      BY <3>1
    <3>3. f[i + 1] = 2 * f[(i + 1) - 1] /\ h[i + 1] = 2 * h[(i + 1) - 1]
      BY <3>2, <1>2
    <3>4. f[i] = h[i]
      BY <3>2, <2>2
    <3>5. QED
      BY <3>2, <3>3, <3>4
  <2> HIDE DEF T
  <2>3. n \in T
    BY <2>1, <2>2, SetInduction
  <2>4. QED
    BY <2>3 DEF T
<1> HIDE DEF F
<1>3. ASSUME NEW i \in Nat, i # 0 PROVE g[i] = 2 * g[i - 1]
  <2>1. i - 1 \in Nat /\ (i - 1) + 1 = i
    BY <1>3
  <2>2. Solves(F(i - 1), i - 1) /\ Solves(F(i), i)
    BY <2>1, <1>1
  <2>3. F(i - 1)[i - 1] = F(i)[i - 1]
    <3> HIDE DEF Solves
    <3>1. Solves(F(i), (i - 1) + 1)
      BY <2>1, <2>2
    <3>2. QED
      BY <3>1, <2>1, <2>2, <1>2
  <2>4. F(i)[i] = 2 * F(i)[i - 1]
    BY <2>2, <1>3
  <2>5. QED
    BY <2>1, <2>3, <2>4
<1>4. g[0] = 1
  BY <1>1
<1>5. g = Right(g)
  <2> HIDE DEF g
  <2>1. DOMAIN g = Nat /\ g = [i \in Nat |-> g[i]]
    BY DEF g
  <2>2. \A i \in Nat : g[i] = Right(g)[i]
    BY <1>3, <1>4
  <2>3. QED
    BY <2>1, <2>2
<1>6. Power = CHOOSE f : f = Right(f)
  BY Zenon DEF Power
<1> HIDE DEF Right, g
<1>7. Power = Right(Power)
  BY <1>5, <1>6, Zenon
<1>8. QED
  BY <1>7 DEF Right

\* Powers double, and exceed their exponents.
LEMMA PowerFacts ==
    /\ Power[0] = 1
    /\ \A i \in Nat : Power[i] \in Nat /\ Power[i] > i /\ Power[i + 1] = 2 * Power[i]
<1> DEFINE T == {i \in Nat : Power[i] \in Nat /\ Power[i] > i}
<1>1. Power[0] = 1
  BY PowerDef
<1>2. ASSUME NEW i \in Nat PROVE Power[i + 1] = 2 * Power[i]
  <2>1. i + 1 \in Nat /\ i + 1 # 0 /\ (i + 1) - 1 = i
    OBVIOUS
  <2>2. QED
    BY <2>1, PowerDef
<1>3. 0 \in T
  BY <1>1
<1>4. ASSUME NEW i \in Nat, i \in T PROVE i + 1 \in T
  BY <1>4, <1>2
<1>5. Nat \subseteq T
  <2> HIDE DEF T
  <2>1. QED
    BY <1>3, <1>4, SetInduction
<1>6. QED
  BY <1>1, <1>2, <1>5

\* A power with a larger exponent is not smaller.
LEMMA PowerMonotone ==
    ASSUME NEW i \in Nat, NEW j \in Nat, i <= j PROVE Power[i] <= Power[j]
<1> DEFINE T == {n \in Nat : Power[i] <= Power[i + n]}
<1>1. 0 \in T
  BY PowerFacts
<1>2. ASSUME NEW n \in Nat, n \in T PROVE n + 1 \in T
  <2>1. i + n \in Nat /\ i + (n + 1) = (i + n) + 1
    OBVIOUS
  <2>2. Power[i + (n + 1)] = 2 * Power[i + n] /\ Power[i + n] \in Nat /\ Power[i] \in Nat
    BY <2>1, PowerFacts
  <2>3. QED
    BY <1>2, <2>2
<1>3. j - i \in T
  <2> HIDE DEF T
  <2>1. j - i \in Nat
    OBVIOUS
  <2>2. QED
    BY <1>1, <1>2, <2>1, SetInduction
<1>4. i + (j - i) = j
  OBVIOUS
<1>5. QED
  BY <1>3, <1>4

\* A power of two is a positive number.
LEMMA PowersArePositive ==
    ASSUME NEW n, IsPowerOfTwo(n) PROVE n \in Nat /\ n >= 1
<1>1. PICK i \in 0..n : n = Power[i]
  BY DEF IsPowerOfTwo
<1>2. i \in Nat
  BY <1>1
<1>3. QED
  BY <1>1, <1>2, PowerFacts

\* The next power of two from v is one, not below v but below its double, and
\* v itself when it is one.
LEMMA NextPowerFacts ==
    ASSUME NEW v \in Int
    PROVE  /\ NextPowerOfTwo(v) \in Nat /\ NextPowerOfTwo(v) >= 1 /\ NextPowerOfTwo(v) >= v
           /\ IsPowerOfTwo(NextPowerOfTwo(v))
           /\ v >= 1 => NextPowerOfTwo(v) < 2 * v
           /\ IsPowerOfTwo(v) => NextPowerOfTwo(v) = v
<1> DEFINE top == MaxInt(v, 0)
           Fits(i) == Power[i] >= v /\ (i > 0 => Power[i - 1] < v)
           T == {i \in Nat : Power[i] >= v}
<1>1. top \in Nat /\ top >= v
  BY DEF MaxInt
<1>2. top \in T
  BY <1>1, PowerFacts
<1>3. PICK x \in T : \A y \in T : x <= y
  BY <1>2, LeastNatural
<1>4. x \in 0..top
  BY <1>1, <1>2, <1>3
<1>5. Fits(x)
  <2>1. ASSUME x > 0 PROVE Power[x - 1] < v
    <3>1. x - 1 \in Nat /\ ~(x <= x - 1)
      BY <2>1
    <3>2. Power[x - 1] \in Nat /\ ~(Power[x - 1] >= v)
      BY <3>1, <1>3, PowerFacts
    <3>3. QED
      BY <3>2
  <2>2. QED
    BY <2>1, <1>3
<1> DEFINE i == CHOOSE i \in 0..top : Fits(i)
<1>6. i \in 0..top /\ Fits(i)
  <2> HIDE DEF Fits, top
  <2>1. QED
    BY <1>4, <1>5
<1>7. NextPowerOfTwo(v) = Power[i]
  BY DEF NextPowerOfTwo
<1> HIDE DEF i
<1>8. i \in Nat
  BY <1>6, <1>1
<1>9. Power[i] \in Nat /\ Power[i] > i /\ Power[i] >= v
  BY <1>6, <1>8, PowerFacts
<1>10. IsPowerOfTwo(Power[i])
  BY <1>8, <1>9 DEF IsPowerOfTwo
<1>11. ASSUME v >= 1 PROVE Power[i] < 2 * v
  <2>1. CASE i = 0
    BY <2>1, <1>11, PowerFacts
  <2>2. CASE i # 0
    <3>1. i - 1 \in Nat /\ (i - 1) + 1 = i /\ i > 0
      BY <2>2, <1>8
    <3>2. Power[i] = 2 * Power[i - 1] /\ Power[i - 1] \in Nat /\ Power[i - 1] < v
      BY <3>1, <1>6, PowerFacts
    <3>3. QED
      BY <3>2
  <2>3. QED
    BY <2>1, <2>2
<1>12. ASSUME IsPowerOfTwo(v) PROVE Power[i] = v
  <2>1. PICK j \in 0..v : v = Power[j]
    BY <1>12 DEF IsPowerOfTwo
  <2>2. j \in Nat /\ Power[j] \in Nat
    BY <2>1, PowerFacts
  <2>3. i <= j
    <3>1. SUFFICES ASSUME ~(i <= j) PROVE FALSE
      OBVIOUS
    <3>2. i > 0 /\ i - 1 \in Nat /\ j <= i - 1
      BY <3>1, <1>8, <2>2
    <3>3. Power[i - 1] < v /\ Power[i - 1] \in Nat /\ Power[j] <= Power[i - 1]
      BY <3>2, <1>6, <2>2, PowerMonotone, PowerFacts
    <3>4. QED
      BY <3>3, <2>1, <2>2
  <2>4. Power[i] <= Power[j]
    BY <2>2, <2>3, <1>8, PowerMonotone
  <2>5. QED
    BY <2>1, <2>2, <2>4, <1>9
<1>13. QED
  BY <1>7, <1>8, <1>9, <1>10, <1>11, <1>12
-------------------------------------------------------------------------------
\* A remainder is determined by its range and by a quotient.
LEMMA RemainderUnique ==
    ASSUME NEW h \in Nat, NEW n \in Nat \ {0}, NEW q \in Nat, NEW r \in 0..(n - 1), h = (n * q) + r
    PROVE  h % n = r
  OBVIOUS

\* The remainder of a sum with a small number, without a division.
LEMMA RemainderOfSum ==
    ASSUME NEW h \in Nat, NEW n \in Nat \ {0}, NEW d \in 0..(n - 1)
    PROVE  /\ h % n \in 0..(n - 1)
           /\ (h + d) % n = IF (h % n) + d < n THEN (h % n) + d ELSE ((h % n) + d) - n
<1> DEFINE q == h \div n
           r == h % n
<1>1. r \in 0..(n - 1) /\ q \in Nat
  OBVIOUS
<1>2. h = (n * q) + r
  OBVIOUS
<1> HIDE DEF q, r
<1>3. CASE r + d < n
  <2>1. h + d = (n * q) + (r + d) /\ h + d \in Nat /\ r + d \in 0..(n - 1)
    BY <1>1, <1>2, <1>3
  <2>2. (h + d) % n = r + d
    BY <2>1, <1>1, RemainderUnique
  <2>3. QED
    BY <2>2, <1>1, <1>3 DEF r
<1>4. CASE ~(r + d < n)
  <2>1. n * (q + 1) = (n * q) + n
    BY <1>1
  <2>2. h + d = (n * (q + 1)) + ((r + d) - n) /\ h + d \in Nat
    BY <1>1, <1>2, <2>1
  <2>3. (r + d) - n \in 0..(n - 1) /\ q + 1 \in Nat
    BY <1>1, <1>4
  <2>4. (h + d) % n = (r + d) - n
    BY <2>2, <2>3, RemainderUnique
  <2>5. QED
    BY <2>4, <1>1, <1>4 DEF r
<1>5. QED
  BY <1>3, <1>4

\* Every remainder is reached from h by one small number, and by no other.
Reached(h, n) ==
    /\ \A i \in 0..(n - 1) : \E d \in 0..(n - 1) : (h + d) % n = i
    /\ \A c, d \in 0..(n - 1) : (h + c) % n = (h + d) % n => c = d
    /\ \A d \in 0..(n - 1) : (h + d) % n \in 0..(n - 1)

\* They are all reached.
LEMMA RemaindersReached ==
    ASSUME NEW h \in Nat, NEW n \in Nat \ {0} PROVE Reached(h, n)
<1> DEFINE r == h % n
           At(d) == IF r + d < n THEN r + d ELSE (r + d) - n
<1>1. r \in 0..(n - 1)
  OBVIOUS
<1>2. ASSUME NEW d \in 0..(n - 1) PROVE (h + d) % n = At(d)
  BY RemainderOfSum
<1> HIDE DEF r
<1>3. ASSUME NEW i \in 0..(n - 1) PROVE \E d \in 0..(n - 1) : (h + d) % n = i
  <2> DEFINE d == IF i >= r THEN i - r ELSE (i - r) + n
  <2>1. d \in 0..(n - 1) /\ At(d) = i
    BY <1>1
  <2>2. QED
    BY <2>1, <1>2
<1>4. ASSUME NEW c \in 0..(n - 1), NEW d \in 0..(n - 1), At(c) = At(d) PROVE c = d
  BY <1>1, <1>4
<1>5. \A d \in 0..(n - 1) : At(d) \in 0..(n - 1)
  BY <1>1
<1> HIDE DEF At
<1>6. \A c, d \in 0..(n - 1) : (h + c) % n = (h + d) % n => c = d
  BY <1>2, <1>4, Zenon
<1>7. \A d \in 0..(n - 1) : (h + d) % n \in 0..(n - 1)
  BY <1>2, <1>5, Zenon
<1>8. QED
  BY <1>3, <1>6, <1>7, Zenon DEF Reached
-------------------------------------------------------------------------------
\* The recursion behind FoldFunction(+, 0, f).
SumsOf(f) ==
    CHOOSE sum : sum = [s \in SUBSET DOMAIN f |->
        IF s = {} THEN 0 ELSE LET x == CHOOSE x \in s : TRUE IN f[x] + sum[s \ {x}]]

\* FoldFunction is that recursion.
LEMMA FoldIsSum ==
    ASSUME NEW f PROVE FoldFunction(+, 0, f) = SumsOf(f)[DOMAIN f]
  BY Zenon DEF FoldFunction, FoldFunctionOnSet, MapThenFoldSet, SumsOf

\* The total of finitely many natural numbers is a natural number.
LEMMA TotalIsNatural ==
    ASSUME NEW S, IsFiniteSet(S), NEW f \in [S -> Nat]
    PROVE  FoldFunction(+, 0, f) \in Nat
<1> DEFINE Some(s) == CHOOSE x \in s : TRUE
           Small(k) == {s \in SUBSET S : Cardinality(s) <= k}
           Value(g, s) == IF s = {} THEN 0 ELSE f[Some(s)] + g[s \ {Some(s)}]
           Solves(g, k) == g \in [Small(k) -> Nat] /\ \A s \in Small(k) : g[s] = Value(g, s)
           T == {k \in Nat : \E g : Solves(g, k)}
<1>1. \A s \in SUBSET S : s # {} => Some(s) \in s
  OBVIOUS
<1>2. \A s \in SUBSET S : IsFiniteSet(s) /\ Cardinality(s) \in Nat
  BY FS_Subset, FS_CardinalityType
<1>3. \A s \in SUBSET S : s # {} => Cardinality(s \ {Some(s)}) = Cardinality(s) - 1
  BY <1>1, <1>2, FS_RemoveElement
<1>4. \A s \in SUBSET S : Cardinality(s) = 0 <=> s = {}
  BY <1>2, FS_EmptySet
<1> HIDE DEF Some
<1>5. 0 \in T
  <2> DEFINE g == [s \in Small(0) |-> 0]
  <2>1. \A s \in Small(0) : s = {}
    BY <1>2, <1>4
  <2>2. Solves(g, 0)
    BY <2>1
  <2>3. QED
    BY <2>2
<1>6. ASSUME NEW n \in Nat, n \in T PROVE n + 1 \in T
  <2>1. PICK g : Solves(g, n)
    BY <1>6
  <2> DEFINE h == [s \in Small(n + 1) |-> Value(g, s)]
  <2>2. \A s \in Small(n + 1) : s # {} => s \ {Some(s)} \in Small(n) /\ f[Some(s)] \in Nat
    BY <1>1, <1>2, <1>3
  <2>3. h \in [Small(n + 1) -> Nat]
    BY <2>1, <2>2
  <2>4. Small(n) \subseteq Small(n + 1)
    BY <1>2
  <2>5. \A s \in Small(n) : h[s] = g[s]
    BY <2>1, <2>4
  <2>6. \A s \in Small(n + 1) : h[s] = Value(h, s)
    <3> TAKE s \in Small(n + 1)
    <3> s # {} => h[s \ {Some(s)}] = g[s \ {Some(s)}]
      BY <2>2, <2>5
    <3> QED
      OBVIOUS
  <2>7. Solves(h, n + 1)
    BY <2>3, <2>6
  <2> HIDE DEF Solves
  <2>8. QED
    BY <2>7
<1>7. Cardinality(S) \in T
  <2> HIDE DEF T
  <2>1. Nat \subseteq T
    BY <1>5, <1>6, SetInduction
  <2>2. QED
    BY <2>1, <1>2
<1>8. PICK g : Solves(g, Cardinality(S))
  BY <1>7
<1>9. Small(Cardinality(S)) = SUBSET S
  BY <1>2, FS_Subset
<1>10. g \in [SUBSET S -> Nat] /\ g = [s \in SUBSET S |-> Value(g, s)]
  BY <1>8, <1>9
<1>11. PICK h : h = SumsOf(f) /\ h = [s \in SUBSET S |-> Value(h, s)]
  <2> DEFINE Right(sum) ==
        [s \in SUBSET DOMAIN f |->
            IF s = {} THEN 0 ELSE LET x == CHOOSE x \in s : TRUE IN f[x] + sum[s \ {x}]]
  <2>1. \A h : Right(h) = [s \in SUBSET S |-> Value(h, s)]
    BY DEF Some
  <2>2. SumsOf(f) = CHOOSE h : h = Right(h)
    BY Zenon DEF SumsOf
  <2> HIDE DEF Right, Value
  <2>3. \E h : h = Right(h)
    BY <2>1, <1>10
  <2>4. SumsOf(f) = Right(SumsOf(f))
    BY <2>2, <2>3, Zenon
  <2>5. QED
    BY <2>1, <2>4
<1> DEFINE U == {k \in Nat : \A s \in Small(k) : h[s] = g[s]}
<1>12. 0 \in U
  <2>1. \A s \in Small(0) : s = {} /\ s \in SUBSET S
    BY <1>2, <1>4
  <2>2. QED
    BY <2>1, <1>10, <1>11
<1>13. ASSUME NEW n \in Nat, n \in U PROVE n + 1 \in U
  <2>1. \A s \in Small(n + 1) : s \in SUBSET S /\ (s # {} => s \ {Some(s)} \in Small(n))
    BY <1>1, <1>2, <1>3
  <2> SUFFICES ASSUME NEW s \in Small(n + 1) PROVE h[s] = g[s]
    OBVIOUS
  <2>2. s # {} => h[s \ {Some(s)}] = g[s \ {Some(s)}]
    BY <1>13, <2>1
  <2>3. h[s] = Value(h, s) /\ g[s] = Value(g, s)
    BY <2>1, <1>10, <1>11
  <2>4. QED
    BY <2>2, <2>3
<1>14. Cardinality(S) \in U
  <2> HIDE DEF U
  <2>1. Nat \subseteq U
    BY <1>12, <1>13, SetInduction
  <2>2. QED
    BY <2>1, <1>2
<1>15. h[S] \in Nat
  BY <1>14, <1>9, <1>10
<1>16. QED
  BY <1>11, <1>15, FoldIsSum

-------------------------------------------------------------------------------
\* The recursion behind FlattenSeq.
FlatsOf(seqs) ==
    CHOOSE flat : flat = [i \in 1..Len(seqs) |->
        IF i = 1 THEN seqs[i] ELSE flat[i - 1] \o seqs[i]]

\* FlattenSeq is that recursion.
LEMMA FlattenIsFlats ==
    ASSUME NEW seqs, Len(seqs) # 0
    PROVE  FlattenSeq(seqs) = FlatsOf(seqs)[Len(seqs)]
  BY Zenon DEF FlattenSeq, FlatsOf

Distinct(s) == \A i, j \in 1..Len(s) : s[i] = s[j] => i = j
Elements(s) == {s[i] : i \in 1..Len(s)}

\* Where the elements of a concatenation come from.
LEMMA ConcatPlaces ==
    ASSUME NEW S, NEW s \in Seq(S), NEW t \in Seq(S)
    PROVE  /\ s \o t \in Seq(S) /\ Len(s \o t) = Len(s) + Len(t)
           /\ \A i \in 1..Len(s) : i \in 1..Len(s \o t) /\ (s \o t)[i] = s[i]
           /\ \A i \in 1..Len(t) : Len(s) + i \in 1..Len(s \o t) /\ (s \o t)[Len(s) + i] = t[i]
           /\ \A i \in 1..Len(s \o t) :
                i \in 1..Len(s) \/ (i - Len(s) \in 1..Len(t) /\ (s \o t)[i] = t[i - Len(s)])
  OBVIOUS

\* The elements of a concatenation.
LEMMA ConcatElements ==
    ASSUME NEW S, NEW s \in Seq(S), NEW t \in Seq(S)
    PROVE  s \o t \in Seq(S) /\ Elements(s \o t) = Elements(s) \cup Elements(t)
<1> DEFINE u == s \o t
<1>1. /\ u \in Seq(S)
      /\ \A i \in 1..Len(s) : i \in 1..Len(u) /\ u[i] = s[i]
      /\ \A i \in 1..Len(t) : Len(s) + i \in 1..Len(u) /\ u[Len(s) + i] = t[i]
      /\ \A i \in 1..Len(u) :
           i \in 1..Len(s) \/ (i - Len(s) \in 1..Len(t) /\ u[i] = t[i - Len(s)])
  BY ConcatPlaces
<1> HIDE DEF u
<1>2. Elements(u) \subseteq Elements(s) \cup Elements(t)
  BY <1>1 DEF Elements
<1>3. Elements(s) \cup Elements(t) \subseteq Elements(u)
  <2>1. \A i \in 1..Len(s) : s[i] \in Elements(u)
    BY <1>1 DEF Elements
  <2>2. \A i \in 1..Len(t) : t[i] \in Elements(u)
    BY <1>1 DEF Elements
  <2>3. QED
    BY <2>1, <2>2 DEF Elements
<1>4. QED
  BY <1>1, <1>2, <1>3 DEF u

\* The concatenation of two sequences with no element in common.
LEMMA ConcatDistinct ==
    ASSUME NEW S, NEW s \in Seq(S), NEW t \in Seq(S),
           Distinct(s), Distinct(t), Elements(s) \cap Elements(t) = {}
    PROVE  Distinct(s \o t)
<1> DEFINE u == s \o t
<1>1. /\ Len(s) \in Nat
      /\ \A i \in 1..Len(s) : u[i] = s[i]
      /\ \A i \in 1..Len(u) :
           i \in 1..Len(s) \/ (i - Len(s) \in 1..Len(t) /\ u[i] = t[i - Len(s)])
  BY ConcatPlaces
<1> HIDE DEF u
<1> SUFFICES ASSUME NEW i \in 1..Len(u), NEW j \in 1..Len(u), u[i] = u[j] PROVE i = j
  BY DEF Distinct, u
<1>2. CASE i \in 1..Len(s) /\ j \in 1..Len(s)
  BY <1>1, <1>2 DEF Distinct
<1>3. CASE i \notin 1..Len(s) /\ j \notin 1..Len(s)
  BY <1>1, <1>3 DEF Distinct
<1>4. CASE i \in 1..Len(s) /\ j \notin 1..Len(s)
  <2>1. u[i] \in Elements(s) /\ u[j] \in Elements(t)
    BY <1>1, <1>4 DEF Elements
  <2>2. QED
    BY <2>1
<1>5. CASE i \notin 1..Len(s) /\ j \in 1..Len(s)
  <2>1. u[j] \in Elements(s) /\ u[i] \in Elements(t)
    BY <1>1, <1>5 DEF Elements
  <2>2. QED
    BY <2>1
<1>6. QED
  BY <1>2, <1>3, <1>4, <1>5

\* The elements of a concatenation are those of its parts; they are distinct
\* when those of each part are and no two parts share one.
LEMMA FlattenFacts ==
    ASSUME NEW S, NEW seqs \in Seq(Seq(S)),
           \A i \in 1..Len(seqs) : Distinct(seqs[i]),
           \A i, j \in 1..Len(seqs) : i # j => Elements(seqs[i]) \cap Elements(seqs[j]) = {}
    PROVE  /\ FlattenSeq(seqs) \in Seq(S) /\ Distinct(FlattenSeq(seqs))
           /\ Elements(FlattenSeq(seqs)) = UNION {Elements(seqs[i]) : i \in 1..Len(seqs)}
<1> DEFINE n == Len(seqs)
           Value(f, i) == IF i = 1 THEN seqs[i] ELSE f[i - 1] \o seqs[i]
           Solves(f, k) == f \in [1..k -> Seq(S)] /\ \A i \in 1..k : f[i] = Value(f, i)
           T == {k \in Nat : k <= n => \E f : Solves(f, k)}
<1>0. n \in Nat /\ \A i \in 1..n : seqs[i] \in Seq(S)
  OBVIOUS
<1> HIDE DEF n
<1>1. 0 \in T
  <2> DEFINE f == [i \in 1..0 |-> <<>>]
  <2>1. Solves(f, 0)
    OBVIOUS
  <2> HIDE DEF Solves, f
  <2>2. QED
    BY <2>1
<1>2. ASSUME NEW k \in Nat, k \in T PROVE k + 1 \in T
  <2> SUFFICES ASSUME k + 1 <= n PROVE \E f : Solves(f, k + 1)
    BY <1>0
  <2>0. k <= n
    BY <1>0
  <2>1. PICK f : Solves(f, k)
    BY <1>2, <2>0
  <2> DEFINE g == [i \in 1..(k + 1) |-> Value(f, i)]
  <2>2. g \in [1..(k + 1) -> Seq(S)]
    <3> SUFFICES ASSUME NEW i \in 1..(k + 1) PROVE Value(f, i) \in Seq(S)
      OBVIOUS
    <3>1. seqs[i] \in Seq(S) /\ (i # 1 => i - 1 \in 1..k)
      BY <1>0
    <3>2. i # 1 => f[i - 1] \in Seq(S)
      BY <2>1, <3>1
    <3>3. QED
      BY <3>1, <3>2, ConcatElements
  <2>3. \A i \in 1..k : g[i] = f[i]
    <3> TAKE i \in 1..k
    <3> HIDE DEF Value
    <3>1. i \in 1..(k + 1) /\ f[i] = Value(f, i)
      BY <2>1
    <3>2. QED
      BY <3>1
  <2>4. \A i \in 1..(k + 1) : g[i] = Value(g, i)
    <3> TAKE i \in 1..(k + 1)
    <3> i # 1 => i - 1 \in 1..k
      OBVIOUS
    <3> QED
      BY <2>3
  <2>5. Solves(g, k + 1)
    BY <2>2, <2>4
  <2> HIDE DEF Solves, g
  <2>6. QED
    BY <2>5
<1>3. PICK f : Solves(f, n)
  <2> HIDE DEF T
  <2>1. Nat \subseteq T
    BY <1>1, <1>2, SetInduction
  <2>2. n \in T
    BY <1>0, <2>1
  <2> USE DEF T
  <2> HIDE DEF Solves
  <2>3. QED
    BY <1>0, <2>2
<1>4. PICK h : h = FlatsOf(seqs) /\ h = [i \in 1..n |-> Value(h, i)]
  <2> DEFINE Right(g) == [i \in 1..n |-> IF i = 1 THEN seqs[i] ELSE g[i - 1] \o seqs[i]]
  <2>1. \A g : Right(g) = [i \in 1..n |-> Value(g, i)]
    OBVIOUS
  <2>2. FlatsOf(seqs) = CHOOSE g : g = Right(g)
    BY Zenon DEF FlatsOf, n
  <2>3. f = [i \in 1..n |-> Value(f, i)]
    BY <1>3
  <2> HIDE DEF Right, Value
  <2>4. \E g : g = Right(g)
    BY <2>1, <2>3
  <2>5. FlatsOf(seqs) = Right(FlatsOf(seqs))
    BY <2>2, <2>4, Zenon
  <2>6. QED
    BY <2>1, <2>5
<1> DEFINE Parts(k) == UNION {Elements(seqs[i]) : i \in 1..k}
           Good(k) == h[k] \in Seq(S) /\ Distinct(h[k]) /\ Elements(h[k]) = Parts(k)
           U == {k \in Nat : k + 1 <= n => Good(k + 1)}
<1>5. n # 0 => Good(1)
  <2> SUFFICES ASSUME n # 0 PROVE Good(1)
    OBVIOUS
  <2>1. h[1] = seqs[1] /\ 1 \in 1..n
    BY <1>0, <1>4
  <2>2. Parts(1) = Elements(seqs[1])
    OBVIOUS
  <2>3. QED
    BY <1>0, <2>1, <2>2 DEF n
<1>6. ASSUME NEW k \in Nat, k \in U PROVE k + 1 \in U
  <2> SUFFICES ASSUME k + 2 <= n PROVE Good(k + 2)
    BY <1>0
  <2>1. Good(k + 1) /\ k + 2 \in 1..n
    BY <1>0, <1>6
  <2>2. h[k + 2] = h[k + 1] \o seqs[k + 2]
    <3>1. h[k + 2] = Value(h, k + 2)
      BY <1>4, <2>1
    <3>2. k + 2 # 1 /\ (k + 2) - 1 = k + 1
      OBVIOUS
    <3>3. QED
      BY <3>1, <3>2
  <2>3. Parts(k + 2) = Parts(k + 1) \cup Elements(seqs[k + 2])
    <3>1. 1..(k + 2) = 1..(k + 1) \cup {k + 2}
      OBVIOUS
    <3>2. QED
      BY <3>1
  <2>4. Parts(k + 1) \cap Elements(seqs[k + 2]) = {}
    <3>1. \A i \in 1..(k + 1) : i \in 1..n /\ i # k + 2
      BY <1>0
    <3>2. \A i \in 1..(k + 1) : Elements(seqs[i]) \cap Elements(seqs[k + 2]) = {}
      BY <2>1, <3>1 DEF n
    <3>3. QED
      BY <3>2
  <2>5. seqs[k + 2] \in Seq(S) /\ Distinct(seqs[k + 2])
    BY <1>0, <2>1 DEF n
  <2> HIDE DEF Parts
  <2>6. /\ h[k + 1] \in Seq(S) /\ Distinct(h[k + 1])
        /\ Elements(h[k + 1]) \cap Elements(seqs[k + 2]) = {}
        /\ Elements(h[k + 1]) \cup Elements(seqs[k + 2]) = Parts(k + 2)
    BY <2>1, <2>3, <2>4
  <2> DEFINE s == h[k + 1]
             t == seqs[k + 2]
  <2> HIDE DEF s, t
  <2>7. /\ s \o t \in Seq(S) /\ Distinct(s \o t) /\ Elements(s \o t) = Parts(k + 2)
    <3>1. /\ s \in Seq(S) /\ t \in Seq(S) /\ Distinct(s) /\ Distinct(t)
          /\ Elements(s) \cap Elements(t) = {} /\ Elements(s) \cup Elements(t) = Parts(k + 2)
      BY <2>5, <2>6 DEF s, t
    <3>2. s \o t \in Seq(S) /\ Elements(s \o t) = Elements(s) \cup Elements(t)
      BY <3>1, ConcatElements
    <3>3. Distinct(s \o t)
      BY <3>1, ConcatDistinct
    <3>4. QED
      BY <3>1, <3>2, <3>3
  <2>8. QED
    BY <2>2, <2>7 DEF s, t
<1>7. CASE n = 0
  <2>1. seqs = <<>> /\ FlattenSeq(seqs) = <<>>
    BY <1>7 DEF n, FlattenSeq
  <2>2. <<>> \in Seq(S) /\ Distinct(<<>>) /\ Elements(<<>>) = {}
    BY DEF Distinct, Elements
  <2>3. UNION {Elements(seqs[i]) : i \in 1..Len(seqs)} = {}
    BY <1>7 DEF n
  <2>4. QED
    BY <2>1, <2>2, <2>3
<1>8. CASE n # 0
  <2>1. n - 1 \in Nat /\ (n - 1) + 1 = n
    BY <1>0, <1>8
  <2>2. 0 \in U
    BY <1>5, <1>8
  <2> HIDE DEF U
  <2>3. n - 1 \in U
    BY <1>6, <2>1, <2>2, SetInduction
  <2> USE DEF U
  <2> HIDE DEF Good
  <2>4. Good(n)
    BY <1>0, <2>1, <2>3
  <2>5. FlattenSeq(seqs) = h[n]
    BY <1>4, <1>8, FlattenIsFlats DEF n
  <2>6. QED
    BY <2>4, <2>5 DEF Good, n
<1>9. QED
  BY <1>7, <1>8
===============================================================================
