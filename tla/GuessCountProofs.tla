-------------------------- MODULE GuessCountProofs --------------------------
(***************************************************************************)
(* How many wrong guesses can be answered before an account is locked, for *)
(* any finite number of concurrent requests and any limits: the theorem    *)
(* GuessesAreBounded, about GuessesBounded of AuthAccounts.                *)
(*                                                                         *)
(* Requests count from what they have read, so the count in the row may    *)
(* fall and guesses overwrite each other.  What never falls is the rank of *)
(* the account's profile: for each i below the limit, how many requests go *)
(* by a count below i.  Every wrong guess that sets no lock raises it, and *)
(* there are only so many profiles, the weakly rising functions counted in *)
(* the first part.                                                         *)
(***************************************************************************)
EXTENDS AuthAccountsProofs, FiniteSetTheorems, FunctionTheorems

-----------------------------------------------------------------------------
(* Counting *)

\* A set that has 0 and with each number the next has all numbers: otherwise
\* the numbers it lacks up to some n would map one to one, but not onto.
LEMMA SetInduction ==
  ASSUME NEW S, 0 \in S, \A n \in Nat : n \in S => n + 1 \in S
  PROVE  Nat \subseteq S
<1> SUFFICES ASSUME NEW n \in Nat, n \notin S PROVE FALSE
  OBVIOUS
<1> DEFINE T == {x \in 0..n : x \notin S}
           f == [x \in T |-> x - 1]
<1>1. IsFiniteSet(T)
  <2>1. IsFiniteSet(0..n) /\ T \in SUBSET (0..n)
    BY FS_Interval
  <2> QED
    BY <2>1, FS_Subset
<1>2. \A x \in T : x - 1 \in T
  <2> TAKE x \in T
  <2>1. x \in Nat /\ x # 0 /\ x <= n /\ x \notin S
    OBVIOUS
  <2>2. x - 1 \in Nat /\ (x - 1) + 1 = x
    BY <2>1
  <2>3. x - 1 \notin S
    BY <2>1, <2>2
  <2> QED
    BY <2>1, <2>2, <2>3
<1>3. f \in [T -> T] /\ \A a, b \in T : f[a] = f[b] => a = b
  BY <1>2
<1> HIDE DEF f
<1>4. f \in Injection(T, T)
  BY <1>3, Fun_IsInj
<1>5. f \in Surjection(T, T)
  BY <1>1, <1>4, FS_Injection
<1>6. n \in T
  OBVIOUS
<1>7. PICK s \in T : f[s] = n
  BY <1>5, <1>6, Fun_SurjectionProperties
<1> QED
  BY <1>7 DEF f

LEMMA FactorialRecursion ==
  /\ factorial = [n \in Nat |-> IF n = 0 THEN 1 ELSE n * factorial[n - 1]]
<1> DEFINE Partial(n) == {g \in [0..n -> Nat] : /\ g[0] = 1
                                                /\ \A i \in 1..n : g[i] = i * g[i - 1]}
<1>1. \A n \in Nat : Partial(n) # {}
  <2> DEFINE S == {n \in Nat : Partial(n) # {}}
  <2>1. 0 \in S
    <3>1. [i \in 0..0 |-> 1] \in Partial(0)
      OBVIOUS
    <3> QED
      BY <3>1
  <2>2. ASSUME NEW n \in Nat, n \in S PROVE n + 1 \in S
    <3>1. PICK g \in Partial(n) : TRUE
      BY <2>2
    <3> DEFINE h == [i \in 0..(n + 1) |-> IF i <= n THEN g[i] ELSE (n + 1) * g[n]]
    <3>2. h \in [0..(n + 1) -> Nat] /\ h[0] = 1 /\ h[n + 1] = (n + 1) * g[n]
          /\ \A i \in 0..n : h[i] = g[i]
      BY <3>1
    <3> HIDE DEF h
    <3>3. ASSUME NEW i \in 1..(n + 1) PROVE h[i] = i * h[i - 1]
      <4>1. CASE i \in 1..n
        BY <3>1, <3>2, <4>1
      <4>2. CASE i = n + 1
        BY <3>1, <3>2, <4>2
      <4> QED
        BY <4>1, <4>2
    <3>4. h \in Partial(n + 1)
      BY <3>2, <3>3
    <3>5. n + 1 \in Nat
      OBVIOUS
    <3> HIDE DEF Partial
    <3> QED
      BY <3>4, <3>5
  <2> HIDE DEF S
  <2>3. Nat \subseteq S
    BY <2>1, <2>2, SetInduction
  <2> QED
    BY <2>3 DEF S
<1>2. ASSUME NEW m \in Nat, NEW n \in Nat, NEW g \in Partial(m), NEW h \in Partial(n)
      PROVE  \A i \in Nat : i <= m /\ i <= n => g[i] = h[i]
  <2> DEFINE S == {i \in Nat : i <= m /\ i <= n => g[i] = h[i]}
  <2>1. 0 \in S
    OBVIOUS
  <2>2. ASSUME NEW i \in Nat, i \in S PROVE i + 1 \in S
    <3> SUFFICES ASSUME i + 1 <= m, i + 1 <= n PROVE g[i + 1] = h[i + 1]
      OBVIOUS
    <3>1. g[i] = h[i] /\ i + 1 \in 1..m /\ i + 1 \in 1..n /\ (i + 1) - 1 = i
      BY <2>2
    <3> QED
      BY <3>1
  <2> HIDE DEF S
  <2>3. Nat \subseteq S
    BY <2>1, <2>2, SetInduction
  <2> QED
    BY <2>3 DEF S
<1> DEFINE G(n) == CHOOSE g \in Partial(n) : TRUE
           F == [n \in Nat |-> G(n)[n]]
<1>3. \A n \in Nat : G(n) \in Partial(n)
  BY <1>1
<1> HIDE DEF G
<1>4. F = [n \in Nat |-> IF n = 0 THEN 1 ELSE n * F[n - 1]]
  <2> SUFFICES ASSUME NEW n \in Nat PROVE F[n] = IF n = 0 THEN 1 ELSE n * F[n - 1]
    OBVIOUS
  <2>1. CASE n = 0
    BY <1>3, <2>1
  <2>2. CASE n # 0
    <3>1. n - 1 \in Nat /\ n - 1 <= n /\ n \in 1..n
      BY <2>2
    <3>2. G(n)[n - 1] = G(n - 1)[n - 1]
      <4>1. G(n) \in Partial(n) /\ G(n - 1) \in Partial(n - 1)
        BY <1>3, <3>1
      <4> HIDE DEF Partial
      <4> QED
        BY <4>1, <1>2, <3>1
    <3>3. G(n)[n] = n * G(n)[n - 1]
      BY <1>3, <3>1
    <3> QED
      BY <2>2, <3>1, <3>2, <3>3
  <2> QED
    BY <2>1, <2>2
<1> HIDE DEF F
<1>5. \E f : f = [n \in Nat |-> IF n = 0 THEN 1 ELSE n * f[n - 1]]
  BY <1>4
<1> QED
  BY <1>5 DEF factorial

LEMMA FactorialSteps ==
  /\ \A n \in Nat : factorial[n] \in Nat \ {0}
  /\ factorial[0] = 1
  /\ \A n \in Nat : factorial[n + 1] = (n + 1) * factorial[n]
<1>1. factorial[0] = 1
  BY FactorialRecursion
<1>2. ASSUME NEW n \in Nat PROVE factorial[n + 1] = (n + 1) * factorial[n]
  <2>1. n + 1 \in Nat /\ n + 1 # 0 /\ (n + 1) - 1 = n
    OBVIOUS
  <2> QED
    BY <2>1, FactorialRecursion
<1> DEFINE S == {n \in Nat : factorial[n] \in Nat \ {0}}
<1>3. ASSUME NEW n \in Nat, n \in S PROVE n + 1 \in S
  <2>1. ASSUME NEW x \in Nat \ {0} PROVE (n + 1) * x \in Nat \ {0}
    <3>1. n * x \in Nat /\ (n + 1) * x = n * x + x
      OBVIOUS
    <3> QED
      BY <3>1
  <2>2. factorial[n] \in Nat \ {0}
    BY <1>3
  <2>3. factorial[n + 1] \in Nat \ {0}
    BY <1>2, <2>1, <2>2
  <2> QED
    BY <2>3
<1>4. Nat \subseteq S
  <2>1. 0 \in S
    BY <1>1
  <2> HIDE DEF S
  <2> QED
    BY <1>3, <2>1, SetInduction
<1> QED
  BY <1>1, <1>2, <1>4

-----------------------------------------------------------------------------
(* The weakly increasing functions from n numbers to k + 1 *)

Rising(n, k) == {f \in [1..n -> 0..k] : \A i, j \in 1..n : i <= j => f[i] <= f[j]}

\* One that ends below its limit has a lower limit, one that ends there is one
\* number longer than another.
LEMMA RisingSplit ==
  ASSUME NEW n \in Nat, NEW k \in Nat,
         IsFiniteSet(Rising(n + 1, k)), IsFiniteSet(Rising(n, k + 1))
  PROVE  /\ IsFiniteSet(Rising(n + 1, k + 1))
         /\ Cardinality(Rising(n + 1, k + 1))
              = Cardinality(Rising(n + 1, k)) + Cardinality(Rising(n, k + 1))
<1> DEFINE low == Rising(n + 1, k)
           high == {f \in Rising(n + 1, k + 1) : f[n + 1] = k + 1}
           cut == [f \in high |-> [i \in 1..n |-> f[i]]]
<1>1. Rising(n + 1, k + 1) = low \cup high /\ low \cap high = {}
  <2>1. ASSUME NEW f \in low PROVE f \in Rising(n + 1, k + 1) /\ f \notin high
    BY <2>1 DEF Rising
  <2>2. ASSUME NEW f \in Rising(n + 1, k + 1), f \notin high PROVE f \in low
    <3>1. f[n + 1] \in 0..k /\ n + 1 \in 1..(n + 1)
      BY <2>2 DEF Rising
    <3>2. \A i \in 1..(n + 1) : f[i] \in 0..(k + 1) /\ f[i] <= f[n + 1]
      BY <3>1 DEF Rising
    <3>3. \A i \in 1..(n + 1) : f[i] \in 0..k
      BY <3>1, <3>2
    <3> QED
      BY <3>3 DEF Rising
  <2> QED
    BY <2>1, <2>2
<1>2. cut \in [high -> Rising(n, k + 1)]
  <2> SUFFICES ASSUME NEW f \in high PROVE [i \in 1..n |-> f[i]] \in Rising(n, k + 1)
    OBVIOUS
  <2>1. \A i \in 1..n : i \in 1..(n + 1)
    OBVIOUS
  <2> QED
    BY <2>1 DEF Rising
<1>3. ASSUME NEW f \in high, NEW g \in high, cut[f] = cut[g] PROVE f = g
  <2>1. f \in [1..(n + 1) -> 0..(k + 1)] /\ g \in [1..(n + 1) -> 0..(k + 1)] /\ f[n + 1] = g[n + 1]
    BY DEF Rising
  <2>2. \A i \in 1..n : f[i] = g[i]
    <3> TAKE i \in 1..n
    <3>1. cut[f][i] = f[i] /\ cut[g][i] = g[i]
      OBVIOUS
    <3> QED
      BY <1>3, <3>1
  <2>3. \A i \in 1..(n + 1) : i \in 1..n \/ i = n + 1
    OBVIOUS
  <2> QED
    BY <2>1, <2>2, <2>3
<1>4. ASSUME NEW g \in Rising(n, k + 1) PROVE \E f \in high : cut[f] = g
  <2> DEFINE f == [i \in 1..(n + 1) |-> IF i = n + 1 THEN k + 1 ELSE g[i]]
  <2>1. g \in [1..n -> 0..(k + 1)] /\ \A i, j \in 1..n : i <= j => g[i] <= g[j]
    BY DEF Rising
  <2>2. /\ f \in [1..(n + 1) -> 0..(k + 1)] /\ f[n + 1] = k + 1
        /\ \A i \in 1..n : f[i] = g[i]
    BY <2>1
  <2> HIDE DEF f
  <2>3. ASSUME NEW i \in 1..(n + 1), NEW j \in 1..(n + 1), i <= j PROVE f[i] <= f[j]
    <3>1. CASE j = n + 1
      BY <2>2, <3>1
    <3>2. CASE j # n + 1
      <4>1. i \in 1..n /\ j \in 1..n
        BY <2>3, <3>2
      <4> QED
        BY <2>1, <2>2, <2>3, <4>1
    <3> QED
      BY <3>1, <3>2
  <2>4. f \in high
    BY <2>2, <2>3 DEF Rising
  <2>5. cut[f] = g
    <3>1. cut[f] = [i \in 1..n |-> f[i]]
      BY <2>4
    <3> QED
      BY <2>1, <2>2, <3>1
  <2> QED
    BY <2>4, <2>5
<1> HIDE DEF low, high, cut
<1>5. cut \in Bijection(high, Rising(n, k + 1))
  BY <1>2, <1>3, <1>4, Fun_IsBij
<1>6. cut \in Injection(high, Rising(n, k + 1)) /\ cut \in Surjection(high, Rising(n, k + 1))
  BY <1>5, Fun_BijectionProperties
<1>7. IsFiniteSet(high) /\ Cardinality(high) = Cardinality(Rising(n, k + 1))
  BY <1>6, FS_Injection
<1>8. /\ IsFiniteSet(low \cup high)
      /\ Cardinality(low \cup high) = Cardinality(low) + Cardinality(high) - Cardinality({})
  BY <1>1, <1>7, FS_Union DEF low
<1>9. Cardinality({}) = 0 /\ Cardinality(low) \in Nat /\ Cardinality(high) \in Nat
  BY <1>7, FS_EmptySet, FS_CardinalityType DEF low
<1> QED
  BY <1>1, <1>7, <1>8, <1>9 DEF low

LEMMA RisingEdges ==
  ASSUME NEW n \in Nat
  PROVE  /\ IsFiniteSet(Rising(0, n)) /\ Cardinality(Rising(0, n)) = 1
         /\ IsFiniteSet(Rising(n, 0)) /\ Cardinality(Rising(n, 0)) = 1
<1>1. Rising(0, n) = {[i \in 1..0 |-> 0]}
  <2>1. 1..0 = {}
    OBVIOUS
  <2>2. [i \in 1..0 |-> 0] \in Rising(0, n)
    BY <2>1 DEF Rising
  <2>3. \A f \in Rising(0, n) : f = [i \in 1..0 |-> 0]
    BY <2>1 DEF Rising
  <2> QED
    BY <2>2, <2>3
<1>2. Rising(n, 0) = {[i \in 1..n |-> 0]}
  <2>1. 0..0 = {0}
    OBVIOUS
  <2>2. [i \in 1..n |-> 0] \in Rising(n, 0)
    BY <2>1 DEF Rising
  <2>3. \A f \in Rising(n, 0) : f = [i \in 1..n |-> 0]
    BY <2>1 DEF Rising
  <2> QED
    BY <2>2, <2>3
<1>3. \A f : IsFiniteSet({f}) /\ Cardinality({f}) = 1
  BY FS_Singleton
<1> DEFINE short == [i \in 1..0 |-> 0]  flat == [i \in 1..n |-> 0]
<1> HIDE DEF short, flat
<1>4. Rising(0, n) = {short} /\ Rising(n, 0) = {flat}
  BY <1>1, <1>2 DEF short, flat
<1> QED
  BY <1>3, <1>4

\* Their number is a binomial coefficient.
Counted(n, k) ==
  /\ IsFiniteSet(Rising(n, k))
  /\ Cardinality(Rising(n, k)) * (factorial[k] * factorial[n]) = factorial[n + k]

LEMMA CountedEdge ==
  ASSUME NEW n \in Nat
  PROVE  Counted(0, n) /\ Counted(n, 0)
<1>1. factorial[n] \in Nat /\ factorial[0] = 1 /\ n + 0 = n /\ 0 + n = n
  BY FactorialSteps
<1> QED
  BY <1>1, RisingEdges DEF Counted

LEMMA CountedSplit ==
  ASSUME NEW n \in Nat, NEW k \in Nat, Counted(n + 1, k), Counted(n, k + 1)
  PROVE  Counted(n + 1, k + 1)
<1> DEFINE x == Cardinality(Rising(n + 1, k))
           y == Cardinality(Rising(n, k + 1))
           a == factorial[n]
           b == factorial[k]
           c == factorial[(n + k) + 1]
<1>1. x \in Nat /\ y \in Nat
  BY FS_CardinalityType DEF Counted
<1>2. a \in Nat /\ b \in Nat /\ c \in Nat
  BY FactorialSteps
<1>3. factorial[n + 1] = (n + 1) * a /\ factorial[k + 1] = (k + 1) * b
  BY FactorialSteps
<1>4. factorial[(n + 1) + (k + 1)] = ((n + k) + 2) * c
  <2>1. (n + k) + 1 \in Nat /\ ((n + k) + 1) + 1 = (n + 1) + (k + 1) /\ ((n + k) + 1) + 1 = (n + k) + 2
    OBVIOUS
  <2> QED
    BY <2>1, FactorialSteps
<1>5. x * (b * ((n + 1) * a)) = c
  <2>1. (n + 1) + k = (n + k) + 1
    OBVIOUS
  <2> QED
    BY <1>3, <2>1 DEF Counted
<1>6. y * (((k + 1) * b) * a) = c
  <2>1. n + (k + 1) = (n + k) + 1
    OBVIOUS
  <2> QED
    BY <1>3, <2>1 DEF Counted
<1>7. IsFiniteSet(Rising(n + 1, k + 1)) /\ Cardinality(Rising(n + 1, k + 1)) = x + y
  BY RisingSplit DEF Counted
<1> HIDE DEF x, y, a, b, c
<1>8. (x + y) * (((k + 1) * b) * ((n + 1) * a)) = ((n + k) + 2) * c
  <2>1. x * (((k + 1) * b) * ((n + 1) * a)) = (k + 1) * (x * (b * ((n + 1) * a)))
    BY <1>1, <1>2
  <2>2. y * (((k + 1) * b) * ((n + 1) * a)) = (n + 1) * (y * (((k + 1) * b) * a))
    BY <1>1, <1>2
  <2>3. (k + 1) * c + (n + 1) * c = ((n + k) + 2) * c
    BY <1>2
  <2> DEFINE z == ((k + 1) * b) * ((n + 1) * a)
  <2>4. z \in Nat
    BY <1>2
  <2> HIDE DEF z
  <2>5. (x + y) * z = x * z + y * z
    BY <1>1, <2>4
  <2> QED
    BY <1>5, <1>6, <2>1, <2>2, <2>3, <2>5 DEF z
<1> QED
  BY <1>3, <1>4, <1>7, <1>8 DEF Counted

LEMMA AllCounted == \A n, k \in Nat : Counted(n, k)
<1> DEFINE S == {n \in Nat : \A k \in Nat : Counted(n, k)}
<1>1. 0 \in S
  BY CountedEdge
<1>2. ASSUME NEW n \in Nat, n \in S PROVE n + 1 \in S
  <2> DEFINE T == {k \in Nat : Counted(n + 1, k)}
  <2>1. 0 \in T
    BY CountedEdge
  <2>2. ASSUME NEW k \in Nat, k \in T PROVE k + 1 \in T
    BY <1>2, <2>2, CountedSplit
  <2> HIDE DEF T
  <2>3. Nat \subseteq T
    BY <2>1, <2>2, SetInduction
  <2> QED
    BY <2>3 DEF T
<1> HIDE DEF S
<1>3. Nat \subseteq S
  BY <1>1, <1>2, SetInduction
<1> QED
  BY <1>3 DEF S

\* ... in the words of GuessBound.
LEMMA RisingCount ==
  ASSUME NEW n \in Nat, NEW k \in Nat
  PROVE  IsFiniteSet(Rising(n, k)) /\ Cardinality(Rising(n, k)) = choose(n + k, k)
<1> DEFINE x == Cardinality(Rising(n, k))
           d == factorial[k] * factorial[n]
<1>1. IsFiniteSet(Rising(n, k)) /\ x * d = factorial[n + k] /\ x \in Nat
  BY AllCounted, FS_CardinalityType DEF Counted
<1>2. d \in Nat \ {0}
  <2>1. \A p, q \in Nat \ {0} : p * q \in Nat \ {0}
    OBVIOUS
  <2> QED
    BY <2>1, FactorialSteps
<1>3. (n + k) - k = n
  OBVIOUS
<1> HIDE DEF x, d
<1>4. (x * d) \div d = x
  BY <1>1, <1>2
<1> QED
  BY <1>1, <1>3, <1>4 DEF choose, x, d

-----------------------------------------------------------------------------
(* Levels: a level is the count that a request goes by, be it the one it   *)
(* read or, if it has read none, the one in the row.  Only the levels      *)
(* below the limit matter: profile[i] requests go by a count below i.      *)

Level == [Requests -> Nat]
Behind(L, i) == {q \in Requests : L[q] < i}
Profile(n, L) == [i \in 1..n |-> Cardinality(Behind(L, i))]

\* f comes before g: where they first differ, fewer go by a low count in g.
Precedes(n, f, g) ==
  \E i \in 1..n : g[i] < f[i] /\ \A j \in 1..n : j < i => g[j] <= f[j]

\* The profiles an account may have had before.
Passed(n, L) ==
  {f \in Rising(n, Cardinality(Requests)) : Precedes(n, f, Profile(n, L))}
Rank(n, L) == Cardinality(Passed(n, L))

LEMMA BehindCounted ==
  ASSUME IsFiniteSet(Requests), NEW L \in Level, NEW M \in Level, NEW i \in Nat,
         Behind(M, i) \subseteq Behind(L, i)
  PROVE  /\ Cardinality(Behind(L, i)) \in 0..Cardinality(Requests)
         /\ Cardinality(Behind(M, i)) <= Cardinality(Behind(L, i))
         /\ Behind(M, i) # Behind(L, i) => Cardinality(Behind(M, i)) < Cardinality(Behind(L, i))
<1>1. Behind(L, i) \in SUBSET Requests
  BY DEF Behind
<1>2. IsFiniteSet(Behind(L, i)) /\ Cardinality(Behind(L, i)) <= Cardinality(Requests)
  BY <1>1, FS_Subset
<1>3. /\ IsFiniteSet(Behind(M, i)) /\ Cardinality(Behind(M, i)) <= Cardinality(Behind(L, i))
      /\ Cardinality(Behind(L, i)) = Cardinality(Behind(M, i)) => Behind(L, i) = Behind(M, i)
  BY <1>2, FS_Subset
<1> QED
  BY <1>2, <1>3, FS_CardinalityType

LEMMA ProfileRises ==
  ASSUME IsFiniteSet(Requests), NEW L \in Level, NEW n \in Nat
  PROVE  Profile(n, L) \in Rising(n, Cardinality(Requests))
<1>1. \A i \in 1..n : Cardinality(Behind(L, i)) \in 0..Cardinality(Requests)
  BY BehindCounted
<1>2. ASSUME NEW i \in 1..n, NEW j \in 1..n, i <= j
      PROVE  Cardinality(Behind(L, i)) <= Cardinality(Behind(L, j))
  <2>1. Behind(L, i) \subseteq Behind(L, j)
    BY <1>2 DEF Behind, Level
  <2>2. IsFiniteSet(Behind(L, j))
    <3>1. Behind(L, j) \in SUBSET Requests
      BY DEF Behind
    <3> QED
      BY <3>1, FS_Subset
  <2> QED
    BY <2>1, <2>2, FS_Subset
<1> QED
  BY <1>1, <1>2 DEF Profile, Rising

LEMMA ProfileCounts ==
  ASSUME IsFiniteSet(Requests), NEW L \in Level, NEW n \in Nat
  PROVE  \A i \in 1..n : Profile(n, L)[i] \in Nat
<1>1. \A i \in 1..n : Cardinality(Behind(L, i)) \in 0..Cardinality(Requests)
  BY BehindCounted
<1>2. Cardinality(Requests) \in Nat
  BY FS_CardinalityType
<1> QED
  BY <1>1, <1>2 DEF Profile

LEMMA RankBounded ==
  ASSUME IsFiniteSet(Requests), NEW L \in Level, NEW n \in Nat
  PROVE  /\ IsFiniteSet(Passed(n, L)) /\ Rank(n, L) \in Nat
         /\ Rank(n, L) <= choose(n + Cardinality(Requests), Cardinality(Requests)) - 1
<1> DEFINE all == Rising(n, Cardinality(Requests))
           mine == Profile(n, L)
<1>1. Cardinality(Requests) \in Nat
  BY FS_CardinalityType
<1>2. /\ IsFiniteSet(all)
      /\ Cardinality(all) = choose(n + Cardinality(Requests), Cardinality(Requests))
  BY <1>1, RisingCount
<1>3. mine \in all
  BY ProfileRises
<1>4. ~Precedes(n, mine, mine)
  <2>1. \A i \in 1..n : mine[i] \in Int
    BY <1>1, <1>3 DEF Rising
  <2> HIDE DEF mine
  <2> QED
    BY <2>1 DEF Precedes
<1>5. Passed(n, L) \subseteq all \ {mine}
  BY <1>4 DEF Passed
<1> HIDE DEF all, mine
<1>6. IsFiniteSet(all \ {mine}) /\ Cardinality(all \ {mine}) = Cardinality(all) - 1
  BY <1>2, <1>3, FS_RemoveElement
<1>7. IsFiniteSet(Passed(n, L)) /\ Cardinality(Passed(n, L)) <= Cardinality(all \ {mine})
  BY <1>5, <1>6, FS_Subset
<1> QED
  BY <1>2, <1>6, <1>7, FS_CardinalityType DEF Rank

\* A rank does not fall while no level does.
LEMMA RankKept ==
  ASSUME IsFiniteSet(Requests), NEW L \in Level, NEW M \in Level, NEW n \in Nat,
         \A q \in Requests : L[q] <= M[q]
  PROVE  Rank(n, L) <= Rank(n, M)
<1> DEFINE old == Profile(n, L)  new == Profile(n, M)
<1>1. \A i \in 1..n : new[i] <= old[i]
  <2> TAKE i \in 1..n
  <2>1. Behind(M, i) \subseteq Behind(L, i)
    BY DEF Behind, Level
  <2> QED
    BY <2>1, BehindCounted DEF Profile
<1>2. \A i \in 1..n : old[i] \in Int /\ new[i] \in Int
  BY ProfileCounts
<1> HIDE DEF old, new
<1>3. ASSUME NEW f \in Passed(n, L) PROVE f \in Passed(n, M)
  <2>1. f \in Rising(n, Cardinality(Requests)) /\ Precedes(n, f, old)
    BY DEF Passed, old
  <2>2. \A i \in 1..n : f[i] \in Int
    BY <2>1, FS_CardinalityType DEF Rising
  <2>3. Precedes(n, f, new)
    BY <1>1, <1>2, <2>1, <2>2 DEF Precedes
  <2> QED
    BY <2>1, <2>3 DEF Passed, new
<1>4. Passed(n, L) \subseteq Passed(n, M) /\ IsFiniteSet(Passed(n, M))
  BY <1>3, RankBounded
<1> QED
  BY <1>4, FS_Subset DEF Rank

\* It grows when a request that went by a lower count counts to m, and levels
\* fall to m at most.
LEMMA RankGrows ==
  ASSUME IsFiniteSet(Requests), NEW L \in Level, NEW M \in Level, NEW n \in Nat,
         NEW m \in 1..n, NEW r \in Requests, L[r] < m, m <= M[r],
         \A q \in Requests : M[q] < m => L[q] <= M[q]
  PROVE  Rank(n, L) + 1 <= Rank(n, M)
<1> DEFINE old == Profile(n, L)  new == Profile(n, M)  here == L[r] + 1
<1>0. here \in 1..n /\ here <= m
  BY DEF Level
<1>1. \A i \in 1..n : i <= here => new[i] <= old[i]
  <2> TAKE i \in 1..n
  <2> HAVE i <= here
  <2>1. Behind(M, i) \subseteq Behind(L, i)
    BY <1>0 DEF Behind, Level
  <2> QED
    BY <2>1, BehindCounted DEF Profile
<1>2. new[here] < old[here]
  <2>1. Behind(M, here) \subseteq Behind(L, here)
    BY <1>0 DEF Behind, Level
  <2>2. r \in Behind(L, here) /\ r \notin Behind(M, here)
    BY <1>0 DEF Behind, Level
  <2> HIDE DEF here
  <2>3. Behind(M, here) # Behind(L, here) /\ here \in Nat
    BY <1>0, <2>2
  <2>4. Cardinality(Behind(M, here)) < Cardinality(Behind(L, here))
    BY <2>1, <2>3, BehindCounted
  <2> QED
    BY <1>0, <2>4 DEF Profile
<1>3. /\ \A i \in 1..n : old[i] \in Int /\ new[i] \in Int
      /\ old \in Rising(n, Cardinality(Requests))
  BY ProfileCounts, ProfileRises
<1> HIDE DEF old, new, here
<1>4. Precedes(n, old, new)
  BY <1>0, <1>1, <1>2 DEF Precedes
<1>5. ~Precedes(n, old, old)
  BY <1>3 DEF Precedes
<1>6. ASSUME NEW f \in Passed(n, L) PROVE f \in Passed(n, M)
  <2>1. f \in Rising(n, Cardinality(Requests)) /\ Precedes(n, f, old)
    BY DEF Passed, old
  <2>2. \A i \in 1..n : f[i] \in Int
    BY <2>1, FS_CardinalityType DEF Rising
  <2>3. PICK i \in 1..n : old[i] < f[i] /\ \A j \in 1..n : j < i => old[j] <= f[j]
    BY <2>1 DEF Precedes
  <2>4. Precedes(n, f, new)
    <3>1. CASE i <= here
      BY <1>0, <1>1, <1>3, <2>2, <2>3, <3>1 DEF Precedes
    <3>2. CASE here < i
      BY <1>0, <1>1, <1>2, <1>3, <2>2, <2>3, <3>2 DEF Precedes
    <3> QED
      BY <1>0, <3>1, <3>2
  <2> QED
    BY <2>1, <2>4 DEF Passed, new
<1>7. old \in Passed(n, M) /\ old \notin Passed(n, L)
  BY <1>3, <1>4, <1>5 DEF Passed, old, new
<1>8. IsFiniteSet(Passed(n, L)) /\ IsFiniteSet(Passed(n, M))
  BY RankBounded
<1>9. Passed(n, L) \cup {old} \subseteq Passed(n, M)
  BY <1>6, <1>7
<1>10. Cardinality(Passed(n, L) \cup {old}) = Cardinality(Passed(n, L)) + 1
  BY <1>7, <1>8, FS_AddElement
<1>11. Cardinality(Passed(n, L) \cup {old}) <= Cardinality(Passed(n, M))
  BY <1>8, <1>9, FS_Subset
<1> QED
  BY <1>10, <1>11 DEF Rank
-----------------------------------------------------------------------------
(* The counters of an account *)

Kinds == {"login", "mfa"}
Column == [login |-> "failed_login_count", mfa |-> "mfa_failed_count"]
Limit == [login |-> LoginMax, mfa |-> MfaMax]
Tally == [Emails -> [login: Nat, mfa: Nat]]

\* A request that has read the row of e and may still count on it.
Holds(q, e) ==
  request[q].pc > 1 /\ request[q].op \notin Anonymous /\ request[q].email = e

\* The count a request goes by; one that holds a higher count than the row's
\* is no worse than one that is still to read it.
Levels(k, e) ==
  [q \in Requests |->
     LET now == users[e][Column[k]]
         seen == request[q].row[Column[k]]
     IN IF Holds(q, e) /\ seen < now THEN seen ELSE now]

GuessInv ==
  /\ LockInv
  /\ guesses \in Tally
  /\ \A e \in Emails, k \in Kinds :
       /\ guesses[e][k] <= Rank(Limit[k] - 1, Levels(k, e))
       /\ users[e].role = "none" => guesses[e][k] = 0

\* A request goes on with the row it holds, or has just read the row.
Follows(q) ==
  \A e \in Emails : Holds(q, e)' =>
    \/ Holds(q, e) /\ request'[q].row = request[q].row
    \/ request'[q].row = users[e]

\* A wrong guess below the limit, which ends the request.
Missed(k, e, r) ==
  /\ Holds(r, e) /\ request'[r].pc = 0
  /\ users'[e][Column[k]] = request[r].row[Column[k]] + 1
  /\ request[r].row[Column[k]] + 1 < Limit[k]
  /\ guesses'[e][k] = guesses[e][k] + 1
  /\ \A q \in Requests \ {r} : request'[q] = request[q]

Tallied(k, e) ==
  \/ guesses'[e][k] = 0
  \/ guesses'[e][k] = guesses[e][k] /\ users'[e][Column[k]] = users[e][Column[k]]
  \/ \E r \in Requests : Missed(k, e, r)

Observed ==
  /\ guesses' \in Tally
  /\ \A q \in Requests : Follows(q)
  /\ \A e \in Emails, k \in Kinds : Tallied(k, e)

LEMMA Columns ==
  ASSUME NEW k \in Kinds
  PROVE  /\ Column[k] \in {"failed_login_count", "mfa_failed_count"}
         /\ Limit[k] \in Nat \ {0} /\ Limit[k] - 1 \in Nat
         /\ \A row \in UserRow : row[Column[k]] \in Nat
         /\ \A j \in Kinds \ {k} : Column[j] # Column[k]
<1>1. Column["login"] = "failed_login_count" /\ Column["mfa"] = "mfa_failed_count"
  BY DEF Column
<1>2. Limit["login"] \in Nat \ {0} /\ Limit["mfa"] \in Nat \ {0}
  BY AccountsAssumption DEF Limit
<1>3. \A row \in UserRow : row["failed_login_count"] \in Nat /\ row["mfa_failed_count"] \in Nat
  BY DEF UserRow
<1>4. \A n \in Nat \ {0} : n - 1 \in Nat
  OBVIOUS
<1>5. k = "login" \/ k = "mfa"
  BY DEF Kinds
<1>6. Limit[k] \in Nat \ {0} /\ Limit[k] - 1 \in Nat
  BY <1>2, <1>4, <1>5
<1> QED
  BY <1>1, <1>3, <1>5, <1>6 DEF Kinds

LEMMA LevelsTyped ==
  ASSUME Types, NEW k \in Kinds, NEW e \in Emails
  PROVE  /\ Levels(k, e) \in Level
         /\ users[e][Column[k]] \in Nat
         /\ \A q \in Requests : request[q].row[Column[k]] \in Nat
<1>1. users[e][Column[k]] \in Nat
  BY Columns DEF Types
<1>2. ASSUME NEW q \in Requests
      PROVE  request[q].row[Column[k]] \in Nat
  <2>1. request[q] \in RequestState
    BY DEF Types
  <2>2. request[q].row \in UserRow
    BY <2>1 DEF RequestState
  <2> QED
    BY <2>2, Columns
<1> QED
  BY <1>1, <1>2 DEF Levels, Level

LEMMA LevelsStayTyped ==
  ASSUME Types', NEW k \in Kinds, NEW e \in Emails
  PROVE  Levels(k, e)' \in Level
<1> DEFINE c == Column[k]
<1>1. users'[e][c] \in Nat
  BY Columns DEF Types
<1>2. ASSUME NEW q \in Requests
      PROVE  request'[q].row[c] \in Nat
  <2>1. request'[q] \in RequestState
    BY DEF Types
  <2>2. request'[q].row \in UserRow
    BY <2>1 DEF RequestState
  <2> QED
    BY <2>2, Columns
<1>3. Levels(k, e)' = [q \in Requests |->
        IF Holds(q, e)' /\ request'[q].row[c] < users'[e][c] THEN request'[q].row[c] ELSE users'[e][c]]
  BY DEF Levels
<1> HIDE DEF c
<1> QED
  BY <1>1, <1>2, <1>3 DEF Level

\* Between two counts no level falls.
LEMMA LevelsKept ==
  ASSUME Types, Types', NEW k \in Kinds, NEW e \in Emails, \A q \in Requests : Follows(q),
         users'[e][Column[k]] = users[e][Column[k]]
  PROVE  \A q \in Requests : Levels(k, e)[q] <= Levels(k, e)'[q]
<1> TAKE q \in Requests
<1> DEFINE c == Column[k]
           now == users[e][c]
           seen == request[q].row[c]
           later == request'[q].row[c]
<1>1. now \in Nat /\ seen \in Nat
  BY LevelsTyped
<1>2. later \in Nat
  <2>1. request'[q] \in RequestState
    BY DEF Types
  <2>2. request'[q].row \in UserRow
    BY <2>1 DEF RequestState
  <2> QED
    BY <2>2, Columns
<1>3. Levels(k, e)[q] = IF Holds(q, e) /\ seen < now THEN seen ELSE now
  BY DEF Levels
<1>4. Levels(k, e)'[q] = IF Holds(q, e)' /\ later < now THEN later ELSE now
  BY DEF Levels
<1>5. Holds(q, e)' => (Holds(q, e) /\ later = seen) \/ later = now
  BY DEF Follows
<1> HIDE DEF now, seen, later
<1> QED
  BY <1>1, <1>2, <1>3, <1>4, <1>5

\* A wrong guess moves the account on to a profile it has not had before.
LEMMA MissedGrows ==
  ASSUME IsFiniteSet(Requests), Types, Types', NEW k \in Kinds, NEW e \in Emails,
         \A q \in Requests : Follows(q), NEW r \in Requests, Missed(k, e, r)
  PROVE  Rank(Limit[k] - 1, Levels(k, e)) + 1 <= Rank(Limit[k] - 1, Levels(k, e)')
<1> DEFINE c == Column[k]
           now == users[e][c]
           count == request[r].row[c] + 1
           L == Levels(k, e)
           M == Levels(k, e)'
<1>1. /\ Limit[k] - 1 \in Nat /\ L \in Level /\ now \in Nat /\ request[r].row[c] \in Nat
      /\ \A q \in Requests : request[q].row[c] \in Nat
  BY Columns, LevelsTyped
<1>2. count \in 1..(Limit[k] - 1) /\ users'[e][c] = count
  BY <1>1, Columns DEF Missed
<1>3. ASSUME NEW q \in Requests
      PROVE  M[q] = IF Holds(q, e)' /\ request'[q].row[c] < count THEN request'[q].row[c] ELSE count
  BY <1>2 DEF Levels
<1>4. ASSUME NEW q \in Requests
      PROVE  L[q] = IF Holds(q, e) /\ request[q].row[c] < now THEN request[q].row[c] ELSE now
  BY DEF Levels
<1>5. M \in Level
  BY LevelsStayTyped
<1>6. Holds(r, e) /\ ~Holds(r, e)'
  BY DEF Missed, Holds
<1>7. L[r] < count
  <2>1. L[r] <= request[r].row[c]
    BY <1>1, <1>4, <1>6
  <2> HIDE DEF L
  <2> QED
    BY <1>1, <2>1 DEF Level
<1>8. M[r] = count
  BY <1>3, <1>6
<1>9. ASSUME NEW q \in Requests, M[q] < count
      PROVE  L[q] <= M[q]
  <2>1. q # r /\ request'[q] = request[q]
    BY <1>2, <1>8, <1>9 DEF Missed
  <2>2. Holds(q, e) /\ M[q] = request[q].row[c]
    BY <1>2, <1>3, <1>9, <2>1 DEF Holds
  <2> QED
    BY <1>1, <1>4, <2>2
<1> HIDE DEF L, M, count
<1> QED
  BY <1>1, <1>2, <1>5, <1>7, <1>8, <1>9, RankGrows DEF L, M

LEMMA ObservedKeepsInv ==
  ASSUME IsFiniteSet(Requests), GuessInv, LockInv', Observed,
         \A e \in Emails : users'[e].role = "none" => users[e].role = "none"
  PROVE  GuessInv'
<1>1. Types /\ Types' /\ guesses \in Tally /\ guesses' \in Tally
  BY DEF GuessInv, LockInv, AccountsInv, Observed
<1>2. ASSUME NEW e \in Emails, NEW k \in Kinds
      PROVE  /\ guesses'[e][k] <= Rank(Limit[k] - 1, Levels(k, e)')
             /\ users'[e].role = "none" => guesses'[e][k] = 0
  <2> DEFINE before == Rank(Limit[k] - 1, Levels(k, e))
             after == Rank(Limit[k] - 1, Levels(k, e)')
  <2>1. guesses[e][k] \in Nat /\ guesses'[e][k] \in Nat
    BY <1>1 DEF Tally, Kinds
  <2>2. Levels(k, e) \in Level /\ Levels(k, e)' \in Level /\ Limit[k] - 1 \in Nat
    BY <1>1, LevelsTyped, LevelsStayTyped, Columns
  <2>3. before \in Nat /\ after \in Nat
    BY <2>2, RankBounded
  <2>4. guesses[e][k] <= before /\ (users'[e].role = "none" => guesses[e][k] = 0)
    BY DEF GuessInv
  <2>5. \A q \in Requests : Follows(q)
    BY DEF Observed
  <2>6. CASE guesses'[e][k] = 0
    BY <2>3, <2>6
  <2>7. CASE guesses'[e][k] = guesses[e][k] /\ users'[e][Column[k]] = users[e][Column[k]]
    <3>1. before <= after
      BY <1>1, <2>2, <2>5, <2>7, LevelsKept, RankKept
    <3> HIDE DEF before, after
    <3> QED
      BY <2>1, <2>3, <2>4, <2>7, <3>1 DEF before, after
  <2>8. CASE \E r \in Requests : Missed(k, e, r)
    <3>1. PICK r \in Requests : Missed(k, e, r)
      BY <2>8
    <3>2. before + 1 <= after
      BY <1>1, <2>5, <3>1, MissedGrows
    <3>3. guesses'[e][k] = guesses[e][k] + 1
      BY <3>1 DEF Missed
    <3>4. users[e].role # "none"
      <4>1. Sound(r) /\ request[r].pc # 0 /\ request[r].email = e /\ Holds(r, e)
        BY <3>1 DEF GuessInv, LockInv, AccountsInv, Missed, Holds
      <4> QED
        BY <4>1 DEF Sound, Informed, Registered, Holds
    <3> HIDE DEF before, after
    <3> QED
      BY <2>1, <2>3, <2>4, <3>2, <3>3, <3>4 DEF before, after
  <2> QED
    BY <2>6, <2>7, <2>8 DEF Observed, Tallied
<1> QED
  BY <1>1, <1>2 DEF GuessInv
-----------------------------------------------------------------------------
(* What a step does to the requests *)

\* A request that rests, has ended or has just begun.
LEMMA RestingFollows ==
  ASSUME NEW q \in Requests,
         \/ request'[q] = request[q]
         \/ request'[q].pc \in {0, 1}
  PROVE  Follows(q)
<1>1. CASE request'[q] = request[q]
  BY <1>1 DEF Follows, Holds
<1>2. CASE request'[q].pc \in {0, 1}
  BY <1>2 DEF Follows, Holds
<1> QED
  BY <1>1, <1>2

LEMMA RepliedFollows ==
  ASSUME Types, NEW r \in Requests, Reply(r)
  PROVE  /\ \A q \in Requests : Follows(q)
         /\ request'[r].pc = 0 /\ \A q \in Requests \ {r} : request'[q] = request[q]
<1>1. request'[r] = NoRequest /\ \A q \in Requests \ {r} : request'[q] = request[q]
  BY DEF Types, Reply
<1> QED
  BY <1>1, NoRequestAtRest, RestingFollows

LEMMA ProceededFollows ==
  ASSUME AccountsInv, NEW r \in Requests, NEW step, At(r, step),
         NEW known \in RequestState, Proceed(r, known),
         known.op = request[r].op, known.email = request[r].email, known.pc = request[r].pc,
         \/ step \notin Reads /\ known.row = request[r].row
         \/ known.row = Account(r)
  PROVE  \A q \in Requests : Follows(q)
<1> DEFINE next == [known EXCEPT !.pc = @ + 1]
<1>1. Types /\ Sound(r) /\ request[r].pc # 0 /\ Program(r)[request[r].pc] = step
  BY DEF AccountsInv, At
<1>2. Placed(r)
  BY <1>1 DEF Sound
<1>3. \A q \in Requests \ {r} : request'[q] = request[q]
  BY <1>1 DEF Types, Proceed
<1>4. request'[r] = NoRequest \/ request'[r] = next
  BY <1>1 DEF Types, Proceed
<1>5. next.op = request[r].op /\ next.email = request[r].email /\ next.row = known.row
  BY DEF RequestState
<1> HIDE DEF next
<1>6. request[r].op \notin Anonymous /\ step \notin Reads => request[r].pc > 1
  <2>1. request[r].pc \in Nat
    BY <1>1, <1>2, ProgramShape DEF Placed
  <2>2. request[r].op \notin Anonymous /\ step \notin Reads => request[r].pc # 1
    BY <1>1, <1>2, ProgramShape
  <2> QED
    BY <1>1, <2>1, <2>2
<1>7. CASE request'[r] = NoRequest
  BY <1>3, <1>7, NoRequestAtRest, RestingFollows
<1>8. CASE request'[r] = next
  <2>1. Follows(r)
    BY <1>5, <1>6, <1>8 DEF Follows, Holds, Account
  <2> QED
    BY <1>3, <2>1, RestingFollows
<1> QED
  BY <1>4, <1>7, <1>8

LEMMA WentOnFollows ==
  ASSUME AccountsInv, NEW r \in Requests, NEW step, step \notin Reads, At(r, step),
         Proceed(r, request[r]) \/ Reply(r)
  PROVE  \A q \in Requests : Follows(q)
<1>1. Types /\ request[r] \in RequestState
  BY DEF AccountsInv, Types
<1> QED
  BY <1>1, ProceededFollows, RepliedFollows

-----------------------------------------------------------------------------
(* What a step does to the counters *)

\* The number of guesses of one kind on e is set to n.
Guessed(k, e, n) ==
  /\ guesses' \in Tally /\ guesses'[e][k] = n
  /\ \A j \in Kinds \ {k} : guesses'[e][j] = guesses[e][j]
  /\ \A f \in Emails \ {e} : guesses'[f] = guesses[f]

LEMMA LoginGuessed ==
  ASSUME guesses \in Tally, NEW e \in Emails, NEW n \in Nat,
         guesses' = [guesses EXCEPT ![e].login = n]
  PROVE  Guessed("login", e, n)
<1> DEFINE new == [guesses[e] EXCEPT !.login = n]
<1>1. guesses[e] \in [login: Nat, mfa: Nat]
  BY DEF Tally
<1>2. new \in [login: Nat, mfa: Nat] /\ new["login"] = n /\ new["mfa"] = guesses[e]["mfa"]
  BY <1>1
<1>3. guesses' = [guesses EXCEPT ![e] = new]
  OBVIOUS
<1> HIDE DEF new
<1> QED
  BY <1>2, <1>3 DEF Guessed, Kinds, Tally

LEMMA MfaGuessed ==
  ASSUME guesses \in Tally, NEW e \in Emails, NEW n \in Nat,
         guesses' = [guesses EXCEPT ![e].mfa = n]
  PROVE  Guessed("mfa", e, n)
<1> DEFINE new == [guesses[e] EXCEPT !.mfa = n]
<1>1. guesses[e] \in [login: Nat, mfa: Nat]
  BY DEF Tally
<1>2. new \in [login: Nat, mfa: Nat] /\ new["mfa"] = n /\ new["login"] = guesses[e]["login"]
  BY <1>1
<1>3. guesses' = [guesses EXCEPT ![e] = new]
  OBVIOUS
<1> HIDE DEF new
<1> QED
  BY <1>2, <1>3 DEF Guessed, Kinds, Tally

LEMMA Uncounted ==
  ASSUME guesses \in Tally, UNCHANGED guesses, \A q \in Requests : Follows(q),
         \A e \in Emails : /\ users'[e].failed_login_count = users[e].failed_login_count
                           /\ users'[e].mfa_failed_count = users[e].mfa_failed_count
  PROVE  Observed
<1>1. ASSUME NEW e \in Emails, NEW k \in Kinds
      PROVE  users'[e][Column[k]] = users[e][Column[k]]
  BY <1>1, Columns
<1> QED
  BY <1>1 DEF Observed, Tallied

\* The count columns of a row that is written.
LEMMA CountWritten ==
  ASSUME Types, NEW r \in Requests, request[r].email \in Emails, NEW patch, Write(r, patch),
         NEW c \in {"failed_login_count", "mfa_failed_count"}
  PROVE  /\ \A e \in Emails \ {request[r].email} : users'[e] = users[e]
         /\ c \notin DOMAIN patch => users'[request[r].email][c] = users[request[r].email][c]
         /\ c \in DOMAIN patch /\ patch[c] # request[r].row[c] =>
              users'[request[r].email][c] = patch[c]
<1> DEFINE mine == request[r].email
           cols == Written(request[r].row, patch)
           new == Merged(users[mine], patch, cols)
<1>1. users \in [Emails -> UserRow] /\ users[mine] \in UserRow
  BY DEF Types
<1>2. c \notin DOMAIN patch => c \notin cols
  BY DEF Written
<1>3. c \in DOMAIN patch /\ patch[c] # request[r].row[c] => c \in cols
  BY DEF Written
<1>4. new[c] = IF c \in cols THEN patch[c] ELSE users[mine][c]
  BY <1>1, MergedOther DEF UserRow
<1>5. users' = [users EXCEPT ![mine] = new]
  BY DEF Write
<1> HIDE DEF new, cols
<1>6. users'[mine] = new /\ \A e \in Emails \ {mine} : users'[e] = users[e]
  BY <1>1, <1>5
<1> QED
  BY <1>2, <1>3, <1>4, <1>6

\* An endpoint that proves a credential starts the count again.
LEMMA ProvenObserved ==
  ASSUME AccountsInv, NEW r \in Requests, request[r].email \in Emails,
         \A q \in Requests : Follows(q),
         NEW k \in Kinds, Guessed(k, request[r].email, 0), NEW patch, Write(r, patch),
         \A j \in Kinds \ {k} : Column[j] \notin DOMAIN patch
  PROVE  Observed
<1> DEFINE mine == request[r].email
<1>1. Types
  BY DEF AccountsInv
<1>2. ASSUME NEW e \in Emails, NEW j \in Kinds
      PROVE  Tallied(j, e)
  <2>1. Column[j] \in {"failed_login_count", "mfa_failed_count"}
    BY Columns
  <2>2. CASE e # mine
    <3>1. users'[e] = users[e]
      BY <1>1, <2>1, <2>2, CountWritten
    <3> QED
      BY <2>2, <3>1 DEF Guessed, Tallied
  <2>3. CASE e = mine /\ j = k
    BY <2>3 DEF Guessed, Tallied
  <2>4. CASE e = mine /\ j # k
    <3>1. users'[mine][Column[j]] = users[mine][Column[j]]
      BY <1>1, <2>1, <2>4, CountWritten
    <3> QED
      BY <2>4, <3>1 DEF Guessed, Tallied
  <2> QED
    BY <2>2, <2>3, <2>4
<1> QED
  BY <1>2 DEF Observed, Guessed

\* A wrong guess counts one up from what the request has read, or locks.
LEMMA MissObserved ==
  ASSUME AccountsInv, NEW r \in Requests, NEW step \in OnRow, At(r, step), Reply(r),
         NEW k \in Kinds, NEW n, n = request[r].row[Column[k]] + 1,
         Guessed(k, request[r].email,
                 IF n >= Limit[k] THEN 0 ELSE guesses[request[r].email][k] + 1),
         NEW patch, Write(r, patch), Column[k] \in DOMAIN patch, patch[Column[k]] = n,
         \A j \in Kinds \ {k} : Column[j] \notin DOMAIN patch
  PROVE  Observed
<1> DEFINE mine == request[r].email
<1>1. Types /\ Sound(r) /\ mine \in Emails
  BY OnRowReady DEF AccountsInv
<1>2. /\ \A q \in Requests : Follows(q)
      /\ request'[r].pc = 0 /\ \A q \in Requests \ {r} : request'[q] = request[q]
  BY <1>1, RepliedFollows
<1>3. request[r].row[Column[k]] \in Nat /\ Limit[k] \in Nat
  BY <1>1, LevelsTyped, Columns
<1>4. CASE n >= Limit[k]
  BY <1>1, <1>2, <1>4, ProvenObserved
<1>5. CASE ~(n >= Limit[k])
  <2>1. Holds(r, mine)
    BY <1>1, OnRowInformed DEF Holds
  <2>2. users'[mine][Column[k]] = n
    <3>1. n # request[r].row[Column[k]]
      BY <1>3
    <3> QED
      BY <1>1, <3>1, CountWritten, Columns
  <2>3. Missed(k, mine, r)
    BY <1>2, <1>3, <1>5, <2>1, <2>2 DEF Missed, Guessed
  <2>4. ASSUME NEW e \in Emails, NEW j \in Kinds
        PROVE  Tallied(j, e)
    <3>1. Column[j] \in {"failed_login_count", "mfa_failed_count"}
      BY Columns
    <3>2. CASE e # mine
      <4>1. users'[e] = users[e]
        BY <1>1, <3>1, <3>2, CountWritten
      <4> QED
        BY <3>2, <4>1 DEF Guessed, Tallied
    <3>3. CASE e = mine /\ j = k
      BY <2>3, <3>3 DEF Tallied
    <3>4. CASE e = mine /\ j # k
      <4>1. users'[mine][Column[j]] = users[mine][Column[j]]
        BY <1>1, <3>1, <3>4, CountWritten
      <4> QED
        BY <3>4, <4>1 DEF Guessed, Tallied
    <3> QED
      BY <3>2, <3>3, <3>4
  <2> QED
    BY <1>2, <2>4 DEF Observed, Guessed
<1> QED
  BY <1>4, <1>5
-----------------------------------------------------------------------------
(* The steps *)

LEMMA ReadObserved ==
  ASSUME GuessInv, NEW r \in Requests, NEW step \in Reads, NEW acceptable,
         Read(r, step, acceptable)
  PROVE  Observed
<1>1. AccountsInv /\ Types /\ guesses \in Tally /\ At(r, step)
  BY DEF GuessInv, LockInv, AccountsInv, Read
<1>2. CASE Reply(r)
  BY <1>1, <1>2, RepliedFollows, Uncounted DEF Read
<1>3. CASE Proceed(r, [request[r] EXCEPT !.row = Account(r)])
  <2> DEFINE known == [request[r] EXCEPT !.row = Account(r)]
  <2>1. request[r] \in RequestState /\ request[r].email \in Emails
    BY <1>1 DEF AccountsInv, Types, Sound, Placed, At
  <2>2. Account(r) \in UserRow
    BY <1>1, <2>1 DEF Account, Types
  <2>3. /\ known \in RequestState /\ known.row = Account(r)
        /\ known.op = request[r].op /\ known.email = request[r].email /\ known.pc = request[r].pc
    BY <2>1, <2>2 DEF RequestState
  <2>4. Proceed(r, known)
    BY <1>3
  <2> HIDE DEF known
  <2>5. \A q \in Requests : Follows(q)
    BY <1>1, <2>3, <2>4, ProceededFollows
  <2> QED
    BY <1>1, <2>5, Uncounted DEF Read
<1> QED
  BY <1>2, <1>3 DEF Read

LEMMA ReadsObserved ==
  ASSUME GuessInv, NEW r \in Requests,
         \/ ReadUser(r) \/ ReadUnlocked(r) \/ ReadUnverified(r) \/ ReadMfa(r)
         \/ ReadMfaUnlocked(r) \/ ReadWithoutMfa(r) \/ ReadPending(r)
  PROVE  Observed
<1>1. CASE ReadUser(r)
  BY <1>1, ReadObserved DEF ReadUser, Reads
<1>2. CASE ReadUnlocked(r)
  BY <1>2, ReadObserved DEF ReadUnlocked, Reads
<1>3. CASE ReadUnverified(r)
  BY <1>3, ReadObserved DEF ReadUnverified, Reads
<1>4. CASE ReadMfa(r)
  BY <1>4, ReadObserved DEF ReadMfa, Reads
<1>5. CASE ReadMfaUnlocked(r)
  BY <1>5, ReadObserved DEF ReadMfaUnlocked, Reads
<1>6. CASE ReadWithoutMfa(r)
  BY <1>6, ReadObserved DEF ReadWithoutMfa, Reads
<1>7. CASE ReadPending(r)
  BY <1>7, ReadObserved DEF ReadPending, Reads
<1> QED
  BY <1>1, <1>2, <1>3, <1>4, <1>5, <1>6, <1>7

\* Steps that write no row.
LEMMA RowlessObserved ==
  ASSUME GuessInv, NEW r \in Requests,
         \/ SessionRows(r) \/ OpenSession(r) \/ FindEmail(r) \/ RereadForMfa(r)
         \/ MintReset(r) \/ MintVerification(r) \/ FindToken(r)
  PROVE  Observed
<1>1. AccountsInv /\ guesses \in Tally
  BY DEF GuessInv, LockInv
<1>2. /\ UNCHANGED <<users, guesses>>
      /\ Proceed(r, request[r]) \/ Reply(r)
  BY DEF SessionRows, OpenSession, FindEmail, RereadForMfa, MfaGate, MintReset,
         MintVerification, Mint, FindToken
<1>3. PICK step : At(r, step) /\ step \notin Reads
  BY DEF SessionRows, OpenSession, FindEmail, RereadForMfa, MintReset,
         MintVerification, Mint, FindToken, Reads
<1>4. \A q \in Requests : Follows(q)
  BY <1>1, <1>2, <1>3, WentOnFollows
<1> QED
  BY <1>1, <1>2, <1>4, Uncounted

LEMMA CountUsersObserved ==
  ASSUME GuessInv, NEW r \in Requests, CountUsers(r)
  PROVE  Observed
<1> DEFINE known == [request[r] EXCEPT !.first = (Registered = {})]
<1>1. /\ AccountsInv /\ guesses \in Tally /\ request[r] \in RequestState
      /\ At(r, "countUsers") /\ "countUsers" \notin Reads
  BY DEF GuessInv, LockInv, AccountsInv, Types, CountUsers, Reads
<1>2. Proceed(r, known) /\ UNCHANGED <<users, guesses>>
  BY DEF CountUsers
<1>3. /\ known \in RequestState /\ known.row = request[r].row
      /\ known.op = request[r].op /\ known.email = request[r].email /\ known.pc = request[r].pc
  BY <1>1 DEF RequestState
<1> HIDE DEF known
<1>4. \A q \in Requests : Follows(q)
  BY <1>1, <1>2, <1>3, ProceededFollows
<1> QED
  BY <1>1, <1>2, <1>4, Uncounted

\* An account that appears has no guesses to answer for.
LEMMA InsertUserObserved ==
  ASSUME GuessInv, NEW r \in Requests, InsertUser(r)
  PROVE  Observed
<1> DEFINE mine == request[r].email
<1>1. /\ AccountsInv /\ guesses \in Tally /\ At(r, "insertUser") /\ "insertUser" \notin Reads
      /\ users \in [Emails -> UserRow] /\ guesses' = guesses
      /\ Proceed(r, request[r]) \/ Reply(r)
  BY DEF GuessInv, LockInv, AccountsInv, Types, InsertUser, Reads
<1>2. \A q \in Requests : Follows(q)
  BY <1>1, WentOnFollows
<1>3. ASSUME NEW e \in Emails, NEW k \in Kinds
      PROVE  Tallied(k, e)
  <2>1. CASE e # mine
    BY <1>1, <2>1 DEF InsertUser, Tallied
  <2>2. CASE users' = users
    BY <1>1, <2>2 DEF Tallied
  <2>3. CASE e = mine /\ mine \notin Registered
    <3>1. guesses[e][k] = 0
      BY <2>3 DEF GuessInv, Registered
    <3> QED
      BY <1>1, <3>1 DEF Tallied
  <2> QED
    BY <2>1, <2>2, <2>3 DEF InsertUser
<1> QED
  BY <1>1, <1>2, <1>3 DEF Observed

LEMMA LoginFailureObserved ==
  ASSUME GuessInv, NEW r \in Requests, NEW step \in OnRow, At(r, step), LoginFailure(r)
  PROVE  Observed
<1> DEFINE mine == request[r].email
           n == request[r].row.failed_login_count + 1
           count == IF n >= LoginMax THEN 0 ELSE guesses[mine].login + 1
           locking == [failed_login_count |-> n, locked_until |-> "future"]
           counting == [failed_login_count |-> n]
<1>1. AccountsInv /\ Types /\ guesses \in Tally /\ mine \in Emails
  BY OnRowReady DEF GuessInv, LockInv, AccountsInv
<1>2. "login" \in Kinds /\ Column["login"] = "failed_login_count" /\ Limit["login"] = LoginMax
  BY DEF Kinds, Column, Limit
<1>3. \A j \in Kinds \ {"login"} : Column[j] = "mfa_failed_count"
  BY DEF Kinds, Column
<1>4. Reply(r) /\ (Write(r, locking) \/ Write(r, counting))
  BY DEF LoginFailure
<1>5. Guessed("login", mine, count)
  <2>1. count \in Nat
    BY <1>1 DEF Tally
  <2>2. guesses' = [guesses EXCEPT ![mine].login = count]
    BY DEF LoginFailure
  <2> HIDE DEF count
  <2> QED
    BY <1>1, <2>1, <2>2, LoginGuessed
<1>6. /\ DOMAIN locking = {"failed_login_count", "locked_until"}
      /\ locking["failed_login_count"] = n
      /\ DOMAIN counting = {"failed_login_count"} /\ counting["failed_login_count"] = n
  OBVIOUS
<1>7. /\ n = request[r].row[Column["login"]] + 1
      /\ count = IF n >= Limit["login"] THEN 0 ELSE guesses[mine]["login"] + 1
  BY <1>2
<1> HIDE DEF locking, counting, count, n
<1>8. CASE Write(r, locking)
  BY <1>1, <1>2, <1>3, <1>4, <1>5, <1>6, <1>7, <1>8, MissObserved
<1>9. CASE Write(r, counting)
  BY <1>1, <1>2, <1>3, <1>4, <1>5, <1>6, <1>7, <1>9, MissObserved
<1> QED
  BY <1>4, <1>8, <1>9

LEMMA MfaFailureObserved ==
  ASSUME GuessInv, NEW r \in Requests, NEW step \in OnRow, At(r, step), MfaFailure(r)
  PROVE  Observed
<1> DEFINE mine == request[r].email
           n == request[r].row.mfa_failed_count + 1
           count == IF n >= MfaMax THEN 0 ELSE guesses[mine].mfa + 1
           locking == [mfa_failed_count |-> n, mfa_locked_until |-> "future"]
           counting == [mfa_failed_count |-> n]
<1>1. AccountsInv /\ Types /\ guesses \in Tally /\ mine \in Emails
  BY OnRowReady DEF GuessInv, LockInv, AccountsInv
<1>2. "mfa" \in Kinds /\ Column["mfa"] = "mfa_failed_count" /\ Limit["mfa"] = MfaMax
  BY DEF Kinds, Column, Limit
<1>3. \A j \in Kinds \ {"mfa"} : Column[j] = "failed_login_count"
  BY DEF Kinds, Column
<1>4. Reply(r) /\ (Write(r, locking) \/ Write(r, counting))
  BY DEF MfaFailure
<1>5. Guessed("mfa", mine, count)
  <2>1. count \in Nat
    BY <1>1 DEF Tally
  <2>2. guesses' = [guesses EXCEPT ![mine].mfa = count]
    BY DEF MfaFailure
  <2> HIDE DEF count
  <2> QED
    BY <1>1, <2>1, <2>2, MfaGuessed
<1>6. /\ DOMAIN locking = {"mfa_failed_count", "mfa_locked_until"}
      /\ locking["mfa_failed_count"] = n
      /\ DOMAIN counting = {"mfa_failed_count"} /\ counting["mfa_failed_count"] = n
  OBVIOUS
<1>7. /\ n = request[r].row[Column["mfa"]] + 1
      /\ count = IF n >= Limit["mfa"] THEN 0 ELSE guesses[mine]["mfa"] + 1
  BY <1>2
<1> HIDE DEF locking, counting, count, n
<1>8. CASE Write(r, locking)
  BY <1>1, <1>2, <1>3, <1>4, <1>5, <1>6, <1>7, <1>8, MissObserved
<1>9. CASE Write(r, counting)
  BY <1>1, <1>2, <1>3, <1>4, <1>5, <1>6, <1>7, <1>9, MissObserved
<1> QED
  BY <1>4, <1>8, <1>9

LEMMA LoginObserved ==
  ASSUME GuessInv, NEW r \in Requests,
         VerifyPasswordReturning(r) \/ VerifyPasswordSaved(r) \/ VerifyPassword(r)
  PROVE  Observed
<1> DEFINE patch == [failed_login_count |-> 0, locked_until |-> "none"]
           mine == request[r].email
<1>1. PICK step \in OnRow : At(r, step)
  BY DEF VerifyPasswordReturning, VerifyPasswordSaved, VerifyPassword, OnRow, Gates
<1>2. AccountsInv /\ guesses \in Tally /\ mine \in Emails /\ step \notin Reads
  BY <1>1, OnRowReady DEF GuessInv, LockInv
<1>3. CASE LoginFailure(r)
  BY <1>1, <1>3, LoginFailureObserved
<1>4. CASE LoginSuccess(r) /\ (Reply(r) \/ Proceed(r, request[r]))
  <2>1. Write(r, patch) /\ Guessed("login", mine, 0)
    BY <1>2, <1>4, LoginGuessed DEF LoginSuccess
  <2>2. \A q \in Requests : Follows(q)
    BY <1>1, <1>2, <1>4, WentOnFollows
  <2>3. "login" \in Kinds /\ \A j \in Kinds \ {"login"} : Column[j] \notin DOMAIN patch
    BY DEF Kinds, Column
  <2> HIDE DEF patch
  <2> QED
    BY <1>2, <2>1, <2>2, <2>3, ProvenObserved
<1> QED
  BY <1>3, <1>4 DEF VerifyPasswordReturning, VerifyPasswordSaved, VerifyPassword, MfaGate

\* A right code, with whatever else the endpoint writes.
LEMMA MfaProvenObserved ==
  ASSUME GuessInv, NEW r \in Requests, request[r].email \in Emails, MfaProven(r),
         \A q \in Requests : Follows(q), NEW patch, Write(r, patch),
         "failed_login_count" \notin DOMAIN patch
  PROVE  Observed
<1>1. AccountsInv /\ Guessed("mfa", request[r].email, 0)
  BY MfaGuessed DEF GuessInv, LockInv, MfaProven
<1>2. "mfa" \in Kinds /\ \A j \in Kinds \ {"mfa"} : Column[j] \notin DOMAIN patch
  BY DEF Kinds, Column
<1> QED
  BY <1>1, <1>2, ProvenObserved

LEMMA VerifyFactorObserved ==
  ASSUME GuessInv, NEW r \in Requests, VerifyFactor(r)
  PROVE  Observed
<1> DEFINE left == request[r].row.mfa_recovery_codes_enc \ {request[r].input.code}
           recovered == [mfa_recovery_codes_enc |-> left, mfa_failed_count |-> 0,
                         mfa_locked_until |-> "none"]
           verified == [mfa_failed_count |-> 0, mfa_locked_until |-> "none"]
<1>1. At(r, "verifyFactor") /\ "verifyFactor" \in OnRow
  BY DEF VerifyFactor, OnRow
<1>2. AccountsInv /\ request[r].email \in Emails /\ "verifyFactor" \notin Reads
  BY <1>1, OnRowReady DEF GuessInv, LockInv
<1>3. CASE MfaFailure(r)
  BY <1>1, <1>3, MfaFailureObserved
<1>4. CASE MfaProven(r) /\ Proceed(r, request[r]) /\ (Write(r, recovered) \/ Write(r, verified))
  <2>1. "failed_login_count" \notin DOMAIN recovered /\ "failed_login_count" \notin DOMAIN verified
    OBVIOUS
  <2> HIDE DEF recovered, verified
  <2>2. \A q \in Requests : Follows(q)
    BY <1>1, <1>2, <1>4, WentOnFollows
  <2> QED
    BY <1>2, <1>4, <2>1, <2>2, MfaProvenObserved
<1> QED
  BY <1>3, <1>4 DEF VerifyFactor

LEMMA EnrollmentObserved ==
  ASSUME GuessInv, NEW r \in Requests, WriteSecret(r) \/ EnableMfa(r) \/ RegenerateCodes(r)
  PROVE  Observed
<1> DEFINE secret == [mfa_secret_enc |-> minted + 1]
           enabled == [mfa_enabled |-> TRUE, mfa_recovery_codes_enc |-> CodeSet(minted + 1),
                       mfa_failed_count |-> 0, mfa_locked_until |-> "none"]
           codes == [mfa_recovery_codes_enc |-> CodeSet(minted + 1),
                     mfa_failed_count |-> 0, mfa_locked_until |-> "none"]
<1>1. PICK step \in OnRow : At(r, step)
  BY DEF WriteSecret, EnableMfa, RegenerateCodes, OnRow
<1>2. /\ AccountsInv /\ Types /\ guesses \in Tally
      /\ request[r].email \in Emails /\ step \notin Reads
  BY <1>1, OnRowReady DEF GuessInv, LockInv, AccountsInv
<1>3. CASE MfaFailure(r)
  BY <1>1, <1>3, MfaFailureObserved
<1>4. CASE Proceed(r, request[r])
  <2>1. \A q \in Requests : Follows(q)
    BY <1>1, <1>2, <1>4, WentOnFollows
  <2>2. /\ DOMAIN secret = {"mfa_secret_enc"}
        /\ "failed_login_count" \notin DOMAIN enabled /\ "failed_login_count" \notin DOMAIN codes
    OBVIOUS
  <2> HIDE DEF secret, enabled, codes
  <2>3. CASE MfaProven(r) /\ (Write(r, enabled) \/ Write(r, codes))
    BY <1>2, <2>1, <2>2, <2>3, MfaProvenObserved
  <2>4. CASE UNCHANGED <<users, guesses>>
    BY <1>2, <2>1, <2>4, Uncounted
  <2>5. CASE Write(r, secret) /\ UNCHANGED guesses
    <3>1. \A e \in Emails : /\ users'[e].failed_login_count = users[e].failed_login_count
                            /\ users'[e].mfa_failed_count = users[e].mfa_failed_count
      BY <1>2, <2>2, <2>5, CountWritten
    <3> QED
      BY <1>2, <2>1, <2>5, <3>1, Uncounted
  <2> QED
    BY <1>3, <2>3, <2>4, <2>5 DEF WriteSecret, EnableMfa, RegenerateCodes, secret, enabled, codes
<1> QED
  BY <1>3, <1>4 DEF WriteSecret, EnableMfa, RegenerateCodes

\* The other requests learn that MFA is off; what they have read stays.
LEMMA DisableMfaObserved ==
  ASSUME GuessInv, NEW r \in Requests, DisableMfa(r)
  PROVE  Observed
<1> DEFINE patch == [mfa_enabled |-> FALSE, mfa_secret_enc |-> 0, mfa_recovery_codes_enc |-> {},
                     mfa_failed_count |-> 0, mfa_locked_until |-> "none"]
<1>1. At(r, "disableMfa") /\ "disableMfa" \in OnRow
  BY DEF DisableMfa, OnRow
<1>2. /\ AccountsInv /\ Types /\ guesses \in Tally
      /\ request[r].email \in Emails /\ "disableMfa" \notin Reads
  BY <1>1, OnRowReady DEF GuessInv, LockInv, AccountsInv
<1>3. CASE Reply(r) /\ UNCHANGED <<users, guesses>>
  BY <1>2, <1>3, RepliedFollows, Uncounted
<1>4. CASE MfaFailure(r)
  BY <1>1, <1>4, MfaFailureObserved
<1>5. CASE /\ MfaProven(r) /\ Write(r, patch)
           /\ request' = [q \in Requests |->
                IF q = r THEN NoRequest
                ELSE [request[q] EXCEPT !.armed = @ /\ request[q].email # request[r].email]]
  <2>1. ASSUME NEW q \in Requests
        PROVE  Follows(q)
    <3>1. CASE q = r
      BY <1>5, <2>1, <3>1, NoRequestAtRest, RestingFollows
    <3>2. CASE q # r
      <4>1. request[q] \in RequestState
        BY <1>2 DEF Types
      <4>2. /\ request'[q].pc = request[q].pc /\ request'[q].op = request[q].op
            /\ request'[q].email = request[q].email /\ request'[q].row = request[q].row
        BY <1>5, <3>2, <4>1 DEF RequestState
      <4> QED
        BY <4>2 DEF Follows, Holds
    <3> QED
      BY <3>1, <3>2
  <2>2. "failed_login_count" \notin DOMAIN patch
    OBVIOUS
  <2> HIDE DEF patch
  <2> QED
    BY <1>2, <1>5, <2>1, <2>2, MfaProvenObserved
<1> QED
  BY <1>3, <1>4, <1>5 DEF DisableMfa

\* A new password or a verified address starts no count again.
LEMMA PasswordObserved ==
  ASSUME GuessInv, NEW r \in Requests,
         ChangePassword(r) \/ RedeemOrRollback(r) \/ RedeemMatching(r)
  PROVE  Observed
<1> DEFINE patch == [password_hash |-> minted + 1]
           mine == request[r].email
<1>1. PICK step : At(r, step) /\ step \notin Reads
  BY DEF ChangePassword, RedeemOrRollback, RedeemMatching, Reads
<1>2. /\ AccountsInv /\ Types /\ guesses \in Tally /\ guesses' = guesses
      /\ Proceed(r, request[r]) \/ Reply(r)
  BY DEF GuessInv, LockInv, AccountsInv, ChangePassword, RedeemOrRollback, RedeemMatching
<1>3. mine \in Emails /\ users \in [Emails -> UserRow] /\ users[mine] \in UserRow
  BY <1>1, <1>2 DEF AccountsInv, Types, Sound, Placed, At
<1>4. \A e \in Emails : /\ users'[e].failed_login_count = users[e].failed_login_count
                        /\ users'[e].mfa_failed_count = users[e].mfa_failed_count
  <2>1. CASE users' = users
    BY <2>1
  <2>2. CASE Write(r, patch)
    <3>1. DOMAIN patch = {"password_hash"}
      OBVIOUS
    <3> HIDE DEF patch
    <3> QED
      BY <1>2, <1>3, <2>2, <3>1, CountWritten
  <2>3. CASE users' = [users EXCEPT ![mine].password_hash = minted + 1]
    BY <1>3, <2>3 DEF UserRow
  <2>4. CASE users' = [users EXCEPT ![mine].email_verified = TRUE]
    BY <1>3, <2>4 DEF UserRow
  <2> QED
    BY <2>1, <2>2, <2>3, <2>4 DEF ChangePassword, RedeemOrRollback, RedeemMatching, Redeem
<1>5. \A q \in Requests : Follows(q)
  BY <1>1, <1>2, WentOnFollows
<1> QED
  BY <1>2, <1>4, <1>5, Uncounted

\* A request that begins has read nothing.
LEMMA ArriveObserved ==
  ASSUME GuessInv, NEW r \in Requests, Arrive(r)
  PROVE  Observed
<1>1. ASSUME NEW op, NEW e, NEW input, NEW cost, NEW late, Call(r, op, e, input, cost, late)
      PROVE  Observed
  <2>1. Types /\ guesses \in Tally /\ UNCHANGED <<users, guesses>>
    BY <1>1 DEF GuessInv, LockInv, AccountsInv, Call
  <2>2. request'[r].pc = 1 /\ \A q \in Requests \ {r} : request'[q] = request[q]
    BY <1>1, <2>1 DEF Types, Call, NoRequest
  <2>3. \A q \in Requests : Follows(q)
    BY <2>2, RestingFollows
  <2> QED
    BY <2>1, <2>3, Uncounted
<1>2. CASE \E e \in Emails : CallSignup(r, e) \/ CallLogin(r, e) \/ CallByEmail(r, e)
  BY <1>1, <1>2 DEF CallSignup, CallLogin, CallByEmail
<1>3. CASE \E e \in Emails : CallChallenge(r, e)
  BY <1>1, <1>3 DEF CallChallenge
<1>4. CASE \E e \in Emails : CallAsUser(r, e)
  BY <1>1, <1>4 DEF CallAsUser
<1>5. CASE \E t \in TokenIds : CallWithToken(r, t)
  BY <1>1, <1>5 DEF CallWithToken
<1> QED
  BY <1>2, <1>3, <1>4, <1>5 DEF Arrive
-----------------------------------------------------------------------------
(* The bound *)

LEMMA GuessInvInductive ==
  ASSUME IsFiniteSet(Requests), GuessInv, [AccountsNext]_accountVars
  PROVE  GuessInv'
<1>1. LockInv /\ LockInv' /\ AccountsInv /\ Types /\ guesses \in Tally
  BY LockInvInductive DEF GuessInv, LockInv, AccountsInv
<1>2. ASSUME NEW r \in Requests, Arrive(r) \/ Handle(r)
      PROVE  GuessInv'
  <2>1. Observed
    BY <1>2, ArriveObserved, ReadsObserved, RowlessObserved, CountUsersObserved,
       InsertUserObserved, LoginObserved, VerifyFactorObserved, EnrollmentObserved,
       DisableMfaObserved, PasswordObserved DEF Handle
  <2>2. \A e \in Emails : users'[e].role = "none" => users[e].role = "none"
    BY <1>1, <1>2, HandleHandled DEF Handled
  <2> QED
    BY <1>1, <2>1, <2>2, ObservedKeepsInv
<1>3. ASSUME NEW e \in Emails, LocksExpire(e)
      PROVE  GuessInv'
  <2>1. PICK c \in {"locked_until", "mfa_locked_until"} :
               users' = [users EXCEPT ![e] = [users[e] EXCEPT ![c] = "past"]]
    BY <1>3 DEF LocksExpire
  <2> DEFINE row == [users[e] EXCEPT ![c] = "past"]
  <2>2. users \in [Emails -> UserRow] /\ users[e] \in UserRow
    BY <1>1 DEF Types
  <2>3. /\ row.role = users[e].role /\ row.failed_login_count = users[e].failed_login_count
        /\ row.mfa_failed_count = users[e].mfa_failed_count
    BY <2>2 DEF UserRow
  <2>4. users' = [users EXCEPT ![e] = row]
    BY <2>1
  <2> HIDE DEF row
  <2>5. users'[e] = row /\ \A f \in Emails \ {e} : users'[f] = users[f]
    BY <2>2, <2>4
  <2>6. \A f \in Emails : /\ users'[f].failed_login_count = users[f].failed_login_count
                          /\ users'[f].mfa_failed_count = users[f].mfa_failed_count
                          /\ users'[f].role = users[f].role
    BY <2>3, <2>5
  <2>7. UNCHANGED <<request, guesses>>
    BY <1>3 DEF LocksExpire
  <2>8. \A q \in Requests : Follows(q)
    BY <2>7, RestingFollows
  <2>9. Observed
    BY <1>1, <2>6, <2>7, <2>8, Uncounted
  <2> QED
    BY <1>1, <2>6, <2>9, ObservedKeepsInv
<1>4. CASE CleanupTokens \/ AccountsCrash \/ (\E t \in TokenIds : TokenExpires(t))
             \/ UNCHANGED accountVars
  <2>1. UNCHANGED <<users, guesses>>
    BY <1>4 DEF CleanupTokens, AccountsCrash, TokenExpires, accountVars
  <2>2. ASSUME NEW q \in Requests
        PROVE  request'[q] = request[q] \/ request'[q] = NoRequest
    BY <1>4 DEF CleanupTokens, AccountsCrash, TokenExpires, accountVars
  <2>3. \A q \in Requests : Follows(q)
    BY <2>2, NoRequestAtRest, RestingFollows
  <2>4. Observed
    BY <1>1, <2>1, <2>3, Uncounted
  <2> QED
    BY <1>1, <2>1, <2>4, ObservedKeepsInv
<1> QED
  BY <1>2, <1>3, <1>4 DEF AccountsNext

LEMMA InitGuesses ==
  ASSUME IsFiniteSet(Requests), AccountsInit, LockInv
  PROVE  GuessInv
<1>1. Types /\ guesses = [e \in Emails |-> [login |-> 0, mfa |-> 0]]
  BY DEF AccountsInit, LockInv, AccountsInv
<1>2. guesses \in Tally
  BY <1>1 DEF Tally
<1>3. ASSUME NEW e \in Emails, NEW k \in Kinds
      PROVE  guesses[e][k] = 0 /\ Rank(Limit[k] - 1, Levels(k, e)) \in Nat
  <2>1. guesses[e][k] = 0
    BY <1>1 DEF Kinds
  <2> QED
    BY <1>1, <2>1, Columns, LevelsTyped, RankBounded
<1> QED
  BY <1>2, <1>3 DEF GuessInv

\* However the guesses of any number of requests overwrite each other's
\* counts, an account is locked before it has answered more wrong ones than
\* there are profiles its counters can pass through.
THEOREM GuessesAreBounded ==
  ASSUME IsFiniteSet(Requests)
  PROVE  AccountsSpec => []GuessesBounded
<1>1. AccountsInit /\ LockInv => GuessInv
  BY InitGuesses
<1>2. GuessInv /\ [AccountsNext]_accountVars => GuessInv'
  BY GuessInvInductive
<1>3. GuessInv => GuessesBounded
  <2> SUFFICES ASSUME GuessInv, NEW e \in Emails
               PROVE  /\ guesses[e].login <= GuessBound(LoginMax)
                      /\ guesses[e].mfa <= GuessBound(MfaMax)
    BY DEF GuessesBounded
  <2>1. Types /\ Cardinality(Requests) \in Nat /\ guesses \in Tally
    BY FS_CardinalityType DEF GuessInv, LockInv, AccountsInv
  <2>2. ASSUME NEW k \in Kinds
        PROVE  guesses[e][k] <= GuessBound(Limit[k])
    <3> DEFINE n == Limit[k] - 1
               rank == Rank(n, Levels(k, e))
               bound == choose(n + Cardinality(Requests), Cardinality(Requests))
    <3>1. n \in Nat /\ Levels(k, e) \in Level
      BY <2>1, Columns, LevelsTyped
    <3>2. rank \in Nat /\ rank <= bound - 1
      BY <3>1, RankBounded
    <3>3. bound \in Nat
      BY <2>1, <3>1, RisingCount, FS_CardinalityType
    <3>4. guesses[e][k] \in Nat /\ guesses[e][k] <= rank
      BY <2>1, <2>2 DEF GuessInv, Tally, Kinds
    <3>5. GuessBound(Limit[k]) = bound - 1
      BY DEF GuessBound
    <3> HIDE DEF rank, bound
    <3> QED
      BY <3>2, <3>3, <3>4, <3>5
  <2>3. "login" \in Kinds /\ Limit["login"] = LoginMax /\ "mfa" \in Kinds /\ Limit["mfa"] = MfaMax
    BY DEF Kinds, Limit
  <2> QED
    BY <2>2, <2>3
<1> QED
  BY <1>1, <1>2, <1>3, LockInvHolds, PTL DEF AccountsSpec
=============================================================================
