---------------------------- MODULE CodecProofs ------------------------------
(***************************************************************************)
(* Proofs about the format: what the writers of Wire and Fields write,     *)
(* their readers read, whatever is before and behind it in the buffer, for *)
(* any width of groups and words; and what anybody else wrote they read    *)
(* without leaving the buffer.                                             *)
(***************************************************************************)
EXTENDS Fields, FiniteSetTheorems, SequenceTheorems, TLAPS

-----------------------------------------------------------------------------
(* Arithmetic.                                                             *)

LEMMA TimesIsMonotonic ==
    ASSUME NEW a \in Nat, NEW b \in Nat, NEW c \in Nat, a <= b
    PROVE  a * c <= b * c /\ c * a <= c * b
  OBVIOUS

LEMMA TimesIsNatural ==
    ASSUME NEW a \in Nat, NEW b \in Nat
    PROVE  a * b \in Nat /\ a * b = b * a
  OBVIOUS

LEMMA Division ==
    ASSUME NEW a \in Nat, NEW d \in Nat, d > 0
    PROVE  a \div d \in Nat /\ a % d \in 0 .. d - 1 /\ a = ((a \div d) * d) + (a % d)
  OBVIOUS

\* Quotient and remainder are unique.
LEMMA DivisionUnique ==
    ASSUME NEW a \in Nat, NEW d \in Nat, d > 0,
           NEW q \in Nat, NEW r \in 0 .. d - 1, a = (q * d) + r
    PROVE  q = a \div d /\ r = a % d
<1> DEFINE p == a \div d
           s == a % d
<1>1. p \in Nat /\ s \in 0 .. d - 1 /\ a = (p * d) + s
  BY Division
<1> HIDE DEF p, s
<1>2. ASSUME p < q PROVE FALSE
  <2>1. (p + 1) * d <= q * d
    BY <1>2, <1>1, TimesIsMonotonic
  <2>2. (p + 1) * d = (p * d) + d
    BY <1>1
  <2>3. p * d \in Nat /\ q * d \in Nat
    BY <1>1, TimesIsNatural
  <2> QED
    BY <2>1, <2>2, <2>3, <1>1
<1>3. ASSUME q < p PROVE FALSE
  <2>1. (q + 1) * d <= p * d
    BY <1>3, <1>1, TimesIsMonotonic
  <2>2. (q + 1) * d = (q * d) + d
    BY <1>1
  <2>3. p * d \in Nat /\ q * d \in Nat
    BY <1>1, TimesIsNatural
  <2> QED
    BY <2>1, <2>2, <2>3, <1>1
<1>4. p = q
  BY <1>1, <1>2, <1>3
<1>5. r = s
  <2>1. q * d \in Nat
    BY TimesIsNatural
  <2> QED
    BY <2>1, <1>1, <1>4
<1> QED
  BY <1>4, <1>5 DEF p, s

-----------------------------------------------------------------------------
(* Induction and recursion over the natural numbers, without operator      *)
(* parameters: sets in the place of predicates, functions in the place of  *)
(* operators.                                                              *)

\* Every non-empty set of natural numbers has a least one: the intervals from 0 to its
\* elements are finite sets, of which one has no other one as a strict subset.
LEMMA LeastNumber ==
    ASSUME NEW T \in SUBSET Nat, T # {}
    PROVE  \E n \in T : \A m \in T : n <= m
<1> DEFINE F == {0 .. t : t \in T}
<1>1. F \subseteq FiniteSubsetsOf(Nat) /\ F # {}
  <2>1. ASSUME NEW t \in T PROVE 0 .. t \in FiniteSubsetsOf(Nat)
    <3>1. IsFiniteSet(0 .. t)
      BY FS_Interval
    <3>2. 0 .. t \in SUBSET Nat
      OBVIOUS
    <3> QED
      BY <3>1, <3>2 DEF FiniteSubsetsOf
  <2> QED
    BY <2>1
<1>2. PICK X \in F : \A Y \in F : <<Y, X>> \notin StrictSubsetOrdering(Nat)
  <2> HIDE DEF F
  <2> QED
    BY <1>1, WFMin, FS_StrictSubsetOrderingWellFounded
<1>3. PICK t \in T : X = 0 .. t
  BY <1>2
<1>4. ASSUME NEW u \in T, u < t PROVE FALSE
  <2>1. /\ 0 .. u \in SUBSET Nat /\ 0 .. t \in SUBSET Nat
        /\ 0 .. u \subseteq 0 .. t /\ t \notin 0 .. u /\ t \in 0 .. t
    BY <1>4
  <2>2. <<0 .. u, 0 .. t>> \in StrictSubsetOrdering(Nat)
    BY <2>1 DEF StrictSubsetOrdering
  <2> QED
    BY <2>2, <1>2, <1>3
<1> QED
  BY <1>4

LEMMA Induction ==
    ASSUME NEW S, 0 \in S, \A n \in Nat : n \in S => n + 1 \in S
    PROVE  Nat \subseteq S
<1> DEFINE T == {n \in Nat : n \notin S}
<1> SUFFICES ASSUME T # {} PROVE FALSE
  OBVIOUS
<1>1. PICK n \in T : \A m \in T : n <= m
  BY LeastNumber
<1>2. n # 0 /\ n - 1 \in Nat /\ n - 1 \notin T
  BY <1>1
<1> QED
  BY <1>2

\* A function that starts with a and goes on with step, as long as it is a number.
Follows(g, n, a, step) ==
    /\ g[0] = a
    /\ \A k \in 1 .. n : g[k - 1] \in Nat => g[k] = step[<<g[k - 1], k>>]

LEMMA RecursionUnique ==
    ASSUME NEW a \in Nat, NEW step \in [Nat \X Nat -> Nat],
           NEW n \in Nat, NEW m \in Nat, NEW g, NEW h,
           Follows(g, n, a, step), Follows(h, m, a, step)
    PROVE  \A k \in Nat : k <= n /\ k <= m => g[k] \in Nat /\ g[k] = h[k]
<1> DEFINE T == {k \in Nat : k <= n /\ k <= m => g[k] \in Nat /\ g[k] = h[k]}
<1>1. 0 \in T
  BY DEF Follows
<1>2. ASSUME NEW k \in Nat, k \in T PROVE k + 1 \in T
  <2> SUFFICES ASSUME k + 1 <= n, k + 1 <= m
               PROVE  g[k + 1] \in Nat /\ g[k + 1] = h[k + 1]
    OBVIOUS
  <2>1. g[k] \in Nat /\ g[k] = h[k]
    BY <1>2
  <2>2. k + 1 \in 1 .. n /\ k + 1 \in 1 .. m /\ (k + 1) - 1 = k
    OBVIOUS
  <2>3. g[k + 1] = step[<<g[k], k + 1>>] /\ h[k + 1] = step[<<h[k], k + 1>>]
    BY <2>1, <2>2 DEF Follows
  <2> QED
    BY <2>1, <2>3
<1> HIDE DEF T
<1>3. Nat \subseteq T
  BY <1>1, <1>2, Induction
<1> QED
  BY <1>3 DEF T

\* There is such a function on every interval.
LEMMA Recursion ==
    ASSUME NEW a \in Nat, NEW step \in [Nat \X Nat -> Nat], NEW n \in Nat
    PROVE  \E g \in [0 .. n -> Nat] : Follows(g, n, a, step)
<1> DEFINE T == {k \in Nat : \E g \in [0 .. k -> Nat] : Follows(g, k, a, step)}
<1>1. 0 \in T
  <2> DEFINE g == [k \in 0 .. 0 |-> a]
  <2>1. g \in [0 .. 0 -> Nat] /\ Follows(g, 0, a, step)
    BY DEF Follows
  <2> QED
    BY <2>1
<1>2. ASSUME NEW k \in Nat, k \in T PROVE k + 1 \in T
  <2>1. PICK g \in [0 .. k -> Nat] : Follows(g, k, a, step)
    BY <1>2
  <2> DEFINE h == [i \in 0 .. k + 1 |-> IF i = k + 1 THEN step[<<g[k], k + 1>>] ELSE g[i]]
  <2>2. /\ h \in [0 .. k + 1 -> Nat]
        /\ h[k + 1] = step[<<g[k], k + 1>>]
        /\ \A i \in 0 .. k : h[i] = g[i]
    OBVIOUS
  <2> HIDE DEF h
  <2>3. \A i \in 1 .. k + 1 : h[i] = step[<<h[i - 1], i>>]
    <3> SUFFICES ASSUME NEW i \in 1 .. k + 1 PROVE h[i] = step[<<h[i - 1], i>>]
      OBVIOUS
    <3>1. CASE i = k + 1
      <4>1. i - 1 = k /\ h[i - 1] = g[k]
        BY <3>1, <2>2
      <4> QED
        BY <3>1, <4>1, <2>2
    <3>2. CASE i # k + 1
      <4>1. i \in 1 .. k /\ i - 1 \in 0 .. k
        BY <3>2
      <4> QED
        BY <4>1, <2>1, <2>2 DEF Follows
    <3> QED
      BY <3>1, <3>2
  <2>4. h[0] = a
    BY <2>1, <2>2 DEF Follows
  <2>5. Follows(h, k + 1, a, step)
    BY <2>3, <2>4 DEF Follows
  <2> QED
    BY <2>2, <2>5, SMTT(20)
<1> HIDE DEF T
<1>3. Nat \subseteq T
  BY <1>1, <1>2, Induction
<1> QED
  BY <1>3 DEF T

-----------------------------------------------------------------------------
(* Powers and digits.                                                      *)

\* Power satisfies its recursion.
LEMMA PowerFacts ==
    ASSUME NEW b \in Nat
    PROVE  /\ Power(b, 0) = 1
           /\ \A n \in Nat : Power(b, n) \in Nat /\ Power(b, n + 1) = b * Power(b, n)
<1> DEFINE step == [p \in Nat \X Nat |-> b * p[1]]
           pow(n) == CHOOSE g : g = [k \in 0 .. n |-> IF k = 0 THEN 1 ELSE b * g[k - 1]]
<1>0. /\ step \in [Nat \X Nat -> Nat]
      /\ \A x, k \in Nat : step[<<x, k>>] = b * x
  BY TimesIsNatural
<1> HIDE DEF step
<1>1. ASSUME NEW n \in Nat PROVE Follows(pow(n), n, 1, step)
  <2>1. PICK g \in [0 .. n -> Nat] : Follows(g, n, 1, step)
    BY <1>0, Recursion
  <2>2. g = [k \in 0 .. n |-> IF k = 0 THEN 1 ELSE b * g[k - 1]]
    <3> SUFFICES ASSUME NEW k \in 0 .. n PROVE g[k] = IF k = 0 THEN 1 ELSE b * g[k - 1]
      OBVIOUS
    <3>1. CASE k = 0
      BY <3>1, <2>1 DEF Follows
    <3>2. CASE k # 0
      <4>1. k \in 1 .. n /\ k - 1 \in 0 .. n /\ g[k - 1] \in Nat
        BY <3>2
      <4>2. g[k] = step[<<g[k - 1], k>>]
        BY <4>1, <2>1 DEF Follows
      <4> QED
        BY <3>2, <4>1, <4>2, <1>0
    <3> QED
      BY <3>1, <3>2
  <2>3. pow(n) = [k \in 0 .. n |-> IF k = 0 THEN 1 ELSE b * pow(n)[k - 1]]
    BY <2>2
  <2> HIDE DEF pow
  <2> QED
    BY <2>3, <1>0, SMTT(20) DEF Follows
<1>2. ASSUME NEW n \in Nat PROVE Power(b, n) = pow(n)[n]
  BY DEF Power
<1> HIDE DEF pow
<1>3. ASSUME NEW n \in Nat, NEW k \in 0 .. n
      PROVE  pow(n)[k] \in Nat /\ pow(n)[k] = Power(b, k)
  <2>1. k \in Nat /\ k <= n /\ Follows(pow(n), n, 1, step) /\ Follows(pow(k), k, 1, step)
    BY <1>1
  <2>2. \A j \in Nat : j <= n /\ j <= k => pow(n)[j] \in Nat /\ pow(n)[j] = pow(k)[j]
    BY <2>1, <1>0, RecursionUnique, 1 \in Nat
  <2>3. pow(n)[k] \in Nat /\ pow(n)[k] = pow(k)[k]
    BY <2>1, <2>2
  <2> QED
    BY <2>1, <2>3, <1>2
<1>4. Power(b, 0) = 1
  BY <1>1, <1>2 DEF Follows
<1>5. ASSUME NEW n \in Nat PROVE Power(b, n) \in Nat /\ Power(b, n + 1) = b * Power(b, n)
  <2>1. pow(n + 1)[n] \in Nat /\ pow(n + 1)[n] = Power(b, n)
    BY <1>3
  <2>2. Follows(pow(n + 1), n + 1, 1, step)
    BY <1>1
  <2>3. n + 1 \in 1 .. n + 1 /\ (n + 1) - 1 = n
    OBVIOUS
  <2>4. pow(n + 1)[n + 1] = step[<<pow(n + 1)[n], n + 1>>]
    BY <2>1, <2>2, <2>3 DEF Follows
  <2> QED
    BY <2>1, <2>4, <1>0, <1>2
<1> QED
  BY <1>4, <1>5
LEMMA PowerPositive ==
    ASSUME NEW b \in Nat, b > 0
    PROVE  \A n \in Nat : Power(b, n) \in Nat /\ Power(b, n) > 0
<1> DEFINE T == {n \in Nat : Power(b, n) \in Nat /\ Power(b, n) > 0}
<1>1. 0 \in T
  BY PowerFacts
<1>2. ASSUME NEW n \in Nat, n \in T PROVE n + 1 \in T
  <2>1. Power(b, n + 1) = b * Power(b, n) /\ 1 * Power(b, n) <= b * Power(b, n)
    BY <1>2, PowerFacts, TimesIsMonotonic
  <2>2. b * Power(b, n) \in Nat
    BY <1>2, TimesIsNatural
  <2> QED
    BY <1>2, <2>1, <2>2
<1> HIDE DEF T
<1>3. Nat \subseteq T
  BY <1>1, <1>2, Induction
<1> QED
  BY <1>3 DEF T

\* One more digit: v without its i - 1 lowest digits, taken apart once more.
LEMMA NextDigit ==
    ASSUME NEW b \in Nat, b > 0, NEW v \in Nat, NEW n \in Nat
    PROVE  /\ Digit(b, v, n + 1) \in 0 .. b - 1
           /\ v % Power(b, n + 1) = (v % Power(b, n)) + (Digit(b, v, n + 1) * Power(b, n))
<1> DEFINE P == Power(b, n)
           q == v \div P
           r == v % P
           t == q \div b
           d == q % b
<1>1. P \in Nat /\ P > 0 /\ Power(b, n + 1) = b * P
  BY PowerPositive, PowerFacts
<1>2. q \in Nat /\ r \in 0 .. P - 1 /\ v = (q * P) + r
  BY <1>1, Division
<1>3. t \in Nat /\ d \in 0 .. b - 1 /\ q = (t * b) + d
  BY <1>2, Division
<1>4. Digit(b, v, n + 1) = d
  BY DEF Digit
<1> HIDE DEF P, q, r, t, d
<1>5. v = (t * (b * P)) + (r + (d * P))
  <2>1. q * P = (t * b) * P + d * P
    BY <1>1, <1>2, <1>3
  <2>2. (t * b) * P = t * (b * P)
    BY <1>1, <1>2, <1>3
  <2>3. (t * b) * P \in Nat /\ d * P \in Nat
    BY <1>1, <1>3, TimesIsNatural
  <2> QED
    BY <2>1, <2>2, <2>3, <1>2
<1>6. r + (d * P) \in 0 .. (b * P) - 1
  <2>1. d * P <= (b - 1) * P
    BY <1>1, <1>3, TimesIsMonotonic
  <2>2. (b - 1) * P = (b * P) - P
    BY <1>1
  <2>3. d * P \in Nat /\ b * P \in Nat
    BY <1>1, <1>3, TimesIsNatural
  <2> QED
    BY <2>1, <2>2, <2>3, <1>1, <1>2
<1>7. b * P \in Nat /\ b * P > 0
  BY <1>1, <1>6, TimesIsNatural
<1>8. v % (b * P) = r + (d * P)
  BY <1>3, <1>5, <1>6, <1>7, DivisionUnique
<1> QED
  BY <1>1, <1>3, <1>4, <1>8 DEF P, r

-----------------------------------------------------------------------------
(* Numbers and their digits.                                               *)

\* Number adds the digits up one by one.
LEMMA NumberFacts ==
    ASSUME NEW b \in Nat, NEW d \in Seq(Nat)
    PROVE  \E upTo \in [0 .. Len(d) -> Nat] :
              /\ upTo[0] = 0
              /\ \A k \in 1 .. Len(d) : upTo[k] = upTo[k - 1] + (d[k] * Power(b, k - 1))
              /\ Number(b, d) = upTo[Len(d)]
<1> DEFINE n == Len(d)
           step == [p \in Nat \X Nat |-> IF p[2] \in 1 .. n
                                         THEN p[1] + (d[p[2]] * Power(b, p[2] - 1)) ELSE p[1]]
           sum == CHOOSE g : g = [k \in 0 .. n |->
                                    IF k = 0 THEN 0 ELSE g[k - 1] + (d[k] * Power(b, k - 1))]
<1>1. n \in Nat /\ \A k \in 1 .. n : d[k] \in Nat
  OBVIOUS
<1>2. ASSUME NEW k \in 1 .. n PROVE d[k] * Power(b, k - 1) \in Nat
  <2>1. k - 1 \in Nat /\ d[k] \in Nat
    BY <1>1
  <2>2. Power(b, k - 1) \in Nat
    BY <2>1, PowerFacts
  <2> QED
    BY <2>1, <2>2, TimesIsNatural
<1>3. step \in [Nat \X Nat -> Nat]
  <2> SUFFICES ASSUME NEW p \in Nat \X Nat
               PROVE  (IF p[2] \in 1 .. n THEN p[1] + (d[p[2]] * Power(b, p[2] - 1)) ELSE p[1]) \in Nat
    OBVIOUS
  <2> QED
    BY <1>2
<1>4. ASSUME NEW x \in Nat, NEW k \in 1 .. n
      PROVE  step[<<x, k>>] = x + (d[k] * Power(b, k - 1))
  BY <1>1
<1>5. Number(b, d) = sum[n]
  BY DEF Number
<1> HIDE DEF step
<1>6. PICK g \in [0 .. n -> Nat] : Follows(g, n, 0, step)
  BY <1>1, <1>3, Recursion
<1>7. ASSUME NEW k \in 1 .. n PROVE g[k] = g[k - 1] + (d[k] * Power(b, k - 1))
  <2>1. k - 1 \in 0 .. n /\ g[k - 1] \in Nat
    BY SMTT(20)
  <2>2. g[k] = step[<<g[k - 1], k>>]
    BY <2>1, <1>6 DEF Follows
  <2> QED
    BY <2>1, <2>2, <1>4
<1>8. g[0] = 0
  BY <1>6 DEF Follows
<1>9. g = [k \in 0 .. n |-> IF k = 0 THEN 0 ELSE g[k - 1] + (d[k] * Power(b, k - 1))]
  <2> SUFFICES ASSUME NEW k \in 0 .. n
               PROVE  g[k] = IF k = 0 THEN 0 ELSE g[k - 1] + (d[k] * Power(b, k - 1))
    OBVIOUS
  <2> QED
    BY <1>7, <1>8, k # 0 => k \in 1 .. n
<1>10. sum = [k \in 0 .. n |-> IF k = 0 THEN 0 ELSE sum[k - 1] + (d[k] * Power(b, k - 1))]
  BY <1>9
<1> HIDE DEF sum
<1>11. Follows(sum, n, 0, step)
  <2>1. sum[0] = 0
    BY <1>10
  <2>2. ASSUME NEW k \in 1 .. n, sum[k - 1] \in Nat PROVE sum[k] = step[<<sum[k - 1], k>>]
    <3>1. sum[k] = sum[k - 1] + (d[k] * Power(b, k - 1))
      <4>1. k \in 0 .. n /\ k # 0
        OBVIOUS
      <4> QED
        BY <4>1, <1>10
    <3> QED
      BY <3>1, <2>2, <1>4
  <2> QED
    BY <2>1, <2>2 DEF Follows
<1>12. g[n] = sum[n]
  <2>1. \A k \in Nat : k <= n /\ k <= n => g[k] \in Nat /\ g[k] = sum[k]
    BY <1>1, <1>3, <1>6, <1>11, RecursionUnique, 0 \in Nat
  <2> QED
    BY <2>1, <1>1
<1> QED
  BY <1>5, <1>7, <1>8, <1>12

\* The digits of a number make up the number again.
LEMMA NumberOfDigits ==
    ASSUME NEW b \in Nat, b > 0, NEW v \in Nat, NEW n \in Nat, v < Power(b, n)
    PROVE  Number(b, [i \in 1 .. n |-> Digit(b, v, i)]) = v
<1> DEFINE d == [i \in 1 .. n |-> Digit(b, v, i)]
<1>1. ASSUME NEW i \in 1 .. n PROVE Digit(b, v, i) \in Nat
  <2>1. i - 1 \in Nat /\ (i - 1) + 1 = i
    OBVIOUS
  <2>2. Digit(b, v, (i - 1) + 1) \in 0 .. b - 1
    BY <2>1, NextDigit
  <2> QED
    BY <2>1, <2>2
<1>2. d \in Seq(Nat) /\ Len(d) = n /\ \A i \in 1 .. n : d[i] = Digit(b, v, i)
  BY <1>1
<1> HIDE DEF d
<1>3. PICK upTo \in [0 .. n -> Nat] :
         /\ upTo[0] = 0
         /\ \A k \in 1 .. n : upTo[k] = upTo[k - 1] + (d[k] * Power(b, k - 1))
         /\ Number(b, d) = upTo[n]
  BY <1>2, NumberFacts
<1> DEFINE T == {k \in Nat : k <= n => upTo[k] = v % Power(b, k)}
<1>4. 0 \in T
  BY <1>3, PowerFacts
<1>5. ASSUME NEW k \in Nat, k \in T PROVE k + 1 \in T
  <2> SUFFICES ASSUME k + 1 <= n PROVE upTo[k + 1] = v % Power(b, k + 1)
    OBVIOUS
  <2>1. k + 1 \in 1 .. n /\ (k + 1) - 1 = k /\ upTo[k] = v % Power(b, k)
    BY <1>5
  <2>2. upTo[k + 1] = upTo[k] + (d[k + 1] * Power(b, k))
    BY <2>1, <1>3
  <2>3. d[k + 1] = Digit(b, v, k + 1)
    BY <2>1, <1>2
  <2> QED
    BY <2>1, <2>2, <2>3, NextDigit
<1> HIDE DEF T
<1>6. n \in T
  BY <1>4, <1>5, Induction
<1>7. Number(b, d) = v % Power(b, n)
  BY <1>3, <1>6 DEF T
<1>8. v % Power(b, n) = v
  <2> DEFINE P == Power(b, n)
  <2>1. P \in Nat /\ P > 0 /\ v \in 0 .. P - 1
    BY PowerPositive
  <2> HIDE DEF P
  <2>2. v = (0 * P) + v
    BY <2>1
  <2>3. v = v % P
    BY <2>1, <2>2, DivisionUnique, 0 \in Nat
  <2> QED
    BY <2>3 DEF P
<1> QED
  BY <1>7, <1>8 DEF d

-----------------------------------------------------------------------------
(* Varints.                                                                *)

LEMMA Constants ==
    /\ Base \in Nat /\ Base > 1 /\ Full \in Nat /\ Full > 0
    /\ Rest \in Nat /\ Rest >= 2 /\ Rest <= Base
    /\ Width32 \in Nat /\ Width64 \in Nat
    /\ Words \in Nat /\ Words > 0
<1>1. /\ Base \in Nat /\ Base > 1 /\ Full \in Nat /\ Full > 0
      /\ Rest \in Nat /\ Rest >= 2 /\ Rest <= Base
      /\ Width32 \in Nat /\ Width64 \in Nat
  BY WireAssumption
<1> DEFINE P == Power(Base, Full)
<1>2. P \in Nat /\ P > 0
  BY <1>1, PowerPositive
<1>3. Words = Rest * P
  BY DEF Words
<1> HIDE DEF P
<1>4. Rest * P \in Nat /\ 1 * P <= Rest * P
  BY <1>1, <1>2, TimesIsMonotonic, TimesIsNatural
<1> QED
  BY <1>1, <1>2, <1>3, <1>4

\* A word fits Full + 1 groups.
LEMMA WordsFit == Words <= Power(Base, Full + 1)
<1> DEFINE P == Power(Base, Full)
<1>1. P \in Nat /\ Power(Base, Full + 1) = Base * P
  BY Constants, PowerFacts
<1>2. Words = Rest * P
  BY DEF Words
<1> HIDE DEF P
<1>3. Rest * P <= Base * P
  BY <1>1, Constants, TimesIsMonotonic
<1> QED
  BY <1>1, <1>2, <1>3

LEMMA DigitIsSmall ==
    ASSUME NEW b \in Nat, b > 0, NEW v \in Nat, NEW i \in Nat, i > 0
    PROVE  Digit(b, v, i) \in 0 .. b - 1
<1>1. i - 1 \in Nat /\ (i - 1) + 1 = i
  OBVIOUS
<1>2. Digit(b, v, (i - 1) + 1) \in 0 .. b - 1
  BY <1>1, NextDigit
<1> QED
  BY <1>1, <1>2

\* A word has at least one group and at most Full + 1, of which the last one is small.
LEMMA GroupsFacts ==
    ASSUME NEW v \in 0 .. Words - 1
    PROVE  /\ GroupsOf(v) \in 1 .. Full + 1
           /\ v < Power(Base, GroupsOf(v))
           /\ GroupsOf(v) = Full + 1 => v >= Power(Base, Full)
<1> DEFINE T == {n \in Nat : n > 0 /\ v < Power(Base, n)}
<1>0. v \in Nat /\ v < Words /\ \A n \in Nat : Power(Base, n) \in Nat
  BY Constants, PowerPositive
<1>1. Full + 1 \in T
  BY <1>0, Constants, WordsFit
<1>2. PICK n \in T : \A m \in T : n <= m
  BY <1>1, LeastNumber
<1>3. n \in 1 .. Full + 1 /\ v < Power(Base, n) /\ (n = 1 \/ v >= Power(Base, n - 1))
  <2>1. n \in Nat /\ n > 0 /\ v < Power(Base, n) /\ n <= Full + 1
    BY <1>1, <1>2
  <2>2. ASSUME n # 1, ~(v >= Power(Base, n - 1)) PROVE FALSE
    <3>1. n - 1 \in Nat /\ n - 1 > 0
      BY <2>1, <2>2
    <3>2. Power(Base, n - 1) \in Nat /\ v \in Nat
      BY <3>1, <1>0
    <3>3. n - 1 \in T
      BY <3>1, <3>2, <2>2
    <3> QED
      BY <3>3, <2>1, <1>2
  <2> QED
    BY <2>1, <2>2, Constants
<1> HIDE DEF T
<1> DEFINE G(k) == v < Power(Base, k) /\ (k = 1 \/ v >= Power(Base, k - 1))
<1>4. G(n)
  BY <1>3
<1>5. GroupsOf(v) = CHOOSE k \in 1 .. Full + 1 : G(k)
  BY DEF GroupsOf
<1>6. GroupsOf(v) \in 1 .. Full + 1 /\ G(GroupsOf(v))
  <2> HIDE DEF G
  <2> QED
    BY <1>3, <1>4, <1>5
<1>7. GroupsOf(v) = Full + 1 => v >= Power(Base, Full)
  <2>1. (Full + 1) - 1 = Full /\ Full + 1 # 1
    BY Constants
  <2> QED
    BY <2>1, <1>6
<1> QED
  BY <1>6, <1>7

\* A word whose varint takes the most bytes has a last group that fits what is left.
LEMMA LastGroupFits ==
    ASSUME NEW v \in 0 .. Words - 1
    PROVE  Digit(Base, v, Full + 1) < Rest
<1> DEFINE P == Power(Base, Full)
           q == v \div P
           r == v % P
<1>1. P \in Nat /\ P > 0 /\ v \in Nat /\ v < Rest * P
  BY Constants, PowerPositive DEF Words
<1>2. q \in Nat /\ r \in 0 .. P - 1 /\ v = (q * P) + r
  BY <1>1, Division
<1>3. (Full + 1) - 1 = Full
  BY Constants
<1>4. Digit(Base, v, Full + 1) = q % Base
  BY <1>3 DEF Digit
<1> HIDE DEF P, q, r
<1>5. ASSUME Rest <= q PROVE FALSE
  <2>1. Rest * P <= q * P
    BY <1>1, <1>2, <1>5, Constants, TimesIsMonotonic
  <2>2. q * P \in Nat /\ Rest * P \in Nat
    BY <1>1, <1>2, Constants, TimesIsNatural
  <2> QED
    BY <2>1, <2>2, <1>1, <1>2
<1>6. q < Rest /\ q \in 0 .. Base - 1
  BY <1>2, <1>5, Constants
<1>7. q = (0 * Base) + q
  BY <1>2, Constants
<1>8. q = q % Base
  BY <1>2, <1>6, <1>7, Constants, DivisionUnique, 0 \in Nat
<1> QED
  BY <1>4, <1>6, <1>8

LEMMA VarintFacts ==
    ASSUME NEW v \in 0 .. Words - 1
    PROVE  /\ Varint(v) \in Seq(Byte)
           /\ Len(Varint(v)) = GroupsOf(v)
           /\ \A i \in 1 .. GroupsOf(v) :
                 /\ Varint(v)[i] % Base = Digit(Base, v, i)
                 /\ i < GroupsOf(v) => Varint(v)[i] >= Base
                 /\ i = GroupsOf(v) => Varint(v)[i] = Digit(Base, v, i) /\ Varint(v)[i] < Base
<1> DEFINE n == GroupsOf(v)
           e(i) == Digit(Base, v, i) + (IF i < n THEN Base ELSE 0)
<1>1. n \in Nat /\ v \in Nat
  BY GroupsFacts, Constants
<1>2. ASSUME NEW i \in 1 .. n
      PROVE  /\ Digit(Base, v, i) \in 0 .. Base - 1
             /\ e(i) \in Byte
             /\ e(i) % Base = Digit(Base, v, i)
  <2>1. Digit(Base, v, i) \in 0 .. Base - 1
    <3>1. i \in Nat /\ i > 0 /\ Base \in Nat /\ Base > 0
      BY <1>1, Constants
    <3> QED
      BY <3>1, <1>1, DigitIsSmall
  <2>2. e(i) = (IF i < n THEN 1 * Base + Digit(Base, v, i) ELSE 0 * Base + Digit(Base, v, i))
    BY <2>1, Constants
  <2>3. e(i) \in Nat /\ e(i) \in Byte
    BY <2>1, Constants DEF Byte
  <2>4. Digit(Base, v, i) = e(i) % Base
    <3> HIDE DEF e
    <3>1. CASE i < n
      BY <3>1, <2>1, <2>2, <2>3, Constants, DivisionUnique, 1 \in Nat
    <3>2. CASE ~(i < n)
      BY <3>2, <2>1, <2>2, <2>3, Constants, DivisionUnique, 0 \in Nat
    <3> QED
      BY <3>1, <3>2
  <2> QED
    BY <2>1, <2>3, <2>4
<1>3. Varint(v) = [i \in 1 .. n |-> e(i)]
  BY DEF Varint
<1>4. Varint(v) \in Seq(Byte) /\ Len(Varint(v)) = n
  <2> HIDE DEF e, n
  <2> QED
    BY <1>1, <1>2, <1>3
<1>5. ASSUME NEW i \in 1 .. n
      PROVE  /\ Varint(v)[i] % Base = Digit(Base, v, i)
             /\ i < n => Varint(v)[i] >= Base
             /\ i = n => Varint(v)[i] = Digit(Base, v, i) /\ Varint(v)[i] < Base
  <2>1. Varint(v)[i] = e(i)
    BY <1>3
  <2>2. Varint(v)[i] % Base = Digit(Base, v, i)
    BY <2>1, <1>2
  <2>3. /\ i < n => e(i) >= Base
        /\ i = n => e(i) = Digit(Base, v, i) /\ e(i) < Base
    BY <1>1, <1>2, Constants
  <2> QED
    BY <2>1, <2>2, <2>3
<1> QED
  BY <1>4, <1>5

\* A byte string in the middle of a buffer.
LEMMA Inside ==
    ASSUME NEW S, NEW before \in Seq(S), NEW b \in Seq(S), NEW after \in Seq(S)
    PROVE  LET buf == before \o b \o after
           IN  /\ buf \in Seq(S)
               /\ Len(buf) = Len(before) + Len(b) + Len(after)
               /\ \A i \in 1 .. Len(b) : buf[Len(before) + i] = b[i]
<1> DEFINE p == Len(before)
           n == Len(b)
           k == Len(after)
           front == before \o b
<1>1. p \in Nat /\ n \in Nat /\ k \in Nat
  OBVIOUS
<1>2. front \in Seq(S) /\ Len(front) = p + n
  OBVIOUS
<1>3. ASSUME NEW i \in 1 .. n PROVE front[p + i] = b[i]
  OBVIOUS
<1> HIDE DEF front
<1>4. front \o after \in Seq(S) /\ Len(front \o after) = p + n + k
  BY <1>2
<1>5. ASSUME NEW i \in 1 .. n PROVE (front \o after)[p + i] = b[i]
  <2>1. p + i \in 1 .. Len(front)
    BY <1>1, <1>2
  <2>2. (front \o after)[p + i] = front[p + i]
    BY <2>1, <1>2
  <2> QED
    BY <2>2, <1>3
<1> QED
  BY <1>4, <1>5 DEF front

\* The same of bytes, named: the lemmas below cite them by name.
InTheMiddle(before, b, after) ==
    LET buf == before \o b \o after
    IN  /\ buf \in Seq(Byte)
        /\ Len(buf) = Len(before) + Len(b) + Len(after)
        /\ \A i \in 1 .. Len(b) : buf[Len(before) + i] = b[i]
Regroups(a, b, c) ==
    /\ (a \o b) \o c = a \o (b \o c)
    /\ a \o b \in Seq(Byte) /\ b \o c \in Seq(Byte)
    /\ Len(a \o b) = Len(a) + Len(b)

LEMMA BytesInside ==
    \A before, b, after \in Seq(Byte) : InTheMiddle(before, b, after)
<1> TAKE before \in Seq(Byte), b \in Seq(Byte), after \in Seq(Byte)
<1> QED
  BY Inside DEF InTheMiddle

LEMMA BytesRegroup ==
    \A a, b, c \in Seq(Byte) : Regroups(a, b, c)
<1> TAKE a \in Seq(Byte), b \in Seq(Byte), c \in Seq(Byte)
<1>1. (a \o b) \o c = a \o (b \o c)
  BY ConcatAssociative
<1>2. a \o b \in Seq(Byte) /\ Len(a \o b) = Len(a) + Len(b)
  BY ConcatProperties
<1>3. b \o c \in Seq(Byte)
  BY ConcatProperties
<1> QED
  BY <1>1, <1>2, <1>3 DEF Regroups

LEMMA MinIs ==
    ASSUME NEW S \in SUBSET Nat, NEW x \in S, \A y \in S : x <= y
    PROVE  Min(S) = x
<1>1. \A z \in S : (\A y \in S : z <= y) => z = x
  OBVIOUS
<1> QED
  BY <1>1 DEF Min

-----------------------------------------------------------------------------
(* What is written is read.                                                *)

\* ReadVarint reads the word that WriteVarint wrote, for every word and whatever is
\* before and behind it in the buffer, and stops at the first byte behind it: the
\* continuation bits, the groups and the test for overflow of message.go agree.
THEOREM VarintRoundTrip ==
    ASSUME NEW v \in 0 .. Words - 1, NEW before \in Seq(Byte), NEW after \in Seq(Byte)
    PROVE  LET m == FromBytes(before \o Varint(v) \o after, Len(before))
           IN  ReadVarint(m) = Got(m, Len(before) + Len(Varint(v)), v, None)
<1> DEFINE m == FromBytes(before \o Varint(v) \o after, Len(before))
           p == Len(before)
           n == GroupsOf(v)
           w == Varint(v)
           last == p + n
<1>1. /\ n \in 1 .. Full + 1 /\ v < Power(Base, n) /\ p \in Nat /\ v \in Nat
      /\ w \in Seq(Byte) /\ Len(w) = n /\ Len(after) \in Nat
  BY GroupsFacts, VarintFacts, Constants
<1>2. /\ m.pos = p /\ m.buf = before \o w \o after
      /\ m.buf \in Seq(Byte) /\ Len(m.buf) = last + Len(after)
      /\ \A i \in 1 .. n : m.buf[p + i] = w[i]
  <2>1. m.pos = p /\ m.buf = before \o w \o after
    BY DEF FromBytes
  <2>2. InTheMiddle(before, w, after)
    BY <1>1, BytesInside
  <2> HIDE DEF m, w, n
  <2> QED
    BY <2>1, <2>2, <1>1 DEF InTheMiddle
<1>3. \A i \in 1 .. n : /\ w[i] % Base = Digit(Base, v, i)
                        /\ i < n => w[i] >= Base
                        /\ i = n => w[i] = Digit(Base, v, i) /\ w[i] < Base
  BY VarintFacts
<1> HIDE DEF m, w, n
<1>4. Min(Ends(m)) = last /\ Ends(m) # {}
  <2>0. p \in Nat /\ n \in Nat /\ n > 0 /\ Full \in Nat
    BY <1>1, Constants
  <2>1. last \in Ends(m)
    <3>1. last \in Unread(m)
      BY <2>0, <1>1, <1>2 DEF Unread
    <3>2. m.buf[last] = w[n] /\ w[n] < Base
      BY <2>0, <1>2, <1>3
    <3> QED
      BY <3>1, <3>2 DEF Ends
  <2>2. ASSUME NEW q \in Ends(m), q < last PROVE FALSE
    <3>1. q - p \in 1 .. n /\ q - p < n /\ p + (q - p) = q
      BY <2>2, <2>0, <1>2 DEF Ends, Unread
    <3>2. m.buf[q] = w[q - p] /\ w[q - p] >= Base
      BY <3>1, <1>2, <1>3
    <3>3. w[q - p] \in Nat
      BY <3>1, <1>1, Constants DEF Byte
    <3> QED
      BY <3>2, <3>3, <2>2, Constants DEF Ends
  <2>3. Ends(m) \in SUBSET Nat /\ \A q \in Ends(m) : last <= q
    BY <2>0, <2>2, <1>2 DEF Ends, Unread
  <2> QED
    BY <2>1, <2>3, MinIs
<1>5. ~(last - p - 1 > Full \/ (last - p - 1 = Full /\ m.buf[last] >= Rest))
  <2>1. last - p - 1 <= Full
    BY <1>1, Constants
  <2>2. ASSUME last - p - 1 = Full PROVE m.buf[last] < Rest
    <3>1. n = Full + 1 /\ n \in 1 .. n
      BY <2>2, <1>1, Constants
    <3>2. m.buf[last] = Digit(Base, v, Full + 1)
      BY <3>1, <1>2, <1>3
    <3> QED
      BY <3>2, LastGroupFits
  <2>3. m.buf[last] \in Nat
    <3>1. last \in 1 .. Len(m.buf)
      BY <1>1, <1>2, Constants
    <3>2. m.buf[last] \in Byte
      BY <3>1, <1>2
    <3> QED
      BY <3>2, Constants DEF Byte
  <2>4. last - p - 1 \in Int /\ Full \in Int /\ Rest \in Int
    BY <1>1, Constants
  <2> HIDE DEF last, p
  <2> QED
    BY <2>1, <2>2, <2>3, <2>4
<1>6. ValueAt(m, last) = v
  <2>1. last - m.pos = n
    BY <1>1, <1>2, Constants
  <2>2. [i \in 1 .. n |-> m.buf[m.pos + i] % Base] = [i \in 1 .. n |-> Digit(Base, v, i)]
    BY <1>2, <1>3
  <2>3. Number(Base, [i \in 1 .. n |-> Digit(Base, v, i)]) = v
    BY <1>1, Constants, NumberOfDigits
  <2> QED
    BY <2>1, <2>2, <2>3 DEF ValueAt
<1>7. VarintTo(m, last) = Got(m, last, v, None)
  BY <1>2, <1>5, <1>6 DEF VarintTo
<1>8. ReadVarint(m) = Got(m, p + Len(w), v, None)
  BY <1>1, <1>4, <1>7 DEF ReadVarint
<1> QED
  BY <1>8 DEF m, w

\* The number that n digits make up is below the n-th power, and below what its highest
\* digit allows.
LEMMA NumberBound ==
    ASSUME NEW b \in Nat, b > 0, NEW d \in Seq(0 .. b - 1)
    PROVE  /\ Number(b, d) \in Nat /\ Number(b, d) < Power(b, Len(d))
           /\ Len(d) > 0 => Number(b, d) < (d[Len(d)] + 1) * Power(b, Len(d) - 1)
<1> DEFINE n == Len(d)
<1>1. n \in Nat /\ d \in Seq(Nat) /\ \A k \in 1 .. n : d[k] \in Nat /\ d[k] <= b - 1
  OBVIOUS
<1>2. PICK upTo \in [0 .. n -> Nat] :
         /\ upTo[0] = 0
         /\ \A k \in 1 .. n : upTo[k] = upTo[k - 1] + (d[k] * Power(b, k - 1))
         /\ Number(b, d) = upTo[n]
  BY <1>1, NumberFacts
<1> DEFINE Below(k) == upTo[k] < Power(b, k)
           T == {k \in Nat : k <= n => Below(k)}
<1>3. 0 \in T
  BY <1>2, PowerFacts
<1>4. ASSUME NEW k \in Nat, k + 1 <= n, Below(k)
      PROVE  Below(k + 1) /\ upTo[k + 1] < (d[k + 1] + 1) * Power(b, k)
  <2> DEFINE P == Power(b, k)
             c == d[k + 1]
             u == upTo[k]
  <2>1. /\ P \in Nat /\ Power(b, k + 1) = b * P /\ c \in Nat /\ c + 1 <= b
        /\ u \in Nat /\ u < P
    <3>1. k + 1 \in 1 .. n /\ k \in 0 .. n
      BY <1>1, <1>4
    <3>2. d[k + 1] \in Nat /\ d[k + 1] <= b - 1
      BY <3>1, <1>1
    <3>3. upTo[k] \in Nat /\ upTo[k] < Power(b, k)
      BY <3>1, <1>4
    <3>4. Power(b, k) \in Nat /\ Power(b, k + 1) = b * Power(b, k)
      BY PowerFacts
    <3> QED
      BY <3>2, <3>3, <3>4
  <2>2. upTo[k + 1] = u + (c * P)
    <3>1. k + 1 \in 1 .. n /\ (k + 1) - 1 = k
      BY <1>4
    <3> QED
      BY <3>1, <1>2
  <2> HIDE DEF P, c, u
  <2>3. (c + 1) * P = (c * P) + P /\ c * P \in Nat
    BY <2>1, TimesIsNatural
  <2>4. (c + 1) * P <= b * P
    BY <2>1, TimesIsMonotonic
  <2>5. b * P \in Nat
    BY <2>1, TimesIsNatural
  <2>6. u + (c * P) < (c + 1) * P /\ u + (c * P) < b * P
    BY <2>1, <2>3, <2>4, <2>5
  <2> QED
    BY <2>1, <2>2, <2>6 DEF P, c
<1> HIDE DEF Below
<1>5. ASSUME NEW k \in Nat, k \in T PROVE k + 1 \in T
  BY <1>4, <1>5
<1> HIDE DEF T
<1>6. Nat \subseteq T
  BY <1>3, <1>5, Induction
<1>7. ASSUME NEW k \in Nat, k <= n PROVE Below(k)
  BY <1>6, <1>7 DEF T
<1>8. Number(b, d) \in Nat /\ Number(b, d) < Power(b, n)
  BY <1>1, <1>2, <1>7 DEF Below
<1>9. ASSUME n > 0 PROVE Number(b, d) < (d[n] + 1) * Power(b, n - 1)
  <2>1. n - 1 \in Nat /\ (n - 1) + 1 = n
    BY <1>1, <1>9
  <2>2. \A k \in Nat : k + 1 <= n => upTo[k + 1] < (d[k + 1] + 1) * Power(b, k)
    <3> HIDE DEF n
    <3>1. \A k \in Nat : k + 1 <= n => k <= n
      BY <1>1
    <3> QED
      BY <3>1, <1>4, <1>7
  <2> QED
    BY <2>1, <2>2, <1>2
<1> QED
  BY <1>8, <1>9

LEMMA ByteFacts ==
    /\ 2 * Base \in Nat /\ 2 * Base > 0 /\ Byte \subseteq Nat
    /\ \A x \in Byte : x % Base \in 0 .. Base - 1 /\ (x < Base => x % Base = x)
<1>1. 2 * Base \in Nat /\ 2 * Base > 0 /\ Byte \subseteq Nat
  BY Constants DEF Byte
<1>2. ASSUME NEW x \in Byte PROVE x % Base \in 0 .. Base - 1
  BY <1>1, Constants, Division
<1>3. ASSUME NEW x \in Byte, x < Base PROVE x % Base = x
  <2>1. x = (0 * Base) + x /\ x \in 0 .. Base - 1 /\ x \in Nat
    BY <1>1, <1>3, Constants
  <2> QED
    BY <2>1, Constants, DivisionUnique, 0 \in Nat
<1> QED
  BY <1>1, <1>2, <1>3

\* ReadFloat, ReadInt32 and the other readers of a fixed width read what was written,
\* for every number that the width holds.
THEOREM FixedRoundTrip ==
    ASSUME NEW w \in Nat, NEW v \in Nat, v < Power(2 * Base, w),
           NEW before \in Seq(Byte), NEW after \in Seq(Byte)
    PROVE  LET m == FromBytes(before \o Fixed(v, w) \o after, Len(before))
           IN  ReadFixed(m, w) = Got(m, Len(before) + Len(Fixed(v, w)), v, None)
<1> DEFINE x == Fixed(v, w)
           buf == before \o x \o after
           m == FromBytes(buf, Len(before))
           p == Len(before)
<1>1. ASSUME NEW i \in 1 .. w PROVE Digit(2 * Base, v, i) \in Byte
  <2>1. i \in Nat /\ i > 0
    OBVIOUS
  <2> QED
    BY <2>1, ByteFacts, DigitIsSmall DEF Byte
<1>2. x \in Seq(Byte) /\ Len(x) = w /\ \A i \in 1 .. w : x[i] = Digit(2 * Base, v, i)
  BY <1>1 DEF Fixed
<1>3. p \in Nat /\ Len(after) \in Nat
  OBVIOUS
<1> HIDE DEF x
<1>4. /\ buf \in Seq(Byte) /\ Len(buf) = p + w + Len(after)
      /\ \A i \in 1 .. w : buf[p + i] = Digit(2 * Base, v, i)
  <2>1. InTheMiddle(before, x, after)
    BY <1>2, BytesInside
  <2> QED
    BY <2>1, <1>2 DEF InTheMiddle
<1>5. m.pos = p /\ m.buf = buf
  BY DEF FromBytes
<1> HIDE DEF m, buf
<1>6. [i \in 1 .. w |-> m.buf[m.pos + i]] = [i \in 1 .. w |-> Digit(2 * Base, v, i)]
  BY <1>4, <1>5
<1>7. Number(2 * Base, [i \in 1 .. w |-> m.buf[m.pos + i]]) = v
  BY <1>6, ByteFacts, NumberOfDigits
<1>8. ~(m.pos + w > Len(m.buf))
  BY <1>3, <1>4, <1>5
<1>9. ReadFixed(m, w) = Got(m, p + w, v, None)
  BY <1>5, <1>7, <1>8 DEF ReadFixed
<1> QED
  BY <1>2, <1>9 DEF m, buf, x

\* What WriteBytes writes of a byte string: its length, and its bytes.
Encoded(b) == Varint(Len(b)) \o b

LEMMA HalfOfWords ==
    /\ Words \div 2 \in Nat
    /\ \A n \in Nat : n < Words \div 2 => n \in 0 .. Words - 1
<1> DEFINE h == Words \div 2
<1>1. Words \in Nat /\ Words > 0 /\ h \in Nat /\ Words % 2 \in Nat
      /\ Words = (h * 2) + (Words % 2)
  BY Constants, Division
<1> HIDE DEF h
<1>2. \A n \in Nat : n < h => n \in 0 .. Words - 1
  BY <1>1
<1> QED
  BY <1>1, <1>2 DEF h

LEMMA EncodedFacts ==
    ASSUME NEW b \in Seq(Byte), Len(b) \in 0 .. Words - 1
    PROVE  /\ Varint(Len(b)) \in Seq(Byte) /\ Encoded(b) \in Seq(Byte)
           /\ Len(Encoded(b)) = Len(Varint(Len(b))) + Len(b)
<1>1. Varint(Len(b)) \in Seq(Byte)
  BY VarintFacts
<1> DEFINE w == Varint(Len(b))
<1>2. Encoded(b) = w \o b
  BY DEF Encoded
<1> HIDE DEF w
<1>3. w \in Seq(Byte)
  BY <1>1 DEF w
<1>4. w \o b \in Seq(Byte) /\ Len(w \o b) = Len(w) + Len(b)
  BY <1>3
<1> QED
  BY <1>2, <1>3, <1>4 DEF w

\* The part of a buffer between what is before and what is behind it.
LEMMA SliceInside ==
    ASSUME NEW S, NEW before \in Seq(S), NEW b \in Seq(S), NEW after \in Seq(S)
    PROVE  SliceOf(before \o b \o after, <<Len(before), Len(before) + Len(b)>>) = b
<1> DEFINE buf == before \o b \o after
           p == Len(before)
           n == Len(b)
           s == SubSeq(buf, p + 1, p + n)
<1>1. p \in Nat /\ n \in Nat /\ Len(after) \in Nat
  OBVIOUS
<1>2. /\ buf \in Seq(S) /\ Len(buf) = p + n + Len(after)
      /\ \A i \in 1 .. n : buf[p + i] = b[i]
  BY Inside
<1> HIDE DEF buf
<1>3. Len(s) = n /\ s \in Seq(S)
  BY <1>1, <1>2
<1>4. ASSUME NEW i \in 1 .. n PROVE s[i] = b[i]
  <2>1. s[i] = buf[p + i]
    BY <1>1, <1>2
  <2> QED
    BY <2>1, <1>2
<1> HIDE DEF s
<1>5. s = b
  BY <1>3, <1>4, SMTT(20)
<1>6. SliceOf(buf, <<p, p + n>>) = s
  BY DEF SliceOf, s
<1> QED
  BY <1>5, <1>6 DEF buf

\* ReadString reads the bytes that WriteBytes wrote, and ReadBytesNoCopy says where they
\* are, whatever is before and behind them, in every buffer whose length is an int.
THEOREM BytesRoundTrip ==
    ASSUME NEW b \in Seq(Byte), NEW before \in Seq(Byte), NEW after \in Seq(Byte),
           Len(b) < Words \div 2, Len(before \o Encoded(b) \o after) < Words \div 2
    PROVE  LET m == FromBytes(before \o Encoded(b) \o after, Len(before))
               end == Len(before) + Len(Encoded(b))
           IN  /\ ReadBytesNoCopy(m) = Got(m, end, <<end - Len(b), end>>, None)
               /\ ReadString(m) = Got(m, end, b, None)
<1> DEFINE w == Varint(Len(b))
           buf == before \o Encoded(b) \o after
           m == FromBytes(buf, Len(before))
           n == Len(b)
           from == Len(before) + Len(w)
           end == from + n
<1>1. n \in Nat /\ Len(before) \in Nat /\ Len(after) \in Nat
  OBVIOUS
<1>2. n \in 0 .. Words - 1
  BY <1>1, HalfOfWords
<1>3. /\ w \in Seq(Byte) /\ Len(w) \in Nat /\ Encoded(b) = w \o b
      /\ Encoded(b) \in Seq(Byte) /\ Len(Encoded(b)) = Len(w) + n
  BY <1>2, EncodedFacts DEF Encoded
<1> HIDE DEF w
<1>4. Len(before) + Len(Encoded(b)) = end /\ end \in Nat /\ from \in Nat
  BY <1>1, <1>3
<1>5. buf \in Seq(Byte) /\ Len(buf) = end + Len(after)
  <2>1. InTheMiddle(before, Encoded(b), after)
    BY <1>3, BytesInside
  <2> QED
    BY <2>1, <1>4 DEF InTheMiddle
<1>6. buf = before \o w \o (b \o after) /\ b \o after \in Seq(Byte)
  <2>1. Regroups(before, w, b)
    BY <1>3, BytesRegroup
  <2>2. before \o w \in Seq(Byte)
    BY <2>1 DEF Regroups
  <2>3. Regroups(before \o w, b, after)
    BY <2>2, BytesRegroup
  <2> QED
    BY <2>1, <2>3, <1>3 DEF Regroups
<1>7. /\ m.pos = Len(before) /\ m.buf = buf
      /\ m = FromBytes(before \o w \o (b \o after), Len(before))
  BY <1>6 DEF FromBytes
<1>8. ReadVarint(m) = Got(m, from, n, None)
  <2>1. LET k == FromBytes(before \o w \o (b \o after), Len(before))
        IN  ReadVarint(k) = Got(k, Len(before) + Len(w), n, None)
    BY <1>2, <1>6, VarintRoundTrip DEF w
  <2> QED
    BY <2>1, <1>7
<1> DEFINE r == Got(m, from, n, None)
<1>9. /\ r.err = None /\ r.val = n /\ r.msg.pos = from /\ r.msg.buf = buf
      /\ \A x, y, z : Got(r.msg, x, y, z) = Got(m, x, y, z)
  BY DEF Got, FromBytes
<1>10. ~Beyond(r.msg, r.val) /\ ~(from + r.val > Len(r.msg.buf))
  <2>1. n + from < Words \div 2 /\ from + n <= Len(buf)
    BY <1>1, <1>4, <1>5, HalfOfWords
  <2> HIDE DEF r
  <2>2. Words \div 2 \in Nat /\ n + from \in Nat /\ Len(buf) \in Nat
    BY <1>1, <1>4, <1>5, HalfOfWords
  <2> DEFINE h == Words \div 2
  <2> HIDE DEF h
  <2>3. n + from < h /\ h \in Nat
    BY <2>1, <2>2 DEF h
  <2>4. ~(n + from >= h)
    BY <2>2, <2>3
  <2>5. ~Beyond(r.msg, r.val)
    BY <2>4, <1>9 DEF Beyond, h
  <2>6. ~(from + r.val > Len(r.msg.buf))
    BY <2>1, <2>2, <1>9, <1>4, <1>5
  <2> QED
    BY <2>5, <2>6
<1> HIDE DEF r
<1>11. SliceBehind(r) = Got(m, end, <<from, end>>, None)
  BY <1>9, <1>10 DEF SliceBehind
<1>12. ReadBytesNoCopy(m) = Got(m, end, <<from, end>>, None)
  BY <1>8, <1>11 DEF ReadBytesNoCopy, r
<1>13. SliceOf(m.buf, <<from, end>>) = b
  <2> HIDE DEF from
  <2>4. Regroups(before, w, b)
    BY <1>3, BytesRegroup
  <2>1. before \o w \in Seq(Byte) /\ Len(before \o w) = from
    BY <2>4 DEF Regroups, from
  <2>2. SliceOf((before \o w) \o b \o after, <<Len(before \o w), Len(before \o w) + Len(b)>>) = b
    BY <2>1, SliceInside
  <2>3. buf = (before \o w) \o b \o after
    BY <2>4, <1>3 DEF Regroups
  <2> QED
    BY <2>1, <2>2, <2>3, <1>7
<1>14. ReadString(m) = Got(m, end, b, None)
  <2>1. ReadString(m) = [Got(m, end, <<from, end>>, None) EXCEPT !.val = SliceOf(m.buf, @)]
    BY <1>12 DEF ReadString
  <2> QED
    BY <2>1, <1>13 DEF Got
<1>15. end - Len(b) = from
  BY <1>1, <1>4
<1> QED
  BY <1>4, <1>12, <1>14, <1>15

\* A field of a number that the message's type does not know is skipped exactly, for each
\* of the wire types that the generated writers use, so that the reader goes on at the
\* next tag.
THEOREM UnknownFieldsAreSkipped ==
    ASSUME NEW id \in Nat, NEW before \in Seq(Byte), NEW after \in Seq(Byte)
    PROVE  LET Skips(x, wireType) ==
                   LET m == FromBytes(before \o x \o after, Len(before))
                       r == ReadPBSkip(m, PBTag(id, wireType))
                   IN  /\ r.err = None /\ r.msg.buf = m.buf
                       /\ r.msg.pos = Len(before) + Len(x)
           IN  /\ \A v \in 0 .. Words - 1 : Skips(Varint(v), WireVarint)
               /\ \A v \in Nat : v < Power(2 * Base, Width64) => Skips(Fixed(v, Width64), Wire64Bit)
               /\ \A v \in Nat : v < Power(2 * Base, Width32) => Skips(Fixed(v, Width32), Wire32Bit)
               /\ \A b \in Seq(Byte) :
                     /\ Len(b) < Words \div 2 /\ Len(before \o Encoded(b) \o after) < Words \div 2
                     => Skips(Encoded(b), WireLengthDelimited)
<1> DEFINE M(x) == FromBytes(before \o x \o after, Len(before))
           R(x, t) == ReadPBSkip(M(x), PBTag(id, t))
           Skips(x, t) == /\ R(x, t).err = None /\ R(x, t).msg.buf = M(x).buf
                          /\ R(x, t).msg.pos = Len(before) + Len(x)
<1>1. /\ PBTag(id, WireVarint) % 8 = WireVarint /\ PBTag(id, Wire64Bit) % 8 = Wire64Bit
      /\ PBTag(id, Wire32Bit) % 8 = Wire32Bit
      /\ PBTag(id, WireLengthDelimited) % 8 = WireLengthDelimited
  BY DEF PBTag, WireVarint, Wire64Bit, Wire32Bit, WireLengthDelimited
<1>2. ASSUME NEW m
      PROVE  /\ ReadPBSkip(m, PBTag(id, WireVarint)) = ReadVarint(m)
             /\ ReadPBSkip(m, PBTag(id, Wire64Bit)) = ReadFixed(m, Width64)
             /\ ReadPBSkip(m, PBTag(id, Wire32Bit)) = ReadFixed(m, Width32)
             /\ ReadPBSkip(m, PBTag(id, WireLengthDelimited)) = ReadBytesNoCopy(m)
  BY <1>1 DEF ReadPBSkip, WireVarint, Wire64Bit, Wire32Bit, WireLengthDelimited
<1>3. ASSUME NEW x, NEW v, NEW p
      PROVE  LET g == Got(M(x), p, v, None)
             IN  g.err = None /\ g.msg.buf = M(x).buf /\ g.msg.pos = p
  BY DEF Got, FromBytes
<1>4. ASSUME NEW v \in 0 .. Words - 1 PROVE Skips(Varint(v), WireVarint)
  <2>1. R(Varint(v), WireVarint) = Got(M(Varint(v)), Len(before) + Len(Varint(v)), v, None)
    BY <1>2, VarintRoundTrip
  <2> HIDE DEF M, R
  <2> QED
    BY <2>1, <1>3
<1>5. ASSUME NEW v \in Nat, v < Power(2 * Base, Width64) PROVE Skips(Fixed(v, Width64), Wire64Bit)
  <2>1. R(Fixed(v, Width64), Wire64Bit) =
            Got(M(Fixed(v, Width64)), Len(before) + Len(Fixed(v, Width64)), v, None)
    BY <1>2, <1>5, Constants, FixedRoundTrip
  <2> HIDE DEF M, R
  <2> QED
    BY <2>1, <1>3
<1>6. ASSUME NEW v \in Nat, v < Power(2 * Base, Width32) PROVE Skips(Fixed(v, Width32), Wire32Bit)
  <2>1. R(Fixed(v, Width32), Wire32Bit) =
            Got(M(Fixed(v, Width32)), Len(before) + Len(Fixed(v, Width32)), v, None)
    BY <1>2, <1>6, Constants, FixedRoundTrip
  <2> HIDE DEF M, R
  <2> QED
    BY <2>1, <1>3
<1>7. ASSUME NEW b \in Seq(Byte), Len(b) < Words \div 2,
             Len(before \o Encoded(b) \o after) < Words \div 2
      PROVE  Skips(Encoded(b), WireLengthDelimited)
  <2> DEFINE end == Len(before) + Len(Encoded(b))
  <2>1. R(Encoded(b), WireLengthDelimited) = Got(M(Encoded(b)), end, <<end - Len(b), end>>, None)
    BY <1>2, <1>7, BytesRoundTrip
  <2> HIDE DEF M, R
  <2> QED
    BY <2>1, <1>3
<1> QED
  BY <1>4, <1>5, <1>6, <1>7

-----------------------------------------------------------------------------
(* Reading what anybody wrote.                                             *)

\* A message that is read: some of the bytes of its buffer have been read.
Reading(m) ==
    /\ m = FromBytes(m.buf, m.pos)
    /\ m.buf \in Seq(Byte)
    /\ m.pos \in 0 .. Len(m.buf)

LEMMA PowerIsMonotonic ==
    ASSUME NEW b \in Nat, b > 0, NEW n \in Nat
    PROVE  \A k \in Nat : k <= n => Power(b, k) <= Power(b, n)
<1> DEFINE T == {j \in Nat : \A k \in Nat : k <= j => Power(b, k) <= Power(b, j)}
<1>0. \A k \in Nat : Power(b, k) \in Nat
  BY PowerPositive
<1>1. 0 \in T
  <2>1. \A k \in Nat : k <= 0 => k = 0
    OBVIOUS
  <2> QED
    BY <2>1, <1>0
<1>2. ASSUME NEW j \in Nat, j \in T PROVE j + 1 \in T
  <2>1. Power(b, j + 1) = b * Power(b, j) /\ 1 * Power(b, j) <= b * Power(b, j)
    BY <1>0, PowerFacts, TimesIsMonotonic
  <2>2. Power(b, j) <= Power(b, j + 1)
    BY <2>1, <1>0
  <2>3. ASSUME NEW k \in Nat, k <= j + 1 PROVE Power(b, k) <= Power(b, j + 1)
    <3>1. CASE k = j + 1
      BY <3>1, <1>0
    <3>2. CASE k <= j
      <4>1. Power(b, k) <= Power(b, j)
        BY <3>2, <1>2
      <4>2. Power(b, k) \in Nat /\ Power(b, j) \in Nat /\ Power(b, j + 1) \in Nat
        BY <1>0
      <4> QED
        BY <4>1, <4>2, <2>2
    <3> QED
      BY <3>1, <3>2, <2>3
  <2> QED
    BY <2>3
<1> HIDE DEF T
<1>3. Nat \subseteq T
  BY <1>1, <1>2, Induction
<1> QED
  BY <1>3 DEF T

\* A varint that is accepted is a word: the test for overflow lets nothing larger through.
LEMMA AcceptedIsAWord ==
    ASSUME NEW m, Reading(m), NEW last \in Unread(m), m.buf[last] < Base,
           ~(last - m.pos - 1 > Full \/ (last - m.pos - 1 = Full /\ m.buf[last] >= Rest))
    PROVE  ValueAt(m, last) \in 0 .. Words - 1
<1> DEFINE n == last - m.pos
           d == [i \in 1 .. n |-> m.buf[m.pos + i] % Base]
           P == Power(Base, Full)
<1>1. /\ m.pos \in Nat /\ last \in Nat /\ n \in Nat /\ n > 0 /\ n <= Full + 1
      /\ m.pos + n = last /\ m.buf \in Seq(Byte) /\ last \in 1 .. Len(m.buf)
  BY Constants DEF Reading, Unread
<1>2. ASSUME NEW i \in 1 .. n PROVE m.buf[m.pos + i] % Base \in 0 .. Base - 1
  <2>1. m.pos + i \in 1 .. Len(m.buf)
    BY <1>1
  <2>2. m.buf[m.pos + i] \in Byte
    BY <2>1, <1>1
  <2> QED
    BY <2>2, ByteFacts
<1>3. d \in Seq(0 .. Base - 1) /\ Len(d) = n /\ \A i \in 1 .. n : d[i] = m.buf[m.pos + i] % Base
  <2> HIDE DEF n
  <2> QED
    BY <1>1, <1>2
<1>4. d[n] = m.buf[last] /\ m.buf[last] \in Nat
  <2>1. m.buf[last] \in Byte /\ n \in 1 .. n
    BY <1>1
  <2> HIDE DEF d, n
  <2> QED
    BY <2>1, <1>1, <1>3, ByteFacts
<1>5. ValueAt(m, last) = Number(Base, d)
  BY DEF ValueAt
<1> HIDE DEF d, n
<1>6. /\ Number(Base, d) \in Nat /\ Number(Base, d) < Power(Base, n)
      /\ Number(Base, d) < (d[n] + 1) * Power(Base, n - 1)
  <2>1. Base \in Nat /\ Base > 0 /\ d \in Seq(0 .. Base - 1) /\ Len(d) = n /\ n > 0
    BY <1>1, <1>3, Constants
  <2>2. /\ Number(Base, d) \in Nat /\ Number(Base, d) < Power(Base, Len(d))
        /\ Len(d) > 0 => Number(Base, d) < (d[Len(d)] + 1) * Power(Base, Len(d) - 1)
    BY <2>1, NumberBound
  <2> QED
    BY <2>1, <2>2
<1>7. P \in Nat /\ P > 0 /\ Words = Rest * P
  BY Constants, PowerPositive DEF Words
<1>8. Number(Base, d) < Words
  <2>1. CASE n <= Full
    <3>1. Power(Base, n) <= P /\ Power(Base, n) \in Nat
      <4>1. \A k \in Nat : k <= Full => Power(Base, k) <= Power(Base, Full)
        BY Constants, PowerIsMonotonic
      <4>2. \A k \in Nat : Power(Base, k) \in Nat
        <5>1. Base \in Nat /\ Base > 0
          BY Constants
        <5> QED
          BY <5>1, PowerPositive
      <4> QED
        BY <4>1, <4>2, <2>1, <1>1
    <3> HIDE DEF P
    <3>2. 1 * P <= Rest * P
      BY <1>7, Constants, TimesIsMonotonic
    <3>3. Rest * P \in Nat
      BY <1>7, Constants, TimesIsNatural
    <3> QED
      BY <3>1, <3>2, <3>3, <1>6, <1>7
  <2>2. CASE n = Full + 1
    <3>1. n - 1 = Full /\ d[n] < Rest
      <4>1. Full \in Nat /\ Rest \in Nat
        BY Constants
      <4>2. n - 1 = Full
        BY <2>2, <4>1
      <4>3. last - m.pos - 1 = Full
        BY <4>2 DEF n
      <4>4. m.buf[last] < Rest
        BY <4>1, <4>3, <1>4
      <4> QED
        BY <4>2, <4>4, <1>4
    <3>2. Number(Base, d) < (d[n] + 1) * P
      BY <3>1, <1>6
    <3> DEFINE c == d[n] + 1
    <3>3. c \in Nat /\ c <= Rest
      BY <3>1, <1>4, Constants
    <3> HIDE DEF P, c
    <3>4. c * P <= Rest * P /\ c * P \in Nat /\ Rest * P \in Nat
      BY <3>3, <1>7, Constants, TimesIsMonotonic, TimesIsNatural
    <3>5. Number(Base, d) < c * P
      BY <3>2 DEF c
    <3> QED
      BY <3>4, <3>5, <1>6, <1>7
  <2> QED
    BY <2>1, <2>2, <1>1, Constants
<1> QED
  BY <1>5, <1>6, <1>8, Constants

\* ReadVarint of any bytes whatever: it moves forward inside the buffer, by at least one
\* byte unless the buffer ends, its value is a word, and it fails with one of its two errors.
THEOREM ReadVarintIsSafe ==
    ASSUME NEW m, Reading(m)
    PROVE  LET r == ReadVarint(m)
           IN  /\ Reading(r.msg) /\ r.msg.buf = m.buf /\ r.msg.pos >= m.pos
               /\ r.val \in 0 .. Words - 1
               /\ r.err \in {None, EOF, Overflow}
               /\ r.err \in {None, Overflow} => r.msg.pos > m.pos
<1> DEFINE r == ReadVarint(m)
           L == Len(m.buf)
<1>1. m.buf \in Seq(Byte) /\ L \in Nat /\ m.pos \in 0 .. L /\ m = FromBytes(m.buf, m.pos)
  BY DEF Reading
<1>2. ASSUME NEW p \in 0 .. L, NEW x, NEW e
      PROVE  /\ Reading(Got(m, p, x, e).msg)
             /\ Got(m, p, x, e).msg.buf = m.buf /\ Got(m, p, x, e).msg.pos = p
             /\ Got(m, p, x, e).val = x /\ Got(m, p, x, e).err = e
  <2> DEFINE k == [m EXCEPT !.pos = p]
  <2>1. k = FromBytes(m.buf, p) /\ Got(m, p, x, e).msg = k
    BY <1>1 DEF Got, FromBytes
  <2>2. k.buf = m.buf /\ k.pos = p
    BY <2>1 DEF FromBytes
  <2>3. Reading(k)
    BY <2>1, <2>2, <1>1 DEF Reading
  <2> QED
    BY <2>1, <2>2, <2>3 DEF Got
<1>3. 0 \in 0 .. Words - 1
  BY Constants
<1>4. CASE Ends(m) = {}
  <2>1. r = Got(m, L, 0, EOF)
    BY <1>4 DEF ReadVarint, Failed
  <2>2. L \in 0 .. L
    BY <1>1
  <2> HIDE DEF r, L
  <2> QED
    BY <2>1, <2>2, <1>1, <1>2, <1>3 DEF r, L, None, EOF, Overflow
<1>5. CASE Ends(m) # {}
  <2> DEFINE last == Min(Ends(m))
  <2>1. last \in Ends(m)
    <3>1. Ends(m) \in SUBSET Nat
      BY <1>1 DEF Ends, Unread
    <3>2. PICK x \in Ends(m) : \A y \in Ends(m) : x <= y
      BY <3>1, <1>5, LeastNumber
    <3> QED
      BY <3>1, <3>2, MinIs
  <2>2. r = VarintTo(m, last)
    BY <1>5 DEF ReadVarint
  <2> HIDE DEF last, r
  <2>3. last \in Unread(m) /\ m.buf[last] < Base /\ last \in 0 .. L /\ last > m.pos
    BY <2>1, <1>1 DEF Ends, Unread
  <2>4. CASE last - m.pos - 1 > Full \/ (last - m.pos - 1 = Full /\ m.buf[last] >= Rest)
    <3>1. r = Got(m, last, 0, Overflow)
      BY <2>2, <2>4 DEF VarintTo, Failed
    <3> QED
      BY <3>1, <2>3, <1>1, <1>2, <1>3 DEF r, None, Overflow
  <2>5. CASE ~(last - m.pos - 1 > Full \/ (last - m.pos - 1 = Full /\ m.buf[last] >= Rest))
    <3>1. r = Got(m, last, ValueAt(m, last), None)
      BY <2>2, <2>5 DEF VarintTo
    <3>2. ValueAt(m, last) \in 0 .. Words - 1
      BY <2>3, <2>5, AcceptedIsAWord
    <3> QED
      BY <3>1, <3>2, <2>3, <1>1, <1>2 DEF r
  <2> QED
    BY <2>4, <2>5
<1> QED
  BY <1>4, <1>5

\* ReadBytesNoCopy of any bytes whatever: the slice that it returns lies in the buffer, and
\* the slice expression panics only behind a length that is beyond half of the words, which
\* no writer writes.
THEOREM ReadBytesIsSafe ==
    ASSUME NEW m, Reading(m)
    PROVE  LET r == ReadBytesNoCopy(m)
               n == ReadVarint(m)
           IN  /\ Reading(r.msg) /\ r.msg.buf = m.buf /\ r.msg.pos >= m.pos
               /\ \E from \in 0 .. Len(m.buf) : \E to \in from .. Len(m.buf) :
                     /\ r.val = <<from, to>>
                     /\ r.err = None => m.pos < from /\ to = r.msg.pos
               /\ r.err \in {None, EOF, Overflow, Panic}
               /\ r.err = Panic => n.err = None /\ n.val + n.msg.pos >= Words \div 2
<1> DEFINE r == ReadBytesNoCopy(m)
           n == ReadVarint(m)
           from == n.msg.pos
           L == Len(m.buf)
           Safe == /\ Reading(r.msg) /\ r.msg.buf = m.buf /\ r.msg.pos >= m.pos
                   /\ \E f \in 0 .. Len(m.buf) : \E to \in f .. Len(m.buf) :
                         /\ r.val = <<f, to>>
                         /\ r.err = None => m.pos < f /\ to = r.msg.pos
                   /\ r.err \in {None, EOF, Overflow, Panic}
                   /\ r.err = Panic => n.err = None /\ n.val + n.msg.pos >= Words \div 2
<1> SUFFICES Safe
  OBVIOUS
<1>1. /\ Reading(n.msg) /\ n.msg.buf = m.buf /\ n.msg.pos >= m.pos
      /\ n.val \in 0 .. Words - 1 /\ n.err \in {None, EOF, Overflow}
      /\ n.err = None => n.msg.pos > m.pos
  BY ReadVarintIsSafe
<1>2. r = SliceBehind(n)
  BY DEF ReadBytesNoCopy
<1> HIDE DEF n, r
<1>3. /\ m.pos \in Nat /\ L \in Nat /\ from \in 0 .. L /\ n.val \in Nat
      /\ n.msg.buf \in Seq(Byte) /\ n.msg = FromBytes(m.buf, from)
  BY <1>1, Constants DEF Reading
<1>4. ASSUME NEW p \in 0 .. L, NEW x, NEW e
      PROVE  /\ Reading(Got(n.msg, p, x, e).msg)
             /\ Got(n.msg, p, x, e).msg.buf = m.buf /\ Got(n.msg, p, x, e).msg.pos = p
             /\ Got(n.msg, p, x, e).val = x /\ Got(n.msg, p, x, e).err = e
  <2> DEFINE k == [n.msg EXCEPT !.pos = p]
  <2>1. k = FromBytes(m.buf, p) /\ Got(n.msg, p, x, e).msg = k
    BY <1>3 DEF Got, FromBytes
  <2>2. k.buf = m.buf /\ k.pos = p /\ m.buf \in Seq(Byte)
    BY <2>1, <1>1, <1>3 DEF FromBytes
  <2>3. Reading(k)
    BY <2>1, <2>2 DEF Reading
  <2> QED
    BY <2>1, <2>2, <2>3 DEF Got
<1>5. 0 \in 0 .. L /\ 0 \in 0 .. L
  BY <1>3
<1>6. CASE n.err # None
  <2>1. r = [n EXCEPT !.val = <<0, 0>>]
    BY <1>2, <1>6 DEF SliceBehind
  <2>2. r.msg = n.msg /\ r.val = <<0, 0>> /\ r.err = n.err
    <3>1. \E a, b, c : n = [msg |-> a, val |-> b, err |-> c]
      BY DEF n, ReadVarint, VarintTo, Failed, Got
    <3> QED
      BY <3>1, <2>1
  <2>3. r.err # Panic /\ r.err \in {None, EOF, Overflow, Panic}
    BY <2>2, <1>1 DEF Panic, None, EOF, Overflow
  <2>4. \E f \in 0 .. L : \E to \in f .. L : r.val = <<f, to>>
    BY <2>2, <1>5
  <2> QED
    BY <2>2, <2>3, <2>4, <1>1, <1>6
<1>7. CASE n.err = None /\ Beyond(n.msg, n.val)
  <2>1. r = Got(n.msg, from, <<0, 0>>, Panic)
    BY <1>2, <1>7 DEF SliceBehind, Failed
  <2>2. n.val + n.msg.pos >= Words \div 2
    BY <1>7 DEF Beyond
  <2>3. Reading(r.msg) /\ r.msg.buf = m.buf /\ r.msg.pos = from /\ r.val = <<0, 0>> /\ r.err = Panic
    BY <2>1, <1>3, <1>4
  <2>4. \E f \in 0 .. L : \E to \in f .. L : r.val = <<f, to>>
    BY <2>3, <1>5
  <2> QED
    BY <2>2, <2>3, <2>4, <1>1, <1>7 DEF Panic, None
<1>8. CASE n.err = None /\ ~Beyond(n.msg, n.val) /\ from + n.val > L
  <2>1. r = Got(n.msg, from, <<0, 0>>, EOF)
    BY <1>1, <1>2, <1>8 DEF SliceBehind, Failed
  <2>2. Reading(r.msg) /\ r.msg.buf = m.buf /\ r.msg.pos = from /\ r.val = <<0, 0>> /\ r.err = EOF
    BY <2>1, <1>3, <1>4
  <2>3. \E f \in 0 .. L : \E to \in f .. L : r.val = <<f, to>>
    BY <2>2, <1>5
  <2> QED
    BY <2>2, <2>3, <1>1, <1>8 DEF Panic, None, EOF
<1>9. CASE n.err = None /\ ~Beyond(n.msg, n.val) /\ ~(from + n.val > L)
  <2> DEFINE to == from + n.val
  <2>1. r = Got(n.msg, to, <<from, to>>, None)
    BY <1>1, <1>2, <1>9 DEF SliceBehind
  <2>2. to \in 0 .. L /\ to \in from .. L /\ to >= m.pos
    BY <1>1, <1>3, <1>9
  <2>3. Reading(r.msg) /\ r.msg.buf = m.buf /\ r.msg.pos = to /\ r.val = <<from, to>> /\ r.err = None
    BY <2>1, <2>2, <1>4
  <2>4. m.pos < from
    BY <1>1, <1>3, <1>9
  <2>5. \E f \in 0 .. L : \E t \in f .. L :
            /\ r.val = <<f, t>>
            /\ r.err = None => m.pos < f /\ t = r.msg.pos
    BY <2>2, <2>3, <2>4, <1>3
  <2> QED
    BY <2>2, <2>3, <2>5 DEF Panic, None
<1> QED
  BY <1>6, <1>7, <1>8, <1>9

-----------------------------------------------------------------------------
(* Writing.                                                                *)

\* A message that is written: what it holds fits the buffer.
Writing(m) ==
    /\ m \in [out : Seq(Byte), size : Nat, panic : BOOLEAN]
    /\ Len(m.out) <= m.size

\* newMessage makes such a message, with room for the bytes that it leaves free.
LEMMA NewMessageIsWriting ==
    ASSUME NEW capacity \in Nat, NEW prefix \in 0 .. 4 + capacity
    PROVE  Writing(newMessage(prefix, capacity)) /\ ~newMessage(prefix, capacity).panic
<1> DEFINE zeros == [i \in 1 .. prefix |-> 0]
<1>1. zeros \in Seq(Byte) /\ Len(zeros) = prefix
  <2>1. 0 \in Byte /\ prefix \in Nat
    BY Constants DEF Byte
  <2> QED
    BY <2>1
<1>2. newMessage(prefix, capacity) = [out |-> zeros, size |-> 4 + capacity, panic |-> FALSE]
  BY DEF newMessage
<1> HIDE DEF zeros
<1> QED
  BY <1>1, <1>2 DEF Writing

LEMMA GrowFacts ==
    ASSUME NEW m, Writing(m), NEW needed \in Nat
    PROVE  /\ Writing(grow(m, needed))
           /\ Room(grow(m, needed)) \in Nat /\ Room(grow(m, needed)) >= needed
           /\ grow(m, needed).out = m.out /\ grow(m, needed).panic = m.panic
<1>1. /\ m.out \in Seq(Byte) /\ Len(m.out) \in Nat /\ m.size \in Nat /\ Len(m.out) <= m.size
      /\ m.panic \in BOOLEAN /\ m = [out |-> m.out, size |-> m.size, panic |-> m.panic]
  BY DEF Writing
<1>2. CASE needed > Room(m)
  <2>1. grow(m, needed) = [out |-> m.out, size |-> (2 * m.size) + needed, panic |-> m.panic]
    BY <1>1, <1>2 DEF grow
  <2> QED
    BY <1>1, <2>1 DEF Writing, Room
<1>3. CASE ~(needed > Room(m))
  BY <1>1, <1>3 DEF grow, Writing, Room
<1> QED
  BY <1>2, <1>3

LEMMA PutFacts ==
    ASSUME NEW m, Writing(m), NEW b \in Seq(Byte)
    PROVE  /\ Writing(Put(m, b))
           /\ Len(b) <= Room(m) => Put(m, b).out = m.out \o b /\ Put(m, b).panic = m.panic
           /\ Len(b) > Room(m) => Put(m, b).out = m.out /\ Put(m, b).panic
<1>1. /\ m.out \in Seq(Byte) /\ Len(m.out) \in Nat /\ m.size \in Nat /\ Len(m.out) <= m.size
      /\ m.panic \in BOOLEAN /\ m = [out |-> m.out, size |-> m.size, panic |-> m.panic]
      /\ Len(b) \in Nat
  BY DEF Writing
<1>2. m.out \o b \in Seq(Byte) /\ Len(m.out \o b) = Len(m.out) + Len(b)
  BY <1>1, ConcatProperties
<1>3. CASE Len(b) > Room(m)
  <2>1. Put(m, b) = [out |-> m.out, size |-> m.size, panic |-> TRUE]
    BY <1>1, <1>3 DEF Put
  <2>2. ~(Len(b) <= Room(m))
    BY <1>1, <1>3 DEF Room
  <2>3. Writing(Put(m, b))
    BY <1>1, <2>1 DEF Writing
  <2>4. Put(m, b).out = m.out /\ Put(m, b).panic = TRUE
    BY <2>1
  <2> QED
    BY <2>2, <2>3, <2>4
<1>4. CASE ~(Len(b) > Room(m))
  <2>1. Put(m, b) = [out |-> m.out \o b, size |-> m.size, panic |-> m.panic]
    BY <1>1, <1>4 DEF Put
  <2> QED
    BY <1>1, <1>2, <1>4, <2>1 DEF Writing, Room
<1> QED
  BY <1>3, <1>4

\* WriteVarint appends the varint and nothing else, or panics. It reserves one byte less
\* than the longest varint takes, so it panics only for a word of the most groups, when the
\* buffer has exactly the room that was asked for.
THEOREM WriteVarintAppends ==
    ASSUME NEW m, Writing(m), NEW v \in 0 .. Words - 1
    PROVE  LET r == WriteVarint(m, v)
               panics == v >= Power(Base, Full) /\ Room(grow(m, Full)) = Full
           IN  /\ Writing(r)
               /\ ~panics => r.out = m.out \o Varint(v) /\ r.panic = m.panic
               /\ panics => r.out = m.out /\ r.panic
<1> DEFINE g == grow(m, Full)
           w == Varint(v)
           r == WriteVarint(m, v)
           P == Power(Base, Full)
<1>1. /\ Writing(g) /\ Room(g) \in Nat /\ Room(g) >= Full /\ g.out = m.out /\ g.panic = m.panic
      /\ Full \in Nat /\ Full > 0 /\ v \in Nat
  BY GrowFacts, Constants
<1>2. /\ w \in Seq(Byte) /\ Len(w) = GroupsOf(v) /\ GroupsOf(v) \in 1 .. Full + 1
      /\ v < Power(Base, GroupsOf(v))
      /\ GroupsOf(v) = Full + 1 => v >= P
  BY VarintFacts, GroupsFacts
<1>3. r = Put(g, w)
  BY DEF WriteVarint
<1>4. v >= P => GroupsOf(v) = Full + 1
  <2> SUFFICES ASSUME v >= P, GroupsOf(v) <= Full PROVE FALSE
    BY <1>1, <1>2
  <2>1. Base \in Nat /\ Base > 0
    BY Constants
  <2>2. Power(Base, GroupsOf(v)) <= P
    BY <2>1, <1>1, <1>2, PowerIsMonotonic
  <2>3. Power(Base, GroupsOf(v)) \in Nat /\ P \in Nat
    BY <2>1, <1>1, <1>2, PowerPositive
  <2> HIDE DEF P
  <2> QED
    BY <2>2, <2>3, <1>1, <1>2
<1>5. Len(w) > Room(g) <=> v >= P /\ Room(g) = Full
  <2> HIDE DEF g, w, P
  <2> QED
    BY <1>1, <1>2, <1>4
<1>6. /\ Writing(r)
      /\ Len(w) <= Room(g) => r.out = g.out \o w /\ r.panic = g.panic
      /\ Len(w) > Room(g) => r.out = g.out /\ r.panic
  <2> HIDE DEF g, w, r
  <2> QED
    BY <1>1, <1>2, <1>3, PutFacts
<1>7. Len(w) <= Room(g) <=> ~(Len(w) > Room(g))
  <2> HIDE DEF g, w
  <2> QED
    BY <1>1, <1>2
<1> QED
  BY <1>1, <1>5, <1>6, <1>7

\* The writers of a fixed width always have the room.
THEOREM WriteFixedAppends ==
    ASSUME NEW m, Writing(m), NEW v \in Nat, NEW w \in Nat
    PROVE  LET r == WriteFixed(m, v, w)
           IN  Writing(r) /\ r.out = m.out \o Fixed(v, w) /\ r.panic = m.panic
<1> DEFINE g == grow(m, w)
           x == Fixed(v, w)
<1>1. /\ Writing(g) /\ Room(g) \in Nat /\ Room(g) >= w /\ g.out = m.out /\ g.panic = m.panic
  BY GrowFacts
<1>2. x \in Seq(Byte) /\ Len(x) = w
  <2>1. ASSUME NEW i \in 1 .. w PROVE Digit(2 * Base, v, i) \in Byte
    <3>1. i \in Nat /\ i > 0
      OBVIOUS
    <3> QED
      BY <3>1, ByteFacts, DigitIsSmall DEF Byte
  <2> QED
    BY <2>1 DEF Fixed
<1>3. WriteFixed(m, v, w) = Put(g, x)
  BY DEF WriteFixed
<1> HIDE DEF g, x
<1>4. Len(x) <= Room(g)
  BY <1>1, <1>2
<1>5. Writing(Put(g, x)) /\ Put(g, x).out = g.out \o x /\ Put(g, x).panic = g.panic
  BY <1>1, <1>2, <1>4, PutFacts
<1> QED
  BY <1>1, <1>3, <1>5 DEF x

\* WriteBytes never panics on a byte string whose length has at most Full groups, as every
\* length has that is an int of the code (below 2^63, nine groups of seven bits).
THEOREM WriteBytesAppends ==
    ASSUME NEW m, Writing(m), NEW b \in Seq(Byte), Len(b) < Power(Base, Full)
    PROVE  LET r == WriteBytes(m, b)
           IN  Writing(r) /\ r.out = m.out \o Encoded(b) /\ r.panic = m.panic
<1> DEFINE k == Len(b)
           n == WriteVarint(m, k)
           g == grow(n, k)
           w == Varint(k)
<1>1. k \in Nat /\ k \in 0 .. Words - 1 /\ ~(k >= Power(Base, Full))
  <2> DEFINE P == Power(Base, Full)
  <2>1. P \in Nat /\ P > 0 /\ Words = Rest * P
    BY Constants, PowerPositive DEF Words
  <2>2. k < P /\ k \in Nat
    OBVIOUS
  <2> HIDE DEF P, k
  <2>3. 1 * P <= Rest * P /\ Rest * P \in Nat
    BY <2>1, Constants, TimesIsMonotonic, TimesIsNatural
  <2>4. k \in 0 .. Words - 1 /\ ~(k >= P)
    BY <2>1, <2>2, <2>3
  <2> QED
    BY <2>2, <2>4 DEF P
<1>2. Writing(n) /\ n.out = m.out \o w /\ n.panic = m.panic
  BY <1>1, WriteVarintAppends
<1>3. w \in Seq(Byte) /\ Encoded(b) = w \o b
  BY <1>1, EncodedFacts DEF Encoded
<1>4. WriteBytes(m, b) = Put(g, b)
  BY DEF WriteBytes
<1> HIDE DEF n, w
<1>5. /\ Writing(g) /\ Room(g) \in Nat /\ Room(g) >= k /\ g.out = n.out /\ g.panic = n.panic
  BY <1>1, <1>2, GrowFacts
<1> HIDE DEF g
<1>6. Len(b) <= Room(g)
  BY <1>5
<1>7. /\ Writing(Put(g, b)) /\ Put(g, b).out = g.out \o b /\ Put(g, b).panic = g.panic
  BY <1>5, <1>6, PutFacts
<1>8. (m.out \o w) \o b = m.out \o (w \o b)
  <2>1. m.out \in Seq(Byte)
    BY DEF Writing
  <2>2. Regroups(m.out, w, b)
    BY <2>1, <1>3, BytesRegroup
  <2> QED
    BY <2>2 DEF Regroups
<1> QED
  BY <1>2, <1>3, <1>4, <1>5, <1>7, <1>8

\* What a message holds is read in the order in which it was written: whatever is appended
\* later, the reader that stands where a writer began reads the value that it wrote, and
\* stands where the writer ended.
THEOREM WrittenIsRead ==
    ASSUME NEW m, Writing(m), NEW after \in Seq(Byte)
    PROVE  /\ \A v \in 0 .. Words - 1 :
                 LET r == WriteVarint(m, v)
                     k == FromBytes(r.out \o after, Len(m.out))
                 IN  ~r.panic => ReadVarint(k) = Got(k, Len(r.out), v, None)
           /\ \A w \in Nat : \A v \in Nat :
                 LET r == WriteFixed(m, v, w)
                     k == FromBytes(r.out \o after, Len(m.out))
                 IN  v < Power(2 * Base, w) => ReadFixed(k, w) = Got(k, Len(r.out), v, None)
           /\ \A b \in Seq(Byte) :
                 LET r == WriteBytes(m, b)
                     k == FromBytes(r.out \o after, Len(m.out))
                 IN  /\ Len(b) < Words \div 2 /\ Len(b) < Power(Base, Full)
                     /\ Len(r.out \o after) < Words \div 2
                     => ReadString(k) = Got(k, Len(r.out), b, None)
<1>1. m.out \in Seq(Byte)
  BY DEF Writing
<1>2. ASSUME NEW v \in 0 .. Words - 1, ~WriteVarint(m, v).panic
      PROVE  LET r == WriteVarint(m, v)
                 k == FromBytes(r.out \o after, Len(m.out))
             IN  ReadVarint(k) = Got(k, Len(r.out), v, None)
  <2>1. WriteVarint(m, v).out = m.out \o Varint(v)
    BY <1>2, WriteVarintAppends
  <2>2. Len(m.out \o Varint(v)) = Len(m.out) + Len(Varint(v))
    BY <1>1, VarintFacts, ConcatProperties
  <2> QED
    BY <2>1, <2>2, <1>1, VarintRoundTrip
<1>3. ASSUME NEW w \in Nat, NEW v \in Nat, v < Power(2 * Base, w)
      PROVE  LET r == WriteFixed(m, v, w)
                 k == FromBytes(r.out \o after, Len(m.out))
             IN  ReadFixed(k, w) = Got(k, Len(r.out), v, None)
  <2>1. WriteFixed(m, v, w).out = m.out \o Fixed(v, w)
    BY WriteFixedAppends
  <2>2. Fixed(v, w) \in Seq(Byte)
    <3>1. ASSUME NEW i \in 1 .. w PROVE Digit(2 * Base, v, i) \in Byte
      <4>1. i \in Nat /\ i > 0
        OBVIOUS
      <4> QED
        BY <4>1, ByteFacts, DigitIsSmall DEF Byte
    <3> QED
      BY <3>1 DEF Fixed
  <2>3. Len(m.out \o Fixed(v, w)) = Len(m.out) + Len(Fixed(v, w))
    BY <1>1, <2>2, ConcatProperties
  <2>4. LET k == FromBytes(m.out \o Fixed(v, w) \o after, Len(m.out))
        IN  ReadFixed(k, w) = Got(k, Len(m.out) + Len(Fixed(v, w)), v, None)
    BY <1>1, <1>3, FixedRoundTrip
  <2> QED
    BY <2>1, <2>3, <2>4
<1>4. ASSUME NEW b \in Seq(Byte), Len(b) < Words \div 2, Len(b) < Power(Base, Full),
             Len(WriteBytes(m, b).out \o after) < Words \div 2
      PROVE  LET r == WriteBytes(m, b)
                 k == FromBytes(r.out \o after, Len(m.out))
             IN  ReadString(k) = Got(k, Len(r.out), b, None)
  <2>1. WriteBytes(m, b).out = m.out \o Encoded(b)
    BY <1>4, WriteBytesAppends
  <2>2. Len(b) \in 0 .. Words - 1
    BY <1>4, HalfOfWords
  <2>3. Len(m.out \o Encoded(b)) = Len(m.out) + Len(Encoded(b))
    BY <1>1, <2>2, EncodedFacts, ConcatProperties
  <2>4. Len(m.out \o Encoded(b) \o after) < Words \div 2
    BY <2>1, <1>4
  <2>5. LET k == FromBytes(m.out \o Encoded(b) \o after, Len(m.out))
        IN  ReadString(k) = Got(k, Len(m.out) + Len(Encoded(b)), b, None)
    BY <2>4, <1>1, <1>4, BytesRoundTrip
  <2> QED
    BY <2>1, <2>3, <2>5
<1> QED
  BY <1>2, <1>3, <1>4

\* Skipping an unknown field of any tag whatever stays inside the buffer too, and never
\* goes back: a decoder loop that skips ends.
THEOREM SkippingIsSafe ==
    ASSUME NEW m, Reading(m), NEW tag \in Nat
    PROVE  LET r == ReadPBSkip(m, tag)
           IN  /\ Reading(r.msg) /\ r.msg.buf = m.buf /\ r.msg.pos >= m.pos
               /\ r.err \in {None, EOF, Overflow, Panic}
<1> DEFINE Safe(r) == /\ Reading(r.msg) /\ r.msg.buf = m.buf /\ r.msg.pos >= m.pos
                      /\ r.err \in {None, EOF, Overflow, Panic}
<1>1. m.buf \in Seq(Byte) /\ Len(m.buf) \in Nat /\ m.pos \in 0 .. Len(m.buf)
      /\ m = FromBytes(m.buf, m.pos)
  BY DEF Reading
<1>2. ASSUME NEW p \in m.pos .. Len(m.buf), NEW x, NEW e \in {None, EOF, Overflow, Panic}
      PROVE  Safe(Got(m, p, x, e))
  <2> DEFINE k == [m EXCEPT !.pos = p]
  <2>1. k = FromBytes(m.buf, p) /\ Got(m, p, x, e).msg = k /\ Got(m, p, x, e).err = e
    BY <1>1 DEF Got, FromBytes
  <2>2. k.buf = m.buf /\ k.pos = p
    BY <2>1 DEF FromBytes
  <2>3. Reading(k) /\ p >= m.pos
    BY <2>1, <2>2, <1>1 DEF Reading
  <2> QED
    BY <2>1, <2>2, <2>3
<1>3. ASSUME NEW w \in Nat PROVE Safe(ReadFixed(m, w))
  <2>1. CASE m.pos + w > Len(m.buf)
    <3>1. ReadFixed(m, w) = Got(m, m.pos, 0, EOF)
      BY <2>1 DEF ReadFixed, Failed
    <3>2. m.pos \in m.pos .. Len(m.buf)
      BY <1>1
    <3> HIDE DEF Safe
    <3> QED
      BY <3>1, <3>2, <1>2
  <2>2. CASE ~(m.pos + w > Len(m.buf))
    <3> DEFINE x == Number(2 * Base, [i \in 1 .. w |-> m.buf[m.pos + i]])
    <3>1. ReadFixed(m, w) = Got(m, m.pos + w, x, None)
      BY <2>2 DEF ReadFixed
    <3>2. m.pos + w \in m.pos .. Len(m.buf)
      BY <1>1, <2>2
    <3> HIDE DEF Safe, x
    <3> QED
      BY <3>1, <3>2, <1>2
  <2> QED
    BY <2>1, <2>2
<1>4. Safe(ReadVarint(m)) /\ Safe(ReadBytesNoCopy(m))
  BY ReadVarintIsSafe, ReadBytesIsSafe
<1>5. Safe(Got(m, m.pos, 0, None))
  <2>1. m.pos \in m.pos .. Len(m.buf)
    BY <1>1
  <2> HIDE DEF Safe
  <2> QED
    BY <2>1, <1>2
<1> HIDE DEF Safe
<1>6. Safe(ReadPBSkip(m, tag))
  BY <1>3, <1>4, <1>5, Constants
     DEF ReadPBSkip, WireVarint, Wire64Bit, Wire32Bit, WireLengthDelimited
<1> QED
  BY <1>6 DEF Safe

-----------------------------------------------------------------------------
(* Fields.                                                                 *)

\* The values of each type that have a place in the format: words, numbers of a fixed
\* width, byte strings, and times by what their text says.
ScalarValue(t, v) ==
    CASE t.kind = "int" -> v \in 0 .. Words - 1
      [] t.kind = "bool" -> v \in BOOLEAN
      [] t.kind \in {"int64", "double"} -> v \in Nat /\ v < Power(2 * Base, Width64)
      [] t.kind = "float" -> v \in Nat /\ v < Power(2 * Base, Width32)
      [] t.kind = "string" -> v \in Seq(Byte)
      [] t.kind = "bytes" -> v = NilBytes \/ \E b \in Seq(Byte) : v = Copied(b)
      [] t.kind = "time" -> v.instant \in Byte
      [] t.kind = "uuid" -> v \in Seq(Byte) /\ Len(v) = UUIDLen

\* What arrives of a value that is written.
ScalarArrives(t, v) ==
    IF t.kind = "time" THEN [instant |-> v.instant, extra |-> FALSE] ELSE v

\* The bytes behind the tag.
EncodedScalar(t, v) ==
    CASE t.kind = "int" -> Varint(v)
      [] t.kind = "bool" -> Varint(1)
      [] t.kind \in {"int64", "double"} -> Fixed(v, Width64)
      [] t.kind = "float" -> Fixed(v, Width32)
      [] t.kind = "bytes" -> Encoded(v.bytes)
      [] t.kind = "time" -> Encoded(<<v.instant>>)
      [] t.kind \in {"string", "uuid"} -> Encoded(v)

\* Lengths of byte strings are ints of the code.
LengthOK(t, v) ==
    LET short(b) == Len(b) < Power(Base, Full) /\ Len(b) < Words \div 2
    IN  /\ t.kind \in {"string", "uuid"} => short(v)
        /\ t.kind = "bytes" => short(v.bytes)

\* Half of the words is no less than what Full groups hold, and that is more than one.
LEMMA ShortLengths ==
    /\ Power(Base, Full) \in Nat /\ 1 < Power(Base, Full) /\ Power(Base, Full) <= Words \div 2
    /\ 1 \in 0 .. Words - 1
<1> DEFINE P == Power(Base, Full)
           h == Words \div 2
<1>1. Base \in Nat /\ Base > 0 /\ Full \in Nat /\ 0 \in Nat /\ 1 \in Nat /\ 1 <= Full
  BY Constants
<1>2. P \in Nat /\ Words = Rest * P
  BY <1>1, PowerPositive DEF Words
<1>3. Power(Base, 1) = Base
  <2>1. Power(Base, 0 + 1) = Base * Power(Base, 0) /\ Power(Base, 0) = 1
    BY <1>1, PowerFacts
  <2> QED
    BY <2>1, <1>1
<1>4. Base <= P
  BY <1>1, <1>3, PowerIsMonotonic
<1>5. Words \in Nat /\ h \in Nat /\ Words % 2 \in 0 .. 1 /\ Words = (h * 2) + (Words % 2)
  BY Constants, Division
<1> HIDE DEF P, h
<1>6. 2 * P <= Rest * P
  BY <1>2, Constants, TimesIsMonotonic
<1>7. Rest * P \in Nat
  BY <1>2, Constants, TimesIsNatural
<1>8. 1 < P /\ P <= h
  BY <1>1, <1>2, <1>4, <1>5, <1>6, <1>7, Constants
<1>9. 1 \in 0 .. Words - 1
  BY <1>2, <1>5, <1>8
<1> QED
  BY <1>2, <1>8, <1>9 DEF P, h

LEMMA FixedIsBytes ==
    ASSUME NEW v \in Nat, NEW w \in Nat
    PROVE  Fixed(v, w) \in Seq(Byte) /\ Len(Fixed(v, w)) = w
<1>1. ASSUME NEW i \in 1 .. w PROVE Digit(2 * Base, v, i) \in Byte
  <2>1. i \in Nat /\ i > 0
    OBVIOUS
  <2> QED
    BY <2>1, ByteFacts, DigitIsSmall DEF Byte
<1> QED
  BY <1>1 DEF Fixed

\* A scalar that is written: a value of its type, not one that is left out, and no longer
\* than an int can say.
Written(t, v) ==
    t.kind \in ScalarKinds /\ ScalarValue(t, v) /\ ~Omitted(t, v) /\ LengthOK(t, v)

\* What Written says for each kind.
LEMMA WrittenFacts ==
    ASSUME NEW t, NEW v, Written(t, v)
    PROVE  /\ t.kind = "int" => v \in 0 .. Words - 1
           /\ t.kind = "bool" => v = TRUE
           /\ t.kind \in {"int64", "double"} => v \in Nat /\ v < Power(2 * Base, Width64)
           /\ t.kind = "float" => v \in Nat /\ v < Power(2 * Base, Width32)
           /\ t.kind = "bytes" => v.bytes \in Seq(Byte) /\ v = Copied(v.bytes)
                                  /\ Len(v.bytes) < Power(Base, Full)
                                  /\ Len(v.bytes) < Words \div 2
           /\ t.kind = "time" => /\ <<v.instant>> \in Seq(Byte) /\ Len(<<v.instant>>) = 1
                                 /\ Len(<<v.instant>>) < Power(Base, Full)
                                 /\ Len(<<v.instant>>) < Words \div 2
           /\ t.kind \in {"string", "uuid"} => v \in Seq(Byte) /\ Len(v) < Power(Base, Full)
                                               /\ Len(v) < Words \div 2
           /\ t.kind = "uuid" => Len(v) = UUIDLen
<1> USE DEF Written, ScalarKinds, ScalarValue, LengthOK
<1>1. t.kind = "bool" => v = TRUE
  BY DEF Omitted, Zero
<1>2. ASSUME t.kind = "bytes"
      PROVE  /\ v.bytes \in Seq(Byte) /\ v = Copied(v.bytes)
             /\ Len(v.bytes) < Power(Base, Full) /\ Len(v.bytes) < Words \div 2
  <2>1. v # NilBytes
    BY <1>2 DEF Omitted, Zero
  <2>2. PICK b \in Seq(Byte) : v = Copied(b)
    BY <1>2, <2>1
  <2>3. v.bytes = b
    BY <2>2 DEF Copied
  <2> QED
    BY <2>2, <2>3, <1>2
<1>3. ASSUME t.kind = "time"
      PROVE  /\ <<v.instant>> \in Seq(Byte) /\ Len(<<v.instant>>) = 1
             /\ Len(<<v.instant>>) < Power(Base, Full) /\ Len(<<v.instant>>) < Words \div 2
  <2>1. <<v.instant>> \in Seq(Byte) /\ Len(<<v.instant>>) = 1
    BY <1>3
  <2> DEFINE P == Power(Base, Full)
             h == Words \div 2
  <2>2. P \in Nat /\ 1 < P /\ P <= h /\ h \in Nat
    BY ShortLengths, HalfOfWords
  <2> HIDE DEF P, h
  <2>3. 1 < P /\ 1 < h
    BY <2>2
  <2> QED
    BY <2>1, <2>3 DEF P, h
<1> QED
  BY <1>1, <1>2, <1>3

\* The writers of scalars append their encoding and nothing else, unless they panic.
LEMMA ScalarIsWritten ==
    ASSUME NEW m, Writing(m), NEW t, NEW v, Written(t, v)
    PROVE  LET r == WriteScalar(m, t, v)
           IN  /\ Writing(r)
               /\ ~r.panic => ~m.panic /\ r.out = m.out \o EncodedScalar(t, v)
               /\ r.panic /\ ~m.panic => t.kind = "int" /\ v >= Power(Base, Full)
               /\ EncodedScalar(t, v) \in Seq(Byte)
<1> DEFINE r == WriteScalar(m, t, v)
           Good(x) == /\ Writing(r)
                      /\ ~r.panic => ~m.panic /\ r.out = m.out \o x
                      /\ r.panic /\ ~m.panic => t.kind = "int" /\ v >= Power(Base, Full)
                      /\ x \in Seq(Byte) /\ EncodedScalar(t, v) = x
<1>0. t.kind \in ScalarKinds /\ m.panic \in BOOLEAN
  BY DEF Written, Writing
<1>1. CASE t.kind = "int"
  <2>1. r = WriteVarint(m, v) /\ EncodedScalar(t, v) = Varint(v)
    BY <1>1 DEF WriteScalar, EncodedScalar
  <2>2. v \in 0 .. Words - 1
    BY <1>1, WrittenFacts
  <2>3. Varint(v) \in Seq(Byte)
    BY <2>2, VarintFacts
  <2>4. Good(Varint(v))
    BY <2>1, <2>2, <2>3, <1>0, <1>1, WriteVarintAppends
  <2> QED
    BY <2>1, <2>4
<1>2. CASE t.kind = "bool"
  <2>1. r = WriteVarint(m, 1) /\ EncodedScalar(t, v) = Varint(1)
    BY <1>2 DEF WriteScalar, EncodedScalar
  <2>2. 1 \in 0 .. Words - 1 /\ ~(1 >= Power(Base, Full))
    BY ShortLengths
  <2>3. Varint(1) \in Seq(Byte)
    BY <2>2, VarintFacts
  <2>4. Good(Varint(1))
    BY <2>1, <2>2, <2>3, <1>0, <1>2, WriteVarintAppends, ZenonT(30)
  <2> QED
    BY <2>1, <2>4
<1>3. ASSUME NEW w \in Nat, v \in Nat, r = WriteFixed(m, v, w), EncodedScalar(t, v) = Fixed(v, w)
      PROVE  Good(Fixed(v, w))
  <2> DEFINE x == Fixed(v, w)
             k == WriteFixed(m, v, w)
  <2>1. Writing(k) /\ k.out = m.out \o x /\ k.panic = m.panic
    BY <1>3, WriteFixedAppends
  <2>2. x \in Seq(Byte)
    BY <1>3, FixedIsBytes
  <2>3. r = k /\ EncodedScalar(t, v) = x
    BY <1>3
  <2> HIDE DEF x, k, r
  <2>4. Good(x)
    BY <2>1, <2>2, <2>3, <1>0
  <2> QED
    BY <2>4 DEF x
<1>4. CASE t.kind \in {"int64", "double"}
  <2>1. r = WriteFixed(m, v, Width64) /\ EncodedScalar(t, v) = Fixed(v, Width64)
    BY <1>4 DEF WriteScalar, EncodedScalar
  <2>2. v \in Nat /\ Width64 \in Nat
    BY <1>4, WrittenFacts, Constants
  <2>3. Good(Fixed(v, Width64))
    BY <2>1, <2>2, <1>3
  <2> QED
    BY <2>1, <2>3
<1>5. CASE t.kind = "float"
  <2>1. r = WriteFixed(m, v, Width32) /\ EncodedScalar(t, v) = Fixed(v, Width32)
    BY <1>5 DEF WriteScalar, EncodedScalar
  <2>2. v \in Nat /\ Width32 \in Nat
    BY <1>5, WrittenFacts, Constants
  <2>3. Good(Fixed(v, Width32))
    BY <2>1, <2>2, <1>3
  <2> QED
    BY <2>1, <2>3
<1>6. ASSUME NEW b \in Seq(Byte), Len(b) < Power(Base, Full), Len(b) < Words \div 2,
             r = WriteBytes(m, b), EncodedScalar(t, v) = Encoded(b)
      PROVE  Good(Encoded(b))
  <2>1. Len(b) \in 0 .. Words - 1
    BY <1>6, HalfOfWords
  <2>2. Encoded(b) \in Seq(Byte)
    BY <2>1, EncodedFacts
  <2> QED
    BY <2>2, <1>0, <1>6, WriteBytesAppends
<1>7. CASE t.kind = "bytes"
  <2>1. r = WriteBytes(m, v.bytes) /\ EncodedScalar(t, v) = Encoded(v.bytes)
    BY <1>7 DEF WriteScalar, EncodedScalar
  <2>2. Good(Encoded(v.bytes))
    BY <2>1, <1>6, <1>7, WrittenFacts
  <2> QED
    BY <2>1, <2>2
<1>8. CASE t.kind = "time"
  <2>1. r = WriteBytes(m, <<v.instant>>) /\ EncodedScalar(t, v) = Encoded(<<v.instant>>)
    BY <1>8 DEF WriteScalar, EncodedScalar, marshalDateTime
  <2>2. Good(Encoded(<<v.instant>>))
    BY <2>1, <1>6, <1>8, WrittenFacts
  <2> QED
    BY <2>1, <2>2
<1>9. CASE t.kind \in {"string", "uuid"}
  <2>1. r = WriteBytes(m, v) /\ EncodedScalar(t, v) = Encoded(v)
    BY <1>9 DEF WriteScalar, EncodedScalar
  <2>2. Good(Encoded(v))
    BY <2>1, <1>6, <1>9, WrittenFacts
  <2> QED
    BY <2>1, <2>2
<1> QED
  BY <1>0, <1>1, <1>2, <1>4, <1>5, <1>7, <1>8, <1>9 DEF ScalarKinds

\* A time or a UUID is parsed from the bytes that ReadString gives.
LEMMA ParsedIsRead ==
    ASSUME NEW m, NEW t, NEW old, NEW b, NEW end, t.kind \in {"time", "uuid"},
           ReadString(m) = Got(m, end, b, None)
    PROVE  LET p == IF t.kind = "time" THEN unmarshalDateTime(b) ELSE unmarshalUUID(b)
           IN  ReadParsed(m, t, old) = Got(m, end, p.val, p.err)
<1> DEFINE r == ReadString(m)
<1>1. r.err = None /\ r.val = b /\ r.msg = [m EXCEPT !.pos = end]
  BY DEF Got
<1> HIDE DEF r
<1>2. ReadParsed(m, t, old) =
          LET p == IF t.kind = "time" THEN unmarshalDateTime(r.val) ELSE unmarshalUUID(r.val)
          IN  IF r.err = None THEN [msg |-> r.msg, val |-> p.val, err |-> p.err]
                              ELSE [r EXCEPT !.val = old]
  BY DEF ReadParsed, r
<1> QED
  BY <1>1, <1>2 DEF Got

\* The value is read, and can be skipped, between what is before and what is behind it.
ReadInside(t, v, old, id, before, after) ==
    LET k == FromBytes(before \o EncodedScalar(t, v) \o after, Len(before))
        end == Len(before) + Len(EncodedScalar(t, v))
        s == ReadPBSkip(k, PBTag(id, WireTypeOfOne(t)))
    IN  /\ ReadScalar(k, t, old) = Got(k, end, ScalarArrives(t, v), None)
        /\ s.err = None /\ s.msg = [k EXCEPT !.pos = end]

\* The readers of scalars give what arrives of the value that was written, wherever its
\* encoding is in the buffer, and stand at the first byte behind it; skipping the field
\* ends at the same byte.
LEMMA ScalarIsRead ==
    ASSUME NEW t, NEW v, Written(t, v), NEW old, NEW id \in Nat,
           NEW before \in Seq(Byte), NEW after \in Seq(Byte),
           Len(before \o EncodedScalar(t, v) \o after) < Words \div 2
    PROVE  ReadInside(t, v, old, id, before, after)
<1> DEFINE K(x) == FromBytes(before \o x \o after, Len(before))
           E(x) == Len(before) + Len(x)
           S(x) == ReadPBSkip(K(x), PBTag(id, WireTypeOfOne(t)))
           Good(x) == /\ EncodedScalar(t, v) = x
                      /\ ReadScalar(K(x), t, old) = Got(K(x), E(x), ScalarArrives(t, v), None)
                      /\ S(x).err = None /\ S(x).msg = [K(x) EXCEPT !.pos = E(x)]
<1> SUFFICES LET x == EncodedScalar(t, v)
             IN  /\ ReadScalar(K(x), t, old) = Got(K(x), E(x), ScalarArrives(t, v), None)
                 /\ S(x).err = None /\ S(x).msg = [K(x) EXCEPT !.pos = E(x)]
  BY DEF ReadInside
<1>1. t.kind \in ScalarKinds
  BY DEF Written
<1>2. /\ PBTag(id, WireVarint) % 8 = WireVarint /\ PBTag(id, Wire64Bit) % 8 = Wire64Bit
      /\ PBTag(id, Wire32Bit) % 8 = Wire32Bit
      /\ PBTag(id, WireLengthDelimited) % 8 = WireLengthDelimited
  BY DEF PBTag, WireVarint, Wire64Bit, Wire32Bit, WireLengthDelimited
<1>3. ASSUME NEW m
      PROVE  /\ ReadPBSkip(m, PBTag(id, WireVarint)) = ReadVarint(m)
             /\ ReadPBSkip(m, PBTag(id, Wire64Bit)) = ReadFixed(m, Width64)
             /\ ReadPBSkip(m, PBTag(id, Wire32Bit)) = ReadFixed(m, Width32)
             /\ ReadPBSkip(m, PBTag(id, WireLengthDelimited)) = ReadBytesNoCopy(m)
  BY <1>2 DEF ReadPBSkip, WireVarint, Wire64Bit, Wire32Bit, WireLengthDelimited
<1>4. ASSUME NEW m, NEW p, NEW x
      PROVE  LET g == Got(m, p, x, None)
             IN  g.err = None /\ g.val = x /\ g.msg = [m EXCEPT !.pos = p]
  BY DEF Got
<1>5. CASE t.kind = "int"
  <2>1. /\ EncodedScalar(t, v) = Varint(v) /\ WireTypeOfOne(t) = WireVarint
        /\ ScalarArrives(t, v) = v /\ v \in 0 .. Words - 1
        /\ ReadScalar(K(Varint(v)), t, old) = ReadVarint(K(Varint(v)))
    BY <1>5, WrittenFacts DEF EncodedScalar, WireTypeOfOne, ScalarArrives, ReadScalar
  <2>2. ReadVarint(K(Varint(v))) = Got(K(Varint(v)), E(Varint(v)), v, None)
    BY <2>1, VarintRoundTrip
  <2> DEFINE x == Varint(v)
  <2>3. S(x) = ReadVarint(K(x))
    BY <2>1, <1>3
  <2> HIDE DEF K, E, S, x
  <2>4. Good(x)
    BY <2>1, <2>2, <2>3, <1>4 DEF x
  <2> QED
    BY <2>4 DEF K, E, S
<1>6. CASE t.kind = "bool"
  <2> DEFINE x == Varint(1)
  <2>1. /\ EncodedScalar(t, v) = x /\ WireTypeOfOne(t) = WireVarint
        /\ ScalarArrives(t, v) = TRUE /\ 1 \in 0 .. Words - 1
        /\ ReadScalar(K(x), t, old) = ReadBool(K(x))
    BY <1>6, WrittenFacts, ShortLengths
       DEF EncodedScalar, WireTypeOfOne, ScalarArrives, ReadScalar
  <2>2. ReadVarint(K(x)) = Got(K(x), E(x), 1, None)
    BY <2>1, VarintRoundTrip
  <2>3. S(x) = ReadVarint(K(x))
    BY <2>1, <1>3
  <2> HIDE DEF K, E, S, x
  <2>4. ReadBool(K(x)) = Got(K(x), E(x), TRUE, None)
    <3> DEFINE r == ReadVarint(K(x))
               isTrue == r.err = None /\ r.val = 1
    <3>1. r.err = None /\ r.val = 1 /\ r = [msg |-> r.msg, val |-> 1, err |-> None]
          /\ r.msg = [K(x) EXCEPT !.pos = E(x)]
      BY <2>2 DEF Got
    <3>2. ReadBool(K(x)) = [r EXCEPT !.val = isTrue]
      BY DEF ReadBool
    <3>3. isTrue = TRUE
      BY <3>1
    <3> HIDE DEF r, isTrue
    <3>4. ReadBool(K(x)) = [r EXCEPT !.val = TRUE]
      BY <3>2, <3>3
    <3> QED
      BY <3>1, <3>4 DEF Got
  <2>5. Good(x)
    BY <2>1, <2>2, <2>3, <2>4, <1>4
  <2> QED
    BY <2>5 DEF K, E, S
<1>7. ASSUME NEW w \in Nat, v \in Nat, v < Power(2 * Base, w), ScalarArrives(t, v) = v,
             EncodedScalar(t, v) = Fixed(v, w),
             \A m : /\ ReadScalar(m, t, old) = ReadFixed(m, w)
                    /\ ReadPBSkip(m, PBTag(id, WireTypeOfOne(t))) = ReadFixed(m, w)
      PROVE  Good(Fixed(v, w))
  <2> DEFINE x == Fixed(v, w)
  <2>1. ReadFixed(K(x), w) = Got(K(x), E(x), v, None)
    BY <1>7, FixedRoundTrip
  <2>2. S(x) = ReadFixed(K(x), w) /\ ReadScalar(K(x), t, old) = ReadFixed(K(x), w)
    BY <1>7
  <2>3. EncodedScalar(t, v) = x
    BY <1>7
  <2> HIDE DEF K, E, S, x
  <2>4. Good(x)
    BY <2>1, <2>2, <2>3, <1>4, <1>7
  <2> QED
    BY <2>4 DEF K, E, S, x
<1>8. CASE t.kind \in {"int64", "double"}
  <2>1. /\ EncodedScalar(t, v) = Fixed(v, Width64) /\ WireTypeOfOne(t) = Wire64Bit
        /\ ScalarArrives(t, v) = v /\ \A m : ReadScalar(m, t, old) = ReadFixed(m, Width64)
    BY <1>8 DEF EncodedScalar, WireTypeOfOne, ScalarArrives, ReadScalar
  <2>2. \A m : ReadPBSkip(m, PBTag(id, WireTypeOfOne(t))) = ReadFixed(m, Width64)
    BY <2>1, <1>3
  <2>3. v \in Nat /\ v < Power(2 * Base, Width64) /\ Width64 \in Nat
    BY <1>8, WrittenFacts, Constants
  <2> HIDE DEF Good
  <2>4. Good(Fixed(v, Width64))
    BY <2>1, <2>2, <2>3, <1>7
  <2> QED
    BY <2>1, <2>4 DEF Good
<1>9. CASE t.kind = "float"
  <2>1. /\ EncodedScalar(t, v) = Fixed(v, Width32) /\ WireTypeOfOne(t) = Wire32Bit
        /\ ScalarArrives(t, v) = v /\ \A m : ReadScalar(m, t, old) = ReadFixed(m, Width32)
    BY <1>9 DEF EncodedScalar, WireTypeOfOne, ScalarArrives, ReadScalar
  <2>2. \A m : ReadPBSkip(m, PBTag(id, WireTypeOfOne(t))) = ReadFixed(m, Width32)
    BY <2>1, <1>3
  <2>3. v \in Nat /\ v < Power(2 * Base, Width32) /\ Width32 \in Nat
    BY <1>9, WrittenFacts, Constants
  <2> HIDE DEF Good
  <2>4. Good(Fixed(v, Width32))
    BY <2>1, <2>2, <2>3, <1>7
  <2> QED
    BY <2>1, <2>4 DEF Good
<1>10. ASSUME NEW b \in Seq(Byte), Len(b) < Words \div 2, EncodedScalar(t, v) = Encoded(b),
              WireTypeOfOne(t) = WireLengthDelimited,
              \A m, end : /\ ReadBytesNoCopy(m) = Got(m, end, <<end - Len(b), end>>, None)
                          /\ SliceOf(m.buf, <<end - Len(b), end>>) = b
                          /\ ReadString(m) = Got(m, end, b, None)
                          => ReadScalar(m, t, old) = Got(m, end, ScalarArrives(t, v), None)
       PROVE  Good(Encoded(b))
  <2> DEFINE x == Encoded(b)
             n == Len(b)
  <2>1. Len(before \o x \o after) < Words \div 2
    BY <1>10
  <2>2. /\ ReadBytesNoCopy(K(x)) = Got(K(x), E(x), <<E(x) - n, E(x)>>, None)
        /\ ReadString(K(x)) = Got(K(x), E(x), b, None)
    BY <2>1, <1>10, BytesRoundTrip
  <2>3. S(x) = ReadBytesNoCopy(K(x))
    BY <1>3, <1>10
  <2>4. EncodedScalar(t, v) = x
    BY <1>10
  <2> HIDE DEF K, E, S, x
  <2>5. SliceOf(K(x).buf, <<E(x) - n, E(x)>>) = b
    <3>1. ReadString(K(x)).val = b /\ ReadBytesNoCopy(K(x)).val = <<E(x) - n, E(x)>>
      BY <2>2 DEF Got
    <3>2. ReadString(K(x)).val = SliceOf(K(x).buf, <<E(x) - n, E(x)>>)
      BY <2>2 DEF ReadString, Got
    <3> QED
      BY <3>1, <3>2
  <2>6. ReadScalar(K(x), t, old) = Got(K(x), E(x), ScalarArrives(t, v), None)
    BY <2>2, <2>5, <1>10
  <2>7. Good(x)
    BY <2>2, <2>3, <2>4, <2>6, <1>4
  <2> QED
    BY <2>7 DEF K, E, S, x
<1>11. CASE t.kind = "string"
  <2>1. /\ EncodedScalar(t, v) = Encoded(v) /\ WireTypeOfOne(t) = WireLengthDelimited
        /\ ScalarArrives(t, v) = v /\ \A m : ReadScalar(m, t, old) = ReadString(m)
    BY <1>11 DEF EncodedScalar, WireTypeOfOne, ScalarArrives, ReadScalar
  <2>2. v \in Seq(Byte) /\ Len(v) < Words \div 2
    BY <1>11, WrittenFacts
  <2> HIDE DEF Good
  <2>3. Good(Encoded(v))
    BY <2>1, <2>2, <1>10
  <2> QED
    BY <2>1, <2>3 DEF Good
<1>12. CASE t.kind = "uuid"
  <2>1. /\ EncodedScalar(t, v) = Encoded(v) /\ WireTypeOfOne(t) = WireLengthDelimited
        /\ ScalarArrives(t, v) = v /\ \A m : ReadScalar(m, t, old) = ReadParsed(m, t, old)
    BY <1>12 DEF EncodedScalar, WireTypeOfOne, ScalarArrives, ReadScalar
  <2>2. v \in Seq(Byte) /\ Len(v) < Words \div 2 /\ Len(v) = UUIDLen
    BY <1>12, WrittenFacts
  <2>3. unmarshalUUID(v) = [val |-> v, err |-> None]
    BY <2>2 DEF unmarshalUUID
  <2>4. ASSUME NEW m, NEW end, ReadString(m) = Got(m, end, v, None)
        PROVE  ReadScalar(m, t, old) = Got(m, end, ScalarArrives(t, v), None)
    BY <2>1, <2>3, <2>4, <1>12, ParsedIsRead
  <2> HIDE DEF Good
  <2>5. Good(Encoded(v))
    BY <2>1, <2>2, <2>4, <1>10
  <2> QED
    BY <2>1, <2>5 DEF Good
<1>13. CASE t.kind = "time"
  <2> DEFINE b == <<v.instant>>
             a == [instant |-> v.instant, extra |-> FALSE]
  <2>1. /\ EncodedScalar(t, v) = Encoded(b) /\ WireTypeOfOne(t) = WireLengthDelimited
        /\ ScalarArrives(t, v) = a /\ \A m : ReadScalar(m, t, old) = ReadParsed(m, t, old)
    BY <1>13 DEF EncodedScalar, WireTypeOfOne, ScalarArrives, ReadScalar
  <2>2. b \in Seq(Byte) /\ Len(b) < Words \div 2
    BY <1>13, WrittenFacts
  <2>3. unmarshalDateTime(b) = [val |-> a, err |-> None]
    BY DEF unmarshalDateTime
  <2> HIDE DEF a, b
  <2>4. ASSUME NEW m, NEW end, ReadString(m) = Got(m, end, b, None)
        PROVE  ReadScalar(m, t, old) = Got(m, end, ScalarArrives(t, v), None)
    BY <2>1, <2>3, <2>4, <1>13, ParsedIsRead
  <2> HIDE DEF Good
  <2>5. Good(Encoded(b))
    BY <2>1, <2>2, <2>4, <1>10
  <2> QED
    BY <2>1, <2>5 DEF Good
<1>14. CASE t.kind = "bytes"
  <2> DEFINE b == v.bytes
  <2>1. /\ EncodedScalar(t, v) = Encoded(b) /\ WireTypeOfOne(t) = WireLengthDelimited
        /\ ScalarArrives(t, v) = v /\ \A m : ReadScalar(m, t, old) = ReadBytes(m)
    BY <1>14 DEF EncodedScalar, WireTypeOfOne, ScalarArrives, ReadScalar
  <2>2. b \in Seq(Byte) /\ Len(b) < Words \div 2 /\ v = Copied(b)
    BY <1>14, WrittenFacts
  <2> HIDE DEF b
  <2>3. ASSUME NEW m, NEW end, ReadBytesNoCopy(m) = Got(m, end, <<end - Len(b), end>>, None),
               SliceOf(m.buf, <<end - Len(b), end>>) = b
        PROVE  ReadScalar(m, t, old) = Got(m, end, ScalarArrives(t, v), None)
    <3>1. ReadBytes(m) = Got(m, end, Copied(b), None)
      BY <2>3 DEF ReadBytes, Got
    <3> QED
      BY <2>1, <2>2, <3>1
  <2> HIDE DEF Good
  <2>4. Good(Encoded(b))
    BY <2>1, <2>2, <2>3, <1>10
  <2> QED
    BY <2>1, <2>4 DEF Good
<1> QED
  BY <1>1, <1>5, <1>6, <1>8, <1>9, <1>11, <1>12, <1>13, <1>14 DEF ScalarKinds

\* The field that is written behind m is read by its tag and its value, whatever was in
\* its place (old), and it can be skipped; either way the reader stands at what follows.
ComesBack(m, after, t, v, old, id) ==
    LET tag == PBTag(id, WireTypeOfOne(t))
        n == WriteVarint(m, tag)
        r == WriteScalar(n, t, v)
        buf == r.out \o after
        behind == FromBytes(buf, Len(n.out))
        s == ReadPBSkip(behind, tag)
    IN  ~r.panic /\ Len(buf) < Words \div 2
        => /\ ReadVarint(FromBytes(buf, Len(m.out))) = [msg |-> behind, val |-> tag, err |-> None]
           /\ ReadScalar(behind, t, old) = Got(behind, Len(r.out), ScalarArrives(t, v), None)
           /\ s.err = None /\ s.msg = FromBytes(buf, Len(r.out))

\* A field of any scalar type arrives: what the generated writer appends for it, its tag
\* and its value, is read back as the tag and the value, whatever is written behind it, and
\* a reader that does not know the field skips to the same place. A time arrives without
\* what its text does not say. A message is shorter than half of the words (an int says
\* how long it is), and a panic of the writer, which WriteVarintAppends says the only case
\* of, writes no message.
THEOREM FieldRoundTrip ==
    ASSUME NEW m, Writing(m), NEW after \in Seq(Byte), NEW t, NEW v, Written(t, v), NEW old,
           NEW id \in Nat, PBTag(id, WireTypeOfOne(t)) \in 0 .. Words - 1
    PROVE  ComesBack(m, after, t, v, old, id)
<1> DEFINE tag == PBTag(id, WireTypeOfOne(t))
           n == WriteVarint(m, tag)
           r == WriteScalar(n, t, v)
           x == EncodedScalar(t, v)
           w == Varint(tag)
           buf == r.out \o after
           k == FromBytes(buf, Len(m.out))
           behind == FromBytes(buf, Len(n.out))
           s == ReadPBSkip(behind, tag)
<1> SUFFICES ASSUME ~r.panic, Len(buf) < Words \div 2
             PROVE  /\ ReadVarint(k) = [msg |-> behind, val |-> tag, err |-> None]
                    /\ ReadScalar(behind, t, old) =
                           Got(behind, Len(r.out), ScalarArrives(t, v), None)
                    /\ s.err = None /\ s.msg = FromBytes(buf, Len(r.out))
  BY DEF ComesBack
<1>1. m.out \in Seq(Byte) /\ w \in Seq(Byte)
  BY VarintFacts DEF Writing
<1>2. Writing(n) /\ (n.panic \/ n.out = m.out \o w)
  BY WriteVarintAppends
<1>3. ~n.panic /\ r.out = n.out \o x /\ x \in Seq(Byte)
  <2> HIDE DEF n
  <2> QED
    BY <1>2, ScalarIsWritten
<1>4. n.out = m.out \o w
  BY <1>2, <1>3
<1> HIDE DEF n, w, tag
<1>5. n.out \in Seq(Byte) /\ Len(n.out) = Len(m.out) + Len(w) /\ x \o after \in Seq(Byte)
  BY <1>1, <1>3, <1>4, ConcatProperties
<1> HIDE DEF r, x
<1>6. Len(r.out) = Len(n.out) + Len(x) /\ buf = n.out \o x \o after
  BY <1>3, <1>5, ConcatProperties
<1>7. buf = m.out \o w \o (x \o after)
  <2>1. Regroups(n.out, x, after)
    BY <1>3, <1>5, BytesRegroup
  <2> QED
    BY <2>1, <1>4, <1>6 DEF Regroups
<1> HIDE DEF buf
<1>8. ReadVarint(k) = Got(k, Len(n.out), tag, None)
  <2>1. LET q == FromBytes(m.out \o w \o (x \o after), Len(m.out))
        IN  ReadVarint(q) = Got(q, Len(m.out) + Len(w), tag, None)
    BY <1>1, <1>5, VarintRoundTrip DEF w, tag
  <2> QED
    BY <2>1, <1>5, <1>7
<1>9. Got(k, Len(n.out), tag, None) = [msg |-> behind, val |-> tag, err |-> None]
  BY DEF Got, FromBytes
<1>10. /\ ReadScalar(behind, t, old) = Got(behind, Len(r.out), ScalarArrives(t, v), None)
       /\ s.err = None /\ s.msg = [behind EXCEPT !.pos = Len(r.out)]
  <2>1. Len(n.out \o x \o after) < Words \div 2
    BY <1>6
  <2>2. LET q == FromBytes(n.out \o x \o after, Len(n.out))
            end == Len(n.out) + Len(x)
            u == ReadPBSkip(q, tag)
        IN  /\ ReadScalar(q, t, old) = Got(q, end, ScalarArrives(t, v), None)
            /\ u.err = None /\ u.msg = [q EXCEPT !.pos = end]
    <3>1. Len(n.out \o EncodedScalar(t, v) \o after) < Words \div 2
      BY <2>1 DEF x
    <3>2. ReadInside(t, v, old, id, n.out, after)
      BY <3>1, <1>5, ScalarIsRead
    <3> QED
      BY <3>2 DEF ReadInside, x, tag
  <2> HIDE DEF behind
  <2>3. FromBytes(n.out \o x \o after, Len(n.out)) = behind
    BY <1>6 DEF behind
  <2> QED
    BY <2>2, <2>3, <1>6
<1>11. [behind EXCEPT !.pos = Len(r.out)] = FromBytes(buf, Len(r.out))
  BY DEF FromBytes
<1> QED
  BY <1>8, <1>9, <1>10, <1>11

-----------------------------------------------------------------------------
(* Fields that anybody wrote.                                              *)

\* ReadFixed of any bytes whatever: a number of the width, or the end of the buffer.
LEMMA ReadFixedIsSafe ==
    ASSUME NEW m, Reading(m), NEW w \in Nat \ {0}
    PROVE  LET r == ReadFixed(m, w)
           IN  /\ Reading(r.msg) /\ r.msg.buf = m.buf /\ r.msg.pos >= m.pos
               /\ r.err \in {None, EOF}
               /\ r.err = None => /\ r.msg.pos > m.pos
                                  /\ r.val \in Nat /\ r.val < Power(2 * Base, w)
<1> DEFINE r == ReadFixed(m, w)
           L == Len(m.buf)
<1>1. m.buf \in Seq(Byte) /\ L \in Nat /\ m.pos \in 0 .. L /\ m = FromBytes(m.buf, m.pos)
  BY DEF Reading
<1>2. ASSUME NEW p \in 0 .. L, NEW x, NEW e
      PROVE  LET g == Got(m, p, x, e)
             IN  Reading(g.msg) /\ g.msg.buf = m.buf /\ g.msg.pos = p /\ g.val = x /\ g.err = e
  <2> DEFINE k == [m EXCEPT !.pos = p]
  <2>1. k = FromBytes(m.buf, p) /\ Got(m, p, x, e).msg = k
    BY <1>1 DEF Got, FromBytes
  <2>2. k.buf = m.buf /\ k.pos = p
    BY <2>1 DEF FromBytes
  <2>3. Reading(k)
    BY <2>1, <2>2, <1>1 DEF Reading
  <2> QED
    BY <2>1, <2>2, <2>3 DEF Got
<1>3. CASE m.pos + w > L
  <2>1. r = Got(m, m.pos, 0, EOF)
    BY <1>3 DEF ReadFixed, Failed
  <2>2. None # EOF
    BY DEF None, EOF
  <2> HIDE DEF r, L
  <2> QED
    BY <2>1, <2>2, <1>1, <1>2 DEF r
<1>4. CASE ~(m.pos + w > L)
  <2> DEFINE d == [i \in 1 .. w |-> m.buf[m.pos + i]]
  <2>1. r = Got(m, m.pos + w, Number(2 * Base, d), None)
    BY <1>4 DEF ReadFixed
  <2>2. d \in Seq(0 .. (2 * Base) - 1) /\ Len(d) = w
    <3>1. ASSUME NEW i \in 1 .. w PROVE m.buf[m.pos + i] \in 0 .. (2 * Base) - 1
      <4>1. m.pos + i \in 1 .. L
        BY <1>1, <1>4
      <4>2. m.buf[m.pos + i] \in Byte
        BY <4>1, <1>1
      <4> QED
        BY <4>2 DEF Byte
    <3> QED
      BY <3>1
  <2> HIDE DEF d
  <2>3. Number(2 * Base, d) \in Nat /\ Number(2 * Base, d) < Power(2 * Base, w)
    BY <2>2, ByteFacts, NumberBound
  <2>4. m.pos + w \in 0 .. L /\ m.pos + w > m.pos
    BY <1>1, <1>4
  <2> HIDE DEF r, L
  <2> QED
    BY <2>1, <2>3, <2>4, <1>1, <1>2 DEF r
<1> QED
  BY <1>3, <1>4

\* ReadString of any bytes whatever: bytes of the buffer.
LEMMA ReadStringIsSafe ==
    ASSUME NEW m, Reading(m)
    PROVE  LET r == ReadString(m)
               n == ReadBytesNoCopy(m)
           IN  /\ r.msg = n.msg /\ r.err = n.err /\ r.val = SliceOf(m.buf, n.val)
               /\ Reading(r.msg) /\ r.msg.buf = m.buf /\ r.msg.pos >= m.pos
               /\ r.err \in {None, EOF, Overflow, Panic}
               /\ r.err = None => r.msg.pos > m.pos
               /\ r.val \in Seq(Byte) /\ r = [msg |-> r.msg, val |-> r.val, err |-> r.err]
<1> DEFINE r == ReadString(m)
           n == ReadBytesNoCopy(m)
<1>1. m.buf \in Seq(Byte) /\ m.pos \in Nat
  BY DEF Reading
<1>2. /\ Reading(n.msg) /\ n.msg.buf = m.buf /\ n.msg.pos >= m.pos
      /\ n.err \in {None, EOF, Overflow, Panic}
  BY ReadBytesIsSafe
<1>3. PICK from \in 0 .. Len(m.buf) : \E to \in from .. Len(m.buf) :
          n.val = <<from, to>> /\ (n.err = None => m.pos < from /\ to = n.msg.pos)
  BY ReadBytesIsSafe
<1>4. PICK to \in from .. Len(m.buf) :
          n.val = <<from, to>> /\ (n.err = None => m.pos < from /\ to = n.msg.pos)
  BY <1>3
<1>5. n = [msg |-> n.msg, val |-> n.val, err |-> n.err]
  BY DEF ReadBytesNoCopy, SliceBehind, Got, Failed, ReadVarint, VarintTo
<1>6. r = [msg |-> n.msg, val |-> SliceOf(m.buf, n.val), err |-> n.err]
  <2>1. r = [n EXCEPT !.val = SliceOf(m.buf, @)]
    BY DEF ReadString
  <2> HIDE DEF n, r
  <2> QED
    BY <2>1, <1>5
<1>7. SliceOf(m.buf, n.val) \in Seq(Byte)
  <2>1. SliceOf(m.buf, n.val) = SubSeq(m.buf, from + 1, to)
    BY <1>4 DEF SliceOf
  <2>2. from + 1 \in Int /\ to \in Int /\ \A i \in from + 1 .. to : m.buf[i] \in Byte
    BY <1>1
  <2> QED
    BY <2>1, <2>2, SubSeqProperties
<1> HIDE DEF r, n
<1>8. n.err = None => n.msg.pos > m.pos
  BY <1>1, <1>4
<1> QED
  BY <1>2, <1>6, <1>7, <1>8 DEF r, n

\* A field of any scalar type, read from any bytes whatever: the reader stays inside the
\* buffer and never goes back, and if it succeeds it has moved forward and its value is one
\* of the type. A malformed text is an error of times and UUIDs only, and only where a
\* length is read can there be a panic.
THEOREM ReadScalarIsSafe ==
    ASSUME NEW m, Reading(m), NEW t, t.kind \in ScalarKinds, NEW old
    PROVE  LET r == ReadScalar(m, t, old)
           IN  /\ Reading(r.msg) /\ r.msg.buf = m.buf /\ r.msg.pos >= m.pos
               /\ r.err \in {None, EOF, Overflow, Panic, Malformed}
               /\ r.err = None => r.msg.pos > m.pos /\ ScalarValue(t, r.val)
               /\ r.err = Malformed => t.kind \in {"time", "uuid"}
               /\ r.err = Panic => WireTypeOfOne(t) = WireLengthDelimited
<1> DEFINE Stays(r) == Reading(r.msg) /\ r.msg.buf = m.buf /\ r.msg.pos >= m.pos
           Safe(r) == /\ Stays(r)
                      /\ r.err \in {None, EOF, Overflow, Panic, Malformed}
                      /\ r.err = None => r.msg.pos > m.pos /\ ScalarValue(t, r.val)
                      /\ r.err = Malformed => t.kind \in {"time", "uuid"}
                      /\ r.err = Panic => WireTypeOfOne(t) = WireLengthDelimited
<1>1. /\ Malformed \notin {None, EOF, Overflow, Panic} /\ Panic \notin {None, EOF, Overflow}
      /\ None # EOF /\ None # Overflow
  BY DEF None, EOF, Overflow, Panic, Malformed
<1>2. CASE t.kind = "int"
  <2> DEFINE r == ReadVarint(m)
  <2>1. ReadScalar(m, t, old) = r /\ \A v \in 0 .. Words - 1 : ScalarValue(t, v)
    BY <1>2 DEF ReadScalar, ScalarValue
  <2>2. Stays(r) /\ r.val \in 0 .. Words - 1 /\ r.err \in {None, EOF, Overflow}
        /\ (r.err = None => r.msg.pos > m.pos)
    BY ReadVarintIsSafe
  <2> HIDE DEF r, Stays
  <2>3. Safe(r)
    BY <2>1, <2>2, <1>1
  <2> QED
    BY <2>1, <2>3 DEF Stays
<1>3. CASE t.kind = "bool"
  <2> DEFINE r == ReadVarint(m)
             isTrue == r.err = None /\ r.val = 1
             b == [r EXCEPT !.val = isTrue]
  <2>1. ReadScalar(m, t, old) = b /\ ScalarValue(t, TRUE) /\ ScalarValue(t, FALSE)
    BY <1>3 DEF ReadScalar, ReadBool, ScalarValue
  <2>2. Stays(r) /\ r.err \in {None, EOF, Overflow} /\ (r.err = None => r.msg.pos > m.pos)
    BY ReadVarintIsSafe
  <2>3. r = [msg |-> r.msg, val |-> r.val, err |-> r.err]
    BY DEF ReadVarint, VarintTo, Got, Failed
  <2>4. isTrue \in BOOLEAN
    OBVIOUS
  <2> HIDE DEF r, isTrue
  <2>5. b.msg = r.msg /\ b.err = r.err /\ b.val = isTrue
    BY <2>3
  <2> HIDE DEF b
  <2>6. ScalarValue(t, b.val)
    <3>1. CASE isTrue = TRUE
      BY <3>1, <2>1, <2>5
    <3>2. CASE isTrue = FALSE
      BY <3>2, <2>1, <2>5
    <3> QED
      BY <3>1, <3>2, <2>4
  <2>7. Safe(b)
    BY <2>2, <2>5, <2>6, <1>1
  <2> QED
    BY <2>1, <2>7
<1>4. ASSUME NEW w \in Nat \ {0}, ReadScalar(m, t, old) = ReadFixed(m, w),
             \A v \in Nat : v < Power(2 * Base, w) => ScalarValue(t, v)
      PROVE  Safe(ReadScalar(m, t, old))
  <2> DEFINE r == ReadFixed(m, w)
  <2>1. /\ Stays(r) /\ r.err \in {None, EOF}
        /\ r.err = None => r.msg.pos > m.pos /\ r.val \in Nat /\ r.val < Power(2 * Base, w)
    BY ReadFixedIsSafe
  <2> HIDE DEF r, Stays
  <2>2. Safe(r)
    BY <2>1, <1>1, <1>4
  <2> QED
    BY <2>2, <1>4 DEF r
<1>5. CASE t.kind \in {"int64", "double"}
  <2>1. /\ ReadScalar(m, t, old) = ReadFixed(m, Width64)
        /\ \A v \in Nat : v < Power(2 * Base, Width64) => ScalarValue(t, v)
    BY <1>5 DEF ReadScalar, ScalarValue
  <2>2. Width64 \in Nat \ {0}
    BY WireAssumption
  <2> HIDE DEF Safe
  <2>3. Safe(ReadScalar(m, t, old))
    BY <2>1, <2>2, <1>4
  <2> QED
    BY <2>3 DEF Safe
<1>6. CASE t.kind = "float"
  <2>1. /\ ReadScalar(m, t, old) = ReadFixed(m, Width32)
        /\ \A v \in Nat : v < Power(2 * Base, Width32) => ScalarValue(t, v)
    BY <1>6 DEF ReadScalar, ScalarValue
  <2>2. Width32 \in Nat \ {0}
    BY WireAssumption
  <2> HIDE DEF Safe
  <2>3. Safe(ReadScalar(m, t, old))
    BY <2>1, <2>2, <1>4
  <2> QED
    BY <2>3 DEF Safe
<1> DEFINE s == ReadString(m)
<1>7. /\ Stays(s) /\ s.err \in {None, EOF, Overflow, Panic} /\ s.val \in Seq(Byte)
      /\ s.err = None => s.msg.pos > m.pos
  BY ReadStringIsSafe
<1>8. CASE t.kind = "string"
  <2>1. ReadScalar(m, t, old) = s /\ WireTypeOfOne(t) = WireLengthDelimited
        /\ \A v \in Seq(Byte) : ScalarValue(t, v)
    BY <1>8 DEF ReadScalar, ScalarValue, WireTypeOfOne
  <2> HIDE DEF s, Stays
  <2>2. Safe(s)
    BY <2>1, <1>1, <1>7
  <2> QED
    BY <2>1, <2>2 DEF Stays
<1>9. CASE t.kind = "bytes"
  <2> DEFINE n == ReadBytesNoCopy(m)
             val == IF n.err = None THEN Copied(SliceOf(m.buf, n.val)) ELSE NilBytes
             b == [n EXCEPT !.val = val]
  <2>1. ReadScalar(m, t, old) = b /\ WireTypeOfOne(t) = WireLengthDelimited
    BY <1>9 DEF ReadScalar, ReadBytes, WireTypeOfOne
  <2>2. \A v \in Seq(Byte) : ScalarValue(t, Copied(v))
    BY <1>9 DEF ScalarValue
  <2>3. s.msg = n.msg /\ s.err = n.err /\ s.val = SliceOf(m.buf, n.val)
    BY ReadStringIsSafe
  <2>4. n = [msg |-> n.msg, val |-> n.val, err |-> n.err]
    BY DEF ReadBytesNoCopy, SliceBehind, Got, Failed, ReadVarint, VarintTo
  <2>5. s.err = None => val = Copied(s.val)
    BY <2>3
  <2> HIDE DEF n, val
  <2>6. b.msg = n.msg /\ b.err = n.err /\ b.val = val
    BY <2>4
  <2> HIDE DEF b, s, Stays
  <2>7. Safe(b)
    <3>1. Stays(b)
      BY <1>7, <2>3, <2>6 DEF Stays
    <3>2. b.err = None => b.msg.pos > m.pos /\ ScalarValue(t, b.val)
      BY <1>7, <2>2, <2>3, <2>5, <2>6
    <3> QED
      BY <3>1, <3>2, <1>1, <1>7, <2>1, <2>3, <2>6
  <2> QED
    BY <2>1, <2>7 DEF Stays
<1>10. CASE t.kind \in {"time", "uuid"}
  <2> DEFINE p == IF t.kind = "time" THEN unmarshalDateTime(s.val) ELSE unmarshalUUID(s.val)
             r == ReadScalar(m, t, old)
  <2>1. WireTypeOfOne(t) = WireLengthDelimited
    BY <1>10 DEF WireTypeOfOne
  <2>2. r = IF s.err = None THEN [msg |-> s.msg, val |-> p.val, err |-> p.err]
                            ELSE [s EXCEPT !.val = old]
    BY <1>10 DEF ReadScalar, ReadParsed
  <2>3. s = [msg |-> s.msg, val |-> s.val, err |-> s.err]
    BY ReadStringIsSafe
  <2>4. p.err \in {None, Malformed} /\ (p.err = None => ScalarValue(t, p.val))
    <3> HIDE DEF s
    <3>1. CASE t.kind = "time"
      <4>1. CASE Len(s.val) = 1
        <5>1. s.val[1] \in Byte
          BY <1>7, <4>1
        <5>2. p = [val |-> [instant |-> s.val[1], extra |-> FALSE], err |-> None]
          BY <3>1, <4>1 DEF unmarshalDateTime
        <5> QED
          BY <5>1, <5>2, <3>1 DEF ScalarValue
      <4>2. CASE Len(s.val) # 1
        BY <3>1, <4>2, <1>1 DEF unmarshalDateTime
      <4> QED
        BY <4>1, <4>2
    <3>2. CASE t.kind = "uuid"
      BY <3>2, <1>1, <1>7 DEF unmarshalUUID, ScalarValue
    <3> QED
      BY <3>1, <3>2, <1>10
  <2> HIDE DEF s, p, r
  <2>5. CASE s.err = None
    <3>1. r.msg = s.msg /\ r.val = p.val /\ r.err = p.err
      BY <2>2, <2>5
    <3>2. Stays(r)
      BY <3>1, <1>7
    <3> HIDE DEF Stays
    <3>3. Safe(r)
      BY <3>1, <3>2, <2>4, <2>5, <2>1, <1>1, <1>7, <1>10
    <3> QED
      BY <3>3 DEF r, Stays
  <2>6. CASE s.err # None
    <3>1. r.msg = s.msg /\ r.err = s.err
      BY <2>2, <2>3, <2>6
    <3>2. Stays(r)
      BY <3>1, <1>7
    <3> HIDE DEF Stays
    <3>3. Safe(r)
      BY <3>1, <3>2, <2>6, <2>1, <1>1, <1>7, <1>10
    <3> QED
      BY <3>3 DEF r, Stays
  <2> QED
    BY <2>5, <2>6
<1> QED
  BY <1>2, <1>3, <1>5, <1>6, <1>8, <1>9, <1>10 DEF ScalarKinds

-----------------------------------------------------------------------------
(* Messages of scalars.                                                    *)

\* A table of scalar fields, each under the tag of its type, with IDs of their own.
ScalarTable(fields) ==
    /\ Len(fields) \in Nat
    /\ \A i \in 1 .. Len(fields) :
          /\ fields[i].id \in Nat \ {0} /\ fields[i].type.kind \in ScalarKinds
          /\ fields[i].expects = WireTypeOfOne(fields[i].type)
          /\ PBTag(fields[i].id, fields[i].expects) \in 0 .. Words - 1
    /\ \A i, j \in 1 .. Len(fields) : fields[i].id = fields[j].id => i = j

\* How a message is written, field by field.
WrittenUpTo(g, m, fields, v) ==
    /\ g[0] = m
    /\ \A k \in 1 .. Len(fields) :
          g[k] = WriteScalarField(g[k - 1], fields[k].id, fields[k].type, v[k])

\* EncodeFields writes so.
LEMMA EncodeFacts ==
    ASSUME NEW m, NEW fields, Len(fields) \in Nat, NEW v
    PROVE  \E g : WrittenUpTo(g, m, fields, v) /\ EncodeScalars(m, fields, v) = g[Len(fields)]
<1> DEFINE F(x, k) == WriteScalarField(x, fields[k].id, fields[k].type, v[k])
           N == Len(fields)
           Goes(g, n) == g[0] = m /\ \A k \in 1 .. n : g[k] = F(g[k - 1], k)
           T == {n \in Nat : \E g : Goes(g, n)}
           upTo == CHOOSE g : g = [k \in 0 .. N |-> IF k = 0 THEN m ELSE F(g[k - 1], k)]
<1>1. EncodeScalars(m, fields, v) = upTo[N]
  BY DEF EncodeScalars, EncodeFields
<1> HIDE DEF F
<1>2. 0 \in T
  <2>1. Goes([k \in 0 .. 0 |-> m], 0)
    OBVIOUS
  <2> QED
    BY <2>1
<1>3. ASSUME NEW n \in Nat, n \in T PROVE n + 1 \in T
  <2>1. PICK g : Goes(g, n)
    BY <1>3
  <2> DEFINE h == [k \in 0 .. n + 1 |-> IF k = n + 1 THEN F(g[n], n + 1) ELSE g[k]]
  <2>2. h[n + 1] = F(g[n], n + 1) /\ \A k \in 0 .. n : h[k] = g[k]
    OBVIOUS
  <2> HIDE DEF h
  <2>3. ASSUME NEW k \in 1 .. n + 1 PROVE h[k] = F(h[k - 1], k)
    <3>1. CASE k = n + 1
      <4>1. k - 1 = n /\ h[k - 1] = g[n]
        BY <3>1, <2>2
      <4> QED
        BY <3>1, <4>1, <2>2
    <3>2. CASE k # n + 1
      <4>1. k \in 1 .. n /\ k - 1 \in 0 .. n /\ k \in 0 .. n
        BY <3>2
      <4>2. g[k] = F(g[k - 1], k)
        BY <4>1, <2>1
      <4> QED
        BY <4>1, <4>2, <2>2
    <3> QED
      BY <3>1, <3>2
  <2>4. h[0] = m
    BY <2>1, <2>2
  <2>5. Goes(h, n + 1)
    BY <2>3, <2>4
  <2> QED
    BY <2>5
<1>4. PICK g : Goes(g, N)
  <2> HIDE DEF T
  <2>1. Nat \subseteq T
    BY <1>2, <1>3, Induction
  <2>2. N \in T
    BY <2>1
  <2> QED
    BY <2>2 DEF T
<1> DEFINE h == [k \in 0 .. N |-> g[k]]
<1>5. h = [k \in 0 .. N |-> IF k = 0 THEN m ELSE F(h[k - 1], k)]
  <2>1. ASSUME NEW k \in 0 .. N PROVE h[k] = IF k = 0 THEN m ELSE F(h[k - 1], k)
    <3>1. CASE k = 0
      BY <3>1, <1>4
    <3>2. CASE k # 0
      <4>1. k \in 1 .. N /\ k - 1 \in 0 .. N
        BY <3>2
      <4>2. g[k] = F(g[k - 1], k) /\ h[k] = g[k] /\ h[k - 1] = g[k - 1]
        BY <4>1, <1>4
      <4> QED
        BY <3>2, <4>2
    <3> QED
      BY <3>1, <3>2
  <2> HIDE DEF F
  <2> QED
    BY <2>1
<1> HIDE DEF h
<1>6. upTo = [k \in 0 .. N |-> IF k = 0 THEN m ELSE F(upTo[k - 1], k)]
  BY <1>5
<1> HIDE DEF upTo
<1>7. upTo[0] = m /\ \A k \in 1 .. N : upTo[k] = F(upTo[k - 1], k)
  <2>1. upTo[0] = m
    BY <1>6
  <2>2. ASSUME NEW k \in 1 .. N PROVE upTo[k] = F(upTo[k - 1], k)
    <3>1. k \in 0 .. N /\ k # 0
      OBVIOUS
    <3> QED
      BY <3>1, <1>6
  <2> QED
    BY <2>1, <2>2
<1> QED
  BY <1>1, <1>7 DEF F, WrittenUpTo

\* The turns of the loop of RPCDecode.
Turned(fields, r) ==
    IF r.err # None THEN r ELSE DecodeField(ReadScalar, fields, ReadVarint(r.msg), r.val)

Turns(turn, fields, m) ==
    /\ turn[0] = Got(m, m.pos, ZeroOf(fields), None)
    /\ \A k \in 1 .. Len(m.buf) + 1 : turn[k] = Turned(fields, turn[k - 1])
    /\ LET last == turn[Len(m.buf) + 1]
       IN  DecodeScalars(fields, m) =
               IF fields = <<>> THEN [val |-> <<>>, err |-> None]
               ELSE [val |-> last.val, err |-> IF last.err = EOF THEN None ELSE last.err]

LEMMA DecodeFacts ==
    ASSUME NEW fields, NEW m, Len(m.buf) \in Nat
    PROVE  \E turn : Turns(turn, fields, m)
<1> DEFINE F(x) == Turned(fields, x)
           a == Got(m, m.pos, ZeroOf(fields), None)
           N == Len(m.buf) + 1
           Goes(g, n) == g[0] = a /\ \A k \in 1 .. n : g[k] = F(g[k - 1])
           T == {n \in Nat : \E g : Goes(g, n)}
           turn == CHOOSE g : g = [k \in 0 .. N |-> IF k = 0 THEN a ELSE F(g[k - 1])]
<1>1. LET last == turn[N]
      IN  DecodeScalars(fields, m) =
              IF fields = <<>> THEN [val |-> <<>>, err |-> None]
              ELSE [val |-> last.val, err |-> IF last.err = EOF THEN None ELSE last.err]
  BY DEF DecodeScalars, Turned
<1> HIDE DEF F, a
<1>2. 0 \in T
  <2>1. Goes([k \in 0 .. 0 |-> a], 0)
    OBVIOUS
  <2> QED
    BY <2>1
<1>3. ASSUME NEW n \in Nat, n \in T PROVE n + 1 \in T
  <2>1. PICK g : Goes(g, n)
    BY <1>3
  <2> DEFINE h == [k \in 0 .. n + 1 |-> IF k = n + 1 THEN F(g[n]) ELSE g[k]]
  <2>2. h[n + 1] = F(g[n]) /\ \A k \in 0 .. n : h[k] = g[k]
    OBVIOUS
  <2> HIDE DEF h
  <2>3. ASSUME NEW k \in 1 .. n + 1 PROVE h[k] = F(h[k - 1])
    <3>1. CASE k = n + 1
      <4>1. k - 1 = n /\ h[k - 1] = g[n]
        BY <3>1, <2>2
      <4> QED
        BY <3>1, <4>1, <2>2
    <3>2. CASE k # n + 1
      <4>1. k \in 1 .. n /\ k - 1 \in 0 .. n /\ k \in 0 .. n
        BY <3>2
      <4>2. g[k] = F(g[k - 1])
        BY <4>1, <2>1
      <4> QED
        BY <4>1, <4>2, <2>2
    <3> QED
      BY <3>1, <3>2
  <2>4. h[0] = a
    BY <2>1, <2>2
  <2>5. Goes(h, n + 1)
    BY <2>3, <2>4
  <2> QED
    BY <2>5
<1>4. N \in Nat
  OBVIOUS
<1>5. PICK g : Goes(g, N)
  <2> HIDE DEF T
  <2>1. Nat \subseteq T
    BY <1>2, <1>3, Induction
  <2>2. N \in T
    BY <2>1, <1>4
  <2> QED
    BY <2>2 DEF T
<1> DEFINE h == [k \in 0 .. N |-> g[k]]
<1> HIDE DEF N
<1>6. h = [k \in 0 .. N |-> IF k = 0 THEN a ELSE F(h[k - 1])]
  <2>1. ASSUME NEW k \in 0 .. N PROVE h[k] = IF k = 0 THEN a ELSE F(h[k - 1])
    <3>1. CASE k = 0
      BY <3>1, <1>5
    <3>2. CASE k # 0
      <4>1. k \in 1 .. N /\ k - 1 \in 0 .. N
        BY <3>2, <1>4
      <4>2. g[k] = F(g[k - 1]) /\ h[k] = g[k] /\ h[k - 1] = g[k - 1]
        BY <4>1, <1>5
      <4> QED
        BY <3>2, <4>2
    <3> QED
      BY <3>1, <3>2
  <2> QED
    BY <2>1
<1> HIDE DEF h
<1>7. turn = [k \in 0 .. N |-> IF k = 0 THEN a ELSE F(turn[k - 1])]
  BY <1>6
<1> HIDE DEF turn
<1>8. turn[0] = a /\ \A k \in 1 .. N : turn[k] = F(turn[k - 1])
  <2>1. turn[0] = a
    BY <1>4, <1>7
  <2>2. ASSUME NEW k \in 1 .. N PROVE turn[k] = F(turn[k - 1])
    <3>1. k \in 0 .. N /\ k # 0
      BY <1>4
    <3> QED
      BY <3>1, <1>7
  <2> QED
    BY <2>1, <2>2
<1> QED
  BY <1>1, <1>8 DEF F, a, N, Turns

\* Tags are equal only if the ids and the wire types are, and no tag of a field is zero.
LEMMA TagsDiffer ==
    /\ \A t : WireTypeOfOne(t) \in 0 .. 7
    /\ \A a, b \in Nat : \A x, y \in 0 .. 7 : PBTag(a, x) = PBTag(b, y) => a = b /\ x = y
    /\ \A a \in Nat \ {0} : \A x \in 0 .. 7 : PBTag(a, x) # 0
<1>1. \A t : WireTypeOfOne(t) \in 0 .. 7
  BY DEF WireTypeOfOne, WireVarint, Wire64Bit, Wire32Bit, WireLengthDelimited
<1> QED
  BY <1>1 DEF PBTag

\* y has been written behind x: what x holds is the front of what y holds.
WrittenBehind(x, y) ==
    ~y.panic => ~x.panic /\ \E c \in Seq(Byte) : y.out = x.out \o c

LEMMA WrittenBehindIsTransitive ==
    ASSUME NEW x, Writing(x), NEW y, NEW z, WrittenBehind(x, y), WrittenBehind(y, z)
    PROVE  WrittenBehind(x, z)
<1> SUFFICES ASSUME ~z.panic PROVE ~x.panic /\ \E c \in Seq(Byte) : z.out = x.out \o c
  BY DEF WrittenBehind
<1>1. PICK c \in Seq(Byte) : z.out = y.out \o c
  BY DEF WrittenBehind
<1>2. PICK b \in Seq(Byte) : y.out = x.out \o b /\ ~x.panic
  BY DEF WrittenBehind
<1>3. Regroups(x.out, b, c)
  BY BytesRegroup DEF Writing
<1> QED
  BY <1>1, <1>2, <1>3 DEF Regroups

\* A field is written behind what is there, or left out.
LEMMA FieldIsWritten ==
    ASSUME NEW m, Writing(m), NEW t, t.kind \in ScalarKinds, NEW v,
           ScalarValue(t, v), LengthOK(t, v),
           NEW id \in Nat, PBTag(id, WireTypeOfOne(t)) \in 0 .. Words - 1
    PROVE  LET r == WriteScalarField(m, id, t, v)
           IN  /\ Writing(r) /\ WrittenBehind(m, r)
               /\ Omitted(t, v) => r = m
               /\ ~Omitted(t, v) /\ ~r.panic => Len(r.out) > Len(m.out)
<1> DEFINE tag == PBTag(id, WireTypeOfOne(t))
           n == WriteVarint(m, tag)
           r == WriteScalar(n, t, v)
           w == Varint(tag)
           x == EncodedScalar(t, v)
<1>1. CASE Omitted(t, v)
  <2>1. WriteScalarField(m, id, t, v) = m
    BY <1>1 DEF WriteScalarField
  <2>2. m.out = m.out \o <<>> /\ <<>> \in Seq(Byte)
    BY DEF Writing
  <2> QED
    BY <2>1, <2>2, <1>1 DEF WrittenBehind
<1>2. CASE ~Omitted(t, v)
  <2>1. WriteScalarField(m, id, t, v) = r
    BY <1>2 DEF WriteScalarField
  <2>2. Written(t, v)
    BY <1>2 DEF Written
  <2>3. w \in Seq(Byte) /\ Len(w) >= 1 /\ m.out \in Seq(Byte)
    BY VarintFacts, GroupsFacts DEF Writing
  <2>4. Writing(n) /\ (n.panic \/ (n.out = m.out \o w /\ n.panic = m.panic))
    BY WriteVarintAppends
  <2>5. /\ Writing(r) /\ x \in Seq(Byte)
        /\ ~r.panic => ~n.panic /\ r.out = n.out \o x
    BY <2>2, <2>4, ScalarIsWritten
  <2> HIDE DEF w, x, n, r
  <2>6. ASSUME ~r.panic
        PROVE  /\ ~m.panic /\ Len(r.out) > Len(m.out)
               /\ \E c \in Seq(Byte) : r.out = m.out \o c
    <3>1. Regroups(m.out, w, x)
      BY <2>3, <2>5, BytesRegroup
    <3>2. Regroups(m.out, w \o x, <<>>) /\ Regroups(w, x, <<>>)
      <4>1. w \o x \in Seq(Byte) /\ <<>> \in Seq(Byte)
        BY <3>1 DEF Regroups
      <4> QED
        BY <4>1, <2>3, <2>5, BytesRegroup
    <3>3. r.out = m.out \o (w \o x) /\ w \o x \in Seq(Byte) /\ ~m.panic
      BY <2>4, <2>5, <2>6, <3>1 DEF Regroups
    <3>4. /\ Len(m.out \o (w \o x)) = Len(m.out) + Len(w \o x)
          /\ Len(w \o x) = Len(w) + Len(x)
      BY <3>2 DEF Regroups
    <3>5. Len(m.out) \in Nat /\ Len(w) \in Nat /\ Len(x) \in Nat
      BY <2>3, <2>5
    <3>6. Len(r.out) > Len(m.out)
      <4> DEFINE a == Len(m.out)
                 b == Len(w)
                 c == Len(x)
      <4>1. Len(r.out) = a + (b + c)
        BY <3>3, <3>4
      <4>2. a \in Nat /\ b \in Nat /\ c \in Nat /\ b >= 1
        BY <3>5, <2>3
      <4> HIDE DEF a, b, c
      <4>3. a + (b + c) > a
        BY <4>2
      <4> QED
        BY <4>1, <4>3 DEF a
    <3> QED
      BY <3>3, <3>6
  <2> QED
    BY <2>1, <2>5, <2>6, <1>2 DEF WrittenBehind
<1> QED
  BY <1>1, <1>2
\* What the readers return is a result.
IsResult(r) == r = [msg |-> r.msg, val |-> r.val, err |-> r.err]

LEMMA ReadersGiveResults ==
    ASSUME NEW m
    PROVE  /\ IsResult(ReadVarint(m))
           /\ \A tag : IsResult(ReadPBSkip(m, tag))
           /\ \A t, old : t.kind \in ScalarKinds => IsResult(ReadScalar(m, t, old))
<1>1. \A p, x, e, k : IsResult(Got(k, p, x, e))
  BY DEF Got, IsResult
<1>2. \A r, x : IsResult(r) => IsResult([r EXCEPT !.val = x])
  <2> SUFFICES ASSUME NEW r, IsResult(r), NEW x PROVE IsResult([r EXCEPT !.val = x])
    OBVIOUS
  <2>1. r = [msg |-> r.msg, val |-> r.val, err |-> r.err]
    BY DEF IsResult
  <2>2. [r EXCEPT !.val = x] = [msg |-> r.msg, val |-> x, err |-> r.err]
    BY <2>1
  <2> QED
    BY <2>2 DEF IsResult
<1>3. IsResult(ReadVarint(m))
  BY <1>1 DEF ReadVarint, VarintTo, Failed
<1>4. \A w : IsResult(ReadFixed(m, w))
  BY <1>1 DEF ReadFixed, Failed
<1>5. IsResult(ReadBytesNoCopy(m))
  <2> DEFINE r == ReadVarint(m)
  <2>1. IsResult([r EXCEPT !.val = <<0, 0>>])
    BY <1>2, <1>3
  <2> HIDE DEF r
  <2>2. IsResult(SliceBehind(r))
    BY <2>1, <1>1 DEF SliceBehind, Failed
  <2> QED
    BY <2>2 DEF r, ReadBytesNoCopy
<1>6. \A tag : IsResult(ReadPBSkip(m, tag))
  BY <1>1, <1>3, <1>4, <1>5 DEF ReadPBSkip
<1>7. IsResult(ReadString(m))
  BY <1>2, <1>5 DEF ReadString
<1>8. IsResult(ReadBytes(m))
  BY <1>2, <1>5 DEF ReadBytes
<1>9. IsResult(ReadBool(m))
  BY <1>2, <1>3 DEF ReadBool
<1>10. \A t, old : IsResult(ReadParsed(m, t, old))
  <2> SUFFICES ASSUME NEW t, NEW old PROVE IsResult(ReadParsed(m, t, old))
    OBVIOUS
  <2> DEFINE r == ReadString(m)
             p == IF t.kind = "time" THEN unmarshalDateTime(r.val) ELSE unmarshalUUID(r.val)
  <2>1. ReadParsed(m, t, old) = IF r.err = None THEN [msg |-> r.msg, val |-> p.val, err |-> p.err]
                                               ELSE [r EXCEPT !.val = old]
    BY DEF ReadParsed
  <2>2. IsResult([r EXCEPT !.val = old])
    BY <1>2, <1>7
  <2> HIDE DEF r, p
  <2>3. IsResult([msg |-> r.msg, val |-> p.val, err |-> p.err])
    BY DEF IsResult
  <2> QED
    BY <2>1, <2>2, <2>3
<1>11. \A t, old : t.kind \in ScalarKinds => IsResult(ReadScalar(m, t, old))
  BY <1>3, <1>4, <1>7, <1>8, <1>9, <1>10 DEF ReadScalar, ScalarKinds
<1> QED
  BY <1>3, <1>6, <1>11

\* One turn of the loop reads the field that was written, into the place of its id if the
\* table has one, and else leaves everything decoded so far (d) as it is.
TurnReads(m, after, t, v, id, fields, d) ==
    LET r == WriteScalarField(m, id, t, v)
        buf == r.out \o after
        u == DecodeField(ReadScalar, fields, ReadVarint(FromBytes(buf, Len(m.out))), d)
    IN  ~r.panic /\ Len(buf) < Words \div 2
        => /\ \A j \in 1 .. Len(fields) :
                 fields[j].id = id
                 => u = [msg |-> FromBytes(buf, Len(r.out)), err |-> None,
                         val |-> [d EXCEPT ![j] = ScalarArrives(t, v)]]
           /\ (\A j \in 1 .. Len(fields) : fields[j].id # id)
              => u = [msg |-> FromBytes(buf, Len(r.out)), err |-> None, val |-> d]

LEMMA FieldIsDecoded ==
    ASSUME NEW m, Writing(m), NEW after \in Seq(Byte), NEW t, NEW v, Written(t, v),
           NEW id \in Nat, id # 0, PBTag(id, WireTypeOfOne(t)) \in 0 .. Words - 1,
           NEW fields, ScalarTable(fields), NEW d,
           \A j \in 1 .. Len(fields) : fields[j].id = id => fields[j].type = t
    PROVE  TurnReads(m, after, t, v, id, fields, d)
<1> SUFFICES ASSUME ~WriteScalarField(m, id, t, v).panic,
                    Len(WriteScalarField(m, id, t, v).out \o after) < Words \div 2
             PROVE  LET r == WriteScalarField(m, id, t, v)
                        buf == r.out \o after
                        u == DecodeField(ReadScalar, fields, ReadVarint(FromBytes(buf, Len(m.out))), d)
                    IN  /\ \A j \in 1 .. Len(fields) :
                              fields[j].id = id
                              => u = [msg |-> FromBytes(buf, Len(r.out)), err |-> None,
                                      val |-> [d EXCEPT ![j] = ScalarArrives(t, v)]]
                        /\ (\A j \in 1 .. Len(fields) : fields[j].id # id)
                           => u = [msg |-> FromBytes(buf, Len(r.out)), err |-> None, val |-> d]
  BY DEF TurnReads
<1> DEFINE tag == PBTag(id, WireTypeOfOne(t))
           n == WriteVarint(m, tag)
           r == WriteScalar(n, t, v)
           buf == r.out \o after
           k == FromBytes(buf, Len(m.out))
           behind == FromBytes(buf, Len(n.out))
           q == ReadVarint(k)
           s == ReadPBSkip(behind, tag)
           u == DecodeField(ReadScalar, fields, q, d)
           match == {j \in 1 .. Len(fields) : PBTag(fields[j].id, fields[j].expects) = tag}
<1>1. WriteScalarField(m, id, t, v) = r
  BY DEF WriteScalarField, Written
<1>2. /\ q = [msg |-> behind, val |-> tag, err |-> None]
      /\ \A old : ReadScalar(behind, t, old) = Got(behind, Len(r.out), ScalarArrives(t, v), None)
      /\ s.err = None /\ s.msg = FromBytes(buf, Len(r.out))
  <2>1. ASSUME NEW old PROVE ComesBack(m, after, t, v, old, id)
    BY FieldRoundTrip
  <2>2. ~r.panic /\ Len(buf) < Words \div 2
    BY <1>1
  <2> QED
    BY <2>1, <2>2 DEF ComesBack
<1>3. ASSUME NEW j \in 1 .. Len(fields)
      PROVE  j \in match <=> fields[j].id = id
  <2>1. /\ fields[j].id \in Nat /\ fields[j].expects = WireTypeOfOne(fields[j].type)
        /\ fields[j].id = id => fields[j].type = t
    BY DEF ScalarTable
  <2>2. /\ fields[j].expects \in 0 .. 7 /\ WireTypeOfOne(t) \in 0 .. 7
    BY <2>1, TagsDiffer
  <2>3. ASSUME fields[j].id = id PROVE j \in match
    BY <2>1, <2>3
  <2>4. ASSUME j \in match PROVE fields[j].id = id
    BY <2>1, <2>2, <2>4, TagsDiffer
  <2> QED
    BY <2>3, <2>4
<1>4. Got(behind, Len(r.out), ScalarArrives(t, v), None) =
          [msg |-> FromBytes(buf, Len(r.out)), val |-> ScalarArrives(t, v), err |-> None]
  <2> HIDE DEF r, buf, n
  <2>1. [behind EXCEPT !.pos = Len(r.out)] = FromBytes(buf, Len(r.out))
    BY DEF FromBytes
  <2> QED
    BY <2>1 DEF Got
<1>5. s = [msg |-> FromBytes(buf, Len(r.out)), val |-> s.val, err |-> None]
  BY <1>2, ReadersGiveResults DEF IsResult
<1> HIDE DEF r, buf, k, behind, q, s, n, tag
<1>6. ASSUME NEW j \in 1 .. Len(fields), fields[j].id = id
      PROVE  u = [msg |-> FromBytes(buf, Len(r.out)), err |-> None,
                  val |-> [d EXCEPT ![j] = ScalarArrives(t, v)]]
  <2>1. match = {j}
    BY <1>3, <1>6 DEF ScalarTable
  <2> HIDE DEF match
  <2>2. match # {} /\ (CHOOSE i \in match : TRUE) = j
    BY <2>1
  <2>3. LET got == ReadScalar(q.msg, fields[j].type, d[j])
        IN  u = [got EXCEPT !.val = [d EXCEPT ![j] = got.val]]
    BY <1>2, <2>2 DEF DecodeField, match
  <2>4. q.msg = behind /\ fields[j].type = t
    BY <1>2, <1>6
  <2>5. ReadScalar(q.msg, fields[j].type, d[j]) =
            [msg |-> FromBytes(buf, Len(r.out)), val |-> ScalarArrives(t, v), err |-> None]
    BY <2>4, <1>2, <1>4
  <2> QED
    BY <2>3, <2>5
<1>7. ASSUME \A j \in 1 .. Len(fields) : fields[j].id # id
      PROVE  u = [msg |-> FromBytes(buf, Len(r.out)), err |-> None, val |-> d]
  <2>1. match = {}
    BY <1>3, <1>7
  <2> HIDE DEF match
  <2>2. q.msg = behind /\ q.val = tag /\ q.err = None /\ None # EOF
    BY <1>2 DEF None, EOF
  <2>3. u = [ReadPBSkip(q.msg, q.val) EXCEPT !.val = d]
    BY <2>1, <2>2 DEF DecodeField, match
  <2>4. u = [s EXCEPT !.val = d]
    BY <2>2, <2>3 DEF s
  <2> QED
    BY <2>4, <1>5
<1> QED
  BY <1>1, <1>6, <1>7 DEF q, k, buf
\* A value of each field of a table, none of them longer than an int can say.
ValuesOf(fields, v) ==
    \A i \in 1 .. Len(fields) : ScalarValue(fields[i].type, v[i]) /\ LengthOK(fields[i].type, v[i])

\* Every field is written behind those before it, so that what the message holds at the end
\* starts with what it held after each of them.
LEMMA FieldsAreWritten ==
    ASSUME NEW m, Writing(m), NEW fields, ScalarTable(fields), NEW v, ValuesOf(fields, v),
           NEW g, WrittenUpTo(g, m, fields, v)
    PROVE  \A k \in 0 .. Len(fields) : Writing(g[k]) /\ WrittenBehind(g[k], g[Len(fields)])
<1> DEFINE N == Len(fields)
           T == {n \in Nat : n <= N => /\ Writing(g[n])
                                       /\ \A k \in 0 .. n : WrittenBehind(g[k], g[n]) /\ Writing(g[k])}
<1>1. N \in Nat
  BY DEF ScalarTable
<1>2. ASSUME NEW x, Writing(x) PROVE WrittenBehind(x, x)
  <2>1. x.out = x.out \o <<>> /\ <<>> \in Seq(Byte)
    BY <1>2 DEF Writing
  <2> QED
    BY <2>1 DEF WrittenBehind
<1>3. 0 \in T
  <2>1. Writing(g[0]) /\ \A k \in 0 .. 0 : k = 0
    BY DEF WrittenUpTo
  <2> QED
    BY <2>1, <1>2
<1>4. ASSUME NEW n \in Nat, n \in T PROVE n + 1 \in T
  <2> SUFFICES ASSUME n + 1 <= N
               PROVE  /\ Writing(g[n + 1])
                      /\ \A k \in 0 .. n + 1 : WrittenBehind(g[k], g[n + 1]) /\ Writing(g[k])
    OBVIOUS
  <2>1. n <= N /\ n + 1 \in 1 .. N /\ (n + 1) - 1 = n
    BY <1>1
  <2>2. Writing(g[n]) /\ \A k \in 0 .. n : WrittenBehind(g[k], g[n]) /\ Writing(g[k])
    BY <2>1, <1>4
  <2> DEFINE f == fields[n + 1]
  <2>3. g[n + 1] = WriteScalarField(g[n], f.id, f.type, v[n + 1])
    BY <2>1 DEF WrittenUpTo
  <2>4. /\ f.type.kind \in ScalarKinds /\ f.id \in Nat
        /\ PBTag(f.id, WireTypeOfOne(f.type)) \in 0 .. Words - 1
        /\ ScalarValue(f.type, v[n + 1]) /\ LengthOK(f.type, v[n + 1])
    BY <2>1 DEF ScalarTable, ValuesOf
  <2> HIDE DEF f
  <2>5. Writing(g[n + 1]) /\ WrittenBehind(g[n], g[n + 1])
    BY <2>2, <2>3, <2>4, FieldIsWritten
  <2>6. ASSUME NEW k \in 0 .. n + 1 PROVE WrittenBehind(g[k], g[n + 1]) /\ Writing(g[k])
    <3>1. CASE k = n + 1
      BY <3>1, <2>5, <1>2
    <3>2. CASE k # n + 1
      <4>1. k \in 0 .. n
        BY <3>2
      <4>2. WrittenBehind(g[k], g[n]) /\ Writing(g[k])
        BY <4>1, <2>2
      <4> QED
        BY <4>2, <2>5, WrittenBehindIsTransitive
    <3> QED
      BY <3>1, <3>2
  <2> QED
    BY <2>5, <2>6
<1> HIDE DEF T
<1>5. N \in T
  <2>1. Nat \subseteq T
    BY <1>3, <1>4, Induction
  <2> QED
    BY <2>1, <1>1
<1> QED
  BY <1>5, <1>1 DEF T

\* Writing a message of scalars panics only if a value of type int, or the tag of a field,
\* takes as many groups as a word can have: the code's negative numbers.
THEOREM OnlyLongNumbersPanic ==
    ASSUME NEW m, Writing(m), ~m.panic, NEW fields, ScalarTable(fields),
           NEW v, ValuesOf(fields, v), EncodeScalars(m, fields, v).panic
    PROVE  \E i \in 1 .. Len(fields) :
              \/ PBTag(fields[i].id, fields[i].expects) >= Power(Base, Full)
              \/ fields[i].type.kind = "int" /\ v[i] >= Power(Base, Full)
<1> DEFINE N == Len(fields)
           Long(i) == \/ PBTag(fields[i].id, fields[i].expects) >= Power(Base, Full)
                      \/ fields[i].type.kind = "int" /\ v[i] >= Power(Base, Full)
<1> SUFFICES ASSUME \A i \in 1 .. N : ~Long(i) PROVE FALSE
  OBVIOUS
<1>1. N \in Nat
  BY DEF ScalarTable
<1>2. PICK g : WrittenUpTo(g, m, fields, v) /\ EncodeScalars(m, fields, v) = g[N]
  BY <1>1, EncodeFacts
<1>3. \A k \in 0 .. N : Writing(g[k])
  BY <1>2, FieldsAreWritten
<1> DEFINE T == {k \in Nat : k <= N => ~g[k].panic}
<1>4. 0 \in T
  BY <1>2 DEF WrittenUpTo
<1>5. ASSUME NEW k \in Nat, k \in T PROVE k + 1 \in T
  <2> SUFFICES ASSUME k + 1 <= N PROVE ~g[k + 1].panic
    OBVIOUS
  <2> DEFINE f == fields[k + 1]
             y == v[k + 1]
             t == f.type
             tag == PBTag(f.id, WireTypeOfOne(t))
             x == g[k]
             n == WriteVarint(x, tag)
  <2>1. k <= N /\ k \in 0 .. N /\ k + 1 \in 1 .. N /\ (k + 1) - 1 = k
    BY <1>1
  <2>2. Writing(x) /\ ~x.panic
    BY <2>1, <1>3, <1>5
  <2>3. /\ t.kind \in ScalarKinds /\ tag \in 0 .. Words - 1
        /\ ScalarValue(t, y) /\ LengthOK(t, y)
        /\ ~(tag >= Power(Base, Full)) /\ ~(t.kind = "int" /\ y >= Power(Base, Full))
    BY <2>1 DEF ScalarTable, ValuesOf
  <2>4. g[k + 1] = WriteScalarField(x, f.id, t, y)
    BY <2>1, <1>2 DEF WrittenUpTo
  <2> HIDE DEF x, t, y, tag
  <2>5. Writing(n) /\ ~n.panic
    BY <2>2, <2>3, WriteVarintAppends
  <2> HIDE DEF n
  <2>6. CASE Omitted(t, y)
    BY <2>2, <2>4, <2>6 DEF WriteScalarField
  <2>7. CASE ~Omitted(t, y)
    <3>1. g[k + 1] = WriteScalar(n, t, y)
      BY <2>4, <2>7 DEF WriteScalarField, n, tag
    <3>2. Written(t, y)
      BY <2>3, <2>7 DEF Written
    <3> QED
      BY <3>1, <3>2, <2>3, <2>5, ScalarIsWritten
  <2> QED
    BY <2>6, <2>7
<1> HIDE DEF T
<1>6. N \in T
  <2>1. Nat \subseteq T
    BY <1>4, <1>5, Induction
  <2> QED
    BY <2>1, <1>1
<1>7. ~g[N].panic
  BY <1>6, <1>1 DEF T
<1> QED
  BY <1>2, <1>7

\* What arrives of the value of a field.
FieldArrives(t, v) == IF Omitted(t, v) THEN Zero(t) ELSE ScalarArrives(t, v)

\* Two tables mean the same by an id.
Agree(mine, theirs) ==
    \A i \in 1 .. Len(mine) : \A j \in 1 .. Len(theirs) :
        mine[i].id = theirs[j].id => mine[i].type = theirs[j].type

\* The value d of a message of the fields `theirs` is what arrives of the first k values of
\* a message of the fields `mine`: the values of the ids that both know, and zeros.
ArrivedUpTo(k, mine, v, theirs, d) ==
    /\ d = [j \in 1 .. Len(theirs) |-> d[j]]
    /\ \A j \in 1 .. Len(theirs) :
          /\ \A i \in 1 .. k : mine[i].id = theirs[j].id => d[j] = FieldArrives(mine[i].type, v[i])
          /\ (\A i \in 1 .. k : mine[i].id # theirs[j].id) => d[j] = Zero(theirs[j].type)

\* Of the next field, if it was left out nothing has to be done, and else its value has to
\* be put where its id is.
LEMMA NextArrives ==
    ASSUME NEW mine, ScalarTable(mine), NEW theirs, ScalarTable(theirs), Agree(mine, theirs),
           NEW v, NEW k \in Nat, k + 1 <= Len(mine), NEW d, ArrivedUpTo(k, mine, v, theirs, d)
    PROVE  LET f == mine[k + 1]
           IN  /\ Omitted(f.type, v[k + 1]) => ArrivedUpTo(k + 1, mine, v, theirs, d)
               /\ ~Omitted(f.type, v[k + 1])
                  => /\ \A j \in 1 .. Len(theirs) :
                           theirs[j].id = f.id
                           => ArrivedUpTo(k + 1, mine, v, theirs,
                                          [d EXCEPT ![j] = ScalarArrives(f.type, v[k + 1])])
                     /\ (\A j \in 1 .. Len(theirs) : theirs[j].id # f.id)
                        => ArrivedUpTo(k + 1, mine, v, theirs, d)
<1> DEFINE f == mine[k + 1]
           a == FieldArrives(f.type, v[k + 1])
<1>1. k + 1 \in 1 .. Len(mine) /\ 1 .. k \subseteq 1 .. Len(mine) /\ k + 1 \notin 1 .. k
  BY DEF ScalarTable
<1>2. 1 .. k + 1 = (1 .. k) \cup {k + 1}
  OBVIOUS
<1>3. \A i \in 1 .. k : mine[i].id # f.id
  BY <1>1 DEF ScalarTable
<1>4. ASSUME NEW e, e = [j \in 1 .. Len(theirs) |-> e[j]],
             \A j \in 1 .. Len(theirs) : theirs[j].id = f.id => e[j] = a,
             \A j \in 1 .. Len(theirs) : theirs[j].id # f.id => e[j] = d[j]
      PROVE  ArrivedUpTo(k + 1, mine, v, theirs, e)
  <2>1. ASSUME NEW j \in 1 .. Len(theirs)
        PROVE  /\ \A i \in 1 .. k + 1 :
                     mine[i].id = theirs[j].id => e[j] = FieldArrives(mine[i].type, v[i])
               /\ (\A i \in 1 .. k + 1 : mine[i].id # theirs[j].id) => e[j] = Zero(theirs[j].type)
    <3>1. CASE theirs[j].id = f.id
      <4>1. \A i \in 1 .. k : mine[i].id # theirs[j].id
        BY <3>1, <1>3
      <4>2. e[j] = FieldArrives(mine[k + 1].type, v[k + 1])
        BY <3>1, <1>4
      <4> QED
        BY <3>1, <4>1, <4>2, <1>2
    <3>2. CASE theirs[j].id # f.id
      <4>1. e[j] = d[j]
        BY <3>2, <1>4
      <4> QED
        BY <3>2, <4>1, <1>2 DEF ArrivedUpTo
    <3> QED
      BY <3>1, <3>2
  <2> QED
    BY <2>1, <1>4 DEF ArrivedUpTo
<1>5. ASSUME NEW j \in 1 .. Len(theirs), theirs[j].id = f.id PROVE d[j] = Zero(f.type)
  <2>1. d[j] = Zero(theirs[j].type)
    BY <1>3, <1>5 DEF ArrivedUpTo
  <2>2. theirs[j].type = f.type
    BY <1>1, <1>5 DEF Agree
  <2> QED
    BY <2>1, <2>2
<1>6. d = [j \in 1 .. Len(theirs) |-> d[j]]
  BY DEF ArrivedUpTo
<1>7. ASSUME Omitted(f.type, v[k + 1]) PROVE ArrivedUpTo(k + 1, mine, v, theirs, d)
  <2>1. a = Zero(f.type)
    BY <1>7 DEF FieldArrives
  <2> HIDE DEF a
  <2>2. \A j \in 1 .. Len(theirs) : theirs[j].id = f.id => d[j] = a
    BY <2>1, <1>5
  <2> QED
    BY <2>2, <1>4, <1>6
<1>8. ASSUME ~Omitted(f.type, v[k + 1]), NEW j \in 1 .. Len(theirs), theirs[j].id = f.id
      PROVE  ArrivedUpTo(k + 1, mine, v, theirs, [d EXCEPT ![j] = ScalarArrives(f.type, v[k + 1])])
  <2> DEFINE x == ScalarArrives(f.type, v[k + 1])
             e == [d EXCEPT ![j] = x]
  <2>1. a = x
    BY <1>8 DEF FieldArrives
  <2>2. \A i \in 1 .. Len(theirs) : theirs[i].id = f.id => i = j
    BY <1>8 DEF ScalarTable
  <2> HIDE DEF a, x
  <2>3. e = [i \in 1 .. Len(theirs) |-> e[i]] /\ e[j] = x /\ \A i \in 1 .. Len(theirs) : i # j => e[i] = d[i]
    BY <1>6
  <2> HIDE DEF e
  <2>4. ArrivedUpTo(k + 1, mine, v, theirs, e)
    <3>1. \A i \in 1 .. Len(theirs) : theirs[i].id = f.id => e[i] = a
      BY <2>1, <2>2, <2>3
    <3>2. \A i \in 1 .. Len(theirs) : theirs[i].id # f.id => e[i] = d[i]
      BY <2>3, <1>8
    <3> QED
      BY <3>1, <3>2, <2>3, <1>4
  <2> QED
    BY <2>4 DEF e, x
<1>9. ASSUME \A j \in 1 .. Len(theirs) : theirs[j].id # f.id
      PROVE  ArrivedUpTo(k + 1, mine, v, theirs, d)
  BY <1>4, <1>6, <1>9
<1> QED
  BY <1>7, <1>8, <1>9
\* At the end of the buffer there is no field: the loop ends.
LEMMA EndIsDecoded ==
    ASSUME NEW buf \in Seq(Byte), NEW fields, ScalarTable(fields), NEW d
    PROVE  DecodeField(ReadScalar, fields, ReadVarint(FromBytes(buf, Len(buf))), d) =
               [msg |-> FromBytes(buf, Len(buf)), val |-> d, err |-> EOF]
<1> DEFINE m == FromBytes(buf, Len(buf))
           q == ReadVarint(m)
           match == {j \in 1 .. Len(fields) : PBTag(fields[j].id, fields[j].expects) = q.val}
<1>1. m.pos = Len(buf) /\ m.buf = buf /\ [m EXCEPT !.pos = Len(buf)] = m
  BY DEF FromBytes
<1>2. q = [msg |-> m, val |-> 0, err |-> EOF]
  <2> HIDE DEF m
  <2>1. Len(buf) \in Nat
    OBVIOUS
  <2>2. Unread(m) = {}
    BY <1>1, <2>1 DEF Unread
  <2>3. Ends(m) = {}
    BY <2>2 DEF Ends
  <2> QED
    BY <2>3, <1>1 DEF ReadVarint, Failed, Got
<1> HIDE DEF m, q
<1>3. match = {}
  <2>1. ASSUME NEW j \in 1 .. Len(fields)
        PROVE  PBTag(fields[j].id, fields[j].expects) # 0
    <3>1. fields[j].id \in Nat \ {0} /\ fields[j].expects = WireTypeOfOne(fields[j].type)
      BY DEF ScalarTable
    <3> QED
      BY <3>1, TagsDiffer
  <2> QED
    BY <2>1, <1>2
<1>4. DecodeField(ReadScalar, fields, q, d) = [q EXCEPT !.val = d]
  BY <1>2, <1>3 DEF DecodeField
<1>5. DecodeField(ReadScalar, fields, q, d) = [msg |-> m, val |-> d, err |-> EOF]
  BY <1>2, <1>4
<1> QED
  BY <1>5 DEF m, q

\* A whole message of scalars arrives, also where the two ends know different fields: what
\* RPCEncode of one type writes, whatever is before it in the buffer, RPCDecode of another
\* decodes without an error. The fields whose IDs both types have get what was put into
\* them, or zero where that is what was left out, those that only the reader's type has are
\* zero, and those that it does not know are skipped.
THEOREM MessageRoundTrip ==
    ASSUME NEW mine, ScalarTable(mine), NEW theirs, ScalarTable(theirs), Agree(mine, theirs),
           NEW v, ValuesOf(mine, v), NEW m, Writing(m)
    PROVE  LET n == EncodeScalars(m, mine, v)
               r == DecodeScalars(theirs, FromBytes(n.out, Len(m.out)))
           IN  ~n.panic /\ Len(n.out) < Words \div 2
               => r.err = None /\ ArrivedUpTo(Len(mine), mine, v, theirs, r.val)
<1> DEFINE N == Len(mine)
           n == EncodeScalars(m, mine, v)
           buf == n.out
           start == Len(m.out)
           b == FromBytes(buf, start)
<1> SUFFICES ASSUME ~n.panic, Len(n.out) < Words \div 2
             PROVE  LET r == DecodeScalars(theirs, b)
                    IN  r.err = None /\ ArrivedUpTo(N, mine, v, theirs, r.val)
  OBVIOUS
<1>1. N \in Nat /\ Len(theirs) \in Nat
  BY DEF ScalarTable
<1>2. PICK g : WrittenUpTo(g, m, mine, v) /\ n = g[N]
  BY <1>1, EncodeFacts
<1>3. ASSUME NEW k \in 0 .. N
      PROVE  /\ Writing(g[k]) /\ ~g[k].panic /\ g[k].out \in Seq(Byte)
             /\ \E c \in Seq(Byte) : buf = g[k].out \o c
  <2>1. Writing(g[k]) /\ WrittenBehind(g[k], n)
    BY <1>2, FieldsAreWritten
  <2> HIDE DEF n
  <2> QED
    BY <2>1 DEF WrittenBehind, Writing
<1>4. buf \in Seq(Byte) /\ Len(buf) \in Nat /\ start \in Nat /\ n.out = g[N].out
  <2>1. m.out \in Seq(Byte) /\ g[N].out \in Seq(Byte)
    BY <1>1, <1>3 DEF Writing
  <2> QED
    BY <2>1, <1>2
<1>5. b.buf = buf /\ b.pos = start
  BY DEF FromBytes
<1> HIDE DEF n
<1>6. PICK turn : Turns(turn, theirs, b)
  BY <1>4, <1>5, DecodeFacts
<1> DEFINE M == Len(buf) + 1
           Read(k) == \E c, d :
                         /\ c \in Nat /\ c + start <= Len(g[k].out)
                         /\ turn[c] = [msg |-> FromBytes(buf, Len(g[k].out)), val |-> d, err |-> None]
                         /\ ArrivedUpTo(k, mine, v, theirs, d)
           T == {k \in Nat : k <= N => Read(k)}
<1>7. /\ turn[0] = Got(b, start, ZeroOf(theirs), None)
      /\ \A k \in 1 .. M : turn[k] = Turned(theirs, turn[k - 1])
      /\ DecodeScalars(theirs, b) =
             IF theirs = <<>> THEN [val |-> <<>>, err |-> None]
             ELSE [val |-> turn[M].val, err |-> IF turn[M].err = EOF THEN None ELSE turn[M].err]
  BY <1>5, <1>6 DEF Turns
<1>8. ASSUME NEW c \in Nat, c < M, NEW k, NEW d,
             turn[c] = [msg |-> FromBytes(buf, k), val |-> d, err |-> None]
      PROVE  turn[c + 1] = DecodeField(ReadScalar, theirs, ReadVarint(FromBytes(buf, k)), d)
  <2>1. c + 1 \in 1 .. M /\ (c + 1) - 1 = c
    BY <1>4, <1>8
  <2>2. turn[c + 1] = Turned(theirs, turn[c])
    BY <2>1, <1>7
  <2> QED
    BY <2>2, <1>8 DEF Turned
<1>9. Read(0)
  <2> DEFINE d == ZeroOf(theirs)
  <2>1. g[0].out = m.out
    BY <1>2 DEF WrittenUpTo
  <2>2. turn[0] = [msg |-> FromBytes(buf, Len(g[0].out)), val |-> d, err |-> None]
    BY <1>7, <2>1 DEF Got, FromBytes
  <2>3. ArrivedUpTo(0, mine, v, theirs, d)
    <3>1. d = [j \in 1 .. Len(theirs) |-> Zero(theirs[j].type)] /\ \A i : i \notin 1 .. 0
      BY DEF ZeroOf
    <3> HIDE DEF d
    <3>2. d = [j \in 1 .. Len(theirs) |-> d[j]] /\ \A j \in 1 .. Len(theirs) : d[j] = Zero(theirs[j].type)
      BY <3>1
    <3> QED
      BY <3>1, <3>2 DEF ArrivedUpTo
  <2>4. 0 \in Nat /\ 0 + start <= Len(g[0].out)
    BY <2>1, <1>4
  <2> HIDE DEF d
  <2> QED
    BY <2>2, <2>3, <2>4
<1>10. ASSUME NEW k \in Nat, k + 1 <= N, Read(k) PROVE Read(k + 1)
  <2> DEFINE f == mine[k + 1]
             y == v[k + 1]
             x == g[k]
             z == g[k + 1]
  <2>1. k \in 0 .. N /\ k + 1 \in 0 .. N /\ k + 1 \in 1 .. N /\ (k + 1) - 1 = k
    BY <1>1, <1>10
  <2>2. PICK c, d : /\ c \in Nat /\ c + start <= Len(x.out)
                            /\ turn[c] = [msg |-> FromBytes(buf, Len(x.out)), val |-> d, err |-> None]
                            /\ ArrivedUpTo(k, mine, v, theirs, d)
    BY <1>10
  <2>3. z = WriteScalarField(x, f.id, f.type, y)
    BY <2>1, <1>2 DEF WrittenUpTo
  <2>4. /\ f.type.kind \in ScalarKinds /\ f.id \in Nat /\ f.id # 0
        /\ PBTag(f.id, WireTypeOfOne(f.type)) \in 0 .. Words - 1
        /\ ScalarValue(f.type, y) /\ LengthOK(f.type, y)
        /\ \A j \in 1 .. Len(theirs) : theirs[j].id = f.id => theirs[j].type = f.type
    BY <2>1 DEF ScalarTable, ValuesOf, Agree
  <2>5. Writing(x) /\ x.out \in Seq(Byte) /\ ~z.panic /\ z.out \in Seq(Byte)
    BY <2>1, <1>3
  <2>6. PICK after \in Seq(Byte) : buf = z.out \o after
    BY <2>1, <1>3
  <2>7. /\ Len(x.out) \in Nat /\ Len(z.out) \in Nat
        /\ Len(z.out) <= Len(buf)
    <3>1. Len(z.out \o after) = Len(z.out) + Len(after) /\ Len(after) \in Nat
      BY <2>5, ConcatProperties
    <3> QED
      BY <2>5, <2>6, <3>1
  <2>8. /\ Omitted(f.type, y) => z = x
        /\ ~Omitted(f.type, y) => Len(z.out) > Len(x.out)
    <3>1. f.id \in Nat
      BY <2>4
    <3> HIDE DEF f, y, x, z
    <3> QED
      BY <3>1, <2>3, <2>4, <2>5, FieldIsWritten
  <2>9. CASE Omitted(f.type, y)
    <3>1. ArrivedUpTo(k + 1, mine, v, theirs, d)
      BY <2>2, <2>9, <1>10, NextArrives
    <3> QED
      BY <2>2, <2>8, <2>9, <3>1
  <2>10. CASE ~Omitted(f.type, y)
    <3> DEFINE u == turn[c + 1]
               here == FromBytes(buf, Len(z.out))
    <3>1. c < M /\ c + 1 \in Nat /\ (c + 1) + start <= Len(z.out)
      <4> DEFINE a == Len(x.out)
                 e == Len(z.out)
                 l == Len(buf)
      <4>1. c \in Nat /\ c + start <= a /\ a < e /\ e <= l
        BY <2>2, <2>7, <2>8, <2>10
      <4>2. a \in Nat /\ e \in Nat /\ l \in Nat /\ start \in Nat /\ M = l + 1
        BY <2>7, <1>4
      <4> HIDE DEF a, e, l, start, M
      <4>3. c < M /\ c + 1 \in Nat /\ (c + 1) + start <= e
        BY <4>1, <4>2
      <4> QED
        BY <4>3 DEF e
    <3>2. u = DecodeField(ReadScalar, theirs, ReadVarint(FromBytes(buf, Len(x.out))), d)
      BY <3>1, <2>2, <1>8
    <3>3. Written(f.type, y)
      BY <2>4, <2>10 DEF Written
    <3>4. /\ \A j \in 1 .. Len(theirs) :
                theirs[j].id = f.id
                => u = [msg |-> here, err |-> None, val |-> [d EXCEPT ![j] = ScalarArrives(f.type, y)]]
          /\ (\A j \in 1 .. Len(theirs) : theirs[j].id # f.id)
             => u = [msg |-> here, err |-> None, val |-> d]
      <4>1. TurnReads(x, after, f.type, y, f.id, theirs, d)
        <5> HIDE DEF f, y, x
        <5> QED
          BY <3>3, <2>4, <2>5, FieldIsDecoded
      <4>2. ~z.panic /\ Len(z.out \o after) < Words \div 2
        BY <2>5, <2>6
      <4> HIDE DEF u, here, f, y, x, z
      <4> QED
        BY <4>1, <4>2, <3>2, <2>3, <2>6 DEF TurnReads, here
    <3>5. PICK e : u = [msg |-> here, val |-> e, err |-> None] /\ ArrivedUpTo(k + 1, mine, v, theirs, e)
      <4>1. CASE \E j \in 1 .. Len(theirs) : theirs[j].id = f.id
        <5>1. PICK j \in 1 .. Len(theirs) : theirs[j].id = f.id
          BY <4>1
        <5>2. ArrivedUpTo(k + 1, mine, v, theirs, [d EXCEPT ![j] = ScalarArrives(f.type, y)])
          BY <5>1, <2>2, <2>10, <1>10, NextArrives
        <5> HIDE DEF u, here, f, y
        <5> QED
          BY <5>1, <5>2, <3>4
      <4>2. CASE \A j \in 1 .. Len(theirs) : theirs[j].id # f.id
        <5>1. ArrivedUpTo(k + 1, mine, v, theirs, d)
          BY <4>2, <2>2, <2>10, <1>10, NextArrives
        <5> HIDE DEF u, here, f, y
        <5> QED
          BY <4>2, <5>1, <3>4
      <4> QED
        BY <4>1, <4>2
    <3> QED
      BY <3>1, <3>5
  <2> QED
    BY <2>9, <2>10
<1>11. Read(N)
  <2> HIDE DEF Read
  <2>1. 0 \in T
    BY <1>9
  <2>2. ASSUME NEW k \in Nat, k \in T PROVE k + 1 \in T
    <3>1. k + 1 <= N => k <= N
      BY <1>1
    <3> QED
      BY <3>1, <2>2, <1>10
  <2> HIDE DEF T
  <2>3. Nat \subseteq T
    BY <2>1, <2>2, Induction
  <2> QED
    BY <2>3, <1>1 DEF T
<1>12. PICK c, d : /\ c \in Nat /\ c < M
                           /\ turn[c] = [msg |-> FromBytes(buf, Len(buf)), val |-> d, err |-> None]
                           /\ ArrivedUpTo(N, mine, v, theirs, d)
  <2>1. PICK c, d : /\ c \in Nat /\ c + start <= Len(buf)
                            /\ turn[c] = [msg |-> FromBytes(buf, Len(buf)), val |-> d, err |-> None]
                            /\ ArrivedUpTo(N, mine, v, theirs, d)
    BY <1>11, <1>4
  <2>2. c < M
    BY <2>1, <1>4
  <2> QED
    BY <2>1, <2>2
<1>13. turn[c + 1] = [msg |-> FromBytes(buf, Len(buf)), val |-> d, err |-> EOF]
  <2>1. turn[c + 1] = DecodeField(ReadScalar, theirs, ReadVarint(FromBytes(buf, Len(buf))), d)
    BY <1>8, <1>12
  <2> QED
    BY <2>1, <1>4, EndIsDecoded
<1>15. M \in Nat /\ c \in Nat /\ c < M
  BY <1>4, <1>12
<1> HIDE DEF M
<1>14. turn[M] = turn[c + 1]
  <2> DEFINE S == {i \in Nat : c + 1 + i <= M => turn[c + 1 + i] = turn[c + 1]}
  <2>1. 0 \in S
    <3>1. c + 1 + 0 = c + 1
      BY <1>15
    <3> QED
      BY <3>1
  <2>2. ASSUME NEW i \in Nat, i \in S PROVE i + 1 \in S
    <3> SUFFICES ASSUME c + 1 + (i + 1) <= M PROVE turn[c + 1 + (i + 1)] = turn[c + 1]
      OBVIOUS
    <3> DEFINE p == c + 1 + i
    <3>1. p <= M /\ p + 1 \in 1 .. M /\ (p + 1) - 1 = p /\ c + 1 + (i + 1) = p + 1
      BY <1>15
    <3>2. turn[p] = turn[c + 1]
      BY <3>1, <2>2
    <3>3. turn[p + 1] = Turned(theirs, turn[p])
      BY <3>1, <1>7
    <3>4. turn[c + 1].err # None
      BY <1>13 DEF None, EOF
    <3> HIDE DEF p
    <3>5. turn[p + 1] = turn[p]
      BY <3>2, <3>3, <3>4 DEF Turned
    <3> QED
      BY <3>1, <3>2, <3>5
  <2> HIDE DEF S
  <2>3. Nat \subseteq S
    BY <2>1, <2>2, Induction
  <2> DEFINE i == M - (c + 1)
  <2>4. i \in Nat /\ c + 1 + i = M
    BY <1>15
  <2>5. i \in S
    BY <2>3, <2>4
  <2> QED
    BY <2>4, <2>5, <1>15 DEF S
<1>16. CASE theirs = <<>>
  <2>1. /\ DecodeScalars(theirs, b).err = None /\ DecodeScalars(theirs, b).val = <<>>
        /\ Len(theirs) = 0
    BY <1>7, <1>16
  <2>2. <<>> = [j \in 1 .. 0 |-> <<>>[j]] /\ \A j : j \notin 1 .. 0
    OBVIOUS
  <2>3. ArrivedUpTo(N, mine, v, theirs, <<>>)
    BY <2>1, <2>2 DEF ArrivedUpTo
  <2> QED
    BY <2>1, <2>3
<1>17. CASE theirs # <<>>
  BY <1>7, <1>12, <1>13, <1>14, <1>17 DEF None, EOF
<1> QED
  BY <1>16, <1>17

\* A turn of the loop, of any bytes and any table of scalars, stays inside the buffer, fails
\* with an error of its readers or the end of the buffer, and goes on by a byte if it does
\* not.
LEMMA TurnIsSafe ==
    ASSUME NEW m, Reading(m), NEW fields, ScalarTable(fields), NEW d
    PROVE  LET u == DecodeField(ReadScalar, fields, ReadVarint(m), d)
           IN  /\ Reading(u.msg) /\ u.msg.buf = m.buf
               /\ u.err \in {None, EOF, Overflow, Panic, Malformed}
               /\ u.err = None => u.msg.pos > m.pos
<1> DEFINE q == ReadVarint(m)
           u == DecodeField(ReadScalar, fields, q, d)
           match == {j \in 1 .. Len(fields) : PBTag(fields[j].id, fields[j].expects) = q.val}
           i == CHOOSE j \in match : TRUE
           Fine == /\ Reading(u.msg) /\ u.msg.buf = m.buf
                   /\ u.err \in {None, EOF, Overflow, Panic, Malformed}
                   /\ u.err = None => u.msg.pos > m.pos
<1> SUFFICES Fine
  OBVIOUS
<1>1. /\ Reading(q.msg) /\ q.msg.buf = m.buf /\ q.msg.pos >= m.pos
      /\ q.err \in {None, EOF, Overflow} /\ q.val \in Nat
      /\ q.err # EOF => q.msg.pos > m.pos
  BY ReadVarintIsSafe
<1>2. IsResult(q)
  BY ReadersGiveResults
<1>3. m.pos \in Nat /\ q.msg.pos \in Nat
  BY <1>1 DEF Reading
<1>4. \A r, x : IsResult(r) => [r EXCEPT !.val = x].msg = r.msg /\ [r EXCEPT !.val = x].err = r.err
  BY DEF IsResult
<1> HIDE DEF q
<1>5. CASE match # {}
  <2> DEFINE r == ReadScalar(q.msg, fields[i].type, d[i])
  <2>1. i \in 1 .. Len(fields) /\ fields[i].type.kind \in ScalarKinds
    BY <1>5 DEF ScalarTable
  <2>2. u = [r EXCEPT !.val = [d EXCEPT ![i] = r.val]]
    BY <1>5 DEF DecodeField
  <2> HIDE DEF i
  <2>3. /\ Reading(r.msg) /\ r.msg.buf = m.buf /\ r.msg.pos >= q.msg.pos
        /\ r.err \in {None, EOF, Overflow, Panic, Malformed}
        /\ r.err = None => r.msg.pos > q.msg.pos
    BY <2>1, <1>1, ReadScalarIsSafe
  <2>4. IsResult(r)
    BY <2>1, ReadersGiveResults
  <2> HIDE DEF r, u
  <2>5. u.msg = r.msg /\ u.err = r.err /\ r.msg.pos \in Nat
    BY <2>2, <2>3, <2>4, <1>4 DEF Reading
  <2> QED
    BY <2>3, <2>5, <1>1, <1>3
<1>6. CASE match = {} /\ q.err # EOF
  <2> DEFINE r == ReadPBSkip(q.msg, q.val)
  <2>1. u = [r EXCEPT !.val = d]
    BY <1>6 DEF DecodeField
  <2>2. /\ Reading(r.msg) /\ r.msg.buf = m.buf /\ r.msg.pos >= q.msg.pos
        /\ r.err \in {None, EOF, Overflow, Panic}
    BY <1>1, SkippingIsSafe
  <2>3. IsResult(r)
    BY ReadersGiveResults
  <2> HIDE DEF r, u
  <2>4. u.msg = r.msg /\ u.err = r.err /\ r.msg.pos \in Nat
    BY <2>1, <2>2, <2>3, <1>4 DEF Reading
  <2> QED
    BY <2>2, <2>4, <1>1, <1>3, <1>6
<1>7. CASE match = {} /\ q.err = EOF
  <2>1. u = [q EXCEPT !.val = d]
    BY <1>7 DEF DecodeField
  <2> HIDE DEF u
  <2>2. u.msg = q.msg /\ u.err = EOF /\ EOF # None
    BY <2>1, <1>2, <1>4, <1>7 DEF EOF, None
  <2> QED
    BY <2>2, <1>1
<1> QED
  BY <1>5, <1>6, <1>7

\* Decoding any bytes as a message of any scalar fields ends, with an error of the code, a
\* panic of a slice, or at the end of the buffer: the loop has no turn in which it does not
\* read a byte, so one turn for every byte and one more is all that it can take.
THEOREM DecodingEnds ==
    ASSUME NEW m, Reading(m), NEW fields, ScalarTable(fields), NEW turn, Turns(turn, fields, m)
    PROVE  /\ turn[Len(m.buf) + 1].err \in {EOF, Overflow, Panic, Malformed}
           /\ DecodeScalars(fields, m).err \in {None, Overflow, Panic, Malformed}
<1> DEFINE M == Len(m.buf) + 1
           Fine(k) == /\ Reading(turn[k].msg) /\ turn[k].msg.buf = m.buf
                      /\ turn[k].err \in {None, EOF, Overflow, Panic, Malformed}
                      /\ turn[k].err = None => turn[k].msg.pos >= m.pos + k
           T == {k \in Nat : k <= M => Fine(k)}
<1>1. Len(m.buf) \in Nat /\ M \in Nat /\ m.pos \in Nat /\ m = FromBytes(m.buf, m.pos)
  BY DEF Reading
<1>2. 0 \in T
  <2>1. turn[0] = Got(m, m.pos, ZeroOf(fields), None)
    BY DEF Turns
  <2>2. [m EXCEPT !.pos = m.pos] = m
    BY <1>1 DEF FromBytes
  <2>3. turn[0].msg = m /\ turn[0].err = None
    BY <2>1, <2>2 DEF Got
  <2> QED
    BY <2>3, <1>1
<1>3. ASSUME NEW k \in Nat, k \in T PROVE k + 1 \in T
  <2> SUFFICES ASSUME k + 1 <= M PROVE Fine(k + 1)
    OBVIOUS
  <2>1. k <= M /\ k + 1 \in 1 .. M /\ (k + 1) - 1 = k
    BY <1>1
  <2>2. Fine(k)
    BY <2>1, <1>3
  <2>3. turn[k + 1] = Turned(fields, turn[k])
    BY <2>1 DEF Turns
  <2>4. CASE turn[k].err # None
    <3>1. turn[k + 1] = turn[k]
      BY <2>3, <2>4 DEF Turned
    <3> QED
      BY <3>1, <2>2, <2>4
  <2>5. CASE turn[k].err = None
    <3> DEFINE x == turn[k].msg
               u == turn[k + 1]
    <3>1. u = DecodeField(ReadScalar, fields, ReadVarint(x), turn[k].val)
      BY <2>3, <2>5 DEF Turned
    <3>2. Reading(x) /\ x.buf = m.buf /\ x.pos >= m.pos + k
      BY <2>2, <2>5
    <3> HIDE DEF x, u
    <3>3. /\ Reading(u.msg) /\ u.msg.buf = m.buf
          /\ u.err \in {None, EOF, Overflow, Panic, Malformed}
          /\ u.err = None => u.msg.pos > x.pos
      BY <3>1, <3>2, TurnIsSafe
    <3>4. u.msg.pos \in Nat /\ x.pos \in Nat
      BY <3>2, <3>3 DEF Reading
    <3>5. u.err = None => u.msg.pos >= m.pos + (k + 1)
      BY <3>2, <3>3, <3>4, <1>1
    <3> QED
      BY <3>3, <3>5 DEF u
  <2> QED
    BY <2>4, <2>5
<1>4. Fine(M)
  <2> HIDE DEF T
  <2>1. Nat \subseteq T
    BY <1>2, <1>3, Induction
  <2> QED
    BY <2>1, <1>1 DEF T
<1>5. turn[M].err # None
  <2> SUFFICES ASSUME turn[M].err = None PROVE FALSE
    OBVIOUS
  <2>1. turn[M].msg.pos >= m.pos + M /\ turn[M].msg.pos \in 0 .. Len(m.buf)
    BY <1>4 DEF Reading
  <2> DEFINE p == turn[M].msg.pos
             l == Len(m.buf)
  <2>2. p >= m.pos + (l + 1) /\ p \in 0 .. l /\ l \in Nat
    BY <2>1, <1>1
  <2> HIDE DEF p, l
  <2> QED
    BY <2>2, <1>1
<1>6. DecodeScalars(fields, m).err \in {None, IF turn[M].err = EOF THEN None ELSE turn[M].err}
  BY DEF Turns
<1> QED
  BY <1>4, <1>5, <1>6
==============================================================================
