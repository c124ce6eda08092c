--------------------------- MODULE GatewayProofs ---------------------------
(***************************************************************************)
(* Theorems about Gateway, for any requests, bodies and limits: a request  *)
(* that was forwarded has one line in the log, with the status its client  *)
(* saw, and the file holds the newest lines that fit.                      *)
(***************************************************************************)
EXTENDS Gateway, FiniteSetTheorems, SequenceTheorems, TLAPS

-----------------------------------------------------------------------------
(* Induction, and the functions it defines.                                 *)

\* A set with zero in it and, with a number, the next, has every number.
LEMMA Induct ==
  ASSUME NEW T, 0 \in T, \A n \in Nat : n \in T => n + 1 \in T
  PROVE  Nat \subseteq T
<1> DEFINE R == {pair \in Nat \X Nat : pair[1] < pair[2]}
           U == Nat \ T
<1>1. IsWellFoundedOn(R, Nat)
  <2>1. R = OpToRel(<, Nat)
    BY DEF OpToRel
  <2>2. QED
    BY <2>1, NatLessThanWellFounded
<1>2. \A x, y \in Nat : y < x => <<y, x>> \in R
  OBVIOUS
<1>3. SUFFICES ASSUME U # {} PROVE FALSE
  OBVIOUS
<1> HIDE DEF R
<1>4. PICK x \in U : \A y \in U : ~ (<<y, x>> \in R)
  BY <1>1, <1>3, WFMin
<1>5. x # 0 /\ x - 1 \in Nat /\ x - 1 < x
  BY <1>4
<1>6. x - 1 \in T
  BY <1>2, <1>4, <1>5
<1>7. QED
  BY <1>4, <1>5, <1>6, x = (x - 1) + 1

Steps(n, A) == [1 .. n -> [A -> A]]

\* f starts with base, and every step leads from one value to the next.
Follows(f, n, A, base, step) ==
  f \in [0 .. n -> A] /\ f[0] = base /\ \A i \in 1 .. n : f[i] = step[i][f[i - 1]]

\* A function of the natural numbers up to n is given by its first value and
\* by what leads from each value to the next.
LEMMA FunctionUpTo ==
  ASSUME NEW n \in Nat, NEW A, NEW base \in A, NEW step \in Steps(n, A)
  PROVE  \E f : Follows(f, n, A, base, step)
<1> DEFINE Good(m, f) == f[0] = base /\ \A i \in 1 .. m : f[i] = step[i][f[i - 1]]
           T == {m \in Nat : m <= n => \E f \in [0 .. m -> A] : Good(m, f)}
<1>1. 0 \in T
  <2>1. [i \in 0 .. 0 |-> base] \in [0 .. 0 -> A] /\ Good(0, [i \in 0 .. 0 |-> base])
    OBVIOUS
  <2>2. QED
    BY <2>1
<1>2. ASSUME NEW m \in Nat, m \in T PROVE m + 1 \in T
  <2>1. SUFFICES ASSUME m + 1 <= n PROVE \E f \in [0 .. m + 1 -> A] : Good(m + 1, f)
    OBVIOUS
  <2>2. PICK g \in [0 .. m -> A] : Good(m, g)
    BY <1>2, <2>1
  <2> DEFINE f == [i \in 0 .. m + 1 |-> IF i = m + 1 THEN step[m + 1][g[m]] ELSE g[i]]
  <2>3. g[m] \in A /\ m + 1 \in 1 .. n
    BY <2>1
  <2>4. step[m + 1][g[m]] \in A
    BY <2>3 DEF Steps
  <2>5. f \in [0 .. m + 1 -> A]
    BY <2>4
  <2>6. f[0] = base
    BY <2>2
  <2>7. ASSUME NEW i \in 1 .. m + 1 PROVE f[i] = step[i][f[i - 1]]
    <3>1. CASE i = m + 1
      BY <3>1, i - 1 = m, m \in 0 .. m + 1, m # m + 1
    <3>2. CASE i # m + 1
      BY <3>2, <2>2, i \in 1 .. m, i - 1 \in 0 .. m
    <3>3. QED
      BY <3>1, <3>2
  <2>8. QED
    BY <2>5, <2>6, <2>7
<1> HIDE DEF T
<1>3. n \in T
  BY <1>1, <1>2, Induct
<1>4. QED
  BY <1>3 DEF T, Follows

-----------------------------------------------------------------------------
(* Sums.                                                                    *)

\* Sizes add up to a size.
LEMMA TotalType ==
  ASSUME NEW n \in Nat, NEW s \in [1 .. n -> Nat]
  PROVE  Total(s) \in Nat
<1> DEFINE F(f) == f = [i \in 0 .. n |-> IF i = 0 THEN 0 ELSE f[i - 1] + s[i]]
           step == [i \in 1 .. n |-> [x \in Nat |-> x + s[i]]]
<1>1. n \in Nat /\ (\A i \in 1 .. n : s[i] \in Nat) /\ Len(s) = n /\ 0 \in Nat
  OBVIOUS
<1>2. step \in Steps(n, Nat)
  <2>1. \A i \in 1 .. n, x \in Nat : x + s[i] \in Nat
    BY <1>1
  <2>2. QED
    BY <2>1 DEF Steps
<1>3. PICK g : Follows(g, n, Nat, 0, step)
  <2> HIDE DEF step, F
  <2>1. QED
    BY <1>1, <1>2, FunctionUpTo
<1>4. \A i \in 1 .. n : g[i] = g[i - 1] + s[i]
  <2>1. \A i \in 1 .. n : g[i - 1] \in Nat
    BY <1>1, <1>3 DEF Follows
  <2>2. \A i \in 1 .. n : step[i][g[i - 1]] = g[i - 1] + s[i]
    BY <2>1
  <2>3. QED
    BY <1>3, <2>2 DEF Follows
<1>5. F(g)
  <2>1. \A i \in 0 .. n : g[i] = IF i = 0 THEN 0 ELSE g[i - 1] + s[i]
    <3>1. g[0] = 0
      BY <1>3 DEF Follows
    <3>2. \A i \in 0 .. n : i # 0 => i \in 1 .. n
      BY <1>1
    <3>3. QED
      BY <1>4, <3>1, <3>2
  <2>2. QED
    BY <2>1, <1>3 DEF Follows
<1> DEFINE f == CHOOSE h : F(h)
<1>6. F(f)
  BY <1>5
<1>7. Total(s) = f[n]
  BY <1>1 DEF Total
<1> HIDE DEF f
<1>8. f[0] = 0 /\ \A i \in 1 .. n : f[i] = f[i - 1] + s[i]
  <2>1. 0 \in 0 .. n /\ \A i \in 1 .. n : i \in 0 .. n /\ i # 0
    BY <1>1
  <2>2. QED
    BY <1>6, <2>1
<1> DEFINE T == {i \in Nat : i <= n => f[i] \in Nat}
<1>9. 0 \in T
  BY <1>8
<1>10. ASSUME NEW i \in Nat, i \in T PROVE i + 1 \in T
  <2>1. SUFFICES ASSUME i + 1 <= n PROVE f[i + 1] \in Nat
    OBVIOUS
  <2>2. f[i] \in Nat /\ s[i + 1] \in Nat
    BY <1>10, <2>1, <1>1
  <2>3. i + 1 \in 1 .. n /\ (i + 1) - 1 = i
    BY <2>1
  <2>4. f[i + 1] = f[(i + 1) - 1] + s[i + 1]
    BY <1>8, <2>3
  <2>5. QED
    BY <2>2, <2>3, <2>4
<1> HIDE DEF T
<1>11. n \in T
  BY <1>1, <1>9, <1>10, Induct
<1>12. QED
  BY <1>7, <1>11 DEF T

-----------------------------------------------------------------------------
(* Lines in the order of their days.                                        *)

\* Lines are in order when no line is older than one before it.
Dated == [req : Reqs, status : Nat, day : Nat]
Ordered(s) == \A i, j \in 1 .. Len(s) : i <= j => s[i].day <= s[j].day

\* The old lines come first: k of them.
Split(s, d, k) ==
  /\ k \in 0 .. Len(s)
  /\ \A i \in 1 .. k : s[i].day < d
  /\ \A i \in k + 1 .. Len(s) : s[i].day >= d

LEMMA SplitPoint ==
  ASSUME NEW s \in Seq(Dated), Ordered(s), NEW d \in Int
  PROVE  \E k : Split(s, d, k)
<1> DEFINE n == Len(s)
           Good(m, k) == /\ k \in 0 .. m
                         /\ \A i \in 1 .. k : s[i].day < d
                         /\ \A i \in k + 1 .. m : s[i].day >= d
           T == {m \in Nat : m <= n => \E k \in 0 .. m : Good(m, k)}
<1>1. n \in Nat /\ \A i \in 1 .. n : s[i].day \in Nat
  <2>1. \A l \in Dated : l.day \in Nat
    BY DEF Dated
  <2>2. n \in Nat /\ \A i \in 1 .. n : s[i] \in Dated
    OBVIOUS
  <2>3. QED
    BY <2>1, <2>2
<1>2. 0 \in T
  <2>1. Good(0, 0)
    OBVIOUS
  <2>2. QED
    BY <2>1
<1>3. ASSUME NEW m \in Nat, m \in T PROVE m + 1 \in T
  <2>1. SUFFICES ASSUME m + 1 <= n PROVE \E k \in 0 .. m + 1 : Good(m + 1, k)
    OBVIOUS
  <2>2. PICK k \in 0 .. m : Good(m, k)
    BY <1>1, <1>3, <2>1
  <2>3. m + 1 \in 1 .. n /\ s[m + 1].day \in Nat
    BY <1>1, <2>1
  <2>4. CASE s[m + 1].day < d
    <3>1. \A i \in 1 .. m + 1 : s[i].day \in Nat /\ s[i].day <= s[m + 1].day
      BY <1>1, <2>1, <2>3 DEF Ordered
    <3>2. \A i \in 1 .. m + 1 : s[i].day < d
      BY <2>3, <2>4, <3>1
    <3>3. Good(m + 1, m + 1)
      BY <3>2
    <3>4. QED
      BY <3>3
  <2>5. CASE s[m + 1].day >= d
    <3>1. \A i \in k + 1 .. m + 1 : s[i].day >= d
      <4>1. \A i \in k + 1 .. m + 1 : i = m + 1 \/ i \in k + 1 .. m
        OBVIOUS
      <4>2. QED
        BY <2>2, <2>5, <4>1
    <3>2. Good(m + 1, k)
      BY <2>2, <3>1
    <3>3. k \in 0 .. m + 1
      OBVIOUS
    <3>4. QED
      BY <3>2, <3>3
  <2>6. QED
    BY <2>3, <2>4, <2>5
<1> HIDE DEF T
<1>4. n \in T
  BY <1>1, <1>2, <1>3, Induct
<1>5. QED
  BY <1>1, <1>4 DEF T, Split

\* f[i] is what Since keeps of the first i lines.
Filters(f, s, d) ==
  /\ f \in [0 .. Len(s) -> Seq(Dated)]
  /\ f[0] = << >>
  /\ \A i \in 1 .. Len(s) :
       f[i] = IF s[i].day >= d THEN Append(f[i - 1], s[i]) ELSE f[i - 1]

LEMMA SinceFilters ==
  ASSUME NEW s \in Seq(Dated), NEW d \in Int
  PROVE  \E f : Filters(f, s, d) /\ Since(s, d) = f[Len(s)]
<1> DEFINE n == Len(s)
           F(f) == f = [i \in 0 .. n |-> IF i = 0 THEN << >>
                          ELSE IF s[i].day >= d THEN Append(f[i - 1], s[i]) ELSE f[i - 1]]
           step == [i \in 1 .. n |-> [x \in Seq(Dated) |->
                      IF s[i].day >= d THEN Append(x, s[i]) ELSE x]]
<1>1. n \in Nat /\ (\A i \in 1 .. n : s[i] \in Dated) /\ << >> \in Seq(Dated)
  OBVIOUS
<1>2. step \in Steps(n, Seq(Dated))
  <2>1. \A i \in 1 .. n, x \in Seq(Dated) : Append(x, s[i]) \in Seq(Dated)
    BY <1>1
  <2>2. QED
    BY <2>1 DEF Steps
<1>3. PICK g : Follows(g, n, Seq(Dated), << >>, step)
  <2> HIDE DEF step, n, F
  <2>1. QED
    BY <1>1, <1>2, FunctionUpTo
<1>4. \A i \in 1 .. n : g[i] = IF s[i].day >= d THEN Append(g[i - 1], s[i]) ELSE g[i - 1]
  <2>1. \A i \in 1 .. n : g[i - 1] \in Seq(Dated)
    BY <1>1, <1>3 DEF Follows
  <2>2. \A i \in 1 .. n :
          step[i][g[i - 1]] = IF s[i].day >= d THEN Append(g[i - 1], s[i]) ELSE g[i - 1]
    BY <2>1
  <2>3. QED
    BY <1>3, <2>2 DEF Follows
<1>5. F(g)
  <2>1. \A i \in 0 .. n : g[i] = IF i = 0 THEN << >>
          ELSE IF s[i].day >= d THEN Append(g[i - 1], s[i]) ELSE g[i - 1]
    <3>1. g[0] = << >>
      BY <1>3 DEF Follows
    <3>2. \A i \in 0 .. n : i # 0 => i \in 1 .. n
      BY <1>1
    <3>3. QED
      BY <1>4, <3>1, <3>2
  <2>2. QED
    BY <2>1, <1>3 DEF Follows
<1> DEFINE f == CHOOSE h : F(h)
<1>6. F(f)
  BY <1>5
<1>7. Since(s, d) = f[n]
  BY DEF Since
<1> HIDE DEF f
<1>8. /\ f[0] = << >>
      /\ \A i \in 1 .. n : f[i] = IF s[i].day >= d THEN Append(f[i - 1], s[i]) ELSE f[i - 1]
  <2>1. 0 \in 0 .. n /\ \A i \in 1 .. n : i \in 0 .. n /\ i # 0
    BY <1>1
  <2>2. QED
    BY <1>6, <2>1
<1>9. \A i \in 0 .. n : f[i] \in Seq(Dated)
  <2> DEFINE T == {i \in Nat : i <= n => f[i] \in Seq(Dated)}
  <2>1. 0 \in T
    BY <1>8, <1>1
  <2>2. ASSUME NEW i \in Nat, i \in T PROVE i + 1 \in T
    <3>1. SUFFICES ASSUME i + 1 <= n PROVE f[i + 1] \in Seq(Dated)
      OBVIOUS
    <3>2. f[i] \in Seq(Dated) /\ s[i + 1] \in Dated
      BY <2>2, <3>1, <1>1
    <3>3. f[i + 1] = IF s[i + 1].day >= d THEN Append(f[i], s[i + 1]) ELSE f[i]
      BY <1>8, <3>1, <1>1
    <3>4. QED
      BY <3>2, <3>3
  <2> HIDE DEF T
  <2>3. Nat \subseteq T
    BY <2>1, <2>2, Induct
  <2>4. QED
    BY <2>3, <1>1 DEF T
<1>10. f \in [0 .. n -> Seq(Dated)]
  BY <1>6, <1>9
<1>11. Filters(f, s, d)
  BY <1>1, <1>8, <1>10 DEF Filters
<1>12. QED
  BY <1>7, <1>11

\* Of lines in order, those since a day are the last ones.
LEMMA SinceIsRest ==
  ASSUME NEW s \in Seq(Dated), NEW d \in Int, NEW k, Split(s, d, k)
  PROVE  Since(s, d) = SubSeq(s, k + 1, Len(s))
<1> DEFINE n == Len(s)
<1>1. PICK f : Filters(f, s, d) /\ Since(s, d) = f[n]
  BY SinceFilters
<1>2. n \in Nat /\ k \in 0 .. n
  BY DEF Split
<1> DEFINE T == {i \in Nat : i <= n => f[i] = SubSeq(s, k + 1, i)}
<1>3. 0 \in T
  BY <1>1, <1>2 DEF Filters
<1>4. ASSUME NEW i \in Nat, i \in T PROVE i + 1 \in T
  <2>1. SUFFICES ASSUME i + 1 <= n PROVE f[i + 1] = SubSeq(s, k + 1, i + 1)
    OBVIOUS
  <2>2. f[i] = SubSeq(s, k + 1, i)
    BY <1>2, <1>4, <2>1
  <2>3. i + 1 \in 1 .. n /\ (i + 1) - 1 = i
    BY <1>2, <2>1
  <2>4. f[i + 1] = IF s[i + 1].day >= d THEN Append(f[i], s[i + 1]) ELSE f[i]
    BY <1>1, <2>3 DEF Filters
  <2>5. CASE i + 1 <= k
    <3>1. s[i + 1].day < d /\ s[i + 1].day \in Nat
      <4>1. s[i + 1] \in Dated /\ i + 1 \in 1 .. k
        BY <2>3, <2>5, <1>2
      <4>2. QED
        BY <4>1 DEF Split, Dated
    <3>2. f[i + 1] = f[i]
      BY <2>4, <3>1
    <3>3. SubSeq(s, k + 1, i) = << >> /\ SubSeq(s, k + 1, i + 1) = << >>
      BY <1>2, <2>5
    <3>4. QED
      BY <2>2, <3>2, <3>3
  <2>6. CASE i + 1 > k
    <3>1. s[i + 1].day >= d
      BY <2>3, <2>6, <1>2 DEF Split
    <3>2. f[i + 1] = Append(SubSeq(s, k + 1, i), s[i + 1])
      BY <2>2, <2>4, <3>1
    <3>3. Append(SubSeq(s, k + 1, i), s[i + 1]) = SubSeq(s, k + 1, i + 1)
      BY <1>2, <2>1, <2>6
    <3>4. QED
      BY <3>2, <3>3
  <2>7. QED
    BY <1>2, <2>5, <2>6
<1> HIDE DEF T
<1>5. n \in T
  BY <1>2, <1>3, <1>4, Induct
<1>6. QED
  BY <1>1, <1>5, <1>2 DEF T

\* What the file holds of the lines w ever written: the newest, no more than
\* fit, none too old, and every one that is neither too many nor too old.
FileOf(f, w) ==
  /\ Len(f) <= Len(w) /\ Len(f) <= LogLimit
  /\ f = SubSeq(w, Len(w) - Len(f) + 1, Len(w))
  /\ Len(w) > 0 =>
       /\ \A i \in Len(w) - Len(f) + 1 .. Len(w) : w[i].day >= w[Len(w)].day - MaxAge
       /\ \/ Len(f) = LogLimit \/ Len(f) = Len(w)
          \/ w[Len(w) - Len(f)].day < w[Len(w)].day - MaxAge

LEMMA RestOfRest ==
  ASSUME NEW S, NEW w \in Seq(S), NEW n \in Nat, n = Len(w), NEW a \in Nat, 1 <= a, a <= n,
         NEW l \in Nat, l = n - a + 1, NEW b \in Nat, 1 <= b, b <= l,
         NEW c \in Nat, c = a + b - 1
  PROVE  SubSeq(SubSeq(w, a, n), b, l) = SubSeq(w, c, n)
OBVIOUS

LEMMA AppendRest ==
  ASSUME NEW S, NEW v \in Seq(S), NEW x \in S, NEW n \in Nat, n = Len(v),
         NEW a \in Nat, 1 <= a, a <= n + 1
  PROVE  Append(SubSeq(v, a, n), x) = SubSeq(Append(v, x), a, n + 1)
OBVIOUS

LEMMA RestLength ==
  ASSUME NEW S, NEW w \in Seq(S), NEW n \in Nat, n = Len(w), NEW a \in Nat, 1 <= a, a <= n + 1,
         NEW l \in Nat, l = n - a + 1
  PROVE  SubSeq(w, a, n) \in Seq(S) /\ Len(SubSeq(w, a, n)) = l
OBVIOUS

\* The newest lines are the last ones, as many as fit.
LEMMA NewestIs ==
  ASSUME NEW S, NEW s \in Seq(S), NEW n \in Nat, NEW l \in Nat, l = Len(s),
         l <= LogLimit => n = l, l > LogLimit => n = LogLimit
  PROVE  NewestOf(s) = SubSeq(s, l - n + 1, l)
<1>1. LogLimit \in Nat /\ LogLimit > 0
  BY GatewayAssumption
<1> DEFINE x == l - LogLimit + 1
           M == Max({1, x})
<1>2. x \in Int
  BY <1>1
<1>3. M \in {1, x} /\ \A y \in {1, x} : M >= y
  <2> HIDE DEF x
  <2>1. \E m \in {1, x} : \A y \in {1, x} : m >= y
    BY <1>2
  <2>2. QED
    BY <2>1 DEF Max
<1>4. NewestOf(s) = SubSeq(s, M, l)
  BY DEF NewestOf
<1> HIDE DEF M
<1>5. M >= 1 /\ M >= x /\ (M = 1 \/ M = x)
  BY <1>3
<1>6. M = l - n + 1
  <2>1. CASE l <= LogLimit
    BY <1>1, <1>2, <1>5, <2>1
  <2>2. CASE l > LogLimit
    BY <1>1, <1>2, <1>5, <2>2
  <2>3. QED
    BY <1>1, <2>1, <2>2
<1>7. QED
  BY <1>4, <1>6

LEMMA DatedDays ==
  ASSUME NEW s \in Seq(Dated)
  PROVE  Len(s) \in Nat /\ \A i \in 1 .. Len(s) : s[i] \in Dated /\ s[i].day \in Nat
<1>1. \A l \in Dated : l.day \in Nat
  BY DEF Dated
<1>2. Len(s) \in Nat /\ \A i \in 1 .. Len(s) : s[i] \in Dated
  OBVIOUS
<1>3. QED
  BY <1>1, <1>2

\* The last e of n lines are what the file should hold, when all are recent
\* and one more would be too many, or too old.
LEMMA LastOnes ==
  ASSUME NEW w \in Seq(Dated), NEW n \in Nat, n = Len(w), n > 0, NEW m \in Int,
         m = w[n].day - MaxAge, NEW k \in 0 .. n, Split(w, m, k),
         NEW e \in Nat, e <= n, e <= LogLimit, k <= n - e,
         e = LogLimit \/ e = n \/ w[n - e].day < m
  PROVE  FileOf(SubSeq(w, n - e + 1, n), w) /\ SubSeq(w, n - e + 1, n) \in Seq(Dated)
<1> DEFINE s == SubSeq(w, n - e + 1, n)
<1>1. s \in Seq(Dated) /\ Len(s) = e
  OBVIOUS
<1>2. \A i \in n - e + 1 .. n : w[i].day >= m
  <2>1. \A i \in n - e + 1 .. n : i \in k + 1 .. n
    OBVIOUS
  <2>2. QED
    BY <2>1 DEF Split
<1>3. s = SubSeq(w, Len(w) - Len(s) + 1, Len(w))
  BY <1>1
<1> HIDE DEF s
<1>4. FileOf(s, w)
  BY <1>1, <1>2, <1>3 DEF FileOf
<1>5. QED
  BY <1>1, <1>4 DEF s

LEMMA TrimOf ==
  ASSUME NEW w \in Seq(Dated), Ordered(w), NEW n \in Nat, n = Len(w), n > 0,
         NEW m \in Int, m = w[n].day - MaxAge, m = clock - MaxAge, w[n].day >= m,
         NEW l \in Nat, l <= n, l > 0, file = SubSeq(w, n - l + 1, n),
         l <= LogLimit => l = n \/ w[n - l].day < m
  PROVE  FileOf(Trimmed, w) /\ Trimmed \in Seq(Dated)
<1>1. LogLimit \in Nat /\ LogLimit > 0 /\ \A i \in 1 .. n : w[i].day \in Nat
  BY GatewayAssumption, DatedDays
<1>2. PICK k : Split(w, m, k)
  BY SplitPoint
<1>3. k \in 0 .. n - 1
  <2>1. k \in 0 .. n /\ (k = n => w[n].day < m)
    BY <1>2 DEF Split
  <2>2. w[n].day \in Nat
    BY <1>1
  <2>3. QED
    BY <2>1, <2>2
<1>4. /\ Len(file) = l /\ file \in Seq(Dated)
      /\ \A i \in 1 .. l : file[i] = w[n - l + i]
  OBVIOUS
<1>5. file[1].day = w[n - l + 1].day
  BY <1>4
<1>6. CASE l <= LogLimit /\ ~ (w[n - l + 1].day < m)
  <2>1. Trimmed = file
    BY <1>1, <1>4, <1>5, <1>6 DEF Trimmed
  <2>2. k <= n - l
    <3>1. SUFFICES ASSUME k >= n - l + 1 PROVE FALSE
      BY <1>3
    <3>2. n - l + 1 \in 1 .. k
      BY <1>3, <3>1
    <3>3. QED
      BY <1>2, <1>6, <3>2 DEF Split
  <2>3. k \in 0 .. n
    BY <1>3
  <2>4. FileOf(SubSeq(w, n - l + 1, n), w)
    BY <1>2, <1>6, <2>2, <2>3, LastOnes
  <2>5. QED
    BY <1>4, <2>1, <2>4
<1>7. CASE ~ (l <= LogLimit /\ ~ (w[n - l + 1].day < m))
  <2> DEFINE j == IF k <= n - l THEN 0 ELSE k - (n - l)
             b == n - l + j
             g == Since(file, m)
             e == IF n - b <= LogLimit THEN n - b ELSE LogLimit
  <2>1. Trimmed = NewestOf(g)
    BY <1>1, <1>4, <1>5, <1>7 DEF Trimmed
  <2>2. /\ j \in Nat /\ j <= l /\ b \in Nat /\ b < n /\ k <= b /\ b = n - l + j
        /\ (j = 0 /\ k <= n - l) \/ b = k
    BY <1>3
  <2>3. e \in Nat /\ e <= n - b /\ e <= LogLimit /\ e <= n /\ (e # LogLimit => e = n - b)
        /\ (n - b <= LogLimit => e = n - b) /\ (n - b > LogLimit => e = LogLimit)
    BY <1>1, <2>2
  <2> HIDE DEF j, b, e
  <2>4. Split(file, m, j)
    <3>1. \A i \in 1 .. j : file[i].day < m
      <4>1. SUFFICES ASSUME NEW i \in 1 .. j PROVE file[i].day < m
        OBVIOUS
      <4>2. i \in 1 .. l /\ n - l + i \in 1 .. k
        BY <1>3, <2>2, <4>1
      <4>3. QED
        BY <1>2, <1>4, <4>2 DEF Split
    <3>2. \A i \in j + 1 .. l : file[i].day >= m
      <4>1. SUFFICES ASSUME NEW i \in j + 1 .. l PROVE file[i].day >= m
        OBVIOUS
      <4>2. i \in 1 .. l /\ n - l + i \in k + 1 .. n
        BY <1>3, <2>2, <4>1
      <4>3. QED
        BY <1>2, <1>4, <4>2 DEF Split
    <3>3. Len(file) = l /\ j \in 0 .. l
      BY <1>4, <2>2
    <3>4. QED
      BY <3>1, <3>2, <3>3 DEF Split
  <2>5. g = SubSeq(file, j + 1, l)
    <3>1. Since(file, m) = SubSeq(file, j + 1, Len(file))
      BY <1>4, <2>4, SinceIsRest
    <3>2. QED
      BY <1>4, <3>1
  <2>6. g = SubSeq(w, b + 1, n) /\ Len(g) = n - b /\ g \in Seq(Dated)
    <3>1. /\ n - l + 1 \in Nat /\ 1 <= n - l + 1 /\ n - l + 1 <= n /\ l = n - (n - l + 1) + 1
          /\ j + 1 \in Nat /\ 1 <= j + 1 /\ j + 1 <= l
          /\ b + 1 \in Nat /\ b + 1 = (n - l + 1) + (j + 1) - 1
          /\ 1 <= b + 1 /\ b + 1 <= n + 1 /\ n - b \in Nat /\ n - b = n - (b + 1) + 1
      BY <2>2
    <3>2. SubSeq(SubSeq(w, n - l + 1, n), j + 1, l) = SubSeq(w, b + 1, n)
      <4> DEFINE a == n - l + 1
                 d == j + 1
                 c == b + 1
      <4>1. /\ a \in Nat /\ 1 <= a /\ a <= n /\ l = n - a + 1 /\ d \in Nat /\ 1 <= d /\ d <= l
            /\ c \in Nat /\ c = a + d - 1
        BY <3>1
      <4> HIDE DEF a, d, c
      <4>2. SubSeq(SubSeq(w, a, n), d, l) = SubSeq(w, c, n)
        BY <4>1, RestOfRest
      <4>3. QED
        BY <4>2 DEF a, d, c
    <3>3. SubSeq(w, b + 1, n) \in Seq(Dated) /\ Len(SubSeq(w, b + 1, n)) = n - b
      BY <3>1, RestLength
    <3>4. g = SubSeq(w, b + 1, n)
      BY <2>5, <3>2
    <3>5. QED
      BY <3>3, <3>4
  <2>7. NewestOf(g) = SubSeq(g, (n - b) - e + 1, n - b)
    <3>1. n - b \in Nat
      BY <2>2
    <3>2. QED
      BY <2>3, <2>6, <3>1, NewestIs
  <2>8. NewestOf(g) = SubSeq(w, n - e + 1, n)
    <3>1. e > 0
      BY <1>1, <2>2, <2>3
    <3>2. /\ b + 1 \in Nat /\ 1 <= b + 1 /\ b + 1 <= n /\ n - b \in Nat /\ n - b = n - (b + 1) + 1
          /\ (n - b) - e + 1 \in Nat /\ 1 <= (n - b) - e + 1 /\ (n - b) - e + 1 <= n - b
          /\ n - e + 1 \in Nat /\ n - e + 1 = (b + 1) + ((n - b) - e + 1) - 1
      BY <2>2, <2>3, <3>1
    <3>3. SubSeq(SubSeq(w, b + 1, n), (n - b) - e + 1, n - b) = SubSeq(w, n - e + 1, n)
      <4> DEFINE a == b + 1
                 h == n - b
                 d == (n - b) - e + 1
                 c == n - e + 1
      <4>1. /\ a \in Nat /\ 1 <= a /\ a <= n /\ h \in Nat /\ h = n - a + 1
            /\ d \in Nat /\ 1 <= d /\ d <= h /\ c \in Nat /\ c = a + d - 1
        BY <3>2
      <4> HIDE DEF a, d, c, h
      <4>2. SubSeq(SubSeq(w, a, n), d, h) = SubSeq(w, c, n)
        BY <4>1, RestOfRest
      <4>3. QED
        BY <4>2 DEF a, d, c, h
    <3>4. QED
      BY <2>6, <2>7, <3>3
  <2>9. e = LogLimit \/ e = n \/ w[n - e].day < m
    <3>1. SUFFICES ASSUME e # LogLimit, e # n PROVE w[n - e].day < m
      OBVIOUS
    <3>a. e = n - b
      BY <2>3, <3>1
    <3>2. e = n - b /\ n - e = b
      BY <2>2, <3>a
    <3>3. CASE j = 0 /\ k <= n - l
      <4>1. e = l /\ l <= LogLimit /\ l # n
        BY <2>2, <2>3, <3>1, <3>2, <3>3
      <4>2. QED
        BY <4>1
    <3>4. CASE b = k
      <4>1. k \in 1 .. k
        BY <1>3, <3>1, <3>2, <3>4
      <4>2. QED
        BY <1>2, <3>2, <3>4, <4>1 DEF Split
    <3>5. QED
      BY <2>2, <3>3, <3>4
  <2>10. k <= n - e /\ k \in 0 .. n
    BY <1>3, <2>2, <2>3
  <2>11. FileOf(SubSeq(w, n - e + 1, n), w) /\ SubSeq(w, n - e + 1, n) \in Seq(Dated)
    BY <1>2, <2>3, <2>9, <2>10, LastOnes
  <2>12. QED
    BY <2>1, <2>8, <2>11
<1>8. QED
  BY <1>6, <1>7

\* One more line, and the trim after it, leave the file what it should be.
LEMMA TrimKeeps ==
  ASSUME NEW f \in Seq(Dated), NEW v \in Seq(Dated), NEW x \in Dated, FileOf(f, v),
         NEW w \in Seq(Dated), w = Append(v, x), Ordered(w), x.day = clock, file = Append(f, x)
  PROVE  FileOf(Trimmed, w) /\ Trimmed \in Seq(Dated)
<1> DEFINE n == Len(w)
           l == Len(f) + 1
           m == clock - MaxAge
<1>1. MaxAge \in Nat /\ clock \in Nat /\ m \in Int /\ m <= clock
  BY GatewayAssumption DEF Dated
<1>2. n \in Nat /\ n > 0 /\ n = Len(v) + 1 /\ w[n] = x /\ \A i \in 1 .. Len(v) : w[i] = v[i]
  OBVIOUS
<1>3. l \in Nat /\ l > 0 /\ l <= n /\ f = SubSeq(v, Len(v) - Len(f) + 1, Len(v))
  BY <1>2 DEF FileOf
<1> DEFINE q == Len(v)
           p == Len(f)
<1>4. file = SubSeq(w, n - l + 1, n)
  <2>1. q \in Nat /\ p \in Nat /\ p <= q /\ f = SubSeq(v, q - p + 1, q) /\ n = q + 1 /\ l = p + 1
    BY <1>2, <1>3
  <2> HIDE DEF q, p, n, l
  <2>2. q - p + 1 \in Nat /\ 1 <= q - p + 1 /\ q - p + 1 <= q + 1 /\ n - l + 1 = q - p + 1
    BY <2>1
  <2>3. Append(SubSeq(v, q - p + 1, q), x) = SubSeq(Append(v, x), q - p + 1, q + 1)
    <3> DEFINE a == q - p + 1
    <3>1. a \in Nat /\ 1 <= a /\ a <= q + 1
      BY <2>2
    <3> HIDE DEF a
    <3>2. Append(SubSeq(v, a, q), x) = SubSeq(Append(v, x), a, q + 1)
      BY <2>1, <3>1, AppendRest DEF q
    <3>3. QED
      BY <3>2 DEF a
  <2>4. QED
    BY <2>1, <2>2, <2>3
<1>5. l <= LogLimit => l = n \/ w[n - l].day < m
  <2>1. SUFFICES ASSUME l <= LogLimit, l # n PROVE w[n - l].day < m
    OBVIOUS
  <2>2. LogLimit \in Nat
    BY GatewayAssumption
  <2>3. q \in Nat /\ p \in Nat /\ p <= q /\ n = q + 1 /\ l = p + 1
    BY <1>2, <1>3
  <2>a. q > 0 => p = LogLimit \/ p = q \/ v[q - p].day < v[q].day - MaxAge
    BY DEF FileOf
  <2>b. \A i \in 1 .. q : w[i] = v[i] /\ w[i].day \in Nat /\ i <= n /\ i \in 1 .. n
    BY <1>2, DatedDays
  <2>c. \A i \in 1 .. q : w[i].day <= w[n].day
    BY <1>2, <2>b DEF Ordered
  <2> HIDE DEF q, p, n, l
  <2>4. p # LogLimit /\ p # q /\ q > 0 /\ n - l = q - p /\ q - p \in 1 .. q /\ q \in 1 .. q
    BY <2>1, <2>2, <2>3
  <2>5. w[q - p].day < w[q].day - MaxAge
    BY <2>a, <2>b, <2>4
  <2>6. w[q].day <= w[n].day /\ w[q].day \in Nat /\ w[q - p].day \in Nat
    BY <2>b, <2>c, <2>4
  <2>7. w[n].day = clock
    BY <1>2
  <2>8. w[q - p].day < m
    <3> DEFINE a == w[q - p].day
               b == w[q].day
               c == w[n].day
    <3>1. a \in Nat /\ b \in Nat /\ a < b - MaxAge /\ b <= c /\ c = clock
      BY <2>5, <2>6, <2>7
    <3> HIDE DEF a, b, c
    <3>2. a < m
      BY <1>1, <3>1
    <3>3. QED
      BY <3>2 DEF a
  <2>9. QED
    BY <2>4, <2>8
<1>6. w[n].day = clock /\ n = Len(w)
  BY <1>2
<1>7. m = w[n].day - MaxAge /\ m = clock - MaxAge /\ w[n].day >= m
  BY <1>1, <1>6
<1>a. n \in Nat /\ n > 0 /\ l \in Nat /\ l > 0 /\ l <= n /\ m \in Int
  BY <1>1, <1>2, <1>3
<1> HIDE DEF n, l, m, q, p
<1>8. QED
  BY <1>a, <1>4, <1>5, <1>6, <1>7, TrimOf, ZenonT(60)

LEMMA RestAt ==
  ASSUME NEW S, NEW w \in Seq(S), NEW n \in Nat, n = Len(w), NEW l \in Nat, l <= n,
         NEW a \in Nat, a = n - l + 1
  PROVE  \A i \in 1 .. l : SubSeq(w, a, n)[i] = w[n - l + i]
OBVIOUS

\* The last p lines are a suffix of the last q, if p is no more than q.
LEMMA RestIsSuffix ==
  ASSUME NEW S, NEW s \in Seq(S), NEW t \in Seq(S), NEW p \in Nat, NEW q \in Nat, p <= q,
         Len(s) = p, Len(t) = q, \A i \in 1 .. p : s[i] = t[q - p + i]
  PROVE  IsSuffix(s, t)
<1> DEFINE a == Reverse(s)
           b == Reverse(t)
<1>1. a \in Seq(S) /\ Len(a) = p /\ \A i \in 1 .. p : a[i] = s[p - i + 1]
  <2>1. \A i \in 1 .. p : s[p - i + 1] \in S
    OBVIOUS
  <2>2. a = [i \in 1 .. p |-> s[p - i + 1]]
    BY DEF Reverse
  <2>3. QED
    BY <2>1, <2>2, IsASeq
<1>2. b \in Seq(S) /\ Len(b) = q /\ \A i \in 1 .. q : b[i] = t[q - i + 1]
  <2>1. \A i \in 1 .. q : t[q - i + 1] \in S
    OBVIOUS
  <2>2. b = [i \in 1 .. q |-> t[q - i + 1]]
    BY DEF Reverse
  <2>3. QED
    BY <2>1, <2>2, IsASeq
<1>3. \A i \in 1 .. p : a[i] = b[i]
  <2>1. SUFFICES ASSUME NEW i \in 1 .. p PROVE a[i] = b[i]
    OBVIOUS
  <2>2. p - i + 1 \in 1 .. p /\ i \in 1 .. q /\ q - p + (p - i + 1) = q - i + 1
    OBVIOUS
  <2>3. s[p - i + 1] = t[q - p + (p - i + 1)]
    BY <2>2
  <2>4. QED
    BY <1>1, <1>2, <2>2, <2>3
<1> HIDE DEF a, b
<1>4. SubSeq(a, 1, p) = SubSeq(b, 1, p)
  BY <1>1, <1>2, <1>3
<1>5. QED
  BY <1>1, <1>2, <1>4 DEF a, b, IsSuffix, IsPrefix

\* What the file should hold is what LogIsTrue says of it.
LEMMA FileIsNewest ==
  ASSUME NEW w \in Seq(Dated), Ordered(w), NEW f \in Seq(Dated), FileOf(f, w), NEW t,
         t = Since(w, Last(w).day - MaxAge)
  PROVE  IsSuffix(f, t) /\ Len(f) = Min({LogLimit, Len(t)})
<1>1. LogLimit \in Nat /\ LogLimit > 0 /\ MaxAge \in Nat
  BY GatewayAssumption
<1>2. PICK n : n = Len(w) /\ n \in Nat
  OBVIOUS
<1>3. PICK p : p = Len(f) /\ p \in Nat /\ p <= n /\ f = SubSeq(w, n - p + 1, n)
               /\ f \in Seq(Dated) /\ \A i \in 1 .. p : f[i] = w[n - p + i]
  <2>1. f = SubSeq(w, Len(w) - Len(f) + 1, Len(w)) /\ Len(f) <= Len(w)
    BY DEF FileOf
  <2>2. PICK p : p = Len(f) /\ p \in Nat
    OBVIOUS
  <2>3. p <= n /\ f = SubSeq(w, n - p + 1, n)
    BY <1>2, <2>1, <2>2
  <2>4. \A i \in 1 .. p : SubSeq(w, n - p + 1, n)[i] = w[n - p + i]
    <3> DEFINE a == n - p + 1
    <3>1. a \in Nat /\ a = n - p + 1 /\ n \in Nat /\ n = Len(w) /\ p \in Nat /\ p <= n
      BY <1>2, <2>2, <2>3
    <3> HIDE DEF a
    <3>2. \A i \in 1 .. p : SubSeq(w, a, n)[i] = w[n - p + i]
      BY <3>1, RestAt
    <3>3. QED
      BY <3>1, <3>2
  <2>5. \A i \in 1 .. p : f[i] = w[n - p + i]
    BY <2>3, <2>4
  <2>6. QED
    BY <2>2, <2>3, <2>5
<1>4. \A q \in Nat : (p <= q /\ p <= LogLimit /\ (p = LogLimit \/ p = q)) => p = Min({LogLimit, q})
  <2>1. SUFFICES ASSUME NEW q \in Nat, p <= q, p <= LogLimit, p = LogLimit \/ p = q
                 PROVE  p = Min({LogLimit, q})
    OBVIOUS
  <2> DEFINE M == Min({LogLimit, q})
  <2>2. M \in {LogLimit, q} /\ \A y \in {LogLimit, q} : M <= y
    <3>1. \E z \in {LogLimit, q} : \A y \in {LogLimit, q} : z <= y
      BY <1>1
    <3>2. QED
      BY <3>1 DEF Min
  <2> HIDE DEF M
  <2>3. p = M
    BY <1>1, <1>3, <2>1, <2>2
  <2>4. QED
    BY <2>3 DEF M
<1>5. p <= LogLimit
  BY <1>3 DEF FileOf
<1>6. CASE n = 0
  <2>1. t = << >>
    <3> DEFINE d == Last(w).day - MaxAge
               F(g) == g = [i \in 0 .. 0 |-> IF i = 0 THEN << >>
                              ELSE IF w[i].day >= d THEN Append(g[i - 1], w[i]) ELSE g[i - 1]]
               g == CHOOSE h : F(h)
    <3>1. t = g[0]
      <4>1. Len(w) = 0
        BY <1>2, <1>6
      <4>2. t = Since(w, d)
        OBVIOUS
      <4> HIDE DEF d
      <4>3. QED
        BY <4>1, <4>2 DEF Since
    <3>2. F([i \in 0 .. 0 |-> << >>])
      OBVIOUS
    <3>3. F(g)
      BY <3>2
    <3>4. QED
      BY <3>1, <3>3
  <2>2. t \in Seq(Dated) /\ Len(t) = 0
    <3>1. << >> \in Seq(Dated) /\ Len(<< >>) = 0
      OBVIOUS
    <3>2. QED
      BY <2>1, <3>1
  <2>3. p = 0
    BY <1>3, <1>6
  <2>4. IsSuffix(f, t)
    <3>1. PICK q : q = 0 /\ q \in Nat /\ Len(t) = q /\ p <= q
      BY <2>2, <2>3
    <3>2. \A i \in 1 .. p : f[i] = t[q - p + i]
      BY <2>3
    <3>3. QED
      BY <1>3, <2>2, <3>1, <3>2, RestIsSuffix
  <2>5. QED
    BY <1>3, <1>4, <1>5, <2>2, <2>3, <2>4
<1>7. CASE n > 0
  <2>1. w[n].day \in Nat /\ \A i \in 1 .. n : w[i].day \in Nat
    BY <1>2, <1>7, DatedDays
  <2>2. PICK m : m \in Int /\ m = w[n].day - MaxAge
    BY <1>1, <2>1
  <2>3. PICK k : Split(w, m, k)
    BY <2>2, SplitPoint
  <2>4. k \in 0 .. n
    BY <1>2, <2>3 DEF Split
  <2>5. t = SubSeq(w, k + 1, n)
    <3>1. t = Since(w, m)
      BY <1>2, <2>2 DEF Last
    <3>2. QED
      BY <1>2, <2>2, <2>3, <3>1, SinceIsRest
  <2>6. t \in Seq(Dated) /\ Len(t) = n - k /\ \A i \in 1 .. n - k : t[i] = w[k + i]
    <3> DEFINE a == k + 1
               l == n - k
    <3>1. /\ a \in Nat /\ l \in Nat /\ l <= n /\ a = n - l + 1 /\ 1 <= a /\ a <= n + 1
          /\ l = n - a + 1 /\ n - l = k
      BY <1>2, <2>4
    <3> HIDE DEF l
    <3>2. t = SubSeq(w, a, n)
      BY <2>5
    <3> HIDE DEF a
    <3>3. SubSeq(w, a, n) \in Seq(Dated) /\ Len(SubSeq(w, a, n)) = l
      BY <1>2, <3>1, RestLength
    <3>4. \A i \in 1 .. l : SubSeq(w, a, n)[i] = w[n - l + i]
      BY <1>2, <3>1, RestAt
    <3>5. t \in Seq(Dated) /\ Len(t) = l /\ \A i \in 1 .. l : t[i] = w[k + i]
      BY <3>1, <3>2, <3>3, <3>4
    <3>6. QED
      BY <3>5 DEF l
  <2>7. /\ \A i \in n - p + 1 .. n : w[i].day >= m
        /\ p = LogLimit \/ p = n \/ w[n - p].day < m
    BY <1>2, <1>3, <1>7, <2>2 DEF FileOf
  <2>8. k <= n - p
    <3>1. SUFFICES ASSUME k >= n - p + 1 PROVE FALSE
      BY <1>3, <2>4
    <3>2. k \in 1 .. k /\ k \in n - p + 1 .. n /\ k \in 1 .. n
      BY <1>3, <2>4, <3>1
    <3>3. w[k].day < m /\ w[k].day >= m /\ w[k].day \in Nat
      BY <2>1, <2>3, <2>7, <3>2 DEF Split
    <3>4. QED
      BY <2>2, <3>3
  <2>9. p = LogLimit \/ p = n - k
    <3>1. SUFFICES ASSUME p # LogLimit, p # n - k PROVE FALSE
      OBVIOUS
    <3>2. p # n /\ w[n - p].day < m
      BY <1>2, <1>3, <2>4, <2>7, <2>8, <3>1
    <3>3. n - p \in k + 1 .. n /\ n - p \in 1 .. n
      BY <1>2, <1>3, <2>4, <2>8, <3>1, <3>2
    <3>4. w[n - p].day >= m /\ w[n - p].day \in Nat
      BY <1>2, <2>1, <2>3, <3>3 DEF Split
    <3>5. QED
      BY <2>2, <3>2, <3>4
  <2>10. IsSuffix(f, t)
    <3>1. PICK q : q = n - k /\ q \in Nat /\ p <= q
      BY <1>3, <2>4, <2>8
    <3>2. \A i \in 1 .. p : f[i] = t[q - p + i]
      <4>1. SUFFICES ASSUME NEW i \in 1 .. p PROVE f[i] = t[q - p + i]
        OBVIOUS
      <4>2. q - p + i \in 1 .. n - k /\ k + (q - p + i) = n - p + i
        BY <1>2, <1>3, <2>4, <3>1
      <4>3. QED
        BY <1>3, <2>6, <4>2
    <3>3. QED
      BY <1>3, <2>6, <3>1, <3>2, RestIsSuffix
  <2>11. n - k \in Nat /\ p <= n - k
    BY <1>2, <1>3, <2>4, <2>8
  <2>12. QED
    BY <1>3, <1>4, <1>5, <2>6, <2>9, <2>10, <2>11
<1>8. QED
  BY <1>2, <1>6, <1>7

-----------------------------------------------------------------------------
(* The invariant.                                                           *)

Answers == Statuses \cup {BadGateway, 404, None}

Outcomes == {"disabled", "bypassed_error", "observed", "bypassed_ineligible", "transformed"}

Metrics == [outcome : Outcomes, eligible : Nat, transformed : Nat,
            before : Nat \cup {None}, after : Nat \cup {None}] \cup {None}

Handler == [pc : {"new", "body", "fetch", "read", "drain", "logging", "done"},
            kind : Kinds, day : Nat, conn : {"there", "left", "closed"},
            up : {"none", "open", "over", "aborted"}, chunks : 0 .. MaxChunks,
            buffer : 0 .. HighWater, status : Answers, seen : Answers,
            sent : Nat \cup {None}, metric : Metrics,
            next : {"return", "answer", "refuse", "destroy"}, unlogged : BOOLEAN]

\* What metric m says of a body of b bytes, of which s were forwarded, is so.
Honest(m, s, b) ==
  m # None =>
    /\ Accepted(m)
    /\ IF m.outcome = "transformed"
       THEN b = m.before /\ s = m.after /\ m.after < m.before
       ELSE s = b

\* A request in state q, on day c: how far it is, and what its client knows.
Sound(q, c) ==
  /\ q.day <= c
  /\ q.pc \in {"body", "fetch", "read", "logging"} => q.day = c
  /\ q.pc = "drain" /\ q.conn # "closed" => q.day = c
  /\ q.pc \in {"new", "body"} => q.seen = None /\ q.sent = None /\ q.metric = None
                                 /\ q.buffer = 0
  /\ q.pc \in {"fetch", "read", "drain", "logging"} => q.sent # None
  /\ q.pc = "fetch" => q.seen = None /\ q.buffer = 0
  /\ q.pc = "read" => q.buffer < HighWater
  /\ q.pc \in {"read", "drain"} => q.status \in Statuses /\ q.seen \in {None, q.status}
  /\ q.pc = "logging" =>
       /\ q.status \in Statuses \cup {BadGateway} /\ q.seen \in {None, q.status}
       /\ q.next \in {"return", "destroy"} /\ q.seen = None => q.conn # "there"

\* The requests in the queue are those that are being logged, each once.
QueueOK ==
  /\ queue \in Seq(Reqs)
  /\ \A i, j \in 1 .. Len(queue) : queue[i] = queue[j] => i = j
  /\ \A r \in Reqs : At(r, "logging") <=> \E i \in 1 .. Len(queue) : queue[i] = r
  /\ appended => /\ queue # << >>
                 /\ Len(written) > 0
                 /\ written[Len(written)] = Line(Head(queue))

\* A request has no line before it is logged, and one line afterwards.
LinesOK ==
  \A r \in Reqs :
    /\ req[r].pc \notin {"logging", "done"} =>
         \A i \in 1 .. Len(written) : written[i].req # r
    /\ At(r, "logging") =>
         \A i \in 1 .. Len(written) :
           written[i].req = r <=> appended /\ i = Len(written) /\ Head(queue) = r
    /\ At(r, "done") /\ req[r].sent # None /\ ~req[r].unlogged =>
         \E i \in 1 .. Len(written) :
           /\ \A j \in 1 .. Len(written) : written[j].req = r <=> j = i
           /\ req[r].seen \in {None, written[i].status}
           /\ req[r].seen = None => req[r].conn # "there"

\* The file is what it should be of the lines written, but for the line whose
\* trim is under way.
Pending == \E f, v \in Seq(Dated), x \in Dated :
             /\ file = Append(f, x)
             /\ written = Append(v, x)
             /\ FileOf(f, v)
             /\ x.day = clock

LogOK ==
  /\ written \in Seq(Dated)
  /\ file \in Seq(Dated)
  /\ Ordered(written)
  /\ \A i \in 1 .. Len(written) : written[i].day <= clock
  /\ ~appended => FileOf(file, written)
  /\ appended => Pending

StateOK ==
  /\ input \in Inputs
  /\ clock \in 0 .. MaxDay
  /\ appended \in BOOLEAN
  /\ req \in [Reqs -> Handler]
  /\ \A r \in Reqs : Sound(req[r], clock) /\ Honest(req[r].metric, req[r].sent, BytesBefore)

Inv == StateOK /\ QueueOK /\ LinesOK /\ LogOK

-----------------------------------------------------------------------------
(* What is forwarded, and what the log says of it.                          *)

LEMMA Constants ==
  /\ HighWater \in Nat /\ HighWater > 0 /\ LogLimit \in Nat /\ LogLimit > 0
  /\ MaxAge \in Nat /\ MaxDay \in Nat /\ MaxChunks \in Nat /\ None \notin Nat
  /\ Statuses \subseteq Nat /\ BadGateway \in Nat /\ 404 \in Nat
  /\ {Overhead, Escapes, HeadBytes, TailBytes} \subseteq Nat
BY GatewayAssumption DEF BadGateway

LEMMA EnvelopeType ==
  ASSUME NEW x \in ToolResult
  PROVE  EnvelopeSize(x) \in Nat
<1>1. x.size \in Nat /\ x.width \in 1 .. 4
  BY DEF ToolResult
<1>2. ASSUME NEW max \in Nat PROVE Preserved(x, max) \in Nat
  <2>1. PICK w \in 1 .. 4 : w = x.width
    BY <1>1
  <2>2. max \div w \in Nat
    <3>1. CASE w = 1
      BY <3>1
    <3>2. CASE w = 2
      BY <3>2
    <3>3. CASE w = 3
      BY <3>3
    <3>4. CASE w = 4
      BY <3>4
    <3>5. QED
      BY <3>1, <3>2, <3>3, <3>4
  <2>3. (max \div w) * w \in Nat
    BY <2>2
  <2>4. QED
    BY <1>1, <2>1, <2>3 DEF Preserved
<1>3. Preserved(x, HeadBytes) \in Nat /\ Preserved(x, TailBytes) \in Nat
  BY <1>2, Constants
<1>4. QED
  BY <1>3, Constants DEF EnvelopeSize

LEMMA BodyTypes ==
  ASSUME input \in Inputs
  PROVE  BytesBefore \in Nat /\ BytesAfter \in Nat
<1>1. input \in RequestBody
  BY GatewayAssumption
<1>2. input.slack \in Nat /\ input.results \in Seq(ToolResult)
  BY <1>1 DEF RequestBody
<1>3. PICK n \in Nat : n = Len(input.results) /\ DOMAIN input.results = 1 .. n
  BY <1>2
<1>4. \A i \in 1 .. n : input.results[i] \in ToolResult
  BY <1>2, <1>3
<1> DEFINE sizes == [i \in 1 .. n |-> input.results[i].size]
           afters == [i \in 1 .. n |-> SizeAfter(input.results[i])]
<1>5. sizes \in [1 .. n -> Nat]
  BY <1>4 DEF ToolResult
<1>6. afters \in [1 .. n -> Nat]
  <2>1. SUFFICES ASSUME NEW i \in 1 .. n PROVE SizeAfter(input.results[i]) \in Nat
    OBVIOUS
  <2>2. EnvelopeSize(input.results[i]) \in Nat /\ input.results[i].size \in Nat
    BY <1>4, EnvelopeType DEF ToolResult
  <2>3. QED
    BY <2>2, Constants DEF SizeAfter
<1>7. BytesBefore = input.slack + Total(sizes) /\ BytesAfter = Total(afters)
  BY <1>3 DEF BytesBefore, BytesAfter
<1> HIDE DEF sizes, afters
<1>8. Total(sizes) \in Nat /\ Total(afters) \in Nat
  BY <1>5, <1>6, TotalType
<1>9. QED
  BY <1>2, <1>7, <1>8

LEMMA MetricIsHonest ==
  ASSUME NEW o \in Outcomes, NEW x \in Nat, NEW y \in Nat, y <= x,
         NEW p \in Nat \cup {None}, NEW q \in Nat \cup {None}, NEW s, NEW b,
         o = "transformed" => y > 0 /\ b = p /\ s = q /\ q < p,
         o # "transformed" => s = b, p # None => p - q >= 0
  PROVE  LET m == Metric(o, x, y, p, q) IN m \in Metrics /\ Honest(m, s, b)
<1> DEFINE m == Metric(o, x, y, p, q)
<1>1. /\ m.outcome = o /\ m.eligible = x /\ m.transformed = y /\ m.before = p /\ m.after = q
      /\ m \in Metrics
  BY DEF Metric, Metrics
<1> HIDE DEF m
<1>2. Accepted(m)
  BY <1>1 DEF Accepted
<1>3. Honest(m, s, b)
  BY <1>1, <1>2 DEF Honest
<1>4. QED
  BY <1>1, <1>3 DEF m

\* The metric of a request that was read is honest.
LEMMA TransformedIsHonest ==
  ASSUME input \in Inputs
  PROVE  /\ Transformed.sent \in Nat
         /\ Transformed.metric \in Metrics
         /\ Honest(Transformed.metric, Transformed.sent, BytesBefore)
<1> DEFINE I == DOMAIN input.results
           E == {i \in I : IsCandidate(input.results[i])}
           C == {i \in I : Replaced(input.results[i])}
           e == Cardinality(E)
           c == Cardinality(C)
<1>1. e \in Nat /\ c \in Nat /\ c <= e
  <2>1. IsFiniteSet(I)
    <3>1. input.results \in Seq(ToolResult)
      BY GatewayAssumption DEF RequestBody
    <3>2. PICK n \in Nat : I = 1 .. n
      BY <3>1
    <3>3. QED
      BY <3>2, FS_Interval
  <2>2. IsFiniteSet(E)
    BY <2>1, FS_Subset
  <2>3. C \subseteq E
    BY DEF Replaced
  <2> HIDE DEF E, C
  <2>4. IsFiniteSet(C) /\ c <= e
    BY <2>2, <2>3, FS_Subset
  <2>5. QED
    BY <2>2, <2>4, FS_CardinalityType
<1> HIDE DEF e, c
<1>2. PICK b : b = BytesBefore /\ b \in Nat /\ b # None
  BY BodyTypes, Constants
<1>3. PICK a : a = BytesAfter /\ a \in Nat /\ a # None
  BY BodyTypes, Constants
<1> DEFINE t == Transformed
<1>4. \/ t = [sent |-> b, metric |-> Metric("disabled", 0, 0, None, None)]
      \/ t = [sent |-> b, metric |-> Metric("bypassed_error", 0, 0, None, None)]
      \/ t = [sent |-> b, metric |-> Metric("observed", e, 0, b, b)]
      \/ t = [sent |-> b, metric |-> Metric("bypassed_ineligible", e, 0, b, b)]
      \/ t = [sent |-> a, metric |-> Metric("transformed", e, c, b, a)] /\ c # 0 /\ a < b
  <2>1. input.mode \in {"off", "observe", "envelope"} /\ input.json \in BOOLEAN
    BY GatewayAssumption DEF RequestBody
  <2>2. CASE input.mode = "off"
    BY <1>2, <2>2 DEF Transformed
  <2>3. CASE input.mode # "off" /\ ~input.json
    BY <1>2, <2>3 DEF Transformed
  <2>4. CASE input.mode = "observe" /\ input.json
    BY <1>2, <2>4 DEF Transformed, e
  <2>5. CASE input.mode = "envelope" /\ input.json /\ (c = 0 \/ ~Gains)
    BY <1>2, <2>5 DEF Transformed, e, c
  <2>6. CASE input.mode = "envelope" /\ input.json /\ c # 0 /\ Gains
    <3>1. a < b
      BY <1>2, <1>3, <2>6 DEF Gains
    <3>2. t = [sent |-> a, metric |-> Metric("transformed", e, c, b, a)]
      BY <1>2, <1>3, <2>6 DEF Transformed, e, c
    <3>3. QED
      BY <2>6, <3>1, <3>2
  <2>7. QED
    BY <2>1, <2>2, <2>3, <2>4, <2>5, <2>6
<1> HIDE DEF t
<1>5. CASE \E o \in {"disabled", "bypassed_error"} :
             t = [sent |-> b, metric |-> Metric(o, 0, 0, None, None)]
  <2>1. PICK o \in Outcomes : /\ t = [sent |-> b, metric |-> Metric(o, 0, 0, None, None)]
                            /\ o # "transformed"
    BY <1>5 DEF Outcomes
  <2>2. Metric(o, 0, 0, None, None) \in Metrics /\ Honest(Metric(o, 0, 0, None, None), b, b)
    <3>1. PICK p \in Nat \cup {None} : p = None
      OBVIOUS
    <3>2. PICK x \in Nat : x = 0 /\ x <= x
      OBVIOUS
    <3>3. Metric(o, x, x, p, p) \in Metrics /\ Honest(Metric(o, x, x, p, p), b, b)
      BY <2>1, <3>1, <3>2, MetricIsHonest
    <3>4. QED
      BY <3>1, <3>2, <3>3
  <2>3. QED
    BY <1>2, <2>1, <2>2 DEF t
<1>6. CASE \E o \in {"observed", "bypassed_ineligible"} :
             t = [sent |-> b, metric |-> Metric(o, e, 0, b, b)]
  <2>1. PICK o \in Outcomes : /\ t = [sent |-> b, metric |-> Metric(o, e, 0, b, b)]
                            /\ o # "transformed"
    BY <1>6 DEF Outcomes
  <2>2. Metric(o, e, 0, b, b) \in Metrics /\ Honest(Metric(o, e, 0, b, b), b, b)
    BY <1>1, <1>2, <2>1, MetricIsHonest
  <2>3. QED
    BY <1>2, <2>1, <2>2 DEF t
<1>7. CASE t = [sent |-> a, metric |-> Metric("transformed", e, c, b, a)] /\ c # 0 /\ a < b
  <2>1. PICK o \in Outcomes : o = "transformed"
    BY DEF Outcomes
  <2>2. Metric(o, e, c, b, a) \in Metrics /\ Honest(Metric(o, e, c, b, a), a, b)
    BY <1>1, <1>2, <1>3, <1>7, <2>1, MetricIsHonest
  <2>3. QED
    BY <1>2, <1>3, <1>7, <2>1, <2>2 DEF t
<1>8. QED
  BY <1>4, <1>5, <1>6, <1>7

-----------------------------------------------------------------------------
(* Steps of one request.                                                    *)

LEMMA SameBytes ==
  ASSUME input' = input
  PROVE  BytesBefore' = BytesBefore
BY DEF BytesBefore

\* The state with one request r in state q.
LEMMA StateStep ==
  ASSUME StateOK, NEW r \in Reqs, NEW q \in Handler, req' = [req EXCEPT ![r] = q],
         UNCHANGED <<input, clock>>, appended' \in BOOLEAN,
         Sound(q, clock), Honest(q.metric, q.sent, BytesBefore)
  PROVE  /\ StateOK'
         /\ req'[r] = q
         /\ \A p \in Reqs : p # r => req'[p] = req[p]
<1>1. req \in [Reqs -> Handler]
  BY DEF StateOK
<1>2. req' \in [Reqs -> Handler] /\ req'[r] = q /\ \A p \in Reqs : p # r => req'[p] = req[p]
  BY <1>1
<1>3. BytesBefore' = BytesBefore
  BY SameBytes
<1>4. ASSUME NEW p \in Reqs
      PROVE  (Sound(req[p], clock) /\ Honest(req[p].metric, req[p].sent, BytesBefore))'
  <2>1. CASE p = r
    BY <1>2, <1>3, <2>1
  <2>2. CASE p # r
    BY <1>2, <1>3, <2>2 DEF StateOK
  <2>3. QED
    BY <2>1, <2>2
<1>5. QED
  BY <1>2, <1>4 DEF StateOK

\* Nothing of a state q of r that the queue and the log depend on is new.
Quiet(r, q) ==
  \/ /\ q.pc = req[r].pc /\ q.pc \in {"logging", "done"}
     /\ q.status = req[r].status /\ q.day = req[r].day /\ q.sent = req[r].sent
     /\ q.unlogged = req[r].unlogged /\ q.seen = req[r].seen
     /\ q.conn = "there" => req[r].conn = "there"
  \/ /\ req[r].pc \notin {"logging", "done"}
     /\ q.pc \notin {"logging", "done"} \/ (q.pc = "done" /\ q.sent = None)

LEMMA QuietStep ==
  ASSUME Inv, NEW r \in Reqs, NEW q \in Handler, req' = [req EXCEPT ![r] = q],
         UNCHANGED <<input, clock, queue, appended, file, written>>,
         Sound(q, clock), Honest(q.metric, q.sent, BytesBefore), Quiet(r, q)
  PROVE  Inv'
<1>1. StateOK' /\ req'[r] = q /\ \A p \in Reqs : p # r => req'[p] = req[p]
  BY StateStep DEF Inv, StateOK
<1>2. QueueOK'
  <2>1. (q.pc = "logging") = (req[r].pc = "logging")
    BY DEF Quiet
  <2>2. \A p \in Reqs : At(p, "logging")' <=> At(p, "logging")
    BY <1>1, <2>1 DEF At
  <2>3. ASSUME appended PROVE Line(Head(queue))' = Line(Head(queue))
    <3>1. PICK h \in Reqs : h = Head(queue) /\ At(h, "logging")
      <4>1. queue \in Seq(Reqs) /\ queue # << >>
        BY <2>3 DEF Inv, QueueOK
      <4>2. Head(queue) = queue[1] /\ 1 \in 1 .. Len(queue) /\ queue[1] \in Reqs
        BY <4>1
      <4>3. QED
        BY <4>2 DEF Inv, QueueOK
    <3>2. req'[h].status = req[h].status /\ req'[h].day = req[h].day
      BY <1>1, <3>1 DEF Quiet, At
    <3>3. QED
      BY <3>1, <3>2 DEF Line
  <2>4. QED
    BY <2>2, <2>3 DEF Inv, QueueOK
<1>3. LinesOK'
  <2>1. SUFFICES ASSUME NEW p \in Reqs
                 PROVE  /\ req'[p].pc \notin {"logging", "done"} =>
                             \A i \in 1 .. Len(written) : written[i].req # p
                        /\ req'[p].pc = "logging" =>
                             \A i \in 1 .. Len(written) :
                               written[i].req = p <=> appended /\ i = Len(written) /\ Head(queue) = p
                        /\ req'[p].pc = "done" /\ req'[p].sent # None /\ ~req'[p].unlogged =>
                             \E i \in 1 .. Len(written) :
                               /\ \A j \in 1 .. Len(written) : written[j].req = p <=> j = i
                               /\ req'[p].seen \in {None, written[i].status}
                               /\ req'[p].seen = None => req'[p].conn # "there"
    BY DEF LinesOK, At
  <2>2. CASE p # r
    BY <1>1, <2>2 DEF Inv, LinesOK, At
  <2>3. CASE p = r
    BY <1>1, <2>3 DEF Inv, LinesOK, At, Quiet
  <2>4. QED
    BY <2>2, <2>3
<1>4. LogOK'
  BY DEF Inv, LogOK, Pending
<1>5. QED
  BY <1>1, <1>2, <1>3, <1>4 DEF Inv

\* The line of a request joins the queue.
LEMMA JoinStep ==
  ASSUME Inv, NEW r \in Reqs, NEW q \in Handler, req' = [req EXCEPT ![r] = q],
         UNCHANGED <<input, clock, appended, file, written>>, queue' = Append(queue, r),
         Sound(q, clock), Honest(q.metric, q.sent, BytesBefore),
         req[r].pc \in {"fetch", "read"}, q.pc = "logging"
  PROVE  Inv'
<1>1. StateOK' /\ req'[r] = q /\ \A p \in Reqs : p # r => req'[p] = req[p]
  BY StateStep DEF Inv, StateOK
<1>2. PICK n \in Nat : n = Len(queue) /\ Len(queue') = n + 1
  BY DEF Inv, QueueOK
<1>3. /\ queue \in Seq(Reqs) /\ queue' \in Seq(Reqs) /\ queue'[n + 1] = r
      /\ \A i \in 1 .. n : queue'[i] = queue[i] /\ queue[i] \in Reqs
  BY <1>2 DEF Inv, QueueOK
<1>4. \A i \in 1 .. n : queue[i] # r
  BY <1>2, <1>3 DEF Inv, QueueOK, At
<1>5. appended => /\ queue # << >> /\ n > 0 /\ Head(queue') = Head(queue)
                  /\ Head(queue) \in Reqs /\ Head(queue) # r
  <2>1. SUFFICES ASSUME appended PROVE /\ queue # << >> /\ n > 0 /\ Head(queue') = Head(queue)
                                       /\ Head(queue) \in Reqs /\ Head(queue) # r
    OBVIOUS
  <2>2. queue # << >> /\ n > 0
    BY <1>2, <1>3, <2>1 DEF Inv, QueueOK
  <2>3. Head(queue) = queue[1] /\ Head(queue') = queue'[1] /\ 1 \in 1 .. n
    BY <1>2, <1>3, <2>2
  <2>4. QED
    BY <1>3, <1>4, <2>2, <2>3
<1>6. QueueOK'
  <2>1. \A i, j \in 1 .. n + 1 : queue'[i] = queue'[j] => i = j
    <3>1. \A i \in 1 .. n + 1 : i = n + 1 \/ i \in 1 .. n
      OBVIOUS
    <3>2. \A i, j \in 1 .. n : queue[i] = queue[j] => i = j
      BY <1>2 DEF Inv, QueueOK
    <3>3. QED
      BY <1>3, <1>4, <3>1, <3>2
  <2>2. ASSUME NEW p \in Reqs
        PROVE  At(p, "logging")' <=> \E i \in 1 .. n + 1 : queue'[i] = p
    <3>1. CASE p = r
      BY <1>1, <1>3, <3>1, n + 1 \in 1 .. n + 1 DEF At
    <3>2. CASE p # r
      <4>1. At(p, "logging")' <=> At(p, "logging")
        BY <1>1, <3>2 DEF At
      <4>2. (\E i \in 1 .. n + 1 : queue'[i] = p) <=> (\E i \in 1 .. n : queue[i] = p)
        <5>1. \A i \in 1 .. n + 1 : i = n + 1 \/ i \in 1 .. n
          OBVIOUS
        <5>2. \A i \in 1 .. n : i \in 1 .. n + 1
          OBVIOUS
        <5>3. QED
          BY <1>3, <3>2, <5>1, <5>2
      <4>3. QED
        BY <1>2, <4>1, <4>2 DEF Inv, QueueOK
    <3>3. QED
      BY <3>1, <3>2
  <2>3. ASSUME appended'
        PROVE  queue' # << >> /\ Len(written') > 0
               /\ written'[Len(written')] = Line(Head(queue))'
    <3>1. Line(Head(queue))' = Line(Head(queue))
      BY <1>1, <1>5, <2>3 DEF Line
    <3>2. QED
      BY <1>2, <1>3, <2>3, <3>1 DEF Inv, QueueOK
  <2>4. QED
    BY <1>2, <1>3, <2>1, <2>2, <2>3 DEF QueueOK
<1>7. LinesOK'
  <2>1. SUFFICES ASSUME NEW p \in Reqs
                 PROVE  /\ req'[p].pc \notin {"logging", "done"} =>
                             \A i \in 1 .. Len(written) : written[i].req # p
                        /\ req'[p].pc = "logging" =>
                             \A i \in 1 .. Len(written) :
                               written[i].req = p <=> appended /\ i = Len(written) /\ Head(queue') = p
                        /\ req'[p].pc = "done" /\ req'[p].sent # None /\ ~req'[p].unlogged =>
                             \E i \in 1 .. Len(written) :
                               /\ \A j \in 1 .. Len(written) : written[j].req = p <=> j = i
                               /\ req'[p].seen \in {None, written[i].status}
                               /\ req'[p].seen = None => req'[p].conn # "there"
    BY DEF LinesOK, At
  <2>2. CASE p # r
    BY <1>1, <1>5, <2>2 DEF Inv, LinesOK, At
  <2>3. CASE p = r
    <3>1. \A i \in 1 .. Len(written) : written[i].req # r
      BY DEF Inv, LinesOK
    <3>2. QED
      BY <1>1, <1>5, <2>3, <3>1
  <2>4. QED
    BY <2>2, <2>3
<1>8. LogOK'
  BY DEF Inv, LogOK, Pending
<1>9. QED
  BY <1>1, <1>6, <1>7, <1>8 DEF Inv

\* No honest line is refused by the schema: every request that is logged joins.
LEMMA LogFinalStep ==
  ASSUME Inv, NEW r \in Reqs, NEW q \in Handler, NEW s \in Statuses \cup {BadGateway},
         NEW next \in {"return", "answer", "refuse", "destroy"},
         LogFinal(r, q, s, next), LogUnchanged, req[r].pc \in {"fetch", "read"},
         q.day = req[r].day, q.sent = req[r].sent, q.metric = req[r].metric,
         q.seen \in {None, s},
         next \in {"return", "destroy"} /\ q.seen = None => q.conn # "there"
  PROVE  Inv'
<1> DEFINE g == [q EXCEPT !.pc = "logging", !.status = s, !.next = next, !.chunks = 0]
<1>1. Sound(req[r], clock) /\ Honest(req[r].metric, req[r].sent, BytesBefore)
  BY DEF Inv, StateOK
<1>2. g \in Handler
  <2>1. s \in Answers /\ 0 \in 0 .. MaxChunks
    BY Constants DEF Answers
  <2>2. QED
    BY <2>1 DEF Handler
<1>3. /\ g.pc = "logging" /\ g.status = s /\ g.next = next /\ g.day = req[r].day
      /\ g.sent = req[r].sent /\ g.metric = req[r].metric /\ g.seen = q.seen /\ g.conn = q.conn
  BY DEF Handler
<1>4. Accepted(q.metric)
  BY <1>1 DEF Honest, Accepted
<1>5. req' = [req EXCEPT ![r] = g] /\ queue' = Append(queue, r)
  BY <1>4 DEF LogFinal
<1> HIDE DEF g
<1>6. Sound(g, clock) /\ Honest(g.metric, g.sent, BytesBefore)
  BY <1>1, <1>3 DEF Sound
<1>7. QED
  BY <1>2, <1>3, <1>5, <1>6, JoinStep DEF LogUnchanged

LEMMA SeenType ==
  ASSUME NEW q \in Handler, NEW s \in Answers
  PROVE  /\ Seen(q, s) \in Answers
         /\ q.seen \in {None, s} => Seen(q, s) \in {None, s}
         /\ s # None /\ Seen(q, s) = None => q.conn # "there"
BY DEF Seen, Handler

\* A step of r alone, by the clients and the handlers, but for the log.
LEMMA OnlyReqStep ==
  ASSUME Inv, NEW r \in Reqs, OnlyReq,
         \/ ClientReads(r) \/ ClientLeaves(r) \/ CloseEvent(r)
         \/ Refuse(r) \/ (\E kind \in Kinds : Arrive(r, kind)) \/ BodyFails(r) \/ BodyRead(r)
         \/ (\E s \in Statuses : StreamHeaders(r, s)) \/ Chunk(r) \/ Drain(r)
  PROVE  Inv'
<1>1. req[r] \in Handler /\ clock \in Nat /\ input \in Inputs /\ req \in [Reqs -> Handler]
  BY Constants DEF Inv, StateOK
<1>2. Sound(req[r], clock) /\ Honest(req[r].metric, req[r].sent, BytesBefore)
  BY DEF Inv, StateOK
<1>3. UNCHANGED <<input, clock, queue, appended, file, written>>
  BY DEF OnlyReq, LogUnchanged
<1>4. PICK o \in Handler : o = req[r]
  BY <1>1
<1>5. SUFFICES \E q \in Handler : /\ req' = [req EXCEPT ![r] = q]
                                  /\ Sound(q, clock) /\ Honest(q.metric, q.sent, BytesBefore)
                                  /\ Quiet(r, q)
  BY <1>3, QuietStep
<1>6. CASE ClientReads(r)
  <2> DEFINE q == [o EXCEPT !.buffer = o.buffer - 1]
  <2>1. req' = [req EXCEPT ![r] = q] /\ o.buffer > 0
    BY <1>1, <1>4, <1>6 DEF ClientReads
  <2>2. q \in Handler
    BY <2>1, Constants DEF Handler
  <2>3. q.buffer = o.buffer - 1 /\ o.buffer \in Nat
        /\ q.pc = o.pc /\ q.conn = o.conn /\ q.day = o.day /\ q.seen = o.seen
        /\ q.sent = o.sent /\ q.metric = o.metric /\ q.status = o.status /\ q.next = o.next
        /\ q.unlogged = o.unlogged
    BY Constants DEF Handler
  <2> HIDE DEF q
  <2>4. Sound(q, clock)
    BY <1>2, <1>4, <2>1, <2>3, Constants DEF Sound
  <2>5. Quiet(r, q)
    BY <1>4, <2>3 DEF Quiet
  <2>6. QED
    BY <1>2, <1>4, <2>1, <2>2, <2>3, <2>4, <2>5
<1>7. CASE ClientLeaves(r)
  <2> DEFINE q == [o EXCEPT !.conn = "left"]
  <2>1. req' = [req EXCEPT ![r] = q]
    BY <1>1, <1>4, <1>7 DEF ClientLeaves
  <2>2. q \in Handler
    BY DEF Handler
  <2>3. q.conn = "left" /\ q.buffer = o.buffer /\ q.pc = o.pc /\ q.day = o.day /\ q.seen = o.seen
        /\ q.sent = o.sent /\ q.metric = o.metric /\ q.status = o.status /\ q.next = o.next
        /\ q.unlogged = o.unlogged
    BY DEF Handler
  <2>0. o.conn = "there"
    BY <1>4, <1>7 DEF ClientLeaves
  <2> HIDE DEF q
  <2>4. Sound(q, clock)
    BY <1>2, <1>4, <2>0, <2>3 DEF Sound
  <2>5. Quiet(r, q)
    BY <1>4, <2>3 DEF Quiet
  <2>6. QED
    BY <1>2, <1>4, <2>1, <2>2, <2>3, <2>4, <2>5
<1>8. CASE CloseEvent(r)
  <2>1. PICK u \in {"none", "open", "over", "aborted"} :
          req' = [req EXCEPT ![r] = [o EXCEPT !.conn = "closed", !.up = u]]
    BY <1>1, <1>4, <1>8 DEF CloseEvent, Handler
  <2> DEFINE q == [o EXCEPT !.conn = "closed", !.up = u]
  <2>2. q \in Handler
    BY DEF Handler
  <2>3. q.conn = "closed" /\ q.buffer = o.buffer /\ q.pc = o.pc /\ q.day = o.day
        /\ q.seen = o.seen /\ q.sent = o.sent /\ q.metric = o.metric /\ q.status = o.status
        /\ q.next = o.next /\ q.unlogged = o.unlogged
    BY DEF Handler
  <2>4. req' = [req EXCEPT ![r] = q]
    BY <2>1
  <2> HIDE DEF q
  <2>5. Sound(q, clock)
    BY <1>2, <1>4, <2>3 DEF Sound
  <2>6. Quiet(r, q)
    BY <1>4, <2>3 DEF Quiet
  <2>7. QED
    BY <1>2, <1>4, <2>2, <2>3, <2>4, <2>5, <2>6
<1>9. CASE Refuse(r)
  <2>0. PICK s \in Answers : s = 404
    BY DEF Answers
  <2> DEFINE q == [o EXCEPT !.pc = "done", !.seen = s]
  <2>1. req' = [req EXCEPT ![r] = q] /\ o.pc = "new"
    BY <1>1, <1>4, <1>9, <2>0 DEF Refuse, At
  <2>2. q \in Handler
    BY DEF Handler
  <2>3. q.pc = "done" /\ q.day = o.day /\ q.sent = o.sent /\ q.metric = o.metric
    BY DEF Handler
  <2> HIDE DEF q
  <2>4. Sound(q, clock) /\ q.sent = None
    BY <1>2, <1>4, <2>1, <2>3 DEF Sound
  <2>5. Quiet(r, q)
    BY <1>4, <2>1, <2>3, <2>4 DEF Quiet
  <2>6. QED
    BY <1>2, <1>4, <2>1, <2>2, <2>3, <2>4, <2>5
<1>10. CASE \E kind \in Kinds : Arrive(r, kind)
  <2>0. PICK kind \in Kinds : Arrive(r, kind)
    BY <1>10
  <2> DEFINE q == [o EXCEPT !.pc = "body", !.kind = kind, !.day = clock]
  <2>1. req' = [req EXCEPT ![r] = q] /\ o.pc = "new"
    BY <1>1, <1>4, <2>0 DEF Arrive, At
  <2>2. q \in Handler
    BY <1>1 DEF Handler
  <2>3. q.pc = "body" /\ q.day = clock /\ q.sent = o.sent /\ q.metric = o.metric
        /\ q.seen = o.seen /\ q.buffer = o.buffer
    BY DEF Handler
  <2> HIDE DEF q
  <2>4. Sound(q, clock)
    BY <1>1, <1>2, <1>4, <2>1, <2>3 DEF Sound
  <2>5. Quiet(r, q)
    BY <1>4, <2>1, <2>3 DEF Quiet
  <2>6. QED
    BY <1>2, <1>4, <2>1, <2>2, <2>3, <2>4, <2>5
<1>11. CASE BodyFails(r)
  <2> DEFINE q == [o EXCEPT !.pc = "done", !.conn = "closed"]
  <2>1. req' = [req EXCEPT ![r] = q] /\ o.pc = "body"
    BY <1>1, <1>4, <1>11 DEF BodyFails, At
  <2>2. q \in Handler
    BY DEF Handler
  <2>3. q.pc = "done" /\ q.day = o.day /\ q.sent = o.sent /\ q.metric = o.metric
    BY DEF Handler
  <2> HIDE DEF q
  <2>4. Sound(q, clock) /\ q.sent = None
    BY <1>2, <1>4, <2>1, <2>3 DEF Sound
  <2>5. Quiet(r, q)
    BY <1>4, <2>1, <2>3, <2>4 DEF Quiet
  <2>6. QED
    BY <1>2, <1>4, <2>1, <2>2, <2>3, <2>4, <2>5
<1>12. CASE BodyRead(r)
  <2>1. PICK sent \in Nat, m \in Metrics :
          /\ req' = [req EXCEPT ![r] = [o EXCEPT !.pc = "fetch", !.up = "open",
                                                 !.sent = sent, !.metric = m]]
          /\ Honest(m, sent, BytesBefore)
    <3>1. CASE req[r].kind = "count"
      <4>1. BytesBefore \in Nat /\ None \in Metrics /\ Honest(None, BytesBefore, BytesBefore)
        BY <1>1, BodyTypes DEF Metrics, Honest
      <4>2. req' = [req EXCEPT ![r] = [o EXCEPT !.pc = "fetch", !.up = "open",
                                                !.sent = BytesBefore, !.metric = None]]
        BY <1>1, <1>4, <1>12, <3>1 DEF BodyRead
      <4>3. QED
        BY <4>1, <4>2
    <3>2. CASE req[r].kind # "count"
      <4>1. req' = [req EXCEPT ![r] = [o EXCEPT !.pc = "fetch", !.up = "open",
                      !.sent = Transformed.sent, !.metric = Transformed.metric]]
        BY <1>1, <1>4, <1>12, <3>2 DEF BodyRead
      <4>2. QED
        BY <1>1, <4>1, TransformedIsHonest
    <3>3. QED
      BY <3>1, <3>2
  <2>2. o.pc = "body" /\ o.conn # "closed"
    BY <1>4, <1>12 DEF BodyRead, At
  <2> DEFINE q == [o EXCEPT !.pc = "fetch", !.up = "open", !.sent = sent, !.metric = m]
  <2>3. q \in Handler
    BY DEF Handler
  <2>4. q.pc = "fetch" /\ q.day = o.day /\ q.sent = sent /\ q.metric = m /\ q.seen = o.seen
        /\ q.buffer = o.buffer
    BY DEF Handler
  <2>5. req' = [req EXCEPT ![r] = q]
    BY <2>1
  <2> HIDE DEF q
  <2>6. Sound(q, clock)
    <3>1. sent # None
      BY Constants
    <3>2. QED
      BY <1>2, <1>4, <2>2, <2>4, <3>1 DEF Sound
  <2>7. Quiet(r, q)
    BY <1>4, <2>2, <2>4 DEF Quiet
  <2>8. QED
    BY <2>1, <2>3, <2>4, <2>5, <2>6, <2>7
<1>13. CASE \E s \in Statuses : StreamHeaders(r, s)
  <2>0. PICK s \in Statuses : StreamHeaders(r, s)
    BY <1>13
  <2> DEFINE q == [o EXCEPT !.pc = "read", !.status = s]
  <2>1. req' = [req EXCEPT ![r] = q] /\ o.pc = "fetch"
    BY <1>1, <1>4, <2>0 DEF StreamHeaders, At
  <2>2. q \in Handler
    <3>1. s \in Answers
      BY DEF Answers
    <3>2. QED
      BY <3>1 DEF Handler
  <2>3. q.pc = "read" /\ q.status = s /\ q.day = o.day /\ q.sent = o.sent /\ q.metric = o.metric
        /\ q.seen = o.seen /\ q.buffer = o.buffer /\ q.conn = o.conn
    BY DEF Handler
  <2> HIDE DEF q
  <2>4. Sound(q, clock)
    BY <1>2, <1>4, <2>1, <2>3, Constants DEF Sound
  <2>5. Quiet(r, q)
    BY <1>4, <2>1, <2>3 DEF Quiet
  <2>6. QED
    BY <1>2, <1>4, <2>1, <2>2, <2>3, <2>4, <2>5
<1>14. CASE Chunk(r)
  <2> DEFINE to == IF o.buffer + 1 < HighWater THEN "read" ELSE "drain"
             see == Seen(o, o.status)
             q == [o EXCEPT !.chunks = o.chunks + 1, !.buffer = o.buffer + 1,
                            !.seen = see, !.pc = to]
  <2>1. req' = [req EXCEPT ![r] = q] /\ o.pc = "read" /\ o.chunks < MaxChunks
    BY <1>1, <1>4, <1>14 DEF Chunk, At
  <2>2. /\ o.buffer \in Nat /\ o.buffer < HighWater /\ o.status \in Statuses
        /\ o.chunks \in Nat /\ o.seen \in {None, o.status}
    BY <1>2, <1>4, <2>1, Constants DEF Sound, Handler
  <2>3. see \in {None, o.status} /\ o.status \in Answers /\ see \in Answers
    BY <2>2, SeenType DEF Answers
  <2>4. to \in {"read", "drain"} /\ (to = "read" => o.buffer + 1 < HighWater)
    OBVIOUS
  <2> HIDE DEF to, see
  <2>5. q \in Handler
    <3>1. o.chunks + 1 \in 0 .. MaxChunks /\ o.buffer + 1 \in 0 .. HighWater
      BY <2>1, <2>2, Constants
    <3>2. QED
      BY <2>3, <2>4, <3>1 DEF Handler
  <2>6. q.pc = to /\ q.status = o.status /\ q.day = o.day /\ q.sent = o.sent
        /\ q.metric = o.metric /\ q.seen = see /\ q.buffer = o.buffer + 1 /\ q.conn = o.conn
    BY DEF Handler
  <2> HIDE DEF q
  <2>7. Sound(q, clock)
    BY <1>2, <1>4, <2>1, <2>2, <2>3, <2>4, <2>6 DEF Sound
  <2>8. Quiet(r, q)
    BY <1>4, <2>1, <2>4, <2>6 DEF Quiet
  <2>9. QED
    BY <1>2, <1>4, <2>1, <2>5, <2>6, <2>7, <2>8
<1>15. CASE Drain(r)
  <2> DEFINE q == [o EXCEPT !.pc = "read"]
  <2>1. req' = [req EXCEPT ![r] = q] /\ o.pc = "drain" /\ o.buffer = 0 /\ o.conn # "closed"
    BY <1>1, <1>4, <1>15 DEF Drain, At
  <2>2. q \in Handler
    BY DEF Handler
  <2>3. q.pc = "read" /\ q.status = o.status /\ q.day = o.day /\ q.sent = o.sent
        /\ q.metric = o.metric /\ q.seen = o.seen /\ q.buffer = o.buffer /\ q.conn = o.conn
    BY DEF Handler
  <2> HIDE DEF q
  <2>4. Sound(q, clock)
    BY <1>2, <1>4, <2>1, <2>3, Constants DEF Sound
  <2>5. Quiet(r, q)
    BY <1>4, <2>1, <2>3 DEF Quiet
  <2>6. QED
    BY <1>2, <1>4, <2>1, <2>2, <2>3, <2>4, <2>5
<1>16. QED
  BY <1>6, <1>7, <1>8, <1>9, <1>10, <1>11, <1>12, <1>13, <1>14, <1>15

\* A step that ends in the log.
LEMMA AnswerStep ==
  ASSUME Inv, NEW r \in Reqs, LogUnchanged,
         \/ FetchFails(r) \/ StreamEnds(r) \/ StreamFails(r)
         \/ (\E s \in Statuses : PlainAnswer(r, s) \/ CountAnswer(r, s))
  PROVE  Inv'
<1>1. PICK o \in Handler : o = req[r]
  BY DEF Inv, StateOK
<1>2. Sound(o, clock)
  BY <1>1 DEF Inv, StateOK
<1> DEFINE up(u) == [o EXCEPT !.up = u]
           told(u, s) == [o EXCEPT !.up = u, !.seen = s]
           Ups == {"none", "open", "over", "aborted"}
<1>3. ASSUME NEW u \in Ups
      PROVE  /\ up(u) \in Handler /\ up(u).day = o.day /\ up(u).sent = o.sent
             /\ up(u).metric = o.metric /\ up(u).seen = o.seen /\ up(u).conn = o.conn
  BY DEF Handler
<1>4. ASSUME NEW u \in Ups, NEW s \in Answers
      PROVE  /\ told(u, s) \in Handler /\ told(u, s).day = o.day /\ told(u, s).sent = o.sent
             /\ told(u, s).metric = o.metric /\ told(u, s).seen = s
             /\ told(u, s).conn = o.conn
  BY DEF Handler
<1> DEFINE see == Seen(o, o.status)
<1>5. ASSUME o.pc = "read"
      PROVE  /\ see \in Answers /\ see \in {None, o.status} /\ o.status \in Statuses
             /\ see = None => o.conn # "there"
  <2>1. o.status \in Statuses /\ o.seen \in {None, o.status}
    BY <1>2, <1>5 DEF Sound
  <2>2. o.status \in Answers /\ o.status # None
    BY <2>1, Constants DEF Answers
  <2>3. QED
    BY <2>1, <2>2, SeenType
<1>6. \A s \in Statuses : s \in Statuses \cup {BadGateway}
  OBVIOUS
<1>7. CASE FetchFails(r)
  <2>1. PICK u \in Ups : LogFinal(r, up(u), BadGateway, "refuse")
    BY <1>1, <1>7 DEF FetchFails, Handler
  <2>2. o.pc = "fetch" /\ o.seen = None
    BY <1>1, <1>2, <1>7 DEF FetchFails, At, Sound
  <2> HIDE DEF up
  <2>3. QED
    BY <1>1, <1>3, <2>1, <2>2, LogFinalStep
<1>8. CASE \E s \in Statuses : PlainAnswer(r, s) \/ CountAnswer(r, s)
  <2>1. PICK s \in Statuses : PlainAnswer(r, s) \/ CountAnswer(r, s)
    BY <1>8
  <2>2. PICK u \in Ups : LogFinal(r, up(u), s, "answer")
    BY <1>1, <2>1 DEF PlainAnswer, CountAnswer
  <2>3. o.pc = "fetch" /\ o.seen = None
    BY <1>1, <1>2, <2>1 DEF PlainAnswer, CountAnswer, At, Sound
  <2> HIDE DEF up
  <2>4. QED
    BY <1>1, <1>3, <1>6, <2>2, <2>3, LogFinalStep
<1>9. CASE StreamEnds(r)
  <2>1. PICK u \in Ups : LogFinal(r, told(u, see), o.status, "return")
    BY <1>1, <1>9 DEF StreamEnds
  <2>2. o.pc = "read"
    BY <1>1, <1>9 DEF StreamEnds, At
  <2> HIDE DEF told, see
  <2>3. QED
    BY <1>1, <1>4, <1>5, <1>6, <2>1, <2>2, LogFinalStep
<1>10. CASE StreamFails(r)
  <2>1. PICK u \in Ups : LogFinal(r, told(u, see), o.status, "destroy")
    BY <1>1, <1>10 DEF StreamFails, Handler
  <2>2. o.pc = "read"
    BY <1>1, <1>10 DEF StreamFails, At
  <2> HIDE DEF told, see
  <2>3. QED
    BY <1>1, <1>4, <1>5, <1>6, <2>1, <2>2, LogFinalStep
<1>11. QED
  BY <1>7, <1>8, <1>9, <1>10

-----------------------------------------------------------------------------
(* Steps of the log and of the clock.                                       *)

LEMMA HeadIs ==
  ASSUME QueueOK, queue # << >>
  PROVE  Head(queue) \in Reqs /\ At(Head(queue), "logging") /\ Head(queue) = queue[1]
         /\ 1 \in 1 .. Len(queue)
<1>1. queue \in Seq(Reqs)
  BY DEF QueueOK
<1>2. Head(queue) = queue[1] /\ 1 \in 1 .. Len(queue) /\ queue[1] \in Reqs
  BY <1>1
<1>3. QED
  BY <1>2 DEF QueueOK

LEMMA TickStep ==
  ASSUME Inv, Tick
  PROVE  Inv'
<1>1. clock \in Nat /\ clock' = clock + 1 /\ clock' \in 0 .. MaxDay
      /\ UNCHANGED <<input, req, queue, appended, file, written>>
  BY Constants DEF Inv, StateOK, Tick
<1>2. \A r \in Reqs : req[r].pc \in {"new", "done"} \/ (req[r].pc = "drain" /\ req[r].conn = "closed")
  BY DEF Tick, At
<1>3. ~appended
  <2>1. SUFFICES ASSUME appended PROVE FALSE
    OBVIOUS
  <2>2. queue # << >>
    BY <2>1 DEF Inv, QueueOK
  <2>3. QED
    BY <1>2, <2>2, HeadIs DEF At, Inv
<1>4. ASSUME NEW r \in Reqs PROVE Sound(req[r], clock + 1)
  <2>1. req[r].day \in Nat /\ Sound(req[r], clock)
    BY DEF Inv, StateOK, Handler
  <2>2. QED
    BY <1>1, <1>2, <2>1 DEF Sound
<1>5. StateOK'
  <2>1. BytesBefore' = BytesBefore
    BY <1>1, SameBytes
  <2>2. QED
    BY <1>1, <1>4, <2>1 DEF Inv, StateOK
<1>6. QueueOK' /\ LinesOK'
  BY <1>1 DEF Inv, QueueOK, LinesOK, At, Line
<1>7. LogOK'
  <2>1. \A i \in 1 .. Len(written) : written[i].day <= clock + 1
    BY <1>1, DatedDays DEF Inv, LogOK
  <2>2. QED
    BY <1>1, <1>3, <2>1 DEF Inv, LogOK
<1>8. QED
  BY <1>5, <1>6, <1>7 DEF Inv

LEMMA AppendLineStep ==
  ASSUME Inv, AppendLine
  PROVE  Inv'
<1>1. /\ ~appended /\ appended' = TRUE /\ queue # << >>
      /\ UNCHANGED <<input, clock, req, queue>>
  BY DEF AppendLine
<1>2. PICK h \in Reqs : h = Head(queue) /\ req[h].pc = "logging"
  BY <1>1, HeadIs DEF Inv, At
<1>3. PICK x \in Dated : x = Line(h) /\ x.req = h /\ x.day = clock
  <2>1. req[h].day \in Nat /\ Sound(req[h], clock)
    BY DEF Inv, StateOK, Handler
  <2>2. req[h].day = clock /\ req[h].status \in Nat
    BY <1>2, <2>1, Constants DEF Sound
  <2>3. Line(h) = [req |-> h, status |-> req[h].status, day |-> req[h].day]
    BY DEF Line
  <2>4. Line(h) \in Dated /\ Line(h).req = h /\ Line(h).day = clock
    BY <2>2, <2>3, <2>1 DEF Dated
  <2>5. QED
    BY <2>4
<1>4. file' = Append(file, x) /\ written' = Append(written, x)
  BY <1>2, <1>3 DEF AppendLine
<1>5. PICK n \in Nat : n = Len(written)
  BY DEF Inv, LogOK
<1>6. /\ written' \in Seq(Dated) /\ file' \in Seq(Dated) /\ Len(written') = n + 1
      /\ written'[n + 1] = x /\ \A i \in 1 .. n : written'[i] = written[i]
  BY <1>4, <1>5 DEF Inv, LogOK
<1>7. \A i \in 1 .. n + 1 : i = n + 1 \/ i \in 1 .. n
  OBVIOUS
<1>8. StateOK'
  <2>1. BytesBefore' = BytesBefore
    BY <1>1, SameBytes
  <2>2. QED
    BY <1>1, <2>1 DEF Inv, StateOK
<1>9. QueueOK'
  <2>1. Line(Head(queue))' = x
    BY <1>1, <1>2, <1>3 DEF Line
  <2>2. QED
    BY <1>1, <1>6, <2>1 DEF Inv, QueueOK, At
<1>10. LinesOK'
  <2>1. SUFFICES ASSUME NEW p \in Reqs
                 PROVE  /\ req[p].pc \notin {"logging", "done"} =>
                             \A i \in 1 .. n + 1 : written'[i].req # p
                        /\ req[p].pc = "logging" =>
                             \A i \in 1 .. n + 1 : written'[i].req = p <=> i = n + 1 /\ h = p
                        /\ req[p].pc = "done" /\ req[p].sent # None /\ ~req[p].unlogged =>
                             \E i \in 1 .. n + 1 :
                               /\ \A j \in 1 .. n + 1 : written'[j].req = p <=> j = i
                               /\ req[p].seen \in {None, written'[i].status}
                               /\ req[p].seen = None => req[p].conn # "there"
    BY <1>1, <1>2, <1>6 DEF LinesOK, At
  <2>2. ASSUME req[p].pc \notin {"logging", "done"}
        PROVE  \A i \in 1 .. n + 1 : written'[i].req # p
    <3>1. p # h /\ \A i \in 1 .. n : written[i].req # p
      BY <1>2, <1>5, <2>2 DEF Inv, LinesOK
    <3>2. QED
      BY <1>3, <1>6, <1>7, <3>1
  <2>3. ASSUME req[p].pc = "logging"
        PROVE  \A i \in 1 .. n + 1 : written'[i].req = p <=> i = n + 1 /\ h = p
    <3>1. \A i \in 1 .. n : written[i].req # p /\ i # n + 1
      BY <1>1, <1>5, <2>3 DEF Inv, LinesOK, At
    <3>2. QED
      BY <1>3, <1>6, <1>7, <3>1
  <2>4. ASSUME req[p].pc = "done", req[p].sent # None, ~req[p].unlogged
        PROVE  \E i \in 1 .. n + 1 :
                 /\ \A j \in 1 .. n + 1 : written'[j].req = p <=> j = i
                 /\ req[p].seen \in {None, written'[i].status}
                 /\ req[p].seen = None => req[p].conn # "there"
    <3>1. PICK i \in 1 .. n : /\ \A j \in 1 .. n : written[j].req = p <=> j = i
                              /\ req[p].seen \in {None, written[i].status}
                              /\ req[p].seen = None => req[p].conn # "there"
      BY <1>5, <2>4 DEF Inv, LinesOK, At
    <3>2. p # h /\ i # n + 1 /\ i \in 1 .. n + 1
      BY <1>2, <2>4
    <3>3. \A j \in 1 .. n + 1 : written'[j].req = p <=> j = i
      BY <1>3, <1>6, <1>7, <3>1, <3>2
    <3>4. QED
      BY <1>6, <3>1, <3>2, <3>3
  <2>5. QED
    BY <2>2, <2>3, <2>4
<1>11. LogOK'
  <2>1. \A i \in 1 .. n : written[i].day <= clock
    BY <1>5 DEF Inv, LogOK
  <2>2. \A i \in 1 .. n + 1 : written'[i].day <= clock /\ written'[i].day \in Nat
    <3>1. \A i \in 1 .. n : written[i].day \in Nat
      BY <1>5, DatedDays DEF Inv, LogOK
    <3>2. x.day \in Nat /\ x.day <= clock
      BY <1>3 DEF Dated
    <3>3. QED
      BY <1>6, <1>7, <2>1, <3>1, <3>2
  <2>3. Ordered(written')
    <3>1. SUFFICES ASSUME NEW i \in 1 .. n + 1, NEW j \in 1 .. n + 1, i <= j
                   PROVE  written'[i].day <= written'[j].day
      BY <1>6 DEF Ordered
    <3>2. CASE j = n + 1
      BY <1>3, <1>6, <2>2, <3>2
    <3>3. CASE j # n + 1
      <4>1. i \in 1 .. n /\ j \in 1 .. n
        BY <3>1, <3>3
      <4>2. written[i].day <= written[j].day
        BY <1>5, <3>1, <4>1 DEF Inv, LogOK, Ordered
      <4>3. QED
        BY <1>6, <4>1, <4>2
    <3>4. QED
      BY <3>2, <3>3
  <2>4. FileOf(file, written) /\ file \in Seq(Dated) /\ written \in Seq(Dated)
    BY <1>1 DEF Inv, LogOK
  <2>5. Pending'
    BY <1>1, <1>3, <1>4, <2>4 DEF Pending
  <2>6. Ordered(written)'
    BY <2>3 DEF Ordered
  <2>7. QED
    BY <1>1, <1>6, <2>2, <2>5, <2>6 DEF LogOK
<1>12. QED
  BY <1>8, <1>9, <1>10, <1>11 DEF Inv

\* The head of the queue is over, with its line or without.
LEMMA OverStep ==
  ASSUME Inv, queue # << >>, NEW h \in Reqs, h = Head(queue), NEW q \in Handler,
         req' = [req EXCEPT ![h] = q], queue' = Tail(queue), appended' = FALSE,
         UNCHANGED <<input, clock, written>>, Sound(q, clock),
         Honest(q.metric, q.sent, BytesBefore), q.pc = "done",
         \/ q.unlogged /\ ~appended
         \/ /\ appended /\ q.seen \in {None, req[h].status}
            /\ q.seen = None => q.conn # "there"
  PROVE  StateOK' /\ QueueOK' /\ LinesOK'
<1>1. StateOK' /\ req'[h] = q /\ \A p \in Reqs : p # h => req'[p] = req[p]
  BY StateStep DEF Inv, StateOK
<1>2. PICK n \in Nat : n = Len(queue) /\ n > 0 /\ Len(queue') = n - 1
  BY DEF Inv, QueueOK
<1>3. /\ queue' \in Seq(Reqs) /\ queue[1] = h /\ \A i \in 1 .. n - 1 : queue'[i] = queue[i + 1]
  BY <1>2 DEF Inv, QueueOK
<1>4. \A i, j \in 1 .. n : queue[i] = queue[j] => i = j
  BY <1>2 DEF Inv, QueueOK
<1>5. req[h].pc = "logging"
  BY HeadIs DEF Inv, At
<1>6. QueueOK'
  <2>1. \A i, j \in 1 .. n - 1 : queue'[i] = queue'[j] => i = j
    <3>1. SUFFICES ASSUME NEW i \in 1 .. n - 1, NEW j \in 1 .. n - 1, queue'[i] = queue'[j]
                   PROVE  i = j
      OBVIOUS
    <3>a. i + 1 \in 1 .. n /\ j + 1 \in 1 .. n
      BY <1>2
    <3>2. i + 1 \in 1 .. n /\ j + 1 \in 1 .. n /\ queue[i + 1] = queue[j + 1]
      BY <1>3, <3>1, <3>a
    <3>3. i + 1 = j + 1
      BY <1>4, <3>2
    <3>4. QED
      BY <3>3
  <2>2. ASSUME NEW p \in Reqs
        PROVE  At(p, "logging")' <=> \E i \in 1 .. n - 1 : queue'[i] = p
    <3>1. CASE p = h
      <4>1. ~ (\E i \in 1 .. n - 1 : queue'[i] = h)
        <5>1. SUFFICES ASSUME NEW i \in 1 .. n - 1, queue'[i] = h PROVE FALSE
          OBVIOUS
        <5>2. i + 1 \in 1 .. n /\ 1 \in 1 .. n /\ queue[i + 1] = queue[1]
          BY <1>2, <1>3, <5>1
        <5>3. i + 1 = 1
          BY <1>4, <5>2
        <5>4. QED
          BY <5>3
      <4>2. QED
        BY <1>1, <3>1, <4>1 DEF At
    <3>2. CASE p # h
      <4>1. At(p, "logging")' <=> \E i \in 1 .. n : queue[i] = p
        BY <1>1, <1>2, <3>2 DEF At, Inv, QueueOK
      <4>2. (\E i \in 1 .. n : queue[i] = p) => \E i \in 1 .. n - 1 : queue'[i] = p
        <5>1. SUFFICES ASSUME NEW i \in 1 .. n, queue[i] = p
                       PROVE  \E k \in 1 .. n - 1 : queue'[k] = p
          OBVIOUS
        <5>2. i # 1
          BY <1>3, <3>2, <5>1
        <5>3. i - 1 \in 1 .. n - 1 /\ (i - 1) + 1 = i
          BY <5>2
        <5>4. QED
          BY <1>3, <5>1, <5>3
      <4>3. (\E i \in 1 .. n - 1 : queue'[i] = p) => \E i \in 1 .. n : queue[i] = p
        <5>1. \A i \in 1 .. n - 1 : i + 1 \in 1 .. n
          OBVIOUS
        <5>2. QED
          BY <1>3, <5>1
      <4>4. QED
        BY <4>1, <4>2, <4>3
    <3>3. QED
      BY <3>1, <3>2
  <2>3. QED
    BY <1>2, <1>3, <2>1, <2>2 DEF QueueOK
<1>7. LinesOK'
  <2>1. SUFFICES ASSUME NEW p \in Reqs
                 PROVE  /\ req'[p].pc \notin {"logging", "done"} =>
                             \A i \in 1 .. Len(written) : written[i].req # p
                        /\ req'[p].pc = "logging" =>
                             \A i \in 1 .. Len(written) : written[i].req # p
                        /\ req'[p].pc = "done" /\ req'[p].sent # None /\ ~req'[p].unlogged =>
                             \E i \in 1 .. Len(written) :
                               /\ \A j \in 1 .. Len(written) : written[j].req = p <=> j = i
                               /\ req'[p].seen \in {None, written[i].status}
                               /\ req'[p].seen = None => req'[p].conn # "there"
    BY DEF LinesOK, At
  <2>2. CASE p # h
    BY <1>1, <2>2 DEF Inv, LinesOK, At
  <2>3. CASE p = h
    <3>1. CASE q.unlogged
      BY <1>1, <2>3, <3>1
    <3>2. CASE ~q.unlogged
      <4>1. appended /\ q.seen \in {None, req[h].status} /\ (q.seen = None => q.conn # "there")
        BY <3>2
      <4>2. PICK i : i = Len(written) /\ i \in 1 .. Len(written)
        <5>1. Len(written) > 0 /\ Len(written) \in Nat
          BY <4>1 DEF Inv, QueueOK, LogOK
        <5>2. QED
          BY <5>1
      <4>3. written[i].status = req[h].status
        BY <4>1, <4>2 DEF Inv, QueueOK, Line
      <4>4. \A j \in 1 .. Len(written) : written[j].req = h <=> j = i
        BY <1>5, <4>1, <4>2 DEF Inv, LinesOK, At
      <4>5. QED
        BY <1>1, <2>3, <4>1, <4>2, <4>3, <4>4
    <3>3. QED
      BY <3>1, <3>2
  <2>4. QED
    BY <2>2, <2>3
<1>8. QED
  BY <1>1, <1>6, <1>7

\* What a handler does last, from a state o in which its request is being logged.
LEMMA OverIs ==
  ASSUME NEW o \in Handler, NEW c, Sound(o, c), o.pc = "logging", NEW u \in BOOLEAN,
         NEW q, q = Over([o EXCEPT !.unlogged = u])
  PROVE  /\ q \in Handler /\ q.pc = "done" /\ q.unlogged = u /\ q.sent = o.sent
         /\ q.metric = o.metric /\ q.day = o.day /\ q.conn = o.conn
         /\ q.seen \in {None, o.status} /\ (q.seen = None => q.conn # "there")
         /\ Sound(q, c)
<1> DEFINE e == [o EXCEPT !.unlogged = u]
           see == IF o.next \in {"answer", "refuse"} THEN Seen(o, o.status) ELSE o.seen
           buf == IF o.next = "destroy" THEN 0 ELSE o.buffer
<1>1. /\ e \in Handler /\ e.next = o.next /\ e.seen = o.seen /\ e.status = o.status
      /\ e.conn = o.conn /\ e.buffer = o.buffer /\ e.unlogged = u /\ e.sent = o.sent
      /\ e.metric = o.metric /\ e.day = o.day
  BY DEF Handler
<1> HIDE DEF e
<1>2. Seen(e, e.status) = Seen(o, o.status)
  BY <1>1 DEF Seen
<1>3. q = [e EXCEPT !.pc = "done", !.status = None, !.next = "return",
                    !.seen = see, !.buffer = buf]
  BY <1>1, <1>2 DEF Over, Handler, e
<1>4. o.status \in Statuses \cup {BadGateway} /\ o.seen \in {None, o.status}
      /\ (o.next \in {"return", "destroy"} /\ o.seen = None => o.conn # "there")
  BY DEF Sound
<1>5. o.status \in Answers /\ o.status # None /\ None \in Answers
  BY <1>4, Constants DEF Answers
<1>6. see \in Answers /\ see \in {None, o.status} /\ (see = None => o.conn # "there")
  <2>1. CASE o.next \in {"answer", "refuse"}
    BY <1>4, <1>5, <2>1, SeenType
  <2>2. CASE o.next \in {"return", "destroy"}
    BY <1>4, <1>5, <2>2
  <2>3. o.next \in {"return", "answer", "refuse", "destroy"}
    BY DEF Handler
  <2>4. QED
    BY <2>1, <2>2, <2>3
<1>7. buf \in 0 .. HighWater
  BY Constants DEF Handler
<1> HIDE DEF see, buf
<1>a. e \in Handler /\ see \in Answers /\ buf \in 0 .. HighWater /\ None \in Answers
  BY <1>1, <1>5, <1>6, <1>7
<1>8. q \in Handler
  BY <1>3, <1>a DEF Handler
<1>9. q.pc = "done" /\ q.seen = see /\ q.unlogged = u /\ q.sent = o.sent /\ q.metric = o.metric
      /\ q.day = o.day /\ q.conn = o.conn
  <2>1. q.pc = "done" /\ q.seen = see /\ q.unlogged = e.unlogged /\ q.sent = e.sent
        /\ q.metric = e.metric /\ q.day = e.day /\ q.conn = e.conn
    BY <1>3, <1>a DEF Handler
  <2>2. QED
    BY <1>1, <2>1
<1>10. Sound(q, c)
  BY <1>9 DEF Sound
<1>11. QED
  BY <1>6, <1>8, <1>9, <1>10

LEMMA MaybeTrimStep ==
  ASSUME Inv, MaybeTrim
  PROVE  Inv'
<1>1. appended /\ queue # << >> /\ appended' = FALSE /\ queue' = Tail(queue)
      /\ file' = Trimmed /\ UNCHANGED <<input, clock, written>>
  BY DEF MaybeTrim, Inv, QueueOK
<1>2. PICK h \in Reqs : h = Head(queue) /\ req[h].pc = "logging"
  BY <1>1, HeadIs DEF Inv, At
<1>3. PICK o \in Handler : o = req[h] /\ Sound(o, clock)
                           /\ Honest(o.metric, o.sent, BytesBefore)
  BY DEF Inv, StateOK
<1>4. PICK q : q = Over(o) /\ req' = [req EXCEPT ![h] = q]
  BY <1>2, <1>3 DEF MaybeTrim, Inv, StateOK
<1>5. o.unlogged \in BOOLEAN /\ o = [o EXCEPT !.unlogged = o.unlogged]
  BY DEF Handler
<1>6. /\ q \in Handler /\ q.pc = "done" /\ q.sent = o.sent /\ q.metric = o.metric
      /\ q.seen \in {None, o.status} /\ (q.seen = None => q.conn # "there")
      /\ Sound(q, clock)
  BY <1>2, <1>3, <1>4, <1>5, OverIs
<1>7. StateOK' /\ QueueOK' /\ LinesOK'
  BY <1>1, <1>2, <1>3, <1>4, <1>6, OverStep
<1>8. FileOf(Trimmed, written) /\ Trimmed \in Seq(Dated)
  BY <1>1, TrimKeeps DEF Inv, LogOK, Pending
<1>9. LogOK'
  BY <1>1, <1>8 DEF Inv, LogOK
<1>10. QED
  BY <1>7, <1>9 DEF Inv

LEMMA AppendFailsStep ==
  ASSUME Inv, AppendFails
  PROVE  Inv'
<1>1. ~appended /\ queue # << >> /\ queue' = Tail(queue)
      /\ UNCHANGED <<input, clock, appended, file, written>>
  BY DEF AppendFails, LogUnchanged
<1>2. PICK h \in Reqs : h = Head(queue) /\ req[h].pc = "logging"
  BY <1>1, HeadIs DEF Inv, At
<1>3. PICK o \in Handler : o = req[h] /\ Sound(o, clock)
                           /\ Honest(o.metric, o.sent, BytesBefore)
  BY DEF Inv, StateOK
<1>4. PICK q : q = Over([o EXCEPT !.unlogged = TRUE]) /\ req' = [req EXCEPT ![h] = q]
  BY <1>2, <1>3 DEF AppendFails, Inv, StateOK
<1>5. PICK u \in BOOLEAN : u = TRUE
  OBVIOUS
<1>6. /\ q \in Handler /\ q.pc = "done" /\ q.sent = o.sent /\ q.metric = o.metric
      /\ q.unlogged = u /\ Sound(q, clock)
  <2>1. q = Over([o EXCEPT !.unlogged = u])
    BY <1>4, <1>5
  <2>2. QED
    BY <1>2, <1>3, <2>1, OverIs
<1>7. appended' = FALSE
  BY <1>1 DEF Inv, StateOK
<1>8. StateOK' /\ QueueOK' /\ LinesOK'
  BY <1>1, <1>2, <1>3, <1>4, <1>5, <1>6, <1>7, OverStep
<1>9. LogOK'
  BY <1>1 DEF Inv, LogOK, Pending
<1>10. QED
  BY <1>8, <1>9 DEF Inv

-----------------------------------------------------------------------------
(* The theorems.                                                            *)

LEMMA InitInv == Init => Inv
<1>1. SUFFICES ASSUME Init PROVE Inv
  OBVIOUS
<1>2. New \in Handler
  <2>1. None \in Answers /\ None \in Metrics /\ 0 \in 0 .. MaxChunks /\ 0 \in 0 .. HighWater
    BY Constants DEF Answers, Metrics
  <2>2. QED
    BY <2>1 DEF New, Handler, Kinds
<1>3. Sound(New, 0) /\ Honest(New.metric, New.sent, BytesBefore)
  BY DEF New, Sound, Honest
<1>4. StateOK
  <2>1. req \in [Reqs -> Handler] /\ clock = 0 /\ \A r \in Reqs : req[r] = New
    BY <1>1, <1>2 DEF Init
  <2>2. clock \in 0 .. MaxDay
    BY <2>1, Constants
  <2>3. input \in Inputs /\ appended \in BOOLEAN
    BY <1>1 DEF Init
  <2>4. QED
    BY <1>3, <2>1, <2>2, <2>3 DEF StateOK
<1>5. QueueOK
  BY <1>1 DEF Init, QueueOK, At, New
<1>6. LinesOK
  BY <1>1 DEF Init, LinesOK, At, New
<1>7. LogOK
  <2>1. << >> \in Seq(Dated) /\ Len(<< >>) = 0 /\ SubSeq(<< >>, 1, 0) = << >>
    OBVIOUS
  <2>2. FileOf(<< >>, << >>)
    BY <2>1, Constants DEF FileOf
  <2>3. QED
    BY <1>1, <2>1, <2>2 DEF Init, LogOK, Ordered
<1>8. QED
  BY <1>4, <1>5, <1>6, <1>7 DEF Inv

LEMMA NextInv == Inv /\ [Next]_vars => Inv'
<1>1. SUFFICES ASSUME Inv, [Next]_vars PROVE Inv'
  OBVIOUS
<1>2. CASE UNCHANGED vars
  <2>1. UNCHANGED <<input, clock, req, queue, appended, file, written>>
    BY <1>2 DEF vars
  <2>2. BytesBefore' = BytesBefore
    BY <2>1, SameBytes
  <2>3. StateOK'
    BY <1>1, <2>1, <2>2 DEF Inv, StateOK
  <2>4. QueueOK'
    BY <1>1, <2>1 DEF Inv, QueueOK, At, Line
  <2>5. LinesOK'
    BY <1>1, <2>1 DEF Inv, LinesOK, At
  <2>6. LogOK'
    BY <1>1, <2>1 DEF Inv, LogOK, Pending
  <2>7. QED
    BY <2>3, <2>4, <2>5, <2>6 DEF Inv
<1>3. CASE Tick \/ AppendLine \/ MaybeTrim \/ AppendFails
  BY <1>1, <1>3, TickStep, AppendLineStep, MaybeTrimStep, AppendFailsStep
<1>4. ASSUME NEW r \in Reqs,
             \/ ClientReads(r) \/ ClientLeaves(r) \/ CloseEvent(r)
             \/ Refuse(r) \/ (\E kind \in Kinds : Arrive(r, kind)) \/ BodyFails(r) \/ BodyRead(r)
             \/ (\E s \in Statuses : StreamHeaders(r, s)) \/ Chunk(r) \/ Drain(r)
      PROVE  Inv'
  <2>1. OnlyReq
    BY <1>4 DEF ClientReads, ClientLeaves, CloseEvent, Refuse, Arrive, BodyFails, BodyRead,
                StreamHeaders, Chunk, Drain
  <2>2. QED
    BY <1>1, <1>4, <2>1, OnlyReqStep
<1>5. ASSUME NEW r \in Reqs,
             \/ FetchFails(r) \/ StreamEnds(r) \/ StreamFails(r)
             \/ (\E s \in Statuses : PlainAnswer(r, s) \/ CountAnswer(r, s))
      PROVE  Inv'
  <2>1. LogUnchanged
    BY <1>5 DEF FetchFails, StreamEnds, StreamFails, PlainAnswer, CountAnswer
  <2>2. QED
    BY <1>1, <1>5, <2>1, AnswerStep
<1>6. CASE Next
  <2>1. SUFFICES ASSUME NEW r \in Reqs,
                        \/ Refuse(r) \/ (\E kind \in Kinds : Arrive(r, kind))
                        \/ ClientReads(r) \/ ClientLeaves(r) \/ CloseEvent(r)
                        \/ Body(r) \/ Upstream(r) \/ Drain(r)
                 PROVE  Inv'
    BY <1>3, <1>6 DEF Next
  <2>2. QED
    BY <1>4, <1>5, <2>1 DEF Body, Upstream
<1>7. QED
  BY <1>1, <1>2, <1>6

LEMMA InvHolds == Spec => []Inv
BY InitInv, NextInv, PTL DEF Spec

\* A request that was forwarded and is over has one line in the log, unless
\* writing it failed, with the status its client saw, if it saw one: the line
\* joins the queue when the handler is through with the provider, and leaves it
\* when it is appended (anthropicGateway.ts, gatewayLog.ts).  No buffer of a
\* client holds more than the high-water mark.
THEOREM LoggedOnce == Spec => []LoggedOnceAsSeen
<1>1. ASSUME Inv PROVE LoggedOnceAsSeen
  <2>1. TypeOK
    <3>1. input \in Inputs /\ clock \in 0 .. MaxDay /\ queue \in Seq(Reqs) /\ appended \in BOOLEAN
      BY <1>1 DEF Inv, StateOK, QueueOK
    <3>2. ASSUME NEW r \in Reqs PROVE req[r] \in Handler /\ req[r].day \in 0 .. clock
      <4>1. req[r] \in Handler /\ req[r].day \in Nat /\ req[r].day <= clock
        BY <1>1 DEF Inv, StateOK, Sound, Handler
      <4>2. QED
        BY <3>1, <4>1, Constants
    <3>3. QED
      BY <3>1, <3>2 DEF TypeOK, Handler, Answers
  <2>2. ASSUME NEW r \in Reqs, At(r, "done"), req[r].sent # None, ~req[r].unlogged
        PROVE  LET lines == {i \in 1 .. Len(written) : written[i].req = r}
               IN \E i \in lines : /\ lines = {i}
                                   /\ req[r].seen \in {None, written[i].status}
                                   /\ req[r].seen = None => req[r].conn # "there"
    <3>1. PICK i \in 1 .. Len(written) :
            /\ \A j \in 1 .. Len(written) : written[j].req = r <=> j = i
            /\ req[r].seen \in {None, written[i].status}
            /\ req[r].seen = None => req[r].conn # "there"
      BY <1>1, <2>2 DEF Inv, LinesOK
    <3>2. {j \in 1 .. Len(written) : written[j].req = r} = {i}
      BY <3>1
    <3>3. QED
      BY <3>1, <3>2
  <2>3. QED
    BY <2>1, <2>2 DEF LoggedOnceAsSeen
<1>2. QED
  BY <1>1, InvHolds, PTL

\* Between writes the file holds exactly the newest lines that fit, of those that
\* were recent when the last was written (maybeTrim, gatewayLog.ts), and the
\* saving a line claims is the one that was made.
THEOREM LogBelieved == Spec => []LogIsTrue
<1>1. ASSUME Inv PROVE LogIsTrue
  <2>1. ASSUME ~appended
        PROVE  LET recent == Since(written, Last(written).day - MaxAge)
               IN IsSuffix(file, recent) /\ Len(file) = Min({LogLimit, Len(recent)})
    <3>1. written \in Seq(Dated) /\ file \in Seq(Dated) /\ Ordered(written) /\ FileOf(file, written)
      BY <1>1, <2>1 DEF Inv, LogOK
    <3>2. QED
      BY <3>1, FileIsNewest
  <2>2. \A r \in Reqs : Honest(req[r].metric, req[r].sent, BytesBefore)
    BY <1>1 DEF Inv, StateOK
  <2>3. QED
    BY <2>1, <2>2 DEF LogIsTrue, Honest
<1>2. QED
  BY <1>1, InvHolds, PTL
=============================================================================
