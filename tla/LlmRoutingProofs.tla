-------------------------- MODULE LlmRoutingProofs --------------------------
(***************************************************************************)
(* Theorems about LlmRouting, for any number of callers and profiles, any  *)
(* prices and limits: every call that came back is accounted for in the    *)
(* usage log, and the budget is overrun by at most one call for each       *)
(* request under way.                                                      *)
(***************************************************************************)
EXTENDS MCLlmRouting, FiniteSetTheorems, SequenceTheorems, TLAPS

-----------------------------------------------------------------------------
(* Induction, and the functions it defines.                                 *)

\* A set with zero in it and, with a number, the next, has every number.
LEMMA Induct ==
  ASSUME NEW T, 0 \in T, \A n \in Nat : n \in T => n + 1 \in T
  PROVE  Nat \subseteq T
<1> DEFINE R == {pair \in Nat \X Nat : pair[1] < pair[2]}
           U == Nat \ T
<1>1. IsWellFoundedOn(R, Nat)
  <2>1. R = OpToRel(<, Nat)
    BY DEF OpToRel
  <2>2. QED
    BY <2>1, NatLessThanWellFounded
<1>2. \A x, y \in Nat : y < x => <<y, x>> \in R
  OBVIOUS
<1>3. SUFFICES ASSUME U # {} PROVE FALSE
  OBVIOUS
<1> HIDE DEF R
<1>4. PICK x \in U : \A y \in U : ~ (<<y, x>> \in R)
  BY <1>1, <1>3, WFMin
<1>5. x # 0 /\ x - 1 \in Nat /\ x - 1 < x
  BY <1>4
<1>6. x - 1 \in T
  BY <1>2, <1>4, <1>5
<1>7. QED
  BY <1>4, <1>5, <1>6, x = (x - 1) + 1

Steps(n, A) == [1 .. n -> [A -> A]]

\* f starts with base, and every step leads from one value to the next.
Follows(f, n, A, base, step) ==
  f \in [0 .. n -> A] /\ f[0] = base /\ \A i \in 1 .. n : f[i] = step[i][f[i - 1]]

\* A function of the natural numbers up to n is given by its first value and
\* by what leads from each value to the next.
LEMMA FunctionUpTo ==
  ASSUME NEW n \in Nat, NEW A, NEW base \in A, NEW step \in Steps(n, A)
  PROVE  \E f : Follows(f, n, A, base, step)
<1> DEFINE Good(m, f) == f[0] = base /\ \A i \in 1 .. m : f[i] = step[i][f[i - 1]]
           T == {m \in Nat : m <= n => \E f \in [0 .. m -> A] : Good(m, f)}
<1>1. 0 \in T
  <2>1. [i \in 0 .. 0 |-> base] \in [0 .. 0 -> A] /\ Good(0, [i \in 0 .. 0 |-> base])
    OBVIOUS
  <2>2. QED
    BY <2>1
<1>2. ASSUME NEW m \in Nat, m \in T PROVE m + 1 \in T
  <2>1. SUFFICES ASSUME m + 1 <= n PROVE \E f \in [0 .. m + 1 -> A] : Good(m + 1, f)
    OBVIOUS
  <2>2. PICK g \in [0 .. m -> A] : Good(m, g)
    BY <1>2, <2>1
  <2> DEFINE f == [i \in 0 .. m + 1 |-> IF i = m + 1 THEN step[m + 1][g[m]] ELSE g[i]]
  <2>3. g[m] \in A /\ m + 1 \in 1 .. n
    BY <2>1
  <2>4. step[m + 1][g[m]] \in A
    BY <2>3 DEF Steps
  <2>5. f \in [0 .. m + 1 -> A]
    BY <2>4
  <2>6. f[0] = base
    BY <2>2
  <2>7. ASSUME NEW i \in 1 .. m + 1 PROVE f[i] = step[i][f[i - 1]]
    <3>1. CASE i = m + 1
      BY <3>1, i - 1 = m, m \in 0 .. m + 1, m # m + 1
    <3>2. CASE i # m + 1
      BY <3>2, <2>2, i \in 1 .. m, i - 1 \in 0 .. m
    <3>3. QED
      BY <3>1, <3>2
  <2>8. QED
    BY <2>5, <2>6, <2>7
<1> HIDE DEF T
<1>3. n \in T
  BY <1>1, <1>2, Induct
<1>4. QED
  BY <1>3 DEF T, Follows

-----------------------------------------------------------------------------
(* Sums.                                                                    *)

\* Records, or whatever else has a cost, in a row.
Priced == [cost : Nat]
IsPriced(s) == /\ DOMAIN s = 1 .. Len(s)
               /\ Len(s) \in Nat
               /\ \A i \in 1 .. Len(s) : s[i].cost \in Nat

\* f adds up the costs of s.
AddsUp(f, s) ==
  /\ f \in [0 .. Len(s) -> Nat]
  /\ f[0] = 0
  /\ \A i \in 1 .. Len(s) : f[i] = f[i - 1] + s[i].cost

\* CostOf is the last of the partial sums.
LEMMA CostAddsUp ==
  ASSUME NEW s, IsPriced(s)
  PROVE  \E f : AddsUp(f, s) /\ CostOf(s) = f[Len(s)]
<1> DEFINE n == Len(s)
           F(f) == f = [i \in 0 .. n |-> IF i = 0 THEN 0 ELSE f[i - 1] + s[i].cost]
           step == [i \in 1 .. n |-> [x \in Nat |-> x + s[i].cost]]
<1>1. n \in Nat /\ \A i \in 1 .. n : s[i].cost \in Nat
  BY DEF IsPriced
<1>2. step \in Steps(n, Nat)
  BY <1>1 DEF Steps
<1>3. PICK g : Follows(g, n, Nat, 0, step)
  <2> HIDE DEF step, n, F
  <2>1. QED
    BY <1>1, <1>2, FunctionUpTo
<1>4. \A i \in 1 .. n : g[i] = g[i - 1] + s[i].cost
  <2>1. \A i \in 1 .. n : g[i - 1] \in Nat /\ s[i].cost \in Nat
    BY <1>1, <1>3 DEF Follows
  <2>2. \A i \in 1 .. n : step[i][g[i - 1]] = g[i - 1] + s[i].cost
    BY <2>1
  <2>3. QED
    BY <1>3, <2>2 DEF Follows
<1>5. F(g)
  <2>1. \A i \in 0 .. n : g[i] = IF i = 0 THEN 0 ELSE g[i - 1] + s[i].cost
    BY <1>1, <1>3, <1>4 DEF Follows
  <2>2. QED
    BY <2>1, <1>3 DEF Follows
<1> DEFINE f == CHOOSE h : F(h)
<1>6. F(f)
  BY <1>5
<1>7. CostOf(s) = f[n]
  BY DEF CostOf
<1> HIDE DEF f
<1>8. \A i \in 0 .. n : f[i] = IF i = 0 THEN 0 ELSE f[i - 1] + s[i].cost
  BY <1>6, <1>1
<1>9. DOMAIN f = 0 .. n
  BY <1>6
<1>10. \A i \in 0 .. n : f[i] \in Nat
  <2> DEFINE T == {i \in Nat : i <= n => f[i] \in Nat}
  <2>1. 0 \in T
    BY <1>8, <1>1
  <2>2. ASSUME NEW i \in Nat, i \in T PROVE i + 1 \in T
    <3>1. SUFFICES ASSUME i + 1 <= n PROVE f[i + 1] \in Nat
      OBVIOUS
    <3>2. f[i] \in Nat
      BY <2>2, <3>1, <1>1
    <3>3. f[i + 1] = f[i] + s[i + 1].cost
      BY <1>8, <3>1, <1>1
    <3>4. QED
      BY <3>1, <3>2, <3>3, <1>1
  <2> HIDE DEF T
  <2>3. Nat \subseteq T
    BY <2>1, <2>2, Induct
  <2>4. QED
    BY <2>3, <1>1 DEF T
<1>11. f \in [0 .. n -> Nat]
  BY <1>9, <1>10, <1>6
<1>12. AddsUp(f, s)
  BY <1>1, <1>8, <1>11 DEF AddsUp
<1>13. QED
  BY <1>7, <1>12

\* From one partial sum to the next.
LEMMA NextSum ==
  ASSUME NEW f, NEW s, AddsUp(f, s), IsPriced(s), NEW i \in Nat, i + 1 <= Len(s)
  PROVE  f[i] \in Nat /\ s[i + 1].cost \in Nat /\ f[i + 1] = f[i] + s[i + 1].cost
<1>1. i \in 0 .. Len(s) /\ i + 1 \in 1 .. Len(s) /\ (i + 1) - 1 = i
  BY DEF IsPriced
<1>2. f[i] \in Nat
  BY <1>1 DEF AddsUp
<1>3. s[i + 1].cost \in Nat
  BY <1>1 DEF IsPriced
<1>4. f[i + 1] = f[(i + 1) - 1] + s[i + 1].cost
  BY <1>1 DEF AddsUp
<1>5. QED
  BY <1>1, <1>2, <1>3, <1>4

\* Two sequences whose first n records cost the same have the same partial sums.
LEMMA SumsAgree ==
  ASSUME NEW s, NEW t, NEW f, NEW g, AddsUp(f, s), AddsUp(g, t), IsPriced(s), IsPriced(t),
         NEW n \in 0 .. Len(s), n <= Len(t),
         \A i \in 1 .. n : s[i].cost = t[i].cost
  PROVE  f[n] = g[n]
<1> DEFINE T == {i \in Nat : i <= n => f[i] = g[i]}
<1>1. 0 \in T
  BY DEF AddsUp
<1>2. ASSUME NEW i \in Nat, i \in T PROVE i + 1 \in T
  <2>1. SUFFICES ASSUME i + 1 <= n PROVE f[i + 1] = g[i + 1]
    OBVIOUS
  <2>2. Len(s) \in Nat /\ Len(t) \in Nat
    BY DEF IsPriced
  <2>3. f[i] = g[i] /\ s[i + 1].cost = t[i + 1].cost
    BY <1>2, <2>1, <2>2
  <2>4. f[i + 1] = f[i] + s[i + 1].cost /\ g[i + 1] = g[i] + t[i + 1].cost
    BY <2>1, <2>2, NextSum
  <2>5. QED
    BY <2>3, <2>4
<1> HIDE DEF T
<1>3. Nat \subseteq T
  BY <1>1, <1>2, Induct
<1>4. QED
  BY <1>3 DEF T

LEMMA CostType ==
  ASSUME NEW s, IsPriced(s)
  PROVE  CostOf(s) \in Nat
BY CostAddsUp DEF AddsUp, IsPriced

\* An empty row costs nothing, and one record more costs what it costs.
LEMMA CostOfNothing ==
  ASSUME NEW s, IsPriced(s), Len(s) = 0
  PROVE  CostOf(s) = 0
BY CostAddsUp DEF AddsUp

LEMMA CostOfAppend ==
  ASSUME NEW S, NEW s \in Seq(S), NEW r \in S, \A x \in S : x.cost \in Nat
  PROVE  CostOf(Append(s, r)) = CostOf(s) + r.cost
<1> DEFINE t == Append(s, r)
<1>1. /\ t \in Seq(S) /\ Len(t) = Len(s) + 1 /\ Len(s) \in Nat
      /\ t[Len(s) + 1] = r
      /\ \A i \in 1 .. Len(s) : t[i] = s[i]
  OBVIOUS
<1>2. IsPriced(s) /\ IsPriced(t)
  BY <1>1 DEF IsPriced
<1> HIDE DEF t
<1>3. PICK f : AddsUp(f, s) /\ CostOf(s) = f[Len(s)]
  BY <1>2, CostAddsUp
<1>4. PICK g : AddsUp(g, t) /\ CostOf(t) = g[Len(t)]
  BY <1>2, CostAddsUp
<1>5. f[Len(s)] = g[Len(s)]
  <2>1. /\ Len(s) \in 0 .. Len(s) /\ Len(s) <= Len(t)
        /\ \A i \in 1 .. Len(s) : s[i].cost = t[i].cost
    BY <1>1
  <2>2. QED
    BY <2>1, <1>2, <1>3, <1>4, SumsAgree
<1>6. g[Len(s) + 1] = g[Len(s)] + r.cost
  BY <1>1, <1>4 DEF AddsUp
<1>7. QED
  BY <1>1, <1>3, <1>4, <1>5, <1>6 DEF t

\* A row with another record in one place costs the difference more.
LEMMA CostOfUpdate ==
  ASSUME NEW s, NEW t, IsPriced(s), IsPriced(t), Len(s) = Len(t), NEW k \in 1 .. Len(s),
         \A i \in 1 .. Len(s) : i # k => s[i].cost = t[i].cost
  PROVE  CostOf(t) + s[k].cost = CostOf(s) + t[k].cost
<1>1. PICK f : AddsUp(f, s) /\ CostOf(s) = f[Len(s)]
  BY CostAddsUp
<1>2. PICK g : AddsUp(g, t) /\ CostOf(t) = g[Len(t)]
  BY CostAddsUp
<1>3. /\ Len(s) \in Nat /\ k \in Nat /\ k - 1 \in 0 .. Len(s) /\ k - 1 <= Len(t)
      /\ s[k].cost \in Nat /\ t[k].cost \in Nat
  BY DEF IsPriced
<1>4. f[k - 1] = g[k - 1]
  <2>1. \A i \in 1 .. k - 1 : i \in 1 .. Len(s) /\ i # k
    BY <1>3
  <2>2. QED
    BY <1>1, <1>2, <1>3, <2>1, SumsAgree
<1> DEFINE T == {i \in Nat : k <= i /\ i <= Len(s) => g[i] + s[k].cost = f[i] + t[k].cost}
<1>5. 0 \in T
  BY <1>3
<1>6. ASSUME NEW i \in Nat, i \in T PROVE i + 1 \in T
  <2>1. SUFFICES ASSUME k <= i + 1, i + 1 <= Len(s)
                 PROVE  g[i + 1] + s[k].cost = f[i + 1] + t[k].cost
    OBVIOUS
  <2>2. /\ f[i + 1] = f[i] + s[i + 1].cost /\ g[i + 1] = g[i] + t[i + 1].cost
        /\ s[i + 1].cost \in Nat /\ t[i + 1].cost \in Nat /\ f[i] \in Nat /\ g[i] \in Nat
    BY <1>1, <1>2, <2>1, NextSum
  <2>3. CASE k = i + 1
    BY <2>2, <2>3, <1>3, <1>4
  <2>4. CASE k # i + 1
    <3>1. s[i + 1].cost = t[i + 1].cost /\ g[i] + s[k].cost = f[i] + t[k].cost
      BY <1>6, <2>1, <2>4, <1>3
    <3> DEFINE u == f[i] v == g[i] x == s[i + 1].cost a == s[k].cost b == t[k].cost
    <3>2. u \in Nat /\ v \in Nat /\ x \in Nat /\ a \in Nat /\ b \in Nat /\ v + a = u + b
      BY <3>1, <2>2, <1>3
    <3>3. g[i + 1] = v + x /\ f[i + 1] = u + x
      BY <3>1, <2>2
    <3> HIDE DEF u, v, x, a, b
    <3>4. (v + x) + a = (u + x) + b
      BY <3>2
    <3>5. QED
      BY <3>3, <3>4 DEF a, b
  <2>5. QED
    BY <2>3, <2>4
<1> HIDE DEF T
<1>7. Nat \subseteq T
  BY <1>5, <1>6, Induct
<1>8. QED
  BY <1>1, <1>2, <1>3, <1>7 DEF T

\* A row whose records cost no less than another's costs no less.
LEMMA CostMonotone ==
  ASSUME NEW s, NEW t, IsPriced(s), IsPriced(t), Len(s) = Len(t),
         \A i \in 1 .. Len(s) : s[i].cost <= t[i].cost
  PROVE  CostOf(s) <= CostOf(t)
<1>1. PICK f : AddsUp(f, s) /\ CostOf(s) = f[Len(s)]
  BY CostAddsUp
<1>2. PICK g : AddsUp(g, t) /\ CostOf(t) = g[Len(t)]
  BY CostAddsUp
<1> DEFINE T == {i \in Nat : i <= Len(s) => f[i] <= g[i]}
<1>3. 0 \in T
  BY <1>1, <1>2 DEF AddsUp
<1>4. ASSUME NEW i \in Nat, i \in T PROVE i + 1 \in T
  <2>1. SUFFICES ASSUME i + 1 <= Len(s) PROVE f[i + 1] <= g[i + 1]
    OBVIOUS
  <2>2. Len(s) \in Nat
    BY DEF IsPriced
  <2>3. /\ f[i + 1] = f[i] + s[i + 1].cost /\ g[i + 1] = g[i] + t[i + 1].cost
        /\ s[i + 1].cost \in Nat /\ t[i + 1].cost \in Nat /\ f[i] \in Nat /\ g[i] \in Nat
    BY <1>1, <1>2, <2>1, NextSum
  <2>4. f[i] <= g[i] /\ s[i + 1].cost <= t[i + 1].cost
    BY <1>4, <2>1, <2>2
  <2>5. QED
    BY <2>3, <2>4
<1> HIDE DEF T
<1>5. Nat \subseteq T
  BY <1>3, <1>4, Induct
<1>6. QED
  BY <1>1, <1>2, <1>5 DEF T, IsPriced

\* A row of n records that cost at most d costs at most n * d.
LEMMA CostBound ==
  ASSUME NEW s, IsPriced(s), NEW d \in Nat, \A i \in 1 .. Len(s) : s[i].cost <= d
  PROVE  CostOf(s) <= Len(s) * d
<1>1. PICK f : AddsUp(f, s) /\ CostOf(s) = f[Len(s)]
  BY CostAddsUp
<1> DEFINE T == {i \in Nat : i <= Len(s) => f[i] <= i * d}
<1>2. 0 \in T
  BY <1>1 DEF AddsUp
<1>3. ASSUME NEW i \in Nat, i \in T PROVE i + 1 \in T
  <2>1. SUFFICES ASSUME i + 1 <= Len(s) PROVE f[i + 1] <= (i + 1) * d
    OBVIOUS
  <2>2. Len(s) \in Nat
    BY DEF IsPriced
  <2>3. f[i + 1] = f[i] + s[i + 1].cost /\ s[i + 1].cost \in Nat /\ f[i] \in Nat
    BY <1>1, <2>1, <2>2, NextSum
  <2>4. f[i] <= i * d /\ s[i + 1].cost <= d
    BY <1>3, <2>1, <2>2
  <2>5. (i + 1) * d = i * d + d /\ i * d \in Nat
    OBVIOUS
  <2>6. QED
    BY <2>3, <2>4, <2>5
<1> HIDE DEF T
<1>4. Nat \subseteq T
  BY <1>2, <1>3, Induct
<1>5. QED
  BY <1>1, <1>4 DEF T, IsPriced

-----------------------------------------------------------------------------
(* The candidates.                                                          *)

\* f[i] is what Only keeps of the first i elements of s.
Filters(f, s, keep, S) ==
  /\ f \in [0 .. Len(s) -> Seq(S)]
  /\ f[0] = << >>
  /\ \A i \in 1 .. Len(s) :
       f[i] = IF s[i] \in keep THEN Append(f[i - 1], s[i]) ELSE f[i - 1]

LEMMA OnlyFilters ==
  ASSUME NEW S, NEW s \in Seq(S), NEW keep
  PROVE  \E f : Filters(f, s, keep, S) /\ Only(s, keep) = f[Len(s)]
<1> DEFINE n == Len(s)
           F(f) == f = [i \in 0 .. n |-> IF i = 0 THEN << >>
                          ELSE IF s[i] \in keep THEN Append(f[i - 1], s[i]) ELSE f[i - 1]]
           step == [i \in 1 .. n |-> [x \in Seq(S) |->
                      IF s[i] \in keep THEN Append(x, s[i]) ELSE x]]
<1>1. n \in Nat /\ (\A i \in 1 .. n : s[i] \in S) /\ << >> \in Seq(S)
  OBVIOUS
<1>2. step \in Steps(n, Seq(S))
  <2>1. \A i \in 1 .. n, x \in Seq(S) : Append(x, s[i]) \in Seq(S)
    BY <1>1
  <2>2. QED
    BY <2>1 DEF Steps
<1>3. PICK g : Follows(g, n, Seq(S), << >>, step)
  <2> HIDE DEF step, n, F
  <2>1. QED
    BY <1>1, <1>2, FunctionUpTo
<1>4. \A i \in 1 .. n : g[i] = IF s[i] \in keep THEN Append(g[i - 1], s[i]) ELSE g[i - 1]
  <2>1. \A i \in 1 .. n : g[i - 1] \in Seq(S)
    BY <1>1, <1>3 DEF Follows
  <2>2. \A i \in 1 .. n :
          step[i][g[i - 1]] = IF s[i] \in keep THEN Append(g[i - 1], s[i]) ELSE g[i - 1]
    BY <2>1
  <2>3. QED
    BY <1>3, <2>2 DEF Follows
<1>5. F(g)
  <2>1. \A i \in 0 .. n : g[i] = IF i = 0 THEN << >>
          ELSE IF s[i] \in keep THEN Append(g[i - 1], s[i]) ELSE g[i - 1]
    <3>1. g[0] = << >>
      BY <1>3 DEF Follows
    <3>2. \A i \in 0 .. n : i # 0 => i \in 1 .. n
      BY <1>1
    <3>3. QED
      BY <1>4, <3>1, <3>2
  <2>2. QED
    BY <2>1, <1>3 DEF Follows
<1> DEFINE f == CHOOSE h : F(h)
<1>6. F(f)
  BY <1>5
<1>7. Only(s, keep) = f[n]
  BY DEF Only
<1> HIDE DEF f
<1>8. /\ f[0] = << >>
      /\ \A i \in 1 .. n : f[i] = IF s[i] \in keep THEN Append(f[i - 1], s[i]) ELSE f[i - 1]
  <2>1. 0 \in 0 .. n /\ \A i \in 1 .. n : i \in 0 .. n /\ i # 0
    BY <1>1
  <2>2. QED
    BY <1>6, <2>1
<1>9. \A i \in 0 .. n : f[i] \in Seq(S)
  <2> DEFINE T == {i \in Nat : i <= n => f[i] \in Seq(S)}
  <2>1. 0 \in T
    BY <1>8, <1>1
  <2>2. ASSUME NEW i \in Nat, i \in T PROVE i + 1 \in T
    <3>1. SUFFICES ASSUME i + 1 <= n PROVE f[i + 1] \in Seq(S)
      OBVIOUS
    <3>2. f[i] \in Seq(S) /\ s[i + 1] \in S
      BY <2>2, <3>1, <1>1
    <3>3. f[i + 1] = IF s[i + 1] \in keep THEN Append(f[i], s[i + 1]) ELSE f[i]
      BY <1>8, <3>1, <1>1
    <3>4. QED
      BY <3>2, <3>3
  <2> HIDE DEF T
  <2>3. Nat \subseteq T
    BY <2>1, <2>2, Induct
  <2>4. QED
    BY <2>3, <1>1 DEF T
<1>10. f \in [0 .. n -> Seq(S)]
  BY <1>6, <1>9
<1>11. Filters(f, s, keep, S)
  BY <1>1, <1>8, <1>10 DEF Filters
<1>12. QED
  BY <1>7, <1>11

\* No profile comes twice, and within a tier none before one that costs less.
InOrder(s) ==
  \A i, j \in DOMAIN s : i < j =>
    s[i] # s[j] /\ (Tier[s[i]] = Tier[s[j]] => PaymentRank(s[i]) <= PaymentRank(s[j]))

\* s keeps the members of T, and the order of t.
LEMMA OnlyKeeps ==
  ASSUME NEW s \in Seq(Profiles), NEW keep
  PROVE  /\ Only(s, keep) \in Seq(Profiles)
         /\ Range(Only(s, keep)) = Range(s) \cap keep
         /\ InOrder(s) => InOrder(Only(s, keep))
<1> DEFINE n == Len(s)
<1>1. PICK f : Filters(f, s, keep, Profiles) /\ Only(s, keep) = f[n]
  BY OnlyFilters
<1>2. n \in Nat /\ DOMAIN s = 1 .. n /\ \A i \in 1 .. n : s[i] \in Profiles
  OBVIOUS
<1> DEFINE From(i) == \A j \in DOMAIN f[i] : \E k \in 1 .. i : f[i][j] = s[k] /\ s[k] \in keep
           All(i)  == \A k \in 1 .. i : s[k] \in keep => \E j \in DOMAIN f[i] : f[i][j] = s[k]
           T == {i \in Nat : i <= n => From(i) /\ All(i) /\ (InOrder(s) => InOrder(f[i]))}
<1>3. 0 \in T
  <2>1. f[0] = << >>
    BY <1>1 DEF Filters
  <2>2. QED
    BY <2>1 DEF InOrder
<1>4. ASSUME NEW i \in Nat, i \in T PROVE i + 1 \in T
  <2>1. SUFFICES ASSUME i + 1 <= n
                 PROVE  From(i + 1) /\ All(i + 1) /\ (InOrder(s) => InOrder(f[i + 1]))
    OBVIOUS
  <2>2. From(i) /\ All(i) /\ (InOrder(s) => InOrder(f[i]))
    BY <1>4, <2>1, <1>2
  <2>3. f[i] \in Seq(Profiles) /\ i + 1 \in 1 .. n /\ s[i + 1] \in Profiles
    BY <1>1, <2>1, <1>2 DEF Filters
  <2>4. f[i + 1] = IF s[i + 1] \in keep THEN Append(f[i], s[i + 1]) ELSE f[i]
    BY <1>1, <2>1, <2>3, (i + 1) - 1 = i DEF Filters
  <2>5. CASE s[i + 1] \notin keep
    BY <2>2, <2>4, <2>5, <1>2
  <2>6. CASE s[i + 1] \in keep
    <3> DEFINE m == Len(f[i])
    <3>1. /\ m \in Nat /\ DOMAIN f[i] = 1 .. m /\ DOMAIN f[i + 1] = 1 .. m + 1
          /\ f[i + 1][m + 1] = s[i + 1]
          /\ \A j \in 1 .. m : f[i + 1][j] = f[i][j]
      BY <2>3, <2>4, <2>6
    <3> HIDE DEF m
    <3>2. From(i + 1)
      BY <3>1, <2>2, <2>6, <1>2
    <3>3. All(i + 1)
      <4>1. SUFFICES ASSUME NEW k \in 1 .. i + 1, s[k] \in keep
                     PROVE  \E j \in 1 .. m + 1 : f[i + 1][j] = s[k]
        BY <3>1
      <4>2. CASE k = i + 1
        BY <4>2, <3>1
      <4>3. CASE k # i + 1
        <5>1. k \in 1 .. i
          BY <4>3
        <5>2. PICK j \in 1 .. m : f[i][j] = s[k]
          BY <5>1, <4>1, <2>2, <3>1
        <5>3. QED
          BY <5>2, <3>1
      <4>4. QED
        BY <4>2, <4>3
    <3>4. ASSUME InOrder(s) PROVE InOrder(f[i + 1])
      <4>1. SUFFICES ASSUME NEW a \in 1 .. m + 1, NEW b \in 1 .. m + 1, a < b
                     PROVE  /\ f[i + 1][a] # f[i + 1][b]
                            /\ Tier[f[i + 1][a]] = Tier[f[i + 1][b]] =>
                                 PaymentRank(f[i + 1][a]) <= PaymentRank(f[i + 1][b])
        BY <3>1 DEF InOrder
      <4>2. a \in 1 .. m /\ f[i + 1][a] = f[i][a]
        BY <4>1, <3>1
      <4>3. CASE b = m + 1
        <5>1. PICK k \in 1 .. i : f[i][a] = s[k]
          BY <4>2, <2>2, <3>1
        <5>2. k \in 1 .. n /\ k < i + 1 /\ f[i + 1][b] = s[i + 1]
          BY <2>1, <1>2, <4>3, <3>1
        <5>3. QED
          BY <5>1, <5>2, <4>2, <3>4, <2>3, <1>2 DEF InOrder
      <4>4. CASE b # m + 1
        <5>1. b \in 1 .. m /\ f[i + 1][b] = f[i][b]
          BY <4>4, <3>1
        <5>2. InOrder(f[i])
          BY <2>2, <3>4
        <5>3. a \in DOMAIN f[i] /\ b \in DOMAIN f[i]
          BY <5>1, <4>2, <3>1
        <5>4. /\ f[i][a] # f[i][b]
              /\ Tier[f[i][a]] = Tier[f[i][b]] => PaymentRank(f[i][a]) <= PaymentRank(f[i][b])
          BY <5>2, <5>3, <4>1 DEF InOrder
        <5>5. QED
          BY <5>1, <5>4, <4>2
      <4>5. QED
        BY <4>3, <4>4
    <3>5. QED
      BY <3>2, <3>3, <3>4
  <2>7. QED
    BY <2>5, <2>6
<1> HIDE DEF T
<1>5. n \in T
  BY <1>3, <1>4, <1>2, Induct
<1>6. From(n) /\ All(n) /\ (InOrder(s) => InOrder(f[n]))
  BY <1>5, <1>2 DEF T
<1>7. f[n] \in Seq(Profiles)
  BY <1>1, <1>2 DEF Filters
<1>8. Range(f[n]) = Range(s) \cap keep
  <2>1. ASSUME NEW p \in Range(f[n]) PROVE p \in Range(s) \cap keep
    BY <2>1, <1>6, <1>2 DEF Range
  <2>2. ASSUME NEW p \in Range(s), p \in keep PROVE p \in Range(f[n])
    BY <2>2, <1>6, <1>2 DEF Range
  <2>3. QED
    BY <2>1, <2>2
<1>9. QED
  BY <1>1, <1>6, <1>7, <1>8

LEMMA FiniteProfiles ==
  ASSUME NEW S, S \subseteq Profiles
  PROVE  IsFiniteSet(S) /\ Cardinality(S) \in Nat
<1>1. Declared \in Seq(Profiles)
  BY RoutingAssumption
<1>2. Len(Declared) \in Nat /\ Declared \in [1 .. Len(Declared) -> Profiles]
  BY <1>1
<1>3. Declared \in Surjection(1 .. Len(Declared), Profiles)
  BY <1>2 DEF Surjection, Profiles, Range
<1>4. IsFiniteSet(1 .. Len(Declared))
  BY <1>2, FS_Interval
<1>5. IsFiniteSet(Profiles)
  BY <1>3, <1>4, FS_Surjection
<1>6. QED
  BY <1>5, FS_Subset, FS_CardinalityType

LEMMA Ranks ==
  ASSUME NEW p \in Profiles, NEW t
  PROVE  /\ PaymentRank(p) \in 0 .. 2 /\ GoodAtRank(p, t) \in 0 .. 2
         /\ Position(p) \in Nat /\ Declared[Position(p)] = p
<1>1. Declared \in Seq(Profiles)
  BY RoutingAssumption
<1>2. \E i \in DOMAIN Declared : Declared[i] = p
  BY DEF Profiles, Range
<1>3. QED
  BY <1>1, <1>2 DEF PaymentRank, GoodAtRank, Position

\* Before is a strict total order of the profiles.
LEMMA BeforeIsTotal ==
  ASSUME NEW p \in Profiles, NEW q \in Profiles, NEW t
  PROVE  /\ ~ Before(p, p, t)
         /\ p # q => Before(p, q, t) \/ Before(q, p, t)
<1>1. Position(p) = Position(q) => p = q
  BY Ranks
<1>2. QED
  BY <1>1, Ranks DEF Before

LEMMA BeforeIsTransitive ==
  ASSUME NEW p \in Profiles, NEW q \in Profiles, NEW r \in Profiles, NEW t,
         Before(p, q, t), Before(q, r, t)
  PROVE  Before(p, r, t)
BY Ranks DEF Before

\* Every set of profiles with a member has a last one.
LEMMA LastOne ==
  ASSUME NEW t
  PROVE  \A n \in Nat : \A S \in SUBSET Profiles : Cardinality(S) = n + 1 =>
           \E m \in S : \A q \in S \ {m} : Before(q, m, t)
<1> DEFINE T == {n \in Nat : \A S \in SUBSET Profiles : Cardinality(S) = n + 1 =>
                   \E m \in S : \A q \in S \ {m} : Before(q, m, t)}
<1>1. 0 \in T
  <2>1. SUFFICES ASSUME NEW S \in SUBSET Profiles, Cardinality(S) = 0 + 1
                 PROVE  \E m \in S : \A q \in S \ {m} : Before(q, m, t)
    OBVIOUS
  <2>2. IsFiniteSet(S) /\ Cardinality(S) = 1
    BY <2>1, FiniteProfiles
  <2>3. \E x : S = {x}
    BY <2>2, FS_Singleton
  <2>4. QED
    BY <2>3
<1>2. ASSUME NEW n \in Nat, n \in T PROVE n + 1 \in T
  <2>1. SUFFICES ASSUME NEW S \in SUBSET Profiles, Cardinality(S) = (n + 1) + 1
                 PROVE  \E m \in S : \A q \in S \ {m} : Before(q, m, t)
    OBVIOUS
  <2>2. S # {}
    BY <2>1, FS_EmptySet
  <2>3. PICK x \in S : TRUE
    BY <2>2
  <2>4. Cardinality(S \ {x}) = n + 1
    BY <2>1, <2>3, FiniteProfiles, FS_RemoveElement
  <2>5. PICK m \in S \ {x} : \A q \in (S \ {x}) \ {m} : Before(q, m, t)
    BY <1>2, <2>4
  <2>6. m \in Profiles /\ x \in Profiles /\ m # x
    BY <2>3, <2>5
  <2>7. CASE Before(x, m, t)
    BY <2>5, <2>7
  <2>8. CASE Before(m, x, t)
    <3>1. ASSUME NEW q \in S \ {x} PROVE Before(q, x, t)
      <4>1. CASE q = m
        BY <4>1, <2>8
      <4>2. CASE q # m
        BY <4>2, <2>5, <2>6, <2>8, BeforeIsTransitive
      <4>3. QED
        BY <4>1, <4>2
    <3>2. QED
      BY <3>1, <2>3
  <2>9. QED
    BY <2>6, <2>7, <2>8, BeforeIsTotal
<1> HIDE DEF T
<1>3. Nat \subseteq T
  BY <1>1, <1>2, Induct
<1>4. QED
  BY <1>3 DEF T

Sorted(s, t) == \A i, j \in DOMAIN s : i < j => Before(s[i], s[j], t)

\* So every set of profiles can be sorted.
LEMMA Sortable ==
  ASSUME NEW t
  PROVE  \A n \in Nat : \A S \in SUBSET Profiles : Cardinality(S) = n =>
           \E s \in [1 .. n -> S] : Sorted(s, t)
<1> DEFINE T == {n \in Nat : \A S \in SUBSET Profiles : Cardinality(S) = n =>
                   \E s \in [1 .. n -> S] : Sorted(s, t)}
<1>1. 0 \in T
  <2>1. SUFFICES ASSUME NEW S \in SUBSET Profiles
                 PROVE  \E s \in [1 .. 0 -> S] : Sorted(s, t)
    OBVIOUS
  <2>2. << >> \in [1 .. 0 -> S] /\ Sorted(<< >>, t)
    BY DEF Sorted
  <2>3. QED
    BY <2>2
<1>2. ASSUME NEW n \in Nat, n \in T PROVE n + 1 \in T
  <2>1. SUFFICES ASSUME NEW S \in SUBSET Profiles, Cardinality(S) = n + 1
                 PROVE  \E s \in [1 .. n + 1 -> S] : Sorted(s, t)
    OBVIOUS
  <2>2. PICK m \in S : \A q \in S \ {m} : Before(q, m, t)
    BY <2>1, LastOne
  <2>3. Cardinality(S \ {m}) = n
    BY <2>1, <2>2, FiniteProfiles, FS_RemoveElement
  <2>4. PICK s \in [1 .. n -> S \ {m}] : Sorted(s, t)
    BY <1>2, <2>3
  <2> DEFINE u == [i \in 1 .. n + 1 |-> IF i = n + 1 THEN m ELSE s[i]]
  <2>5. u \in [1 .. n + 1 -> S]
    BY <2>2, <2>4
  <2>6. ASSUME NEW i \in 1 .. n + 1, NEW j \in 1 .. n + 1, i < j
        PROVE  Before(u[i], u[j], t)
    <3>1. i \in 1 .. n /\ u[i] = s[i] /\ s[i] \in S \ {m}
      BY <2>4, <2>6
    <3>2. CASE j = n + 1
      BY <3>1, <3>2, <2>2
    <3>3. CASE j # n + 1
      <4>1. j \in 1 .. n /\ u[j] = s[j]
        BY <3>3
      <4>2. QED
        BY <4>1, <3>1, <2>4, <2>6 DEF Sorted
    <3>4. QED
      BY <3>2, <3>3
  <2>7. Sorted(u, t)
    BY <2>5, <2>6 DEF Sorted
  <2>8. QED
    BY <2>5, <2>7
<1> HIDE DEF T
<1>3. Nat \subseteq T
  BY <1>1, <1>2, Induct
<1>4. QED
  BY <1>3 DEF T

OfTier(k, t) == {p \in Profiles : Tier[p] = k /\ Usable(p, t)}

\* The candidates of a tier are its usable profiles, each once, the cheap first.
LEMMA TierInOrder ==
  ASSUME NEW k, NEW t
  PROVE  /\ SortProfilesForTier(k, t) \in Seq(Profiles)
         /\ Range(SortProfilesForTier(k, t)) = OfTier(k, t)
         /\ InOrder(SortProfilesForTier(k, t))
<1> DEFINE S == OfTier(k, t)
           n == Cardinality(S)
           s == CHOOSE z \in [1 .. n -> S] : Sorted(z, t)
<1>1. SortProfilesForTier(k, t) = s
  BY DEF SortProfilesForTier, OfTier, Sorted
<1>2. S \in SUBSET Profiles /\ n \in Nat /\ IsFiniteSet(S)
  BY FiniteProfiles DEF OfTier
<1>3. s \in [1 .. n -> S] /\ Sorted(s, t)
  BY <1>2, Sortable
<1> HIDE DEF s
<1>4. \A i \in 1 .. n : s[i] \in Profiles
  BY <1>2, <1>3
<1>5. ASSUME NEW i \in 1 .. n, NEW j \in 1 .. n, i < j
      PROVE  s[i] # s[j] /\ PaymentRank(s[i]) <= PaymentRank(s[j])
  <2>1. Before(s[i], s[j], t)
    BY <1>3, <1>5 DEF Sorted
  <2>2. s[i] # s[j]
    BY <2>1, <1>4, BeforeIsTotal
  <2>3. QED
    BY <2>1, <2>2, <1>4, Ranks DEF Before
<1>6. s \in Injection(1 .. n, S)
  BY <1>2, <1>3, <1>5 DEF Injection, IsInjective
<1>7. s \in Surjection(1 .. n, S)
  <2>1. Cardinality(1 .. n) = n
    BY <1>2, FS_Interval
  <2>2. QED
    BY <1>2, <1>6, <2>1, FS_Injection
<1>8. Range(s) = S
  BY <1>3, <1>7 DEF Surjection, Range
<1>9. InOrder(s)
  BY <1>3, <1>5 DEF InOrder
<1>10. s \in Seq(Profiles)
  BY <1>2, <1>3
<1>11. QED
  BY <1>1, <1>8, <1>9, <1>10

\* f[i] is the concatenation of the first i of the sequences.
Flattens(f, seqs, n, S) ==
  /\ f \in [1 .. n -> Seq(S)]
  /\ f[1] = seqs[1]
  /\ \A i \in 2 .. n : f[i] = f[i - 1] \o seqs[i]

LEMMA FlattenUpTo ==
  ASSUME NEW S, NEW n \in Nat \ {0}, NEW seqs \in [1 .. n -> Seq(S)]
  PROVE  \E f : Flattens(f, seqs, n, S) /\ FlattenSeq(seqs) = f[n]
<1> DEFINE F(f) == f = [i \in 1 .. n |-> IF i = 1 THEN seqs[i] ELSE f[i - 1] \o seqs[i]]
           step == [i \in 1 .. n |-> [x \in Seq(S) |-> x \o seqs[i]]]
<1>1. /\ << >> \in Seq(S) /\ seqs \in Seq(Seq(S)) /\ Len(seqs) = n
      /\ \A i \in 1 .. n : seqs[i] \in Seq(S)
  OBVIOUS
<1>2. step \in Steps(n, Seq(S))
  <2>1. \A i \in 1 .. n, x \in Seq(S) : x \o seqs[i] \in Seq(S)
    BY <1>1
  <2>2. QED
    BY <2>1 DEF Steps
<1>3. PICK h : Follows(h, n, Seq(S), << >>, step)
  <2> HIDE DEF step, F
  <2>1. QED
    BY <1>1, <1>2, FunctionUpTo
<1> DEFINE g == [i \in 1 .. n |-> h[i]]
<1>4. /\ \A i \in 1 .. n : h[i - 1] \in Seq(S) /\ h[i] \in Seq(S)
      /\ \A i \in 1 .. n : h[i] = h[i - 1] \o seqs[i]
  <2>1. \A i \in 1 .. n : h[i - 1] \in Seq(S) /\ h[i] \in Seq(S)
    BY <1>3 DEF Follows
  <2>2. \A i \in 1 .. n : step[i][h[i - 1]] = h[i - 1] \o seqs[i]
    BY <2>1
  <2>3. QED
    BY <1>3, <2>1, <2>2 DEF Follows
<1>5. F(g)
  <2>1. h[1] = seqs[1]
    <3>1. 1 \in 1 .. n /\ h[0] = << >>
      BY <1>3 DEF Follows
    <3>2. h[1] = h[0] \o seqs[1]
      BY <3>1, <1>4, 1 - 1 = 0
    <3>3. seqs[1] \in Seq(S)
      BY <3>1, <1>1
    <3>4. QED
      BY <3>1, <3>2, <3>3
  <2>2. \A i \in 1 .. n : i # 1 => i - 1 \in 1 .. n
    OBVIOUS
  <2>3. \A i \in 1 .. n : g[i] = IF i = 1 THEN seqs[i] ELSE g[i - 1] \o seqs[i]
    BY <1>4, <2>1, <2>2
  <2> HIDE DEF g
  <2>4. DOMAIN g = 1 .. n
    BY DEF g
  <2>5. g = [i \in 1 .. n |-> g[i]]
    BY DEF g
  <2>6. QED
    BY <2>3, <2>5
<1> DEFINE f == CHOOSE z : F(z)
<1>6. F(f)
  BY <1>5
<1>7. FlattenSeq(seqs) = f[n]
  BY <1>1 DEF FlattenSeq
<1> HIDE DEF f
<1>8. f[1] = seqs[1] /\ \A i \in 2 .. n : f[i] = f[i - 1] \o seqs[i]
  <2>1. 1 \in 1 .. n /\ \A i \in 2 .. n : i \in 1 .. n /\ i # 1
    OBVIOUS
  <2>2. QED
    BY <1>6, <2>1
<1>9. \A i \in 1 .. n : f[i] \in Seq(S)
  <2> DEFINE T == {i \in Nat : i + 1 <= n => f[i + 1] \in Seq(S)}
  <2>1. 0 \in T
    BY <1>1, <1>8
  <2>2. ASSUME NEW i \in Nat, i \in T PROVE i + 1 \in T
    <3>1. SUFFICES ASSUME (i + 1) + 1 <= n PROVE f[(i + 1) + 1] \in Seq(S)
      OBVIOUS
    <3>2. f[i + 1] \in Seq(S) /\ seqs[(i + 1) + 1] \in Seq(S)
      BY <2>2, <3>1, <1>1
    <3>3. (i + 1) + 1 \in 2 .. n /\ ((i + 1) + 1) - 1 = i + 1
      BY <3>1
    <3>4. f[(i + 1) + 1] = f[i + 1] \o seqs[(i + 1) + 1]
      BY <1>8, <3>3
    <3>5. QED
      BY <3>2, <3>4
  <2> HIDE DEF T
  <2>3. Nat \subseteq T
    BY <2>1, <2>2, Induct
  <2>4. ASSUME NEW i \in 1 .. n PROVE f[i] \in Seq(S)
    <3>1. i - 1 \in T /\ (i - 1) + 1 = i
      BY <2>3
    <3>2. QED
      BY <3>1 DEF T
  <2>5. QED
    BY <2>4
<1>10. f \in [1 .. n -> Seq(S)]
  BY <1>6, <1>9
<1>11. Flattens(f, seqs, n, S)
  BY <1>8, <1>10 DEF Flattens
<1>12. QED
  BY <1>7, <1>11

\* One candidate list after another: in order when no tier is in both.
LEMMA ConcatInOrder ==
  ASSUME NEW s \in Seq(Profiles), NEW t \in Seq(Profiles), InOrder(s), InOrder(t),
         \A p \in Range(s), q \in Range(t) : Tier[p] # Tier[q]
  PROVE  s \o t \in Seq(Profiles) /\ Range(s \o t) = Range(s) \cup Range(t) /\ InOrder(s \o t)
<1> DEFINE u == s \o t
           m == Len(s)
<1>1. /\ m \in Nat /\ Len(t) \in Nat /\ u \in Seq(Profiles)
      /\ DOMAIN s = 1 .. m /\ DOMAIN t = 1 .. Len(t) /\ DOMAIN u = 1 .. m + Len(t)
      /\ \A i \in 1 .. m : u[i] = s[i]
      /\ \A i \in m + 1 .. m + Len(t) : i - m \in 1 .. Len(t) /\ u[i] = t[i - m]
  OBVIOUS
<1> HIDE DEF u, m
<1>2. \A i \in 1 .. Len(t) : m + i \in m + 1 .. m + Len(t) /\ (m + i) - m = i
  BY <1>1
<1>3. Range(u) = Range(s) \cup Range(t)
  <2>1. ASSUME NEW p \in Range(u) PROVE p \in Range(s) \cup Range(t)
    <3>1. PICK i \in 1 .. m + Len(t) : u[i] = p
      BY <2>1, <1>1 DEF Range
    <3>2. i \in 1 .. m \/ i \in m + 1 .. m + Len(t)
      BY <3>1, <1>1
    <3>3. QED
      BY <3>1, <3>2, <1>1 DEF Range
  <2>2. ASSUME NEW p \in Range(s) PROVE p \in Range(u)
    <3>1. PICK i \in 1 .. m : s[i] = p
      BY <2>2, <1>1 DEF Range
    <3>2. i \in 1 .. m + Len(t)
      BY <1>1
    <3>3. QED
      BY <3>1, <3>2, <1>1 DEF Range
  <2>3. ASSUME NEW p \in Range(t) PROVE p \in Range(u)
    <3>1. PICK i \in 1 .. Len(t) : t[i] = p
      BY <2>3, <1>1 DEF Range
    <3>2. m + i \in 1 .. m + Len(t) /\ u[m + i] = p
      BY <3>1, <1>1, <1>2
    <3>3. QED
      BY <3>2, <1>1 DEF Range
  <2>4. QED
    BY <2>1, <2>2, <2>3
<1>4. InOrder(u)
  <2>1. SUFFICES ASSUME NEW i \in 1 .. m + Len(t), NEW j \in 1 .. m + Len(t), i < j
                 PROVE  /\ u[i] # u[j]
                        /\ Tier[u[i]] = Tier[u[j]] => PaymentRank(u[i]) <= PaymentRank(u[j])
    BY <1>1 DEF InOrder
  <2>2. CASE j \in 1 .. m
    <3>1. i \in 1 .. m /\ u[i] = s[i] /\ u[j] = s[j]
      BY <2>1, <2>2, <1>1
    <3>2. QED
      BY <3>1, <2>1, <2>2, <1>1 DEF InOrder
  <2>3. CASE i \in m + 1 .. m + Len(t)
    <3>1. j \in m + 1 .. m + Len(t) /\ i - m < j - m
      BY <2>1, <2>3, <1>1
    <3>2. u[i] = t[i - m] /\ u[j] = t[j - m] /\ i - m \in DOMAIN t /\ j - m \in DOMAIN t
      BY <3>1, <2>3, <1>1
    <3>3. QED
      BY <3>1, <3>2 DEF InOrder
  <2>4. CASE i \in 1 .. m /\ j \in m + 1 .. m + Len(t)
    <3>1. u[i] \in Range(s) /\ u[j] \in Range(t)
      BY <2>4, <1>1 DEF Range
    <3>2. Tier[u[i]] # Tier[u[j]]
      BY <3>1
    <3>3. QED
      BY <3>2
  <2>5. QED
    BY <2>1, <2>2, <2>3, <2>4, <1>1
<1>5. QED
  BY <1>1, <1>3, <1>4 DEF u

\* Lists of different tiers, one after the other.
LEMMA FlattenInOrder ==
  ASSUME NEW n \in Nat, NEW seqs \in [1 .. n -> Seq(Profiles)], NEW level \in [1 .. n -> Int],
         \A i, j \in 1 .. n : i # j => level[i] # level[j],
         \A i \in 1 .. n : InOrder(seqs[i]) /\ \A p \in Range(seqs[i]) : Tier[p] = level[i]
  PROVE  /\ FlattenSeq(seqs) \in Seq(Profiles)
         /\ InOrder(FlattenSeq(seqs))
         /\ \A p : p \in Range(FlattenSeq(seqs)) <=> \E i \in 1 .. n : p \in Range(seqs[i])
<1>1. CASE n = 0
  <2>1. seqs = << >> /\ Len(seqs) = 0
    BY <1>1
  <2>2. FlattenSeq(seqs) = << >>
    BY <2>1 DEF FlattenSeq
  <2>3. 1 .. n = {}
    BY <1>1
  <2>4. Range(<< >>) = {} /\ InOrder(<< >>)
    BY DEF Range, InOrder
  <2>5. QED
    BY <2>2, <2>3, <2>4
<1>2. CASE n # 0
  <2>1. PICK f : Flattens(f, seqs, n, Profiles) /\ FlattenSeq(seqs) = f[n]
    BY <1>2, FlattenUpTo
  <2> DEFINE Good(k) == /\ InOrder(f[k])
                        /\ \A p : p \in Range(f[k]) <=> \E i \in 1 .. k : p \in Range(seqs[i])
             T == {k \in Nat : k + 1 <= n => Good(k + 1)}
  <2>2. 0 \in T
    <3>1. 1 \in 1 .. n /\ f[1] = seqs[1]
      BY <2>1, <1>2 DEF Flattens
    <3>2. \A p : p \in Range(seqs[1]) <=> \E i \in 1 .. 1 : p \in Range(seqs[i])
      OBVIOUS
    <3>3. QED
      BY <3>1, <3>2
  <2>3. ASSUME NEW k \in Nat, k \in T PROVE k + 1 \in T
    <3>1. SUFFICES ASSUME (k + 1) + 1 <= n PROVE Good((k + 1) + 1)
      OBVIOUS
    <3> DEFINE m == k + 1
    <3>2. m \in 1 .. n /\ m + 1 \in 1 .. n /\ m + 1 \in 2 .. n /\ (m + 1) - 1 = m
      BY <3>1
    <3>3. Good(m)
      BY <2>3, <3>1
    <3> HIDE DEF m
    <3>4. f[m + 1] = f[m] \o seqs[m + 1] /\ f[m] \in Seq(Profiles) /\ seqs[m + 1] \in Seq(Profiles)
      BY <3>2, <2>1 DEF Flattens
    <3>5. ASSUME NEW p \in Range(f[m]), NEW q \in Range(seqs[m + 1]) PROVE Tier[p] # Tier[q]
      <4>1. PICK i \in 1 .. m : p \in Range(seqs[i])
        BY <3>3, <3>5
      <4>2. i \in 1 .. n /\ i # m + 1
        BY <3>2
      <4>3. Tier[p] = level[i] /\ Tier[q] = level[m + 1]
        BY <4>1, <4>2, <3>2, <3>5
      <4>4. QED
        BY <4>2, <4>3, <3>2
    <3>6. InOrder(f[m + 1]) /\ Range(f[m + 1]) = Range(f[m]) \cup Range(seqs[m + 1])
      <4> DEFINE x == f[m]
                 y == seqs[m + 1]
      <4>1. x \in Seq(Profiles) /\ y \in Seq(Profiles) /\ InOrder(x) /\ InOrder(y)
        BY <3>2, <3>3, <3>4
      <4>2. \A p \in Range(x), q \in Range(y) : Tier[p] # Tier[q]
        BY <3>5
      <4>3. f[m + 1] = x \o y
        BY <3>4
      <4> HIDE DEF x, y
      <4>4. InOrder(x \o y) /\ Range(x \o y) = Range(x) \cup Range(y)
        BY <4>1, <4>2, ConcatInOrder
      <4>5. QED
        BY <4>3, <4>4 DEF x, y
    <3>7. \A i : i \in 1 .. m + 1 <=> i \in 1 .. m \/ i = m + 1
      BY <3>2
    <3>8. Good(m + 1)
      BY <3>3, <3>6, <3>7
    <3>9. QED
      BY <3>8 DEF m
  <2> HIDE DEF T
  <2>4. n - 1 \in T /\ (n - 1) + 1 = n
    <3>1. n - 1 \in Nat /\ (n - 1) + 1 = n
      BY <1>2
    <3>2. Nat \subseteq T
      BY <2>2, <2>3, Induct
    <3>3. QED
      BY <3>1, <3>2
  <2>5. Good(n)
    BY <2>4 DEF T
  <2>6. f[n] \in Seq(Profiles)
    BY <2>1, <1>2 DEF Flattens
  <2>7. QED
    BY <2>1, <2>5, <2>6
<1>3. QED
  BY <1>1, <1>2

\* A list of candidates: each once, in order, with every local one that fits.
Candidates(s, t) ==
  /\ s \in Seq(Profiles)
  /\ InOrder(s)
  /\ OfTier(0, t) \subseteq Range(s)

LEMMA ChainInOrder ==
  ASSUME NEW primary \in 0 .. 2, NEW t
  PROVE  Candidates(BuildEscalationChain(primary, t), t)
<1> DEFINE n == 3 - primary
           up == [i \in 1 .. n |-> IF primary + i - 1 <= Ceiling
                                     THEN SortProfilesForTier(primary + i - 1, t) ELSE << >>]
           upLevel == [i \in 1 .. n |-> primary + i - 1]
           down == [i \in 1 .. primary |-> SortProfilesForTier(primary - i, t)]
           downLevel == [i \in 1 .. primary |-> primary - i]
           s == FlattenSeq(up)
           u == FlattenSeq(down)
<1>1. BuildEscalationChain(primary, t) = s \o u
  BY DEF BuildEscalationChain
<1>2. n \in Nat /\ primary \in Nat /\ Ceiling \in 0 .. 2
  BY RoutingAssumption
<1>3. \A k : SortProfilesForTier(k, t) \in Seq(Profiles) /\ InOrder(SortProfilesForTier(k, t))
  BY TierInOrder
<1>4. \A k, p : p \in Range(SortProfilesForTier(k, t)) => Tier[p] = k
  BY TierInOrder DEF OfTier
<1>5. InOrder(<< >>) /\ Range(<< >>) = {} /\ << >> \in Seq(Profiles)
  BY DEF InOrder, Range
<1>6. /\ up \in [1 .. n -> Seq(Profiles)]
      /\ \A i \in 1 .. n : InOrder(up[i]) /\ \A p \in Range(up[i]) : Tier[p] = upLevel[i]
  BY <1>3, <1>4, <1>5
<1>7. /\ upLevel \in [1 .. n -> Int]
      /\ \A i, j \in 1 .. n : i # j => upLevel[i] # upLevel[j]
  BY <1>2
<1>8. /\ down \in [1 .. primary -> Seq(Profiles)]
      /\ \A i \in 1 .. primary :
           InOrder(down[i]) /\ \A p \in Range(down[i]) : Tier[p] = downLevel[i]
  BY <1>3, <1>4
<1>9. /\ downLevel \in [1 .. primary -> Int]
      /\ \A i, j \in 1 .. primary : i # j => downLevel[i] # downLevel[j]
  BY <1>2
<1>10. /\ \A i \in 1 .. n : upLevel[i] >= primary
       /\ \A i \in 1 .. primary : downLevel[i] < primary
  BY <1>2
<1>11. primary = 0 => 1 \in 1 .. n /\ up[1] = SortProfilesForTier(0, t)
  BY <1>2
<1>12. primary # 0 => primary \in 1 .. primary /\ down[primary] = SortProfilesForTier(0, t)
  BY <1>2
<1> HIDE DEF n, up, upLevel, down, downLevel
<1>13. /\ s \in Seq(Profiles) /\ InOrder(s)
       /\ \A p : p \in Range(s) <=> \E i \in 1 .. n : p \in Range(up[i])
  BY <1>2, <1>6, <1>7, FlattenInOrder
<1>14. /\ u \in Seq(Profiles) /\ InOrder(u)
       /\ \A p : p \in Range(u) <=> \E i \in 1 .. primary : p \in Range(down[i])
  BY <1>2, <1>8, <1>9, FlattenInOrder
<1> HIDE DEF s, u
<1>15. ASSUME NEW p \in Range(s), NEW q \in Range(u) PROVE Tier[p] # Tier[q]
  <2>1. PICK i \in 1 .. n : Tier[p] = upLevel[i]
    BY <1>6, <1>13, <1>15
  <2>2. PICK j \in 1 .. primary : Tier[q] = downLevel[j]
    BY <1>8, <1>14, <1>15
  <2>3. Tier[p] >= primary /\ Tier[q] < primary
    BY <2>1, <2>2, <1>10
  <2>4. upLevel[i] \in Int /\ downLevel[j] \in Int
    BY <1>7, <1>9
  <2>5. QED
    BY <2>1, <2>2, <2>3, <2>4, <1>2
<1>16. s \o u \in Seq(Profiles) /\ Range(s \o u) = Range(s) \cup Range(u) /\ InOrder(s \o u)
  BY <1>13, <1>14, <1>15, ConcatInOrder
<1>17. Range(SortProfilesForTier(0, t)) \subseteq Range(s) \cup Range(u)
  BY <1>11, <1>12, <1>13, <1>14
<1>18. QED
  BY <1>1, <1>16, <1>17, TierInOrder DEF Candidates

LEMMA PrimaryType ==
  ASSUME NEW t
  PROVE  Primary(t) \in 0 .. 2
BY DEF Primary, TierForScore

\* What a filter leaves is a list of candidates, if it leaves the local ones.
LEMMA OnlyCandidates ==
  ASSUME NEW s, NEW t, Candidates(s, t), NEW keep, OfTier(0, t) \subseteq keep
  PROVE  Candidates(Only(s, keep), t)
BY OnlyKeeps DEF Candidates

LEMMA AffordableInOrder ==
  ASSUME NEW t, NEW records
  PROVE  Candidates(AffordableChain(t, records), t)
<1> DEFINE primary  == Primary(t)
           chain    == BuildEscalationChain(primary, t)
           lower    == IF primary = 0 THEN << >> ELSE BuildEscalationChain(primary - 1, t)
           near     == Downgrade /\ CostOf(records) * 100 >= Limit * 80
           over     == Downgrade /\ CostOf(records) >= Limit
           afforded == IF near /\ lower # << >> THEN lower ELSE chain
           keep     == {p \in Profiles : Tier[p] # 2}
<1>1. AffordableChain(t, records) = IF over THEN Only(afforded, keep) ELSE afforded
  BY DEF AffordableChain
<1>2. Candidates(chain, t)
  BY PrimaryType, ChainInOrder
<1>3. lower # << >> => Candidates(lower, t)
  <2>1. primary # 0 => primary - 1 \in 0 .. 2
    BY PrimaryType
  <2>2. QED
    BY <2>1, ChainInOrder
<1>4. OfTier(0, t) \subseteq keep
  BY DEF OfTier
<1> HIDE DEF near, over, lower, chain, keep
<1>5. Candidates(afforded, t)
  BY <1>2, <1>3
<1> HIDE DEF afforded
<1>6. Candidates(Only(afforded, keep), t)
  BY <1>4, <1>5, OnlyCandidates
<1>7. QED
  BY <1>1, <1>5, <1>6

\* The candidates of a request: in order, with every local one that is viable.
LEMMA CandidatesInOrder ==
  ASSUME NEW t, NEW records, NEW up
  PROVE  /\ CandidateIds(t, records, up) \in Seq(Profiles)
         /\ InOrder(CandidateIds(t, records, up))
         /\ {p \in OfTier(0, t) : Viable(p, up)} \subseteq Range(CandidateIds(t, records, up))
<1> DEFINE chain  == AffordableChain(t, records)
           keep   == {p \in Profiles : Viable(p, up)}
           viable == Only(chain, keep)
<1>1. CandidateIds(t, records, up) = IF viable # << >> THEN viable ELSE chain
  BY DEF CandidateIds
<1>2. chain \in Seq(Profiles) /\ InOrder(chain) /\ OfTier(0, t) \subseteq Range(chain)
  BY AffordableInOrder DEF Candidates
<1>3. {p \in OfTier(0, t) : Viable(p, up)} \subseteq keep
  BY DEF OfTier
<1> HIDE DEF chain, keep
<1>4. viable \in Seq(Profiles) /\ InOrder(viable) /\ Range(viable) = Range(chain) \cap keep
  BY <1>2, OnlyKeeps
<1> HIDE DEF viable
<1>5. QED
  BY <1>1, <1>2, <1>3, <1>4

-----------------------------------------------------------------------------
(* What a step does to the request it is about.                             *)

RequestState ==
  [pc : Stages, kind : Kinds \cup {None}, auto : BOOLEAN, task : Tasks \cup {None},
   at : Profiles \cup {None}, left : Seq(Profiles), tried : SUBSET Profiles,
   up : SUBSET Probed, outcome : Results \cup {None}, cost : Nat, kept : Seq(Record)]

\* The stages in which a profile is being tried, and those in which its answer
\* is on the way into the log.
Trying    == {"precheck", "caps", "gate", "provider", "stat", "trim", "append"}
ToBeLogged == {"stat", "trim", "append"}

\* A request that is trying has a profile; what a trim copied has its length;
\* the walk of an auto request is in order, and has lost no local candidate.
Walk(r) == <<r.at>> \o r.left

Sound(r) ==
  /\ r \in RequestState
  /\ r.pc \in Trying => r.at \in Profiles
  /\ r.pc = "trim" => Len(r.kept) = Target
  /\ r.pc = "resolve" => r.tried = {}
  /\ r.pc = "precheck" => ~ r.auto
  /\ r.pc = "caps" => r.kind = "route"
  /\ r.pc \in ToBeLogged => r.outcome \in Outcomes
  /\ Walks(r) /\ r.pc \in Trying =>
       /\ InOrder(Walk(r))
       /\ Range(Walk(r)) \cap r.tried = {}
       /\ \A p \in OfTier(0, r.task) : Viable(p, r.up) => p \in r.tried \cup Range(Walk(r))
  /\ Walks(r) /\ r.pc = "done" /\ r.outcome = "transient" =>
       \A p \in OfTier(0, r.task) : Viable(p, r.up) => p \in r.tried

\* The first candidate, and those left.
LEMMA WalkIs ==
  ASSUME NEW p \in Profiles, NEW left \in Seq(Profiles)
  PROVE  /\ Range(<<p>> \o left) = {p} \cup Range(left)
         /\ (<<p>> \o left)[1] = p /\ 1 \in DOMAIN (<<p>> \o left)
         /\ \A i \in DOMAIN left : i + 1 \in DOMAIN (<<p>> \o left) /\ (<<p>> \o left)[i + 1] = left[i]
<1> DEFINE w == <<p>> \o left
<1>1. /\ Len(left) \in Nat /\ DOMAIN left = 1 .. Len(left)
      /\ DOMAIN w = 1 .. Len(left) + 1 /\ w[1] = p
      /\ \A i \in 1 .. Len(left) : w[i + 1] = left[i]
  OBVIOUS
<1> HIDE DEF w
<1>2. ASSUME NEW q \in Range(w) PROVE q \in {p} \cup Range(left)
  <2>1. PICK i \in 1 .. Len(left) + 1 : w[i] = q
    BY <1>1, <1>2 DEF Range
  <2>2. i = 1 \/ (i - 1 \in 1 .. Len(left) /\ (i - 1) + 1 = i)
    BY <2>1, <1>1
  <2>3. QED
    BY <2>1, <2>2, <1>1 DEF Range
<1>3. p \in Range(w)
  BY <1>1 DEF Range
<1>4. ASSUME NEW q \in Range(left) PROVE q \in Range(w)
  <2>1. PICK i \in 1 .. Len(left) : left[i] = q
    BY <1>1, <1>4 DEF Range
  <2>2. i + 1 \in 1 .. Len(left) + 1 /\ w[i + 1] = q
    BY <2>1, <1>1
  <2>3. QED
    BY <2>2, <1>1 DEF Range
<1>5. Range(w) = {p} \cup Range(left)
  BY <1>2, <1>3, <1>4
<1>6. \A i \in 1 .. Len(left) : i + 1 \in 1 .. Len(left) + 1
  BY <1>1
<1>7. QED
  BY <1>1, <1>5, <1>6 DEF w

\* A list that is not empty is the walk from its head.
LEMMA WalkOf ==
  ASSUME NEW s \in Seq(Profiles), s # << >>
  PROVE  Head(s) \in Profiles /\ Tail(s) \in Seq(Profiles) /\ <<Head(s)>> \o Tail(s) = s
OBVIOUS

\* The rest of a walk in order is in order, and without its first candidate.
LEMMA RestInOrder ==
  ASSUME NEW p \in Profiles, NEW left \in Seq(Profiles), InOrder(<<p>> \o left)
  PROVE  /\ InOrder(left) /\ p \notin Range(left)
         /\ \A i \in DOMAIN left : Tier[left[i]] = Tier[p] => PaymentRank(p) <= PaymentRank(left[i])
<1> DEFINE w == <<p>> \o left
<1>1. /\ w[1] = p /\ 1 \in DOMAIN w /\ DOMAIN left = 1 .. Len(left) /\ Len(left) \in Nat
      /\ \A i \in DOMAIN left : i + 1 \in DOMAIN w /\ w[i + 1] = left[i]
  BY WalkIs
<1>2. InOrder(w)
  OBVIOUS
<1> HIDE DEF w
<1>3. InOrder(left)
  <2>1. ASSUME NEW i \in DOMAIN left, NEW j \in DOMAIN left, i < j
        PROVE  /\ left[i] # left[j]
               /\ Tier[left[i]] = Tier[left[j]] => PaymentRank(left[i]) <= PaymentRank(left[j])
    <3>1. i + 1 < j + 1 /\ i + 1 \in DOMAIN w /\ j + 1 \in DOMAIN w
          /\ w[i + 1] = left[i] /\ w[j + 1] = left[j]
      BY <2>1, <1>1
    <3>2. QED
      BY <3>1, <1>2 DEF InOrder
  <2>2. QED
    BY <2>1 DEF InOrder
<1>4. ASSUME NEW i \in DOMAIN left
      PROVE  left[i] # p /\ (Tier[left[i]] = Tier[p] => PaymentRank(p) <= PaymentRank(left[i]))
  <2>1. 1 < i + 1 /\ i + 1 \in DOMAIN w /\ w[i + 1] = left[i]
    BY <1>1
  <2>2. QED
    BY <2>1, <1>1, <1>2 DEF InOrder
<1>5. QED
  BY <1>3, <1>4 DEF Range

\* Whoever goes on, goes on in order.
LEMMA ContinueSound ==
  ASSUME NEW c \in Callers, NEW r, Sound(r), r.pc \in Trying, r.outcome \in Results,
         Continue(c, r)
  PROVE  \E n : /\ Sound(n) /\ Set(c, n) /\ n.pc \in {"gate", "done"} /\ n.cost = 0
<1> DEFINE again == (r.outcome = "poor" /\ Quality) \/ r.outcome = "transient"
           go    == [r EXCEPT !.pc = "gate", !.at = Head(r.left), !.left = Tail(r.left),
                              !.tried = r.tried \cup {r.at}, !.outcome = None, !.cost = 0]
           stop  == [r EXCEPT !.pc = "done", !.tried = r.tried \cup {r.at}, !.cost = 0]
<1>1. r \in RequestState /\ r.at \in Profiles
  BY DEF Sound
<1>2. CASE Walks(r) /\ again /\ r.left # << >>
  <2>1. Set(c, go)
    BY <1>2 DEF Continue
  <2>2. /\ Head(r.left) \in Profiles /\ Tail(r.left) \in Seq(Profiles)
        /\ <<Head(r.left)>> \o Tail(r.left) = r.left
    BY <1>1, <1>2, WalkOf DEF RequestState
  <2>3. go \in RequestState
    BY <1>1, <2>2 DEF RequestState, Stages
  <2>4. /\ go.pc = "gate" /\ go.cost = 0 /\ go.at = Head(r.left) /\ go.task = r.task /\ go.up = r.up
        /\ go.tried = r.tried \cup {r.at} /\ Walk(go) = r.left
    BY <1>1, <2>2 DEF RequestState, Walk
  <2>5. /\ InOrder(Walk(r)) /\ Range(Walk(r)) \cap r.tried = {}
        /\ \A p \in OfTier(0, r.task) : Viable(p, r.up) => p \in r.tried \cup Range(Walk(r))
    BY <1>2 DEF Sound
  <2>6. Range(Walk(r)) = {r.at} \cup Range(r.left) /\ InOrder(r.left) /\ r.at \notin Range(r.left)
    BY <1>1, <2>5, WalkIs, RestInOrder DEF Walk, RequestState
  <2> HIDE DEF go
  <2>7. Sound(go)
    BY <2>2, <2>3, <2>4, <2>5, <2>6 DEF Sound, ToBeLogged
  <2>8. QED
    BY <2>1, <2>4, <2>7
<1>3. CASE ~ (Walks(r) /\ again /\ r.left # << >>)
  <2>1. Set(c, stop)
    BY <1>3 DEF Continue
  <2>2. stop \in RequestState
    BY <1>1 DEF RequestState, Stages
  <2>3. /\ stop.pc = "done" /\ stop.cost = 0 /\ stop.task = r.task /\ stop.up = r.up
        /\ stop.tried = r.tried \cup {r.at} /\ stop.outcome = r.outcome
        /\ Walks(stop) = Walks(r)
    BY <1>1 DEF RequestState, Walks
  <2>4. ASSUME Walks(r), r.outcome = "transient", NEW p \in OfTier(0, r.task), Viable(p, r.up)
        PROVE  p \in r.tried \cup {r.at}
    <3>1. r.left = << >>
      BY <1>3, <2>4
    <3>2. p \in r.tried \cup Range(Walk(r))
      BY <2>4 DEF Sound
    <3>3. Range(Walk(r)) = {r.at} \cup Range(r.left)
      BY <1>1, WalkIs DEF Walk, RequestState
    <3>4. Range(<< >>) = {}
      BY DEF Range
    <3>5. QED
      BY <3>1, <3>2, <3>3, <3>4
  <2> HIDE DEF stop
  <2>5. Sound(stop)
    BY <2>2, <2>3, <2>4 DEF Sound, Trying, ToBeLogged
  <2>6. QED
    BY <2>1, <2>3, <2>5
<1>4. QED
  BY <1>2, <1>3

\* The requests, the log and the counters have their types.
StateOK ==
  /\ req \in [Callers -> RequestState] /\ \A c \in Callers : Sound(req[c])
  /\ log \in Seq(Record)
  /\ requests \in 0 .. MaxRequests
  /\ made \in Nat /\ spent \in Nat /\ ungated \in Nat /\ dropped \in Nat /\ forgotten \in Nat

\* A request that has no profile yet, or will have none, is sound as it is.
LEMMA NotTrying ==
  ASSUME NEW r \in RequestState, r.pc \notin Trying, r.pc = "done" => r.outcome # "transient",
         r.pc = "resolve" => r.tried = {}
  PROVE  Sound(r)
BY DEF Sound, Trying, ToBeLogged

\* So is one that tries a single profile and does not walk.
LEMMA TryingOne ==
  ASSUME NEW r \in RequestState, r.at \in Profiles, ~ Walks(r),
         r.pc \in {"precheck", "caps", "gate", "provider"},
         r.pc = "precheck" => ~ r.auto, r.pc = "caps" => r.kind = "route"
  PROVE  Sound(r)
BY DEF Sound, Trying, ToBeLogged

LEMMA FirstOfTierType ==
  ASSUME NEW k
  PROVE  FirstOfTier(k) \in Profiles \cup {None}
<1> DEFINE inTier == Only(Declared, {p \in Profiles : Tier[p] = k})
<1>1. inTier \in Seq(Profiles)
  BY RoutingAssumption, OnlyKeeps
<1> HIDE DEF inTier
<1>2. inTier # << >> => Head(inTier) \in Profiles
  BY <1>1
<1>3. QED
  BY <1>2 DEF FirstOfTier, inTier

\* What a step that calls nobody and logs nothing does to its request.
Moves(c) ==
  /\ UNCHANGED <<log, made, spent, ungated, dropped, forgotten>>
  /\ requests' \in 0 .. MaxRequests
  /\ req[c].pc \notin ToBeLogged \cup {"provider"}
  /\ \E n : /\ Sound(n) /\ Set(c, n) /\ n.pc \notin ToBeLogged
            /\ n.pc = "provider" /\ Gated(n) => ~ BudgetBlocks(log)

LEMMA ArriveMoves ==
  ASSUME StateOK, NEW c \in Callers, Arrive(c)
  PROVE  Moves(c)
<1>1. PICK m \in Models, t \in Tasks :
        \/ LlmCall(c, m, t)
        \/ \E stream \in BOOLEAN : ChatCompletion(c, m, t, stream)
        \/ \E constraint \in {"none", "local-only", "private"} : RunRoute(c, m, t, constraint)
  BY DEF Arrive
<1>2. Idle \in RequestState
  BY DEF Idle, RequestState, Stages
<1>3. m # AutoModel => m \in Profiles
  BY DEF Models
<1>4. ASSUME NEW n, Sound(n), Submit(c, n), n.pc \in {"resolve", "precheck", "caps", "gate", "done"}
      PROVE  Moves(c)
  <2>1. req[c].pc \in {"idle", "done"} /\ Set(c, n)
        /\ UNCHANGED <<log, made, spent, ungated, dropped, forgotten>>
    BY <1>4 DEF Submit, Calls, Trims
  <2>2. requests' \in 0 .. MaxRequests
    BY <1>4, RoutingAssumption DEF Submit, StateOK
  <2>3. n.pc \notin ToBeLogged /\ n.pc # "provider"
    BY <1>4 DEF ToBeLogged
  <2>4. req[c].pc \notin ToBeLogged \cup {"provider"}
    BY <2>1 DEF ToBeLogged
  <2>5. QED
    BY <1>4, <2>1, <2>2, <2>3, <2>4 DEF Moves
<1>5. CASE LlmCall(c, m, t)
  <2> DEFINE n == [Idle EXCEPT !.kind = "call", !.auto = m = AutoModel, !.task = t,
                               !.pc = IF m = AutoModel THEN "resolve" ELSE "gate",
                               !.at = IF m = AutoModel THEN None ELSE m]
  <2>1. /\ n \in RequestState /\ n.pc = (IF m = AutoModel THEN "resolve" ELSE "gate")
        /\ n.at = (IF m = AutoModel THEN None ELSE m) /\ n.auto = (m = AutoModel) /\ n.tried = {} /\ Submit(c, n)
    BY <1>2, <1>3, <1>5 DEF RequestState, Stages, Kinds, LlmCall, Idle
  <2> HIDE DEF n
  <2>2. Sound(n)
    BY <1>3, <2>1, NotTrying, TryingOne DEF Trying, Walks
  <2>3. QED
    BY <1>4, <2>1, <2>2
<1>6. ASSUME NEW stream \in BOOLEAN, ChatCompletion(c, m, t, stream) PROVE Moves(c)
  <2> DEFINE n == [Idle EXCEPT !.kind = IF stream THEN "stream" ELSE "chat",
                               !.auto = m = AutoModel, !.task = t,
                               !.pc = IF m = AutoModel THEN "resolve" ELSE "precheck",
                               !.at = IF m = AutoModel THEN None ELSE m]
  <2>1. /\ n \in RequestState /\ n.pc = (IF m = AutoModel THEN "resolve" ELSE "precheck")
        /\ n.at = (IF m = AutoModel THEN None ELSE m) /\ n.auto = (m = AutoModel) /\ n.tried = {} /\ Submit(c, n)
    BY <1>2, <1>3, <1>6 DEF RequestState, Stages, Kinds, ChatCompletion, Idle
  <2> HIDE DEF n
  <2>2. Sound(n)
    BY <1>3, <2>1, NotTrying, TryingOne DEF Trying, Walks
  <2>3. QED
    BY <1>4, <2>1, <2>2
<1>7. ASSUME NEW constraint, RunRoute(c, m, t, constraint) PROVE Moves(c)
  <2> DEFINE p == IF m = AutoModel THEN FirstOfTier(Constrained(Primary(t), constraint)) ELSE m
             n == [Idle EXCEPT !.kind = "route", !.auto = m = AutoModel, !.task = t, !.at = p,
                               !.pc = IF p = None THEN "done" ELSE "caps",
                               !.outcome = IF p = None THEN "no-candidates" ELSE None]
  <2>1. p \in Profiles \cup {None}
    BY <1>3, FirstOfTierType
  <2>2. Submit(c, n)
    BY <1>7 DEF RunRoute
  <2> HIDE DEF p
  <2>3. /\ n \in RequestState /\ n.pc = (IF p = None THEN "done" ELSE "caps")
        /\ n.at = p /\ n.kind = "route"
        /\ n.outcome = (IF p = None THEN "no-candidates" ELSE None)
    BY <1>2, <2>1 DEF RequestState, Stages, Kinds, Results, Idle
  <2> HIDE DEF n
  <2>4. Sound(n)
    BY <2>1, <2>3, NotTrying, TryingOne DEF Trying, Walks
  <2>5. QED
    BY <1>4, <2>2, <2>3, <2>4
<1>8. QED
  BY <1>1, <1>5, <1>6, <1>7

\* The start of a walk, or of the only try.
LEMMA StartSound ==
  ASSUME StateOK, NEW c \in Callers, NEW ids \in Seq(Profiles), ids # << >>, NEW up \in SUBSET Probed,
         StartWith(c, ids, up), req[c].pc \in {"resolve", "precheck"},
         Walks(req[c]) => InOrder(ids) /\ req[c].tried = {} /\ req[c].pc = "resolve",
         Walks(req[c]) => \A p \in OfTier(0, req[c].task) : Viable(p, up) => p \in Range(ids)
  PROVE  \E n : /\ Sound(n) /\ Set(c, n) /\ n.pc \in {"gate", "provider"}
                /\ n.pc = "provider" => ~ Gated(n)
<1> DEFINE q == req[c]
           probe == IF Walks(q) THEN up ELSE {}
           rest == IF Walks(q) THEN Tail(ids) ELSE << >>
           r == [q EXCEPT !.at = Head(ids), !.up = probe, !.left = rest]
           n == [r EXCEPT !.pc = IF r.kind = "stream" /\ r.at \in Native THEN "provider" ELSE "gate"]
<1>1. q \in RequestState /\ Set(c, n)
  BY DEF StateOK, StartWith
<1>2. Head(ids) \in Profiles /\ Tail(ids) \in Seq(Profiles) /\ <<Head(ids)>> \o Tail(ids) = ids
  BY WalkOf
<1>3. probe \in SUBSET Probed /\ rest \in Seq(Profiles) /\ (Walks(q) => probe = up /\ rest = Tail(ids))
  BY <1>2
<1> HIDE DEF probe, rest
<1>4. /\ r \in RequestState /\ r.at = Head(ids) /\ r.kind = q.kind /\ r.auto = q.auto
      /\ r.task = q.task /\ r.tried = q.tried /\ r.up = probe /\ r.left = rest
  BY <1>1, <1>2, <1>3 DEF RequestState
<1> HIDE DEF r
<1>5. /\ n \in RequestState /\ n.at = Head(ids) /\ n.kind = q.kind /\ n.auto = q.auto
      /\ n.task = q.task /\ n.tried = q.tried
      /\ n.pc = IF q.kind = "stream" /\ n.at \in Native THEN "provider" ELSE "gate"
      /\ Walks(q) => n.up = up /\ n.left = Tail(ids)
  <2>1. /\ n \in RequestState /\ n.at = r.at /\ n.kind = r.kind /\ n.auto = r.auto
        /\ n.task = r.task /\ n.tried = r.tried /\ n.up = r.up /\ n.left = r.left
        /\ n.pc = IF r.kind = "stream" /\ r.at \in Native THEN "provider" ELSE "gate"
    BY <1>4 DEF RequestState, Stages
  <2> HIDE DEF n
  <2>2. QED
    BY <2>1, <1>4, <1>3
<1> HIDE DEF n
<1>6. Walks(n) <=> Walks(q)
  BY <1>5 DEF Walks
<1>7. CASE Walks(q)
  <2>1. n.pc = "gate"
    BY <1>5, <1>7 DEF Walks
  <2>2. Walk(n) = ids
    BY <1>2, <1>5, <1>7 DEF Walk
  <2>3. InOrder(Walk(n)) /\ n.tried = {}
    BY <1>5, <1>7, <2>2
  <2>4. \A p \in OfTier(0, n.task) : Viable(p, n.up) => p \in n.tried \cup Range(Walk(n))
    BY <1>5, <1>7, <2>2
  <2>5. Sound(n)
    BY <1>2, <1>5, <2>1, <2>3, <2>4 DEF Sound, ToBeLogged
  <2>6. QED
    BY <1>1, <2>1, <2>5
<1>8. CASE ~ Walks(q)
  <2>1. Sound(n)
    BY <1>2, <1>5, <1>6, <1>8, TryingOne
  <2>2. n.pc = "provider" => ~ Gated(n)
    BY <1>5 DEF Gated
  <2>3. QED
    BY <1>1, <1>5, <2>1, <2>2
<1>9. QED
  BY <1>7, <1>8

\* A request that is given up.
LEMMA DoneMoves ==
  ASSUME StateOK, NEW c \in Callers, NEW result \in Results \ {"transient"}, Done(c, result), Quiet,
         req[c].pc \notin ToBeLogged \cup {"provider"}
  PROVE  Moves(c)
<1> DEFINE n == [req[c] EXCEPT !.pc = "done", !.outcome = result]
<1>1. n \in RequestState /\ n.pc = "done" /\ n.outcome = result
  BY DEF StateOK, RequestState, Stages
<1>2. Set(c, n)
  BY DEF Done
<1> HIDE DEF n
<1>3. Sound(n)
  BY <1>1, NotTrying DEF Trying
<1>4. QED
  BY <1>1, <1>2, <1>3 DEF Moves, Quiet, ToBeLogged, StateOK

LEMMA ChooseMoves ==
  ASSUME StateOK, NEW c \in Callers, Choose(c)
  PROVE  Moves(c)
<1> DEFINE q == req[c]
<1>1. PICK up \in SUBSET Probed : Precheck(c, up) \/ ResolveAutoCandidates(c, up)
  BY DEF Choose
<1>2. Sound(q) /\ q \in RequestState
  BY DEF StateOK
<1>3. ASSUME NEW ids \in Seq(Profiles), ids # << >>, StartWith(c, ids, up), Quiet,
             q.pc \in {"resolve", "precheck"},
             Walks(q) => InOrder(ids) /\ q.tried = {} /\ q.pc = "resolve",
             Walks(q) => \A p \in OfTier(0, q.task) : Viable(p, up) => p \in Range(ids)
      PROVE  Moves(c)
  <2>1. PICK n : /\ Sound(n) /\ Set(c, n) /\ n.pc \in {"gate", "provider"}
                 /\ n.pc = "provider" => ~ Gated(n)
    BY <1>3, StartSound
  <2>2. n.pc \notin ToBeLogged /\ q.pc \notin ToBeLogged \cup {"provider"}
    BY <1>3, <2>1 DEF ToBeLogged
  <2>3. requests' \in 0 .. MaxRequests
    BY <1>3 DEF StateOK, Quiet
  <2>4. QED
    BY <1>3, <2>1, <2>2, <2>3 DEF Moves, Quiet
<1>4. CASE Precheck(c, up)
  <2>1. q.pc = "precheck" /\ Quiet /\ q.at \in Profiles /\ ~ Walks(q)
    BY <1>2, <1>4 DEF Precheck, Sound, Trying, Walks
  <2>2. \/ Done(c, "disabled") \/ Done(c, "not-viable") \/ StartWith(c, <<q.at>>, up)
    BY <1>4, <2>1 DEF Precheck
  <2>3. q.pc \notin ToBeLogged \cup {"provider"}
    BY <2>1 DEF ToBeLogged
  <2>4. <<q.at>> \in Seq(Profiles) /\ <<q.at>> # << >>
    BY <2>1
  <2>5. "disabled" \in Results \ {"transient"} /\ "not-viable" \in Results \ {"transient"}
    BY DEF Results
  <2>6. CASE StartWith(c, <<q.at>>, up)
    BY <1>3, <2>1, <2>4, <2>6
  <2>7. QED
    BY <2>1, <2>2, <2>3, <2>5, <2>6, DoneMoves
<1>5. CASE ResolveAutoCandidates(c, up)
  <2> DEFINE ids == CandidateIds(q.task, log, up)
  <2>1. q.pc = "resolve" /\ Quiet
    BY <1>5 DEF ResolveAutoCandidates
  <2>2. IF ids = << >> THEN Done(c, "no-candidates") ELSE StartWith(c, ids, up)
    BY <1>5 DEF ResolveAutoCandidates
  <2>3. /\ ids \in Seq(Profiles) /\ InOrder(ids)
        /\ {p \in OfTier(0, q.task) : Viable(p, up)} \subseteq Range(ids)
    BY CandidatesInOrder
  <2> HIDE DEF ids
  <2>4. q.pc \notin ToBeLogged \cup {"provider"} /\ "no-candidates" \in Results \ {"transient"}
    BY <2>1 DEF ToBeLogged, Results
  <2>5. q.tried = {}
    BY <1>2, <2>1 DEF Sound
  <2>6. CASE ids = << >>
    BY <2>1, <2>2, <2>4, <2>6, DoneMoves
  <2>7. CASE ids # << >>
    BY <1>3, <2>1, <2>2, <2>3, <2>5, <2>7
  <2>8. QED
    BY <2>6, <2>7
<1>6. QED
  BY <1>1, <1>4, <1>5

LEMMA CheckCapMoves ==
  ASSUME StateOK, NEW c \in Callers, CheckCap(c)
  PROVE  Moves(c)
<1> DEFINE q == req[c]
           n == [q EXCEPT !.pc = "gate"]
<1>1. Sound(q) /\ q \in RequestState /\ q.pc = "caps" /\ Quiet /\ q.at \in Profiles /\ q.kind = "route"
  BY DEF StateOK, CheckCap, Sound, Trying
<1>2. Done(c, "budget-exceeded") \/ Set(c, n)
  BY DEF CheckCap
<1>3. q.pc \notin ToBeLogged \cup {"provider"} /\ "budget-exceeded" \in Results \ {"transient"}
  BY <1>1 DEF ToBeLogged, Results
<1>4. CASE Done(c, "budget-exceeded")
  BY <1>1, <1>3, <1>4, DoneMoves
<1>5. CASE Set(c, n)
  <2>1. n \in RequestState /\ n.pc = "gate" /\ n.at \in Profiles /\ n.kind = "route"
    BY <1>1 DEF RequestState, Stages
  <2> HIDE DEF n
  <2>2. Sound(n)
    BY <2>1, TryingOne DEF Walks
  <2>3. requests' \in 0 .. MaxRequests
    BY <1>1 DEF StateOK, Quiet
  <2>4. n.pc \notin ToBeLogged /\ n.pc # "provider"
    BY <2>1 DEF ToBeLogged
  <2>5. QED
    BY <1>1, <1>3, <1>5, <2>2, <2>3, <2>4 DEF Moves, Quiet
<1>6. QED
  BY <1>2, <1>4, <1>5

\* A request that stays where it is in its walk is as sound as it was.
LEMMA StillTrying ==
  ASSUME NEW r, NEW n \in RequestState, Sound(r), r.pc \in Trying,
         n.pc \in {"gate", "provider", "stat", "trim", "append"},
         n.pc = "trim" => Len(n.kept) = Target, n.pc \in ToBeLogged => n.outcome \in Outcomes,
         n.kind = r.kind, n.auto = r.auto, n.task = r.task, n.at = r.at, n.left = r.left,
         n.tried = r.tried, n.up = r.up
  PROVE  Sound(n)
<1>1. (Walks(n) <=> Walks(r)) /\ Walk(n) = Walk(r)
  BY DEF Walks, Walk
<1>2. n.pc \notin {"resolve", "precheck", "caps", "done"}
  OBVIOUS
<1>3. QED
  BY <1>1, <1>2 DEF Sound

LEMMA CheckBudgetMoves ==
  ASSUME StateOK, NEW c \in Callers, CheckBudget(c)
  PROVE  Moves(c)
<1> DEFINE q == req[c]
           n == [q EXCEPT !.pc = "provider"]
           t == [q EXCEPT !.outcome = "transient"]
<1>1. Sound(q) /\ q \in RequestState /\ q.pc = "gate" /\ Quiet /\ q.pc \in Trying
  BY DEF StateOK, CheckBudget, Trying
<1>2. \/ Done(c, "budget-exceeded")
      \/ Continue(c, t)
      \/ Set(c, n) /\ ~ BudgetBlocks(log)
  BY DEF CheckBudget
<1>3. q.pc \notin ToBeLogged \cup {"provider"} /\ "budget-exceeded" \in Results \ {"transient"}
  BY <1>1 DEF ToBeLogged, Results
<1>4. requests' \in 0 .. MaxRequests
  BY <1>1 DEF StateOK, Quiet
<1>5. CASE Done(c, "budget-exceeded")
  BY <1>1, <1>3, <1>5, DoneMoves
<1>6. CASE Continue(c, t)
  <2>1. /\ t \in RequestState /\ t.pc = "gate" /\ t.outcome = "transient" /\ t.kind = q.kind
        /\ t.auto = q.auto /\ t.task = q.task /\ t.at = q.at /\ t.left = q.left
        /\ t.tried = q.tried /\ t.up = q.up
    BY <1>1 DEF RequestState, Results, Outcomes
  <2> HIDE DEF t
  <2>2. Sound(t)
    BY <1>1, <2>1, StillTrying DEF ToBeLogged
  <2>3. PICK m : Sound(m) /\ Set(c, m) /\ m.pc \in {"gate", "done"} /\ m.cost = 0
    BY <1>6, <2>1, <2>2, ContinueSound DEF Trying, Results, Outcomes
  <2>4. m.pc \notin ToBeLogged /\ m.pc # "provider"
    BY <2>3 DEF ToBeLogged
  <2>5. QED
    BY <1>1, <1>3, <1>4, <2>3, <2>4 DEF Moves, Quiet
<1>7. CASE Set(c, n) /\ ~ BudgetBlocks(log)
  <2>1. /\ n \in RequestState /\ n.pc = "provider" /\ n.kind = q.kind
        /\ n.auto = q.auto /\ n.task = q.task /\ n.at = q.at /\ n.left = q.left
        /\ n.tried = q.tried /\ n.up = q.up
    BY <1>1 DEF RequestState, Stages
  <2> HIDE DEF n
  <2>2. Sound(n)
    BY <1>1, <2>1, StillTrying DEF ToBeLogged
  <2>3. n.pc \notin ToBeLogged
    BY <2>1 DEF ToBeLogged
  <2>4. QED
    BY <1>1, <1>3, <1>4, <1>7, <2>2, <2>3 DEF Moves, Quiet
<1>8. QED
  BY <1>2, <1>5, <1>6, <1>7

-----------------------------------------------------------------------------
(* Prices, and what the callers have still to log.                          *)

\* A finite set of numbers that is not empty has a largest one.
LEMMA Largest ==
  ASSUME NEW S \in SUBSET Nat, IsFiniteSet(S), S # {}
  PROVE  Max(S) \in S /\ \A x \in S : x <= Max(S)
<1> DEFINE T == {n \in Nat : \A U \in SUBSET Nat : IsFiniteSet(U) /\ Cardinality(U) = n + 1 =>
                   \E m \in U : \A x \in U : x <= m}
<1>1. 0 \in T
  <2>1. SUFFICES ASSUME NEW U \in SUBSET Nat, IsFiniteSet(U), Cardinality(U) = 0 + 1
                 PROVE  \E m \in U : \A x \in U : x <= m
    OBVIOUS
  <2>a. Cardinality(U) = 1
    BY <2>1
  <2>2. \E x : U = {x}
    BY <2>1, <2>a, FS_Singleton
  <2>3. QED
    BY <2>2
<1>2. ASSUME NEW n \in Nat, n \in T PROVE n + 1 \in T
  <2>1. SUFFICES ASSUME NEW U \in SUBSET Nat, IsFiniteSet(U), Cardinality(U) = (n + 1) + 1
                 PROVE  \E m \in U : \A x \in U : x <= m
    OBVIOUS
  <2>a. Cardinality(U) # 0 /\ (Cardinality(U) - 1) = n + 1
    BY <2>1
  <2>b. U # {}
    BY <2>a, FS_EmptySet
  <2>2. PICK y \in U : TRUE
    BY <2>b
  <2>3. IsFiniteSet(U \ {y}) /\ Cardinality(U \ {y}) = n + 1
    BY <2>1, <2>2, <2>a, FS_RemoveElement
  <2>4. PICK m \in U \ {y} : \A x \in U \ {y} : x <= m
    BY <1>2, <2>3
  <2>5. y \in Nat /\ m \in Nat
    BY <2>2, <2>4
  <2>6. CASE y <= m
    BY <2>4, <2>6
  <2>7. CASE m <= y
    BY <2>2, <2>4, <2>5, <2>7
  <2>8. QED
    BY <2>5, <2>6, <2>7
<1> HIDE DEF T
<1>3. Nat \subseteq T
  BY <1>1, <1>2, Induct
<1>4. Cardinality(S) \in Nat /\ Cardinality(S) # 0
  BY FS_CardinalityType, FS_EmptySet
<1>5. Cardinality(S) - 1 \in T /\ (Cardinality(S) - 1) + 1 = Cardinality(S)
  BY <1>3, <1>4
<1>6. \E m \in S : \A x \in S : x <= m
  BY <1>5 DEF T
<1>7. \E m \in S : \A x \in S : m >= x
  BY <1>6
<1>8. Max(S) \in S /\ \A x \in S : Max(S) >= x
  BY <1>7 DEF Max
<1>9. QED
  BY <1>8

LEMMA DearestIs ==
  /\ Dearest \in Nat
  /\ \A p \in Profiles : Cost[p] \in 0 .. Dearest
<1> DEFINE S == {0} \cup Range(Cost)
<1>1. Cost \in [Profiles -> Nat]
  BY RoutingAssumption
<1>2. Cost \in Surjection(Profiles, Range(Cost))
  BY <1>1 DEF Surjection, Range
<1>3. IsFiniteSet(Range(Cost))
  BY <1>2, FiniteProfiles, FS_Surjection
<1>4. IsFiniteSet({0})
  BY FS_Singleton
<1>a. IsFiniteSet(S)
  BY <1>3, <1>4, FS_Union
<1>5. S \in SUBSET Nat /\ 0 \in S
  BY <1>1 DEF Range
<1> HIDE DEF S
<1>6. Max(S) \in S /\ \A x \in S : x <= Max(S)
  BY <1>a, <1>5, Largest
<1>7. \A p \in Profiles : Cost[p] \in S /\ Cost[p] \in Nat
  BY <1>1 DEF S, Range
<1>8. Dearest = Max(S)
  BY DEF Dearest, S
<1> DEFINE d == Max(S)
<1>9. d \in Nat /\ \A p \in Profiles : Cost[p] \in 0 .. d
  <2> HIDE DEF d
  <2>1. d \in Nat /\ \A x \in S : x <= d
    BY <1>5, <1>6 DEF d
  <2>2. QED
    BY <1>7, <2>1
<1>10. QED
  BY <1>8, <1>9

\* The callers in a row.
Row == SetToSeq(Callers)

LEMMA RowIs ==
  /\ Cardinality(Callers) \in Nat
  /\ Row \in [1 .. Cardinality(Callers) -> Callers]
  /\ \A i, j \in 1 .. Cardinality(Callers) : i # j => Row[i] # Row[j]
  /\ \A c \in Callers : \E i \in 1 .. Cardinality(Callers) : Row[i] = c
<1> DEFINE n == Cardinality(Callers)
<1>1. IsFiniteSet(Callers)
  BY RoutingAssumption
<1>2. n \in Nat /\ ExistsBijection(1 .. n, Callers)
  BY <1>1, FS_CardinalityType
<1>3. \E f \in [1 .. n -> Callers] : IsInjective(f)
  BY <1>2 DEF ExistsBijection, Bijection, Injection
<1>4. Row \in [1 .. n -> Callers] /\ IsInjective(Row)
  BY <1>3 DEF Row, SetToSeq
<1>5. Row \in Injection(1 .. n, Callers)
  BY <1>4 DEF Injection
<1>6. Cardinality(1 .. n) = n
  BY <1>2, FS_Interval
<1>7. Row \in Surjection(1 .. n, Callers)
  BY <1>1, <1>5, <1>6, FS_Injection
<1>8. QED
  BY <1>2, <1>4, <1>7 DEF Surjection, IsInjective

\* What a gated call has cost and is not yet in the log; and what it may still
\* cost on top when the provider has not answered.
Owed(r) == IF r.pc \in ToBeLogged /\ Gated(r) THEN r.cost ELSE 0

AtMost(r) ==
  IF r.pc = "provider" /\ Gated(r) THEN Dearest ELSE Owed(r)

Owing(requests_) == [i \in 1 .. Cardinality(Callers) |-> [cost |-> Owed(requests_[Row[i]])]]
Awaited(requests_) == [i \in 1 .. Cardinality(Callers) |-> [cost |-> AtMost(requests_[Row[i]])]]

LEMMA OwedType ==
  ASSUME NEW r \in RequestState
  PROVE  Owed(r) \in Nat /\ AtMost(r) \in Nat /\ Owed(r) <= AtMost(r)
<1>1. r.cost \in Nat
  BY DEF RequestState
<1>2. QED
  BY <1>1, DearestIs DEF Owed, AtMost, ToBeLogged

LEMMA OwingIs ==
  ASSUME NEW q \in [Callers -> RequestState]
  PROVE  /\ IsPriced(Owing(q)) /\ Len(Owing(q)) = Cardinality(Callers)
         /\ IsPriced(Awaited(q)) /\ Len(Awaited(q)) = Cardinality(Callers)
         /\ \A i \in 1 .. Cardinality(Callers) :
              Owing(q)[i].cost = Owed(q[Row[i]]) /\ Awaited(q)[i].cost = AtMost(q[Row[i]])
<1> DEFINE n == Cardinality(Callers)
<1>1. n \in Nat /\ \A i \in 1 .. n : q[Row[i]] \in RequestState
  BY RowIs
<1>2. \A i \in 1 .. n : Owed(q[Row[i]]) \in Nat /\ AtMost(q[Row[i]]) \in Nat
  BY <1>1, OwedType
<1> HIDE DEF n
<1>3. DOMAIN Owing(q) = 1 .. n /\ \A i \in 1 .. n : Owing(q)[i] = [cost |-> Owed(q[Row[i]])]
  BY DEF Owing, n
<1>4. DOMAIN Awaited(q) = 1 .. n /\ \A i \in 1 .. n : Awaited(q)[i] = [cost |-> AtMost(q[Row[i]])]
  BY DEF Awaited, n
<1>5. Owing(q) \in Seq(Priced) /\ Len(Owing(q)) = n
  <2>1. Owing(q) \in [1 .. n -> Priced]
    BY <1>2 DEF Owing, Priced, n
  <2>2. QED
    BY <1>1, <2>1
<1>6. Awaited(q) \in Seq(Priced) /\ Len(Awaited(q)) = n
  <2>1. Awaited(q) \in [1 .. n -> Priced]
    BY <1>2 DEF Awaited, Priced, n
  <2>2. QED
    BY <1>1, <2>1
<1>7. /\ \A i \in 1 .. n : Owing(q)[i].cost = Owed(q[Row[i]])
      /\ \A i \in 1 .. n : Awaited(q)[i].cost = AtMost(q[Row[i]])
  BY <1>3, <1>4
<1>8. IsPriced(Owing(q)) /\ IsPriced(Awaited(q))
  <2> DEFINE o == Owing(q)
             w == Awaited(q)
  <2>1. /\ DOMAIN o = 1 .. n /\ Len(o) = n /\ \A i \in 1 .. n : o[i].cost \in Nat
        /\ DOMAIN w = 1 .. n /\ Len(w) = n /\ \A i \in 1 .. n : w[i].cost \in Nat
    BY <1>2, <1>3, <1>4, <1>5, <1>6, <1>7
  <2> HIDE DEF o, w
  <2>2. IsPriced(o) /\ IsPriced(w)
    BY <1>1, <2>1 DEF IsPriced
  <2>3. QED
    BY <2>2 DEF o, w
<1>9. QED
  BY <1>5, <1>6, <1>7, <1>8 DEF n

\* A step of one caller changes both sums by what it changes for that caller.
LEMMA OwingStep ==
  ASSUME NEW q \in [Callers -> RequestState], NEW c \in Callers, NEW r \in RequestState
  PROVE  /\ CostOf(Owing([q EXCEPT ![c] = r])) + Owed(q[c]) = CostOf(Owing(q)) + Owed(r)
         /\ CostOf(Awaited([q EXCEPT ![c] = r])) + AtMost(q[c]) = CostOf(Awaited(q)) + AtMost(r)
<1> DEFINE n == Cardinality(Callers)
           p == [q EXCEPT ![c] = r]
<1>1. p \in [Callers -> RequestState] /\ p[c] = r /\ \A d \in Callers : d # c => p[d] = q[d]
  OBVIOUS
<1> HIDE DEF p
<1>2. PICK k \in 1 .. n : Row[k] = c
  BY RowIs
<1>3. \A i \in 1 .. n : i # k => p[Row[i]] = q[Row[i]]
  BY <1>1, <1>2, RowIs
<1>4. \A i \in 1 .. n : i # k => Owing(q)[i].cost = Owing(p)[i].cost
                              /\ Awaited(q)[i].cost = Awaited(p)[i].cost
  BY <1>1, <1>3, OwingIs
<1>5. /\ Owing(q)[k].cost = Owed(q[c]) /\ Owing(p)[k].cost = Owed(r)
      /\ Awaited(q)[k].cost = AtMost(q[c]) /\ Awaited(p)[k].cost = AtMost(r)
  BY <1>1, <1>2, OwingIs
<1>6. CostOf(Owing(p)) + Owing(q)[k].cost = CostOf(Owing(q)) + Owing(p)[k].cost
  BY <1>1, <1>2, <1>4, OwingIs, CostOfUpdate
<1>7. CostOf(Awaited(p)) + Awaited(q)[k].cost = CostOf(Awaited(q)) + Awaited(p)[k].cost
  BY <1>1, <1>2, <1>4, OwingIs, CostOfUpdate
<1>8. QED
  BY <1>5, <1>6, <1>7 DEF p

\* All that the callers may owe is a call each.
LEMMA OwingBounds ==
  ASSUME NEW q \in [Callers -> RequestState], \A c \in Callers : Sound(q[c])
  PROVE  /\ CostOf(Owing(q)) \in Nat /\ CostOf(Awaited(q)) \in Nat
         /\ CostOf(Owing(q)) <= CostOf(Awaited(q))
<1>1. \A i \in 1 .. Cardinality(Callers) : Owed(q[Row[i]]) <= AtMost(q[Row[i]])
  BY RowIs, OwedType
<1>2. QED
  BY <1>1, OwingIs, CostType, CostMonotone

-----------------------------------------------------------------------------
(* What the other steps do: the answer, and its way into the log.           *)

\* The answer of a provider costs at most what the dearest profile costs.
Answers(c) ==
  /\ req[c].pc = "provider" /\ UNCHANGED <<log, requests, dropped, forgotten>>
  /\ \E n : /\ Sound(n) /\ Set(c, n) /\ n.pc = "stat" /\ n.cost \in 0 .. Dearest
            /\ Gated(n) = Gated(req[c])
            /\ made' = made + 1 /\ spent' = spent + n.cost
            /\ ungated' = IF Gated(n) THEN ungated ELSE ungated + n.cost

LEMMA ProviderAnswersMoves ==
  ASSUME StateOK, NEW c \in Callers, NEW outcome \in Outcomes, NEW cost,
         ProviderAnswers(c, outcome, cost)
  PROVE  Answers(c)
<1> DEFINE q == req[c]
           n == [q EXCEPT !.pc = "stat", !.outcome = outcome, !.cost = cost]
<1>1. Sound(q) /\ q \in RequestState /\ q.pc = "provider" /\ q.pc \in Trying /\ q.at \in Profiles
  BY DEF StateOK, ProviderAnswers, Trying, Sound
<1>2. cost \in CostsOf(q, outcome)
  BY DEF ProviderAnswers
<1>3. Cost[q.at] \in 0 .. Dearest /\ 0 \in 0 .. Dearest
  BY <1>1, DearestIs
<1>4. CostsOf(q, outcome) \subseteq {0, Cost[q.at]}
  BY DEF CostsOf
<1>5. cost \in 0 .. Dearest /\ cost \in Nat
  BY <1>2, <1>3, <1>4, DearestIs
<1>6. /\ n \in RequestState /\ n.pc = "stat" /\ n.outcome \in Outcomes /\ n.cost = cost /\ n.kind = q.kind
      /\ n.auto = q.auto /\ n.task = q.task /\ n.at = q.at /\ n.left = q.left
      /\ n.tried = q.tried /\ n.up = q.up
  BY <1>1, <1>5 DEF RequestState, Stages, Results
<1>7. /\ Set(c, n) /\ made' = made + 1 /\ spent' = spent + cost
      /\ ungated' = IF Gated(q) THEN ungated ELSE ungated + cost
      /\ UNCHANGED <<log, requests, dropped, forgotten>>
  BY DEF ProviderAnswers, Trims
<1> HIDE DEF n
<1>8. Sound(n)
  BY <1>1, <1>6, StillTrying
<1>9. Gated(n) = Gated(q)
  BY <1>6 DEF Gated
<1>10. QED
  BY <1>1, <1>5, <1>6, <1>7, <1>8, <1>9 DEF Answers

\* The sizes of the log at which it is trimmed, and to which.
LEMMA TrimSizes ==
  Target \in Nat /\ Trigger \in Nat /\ 0 < Target /\ Target <= Trigger
BY RoutingAssumption

\* A record waits for the trim, or for its turn in a log that is short enough.
Stats(c) ==
  /\ req[c].pc = "stat" /\ UNCHANGED <<log, requests, made, spent, ungated, dropped, forgotten>>
  /\ \E n : /\ Sound(n) /\ Set(c, n) /\ n.cost = req[c].cost /\ Gated(n) = Gated(req[c])
            /\ \/ n.pc = "trim" /\ Len(log) > Trigger
               \/ n.pc = "append" /\ Len(log) <= Trigger

LEMMA StatUsageMoves ==
  ASSUME StateOK, NEW c \in Callers, StatUsage(c)
  PROVE  Stats(c)
<1> DEFINE q == req[c]
           t == [q EXCEPT !.pc = "trim", !.kept = Kept(log)]
           a == [q EXCEPT !.pc = "append"]
<1>1. Sound(q) /\ q \in RequestState /\ q.pc = "stat" /\ q.pc \in Trying /\ q.outcome \in Outcomes /\ Quiet
  BY DEF StateOK, StatUsage, Trying, Sound, ToBeLogged
<1>2. Set(c, IF Len(log) > Trigger THEN t ELSE a)
  BY DEF StatUsage
<1>3. UNCHANGED <<log, requests, made, spent, ungated, dropped, forgotten>>
  BY <1>1 DEF Quiet
<1>4. log \in Seq(Record) /\ Len(log) \in Nat /\ Target \in Nat /\ Trigger \in Nat /\ 0 < Target /\ Target <= Trigger
  BY TrimSizes DEF StateOK
<1>5. CASE Len(log) > Trigger
  <2>1. Kept(log) \in Seq(Record) /\ Len(Kept(log)) = Target
    BY <1>4, <1>5 DEF Kept
  <2>2. /\ t \in RequestState /\ t.pc = "trim" /\ t.outcome = q.outcome /\ t.cost = q.cost /\ t.kind = q.kind
        /\ t.auto = q.auto /\ t.task = q.task /\ t.at = q.at /\ t.left = q.left
        /\ t.tried = q.tried /\ t.up = q.up /\ t.kept = Kept(log)
    BY <1>1, <2>1 DEF RequestState, Stages
  <2>3. Set(c, t)
    BY <1>2, <1>5
  <2> HIDE DEF t
  <2>4. Sound(t)
    BY <1>1, <2>1, <2>2, StillTrying
  <2>5. Gated(t) = Gated(q)
    BY <2>2 DEF Gated
  <2>6. QED
    BY <1>1, <1>3, <1>5, <2>2, <2>3, <2>4, <2>5 DEF Stats
<1>6. CASE ~ (Len(log) > Trigger)
  <2>2. /\ a \in RequestState /\ a.pc = "append" /\ a.outcome = q.outcome /\ a.cost = q.cost /\ a.kind = q.kind
        /\ a.auto = q.auto /\ a.task = q.task /\ a.at = q.at /\ a.left = q.left
        /\ a.tried = q.tried /\ a.up = q.up
    BY <1>1 DEF RequestState, Stages
  <2>3. Set(c, a) /\ Len(log) <= Trigger
    BY <1>2, <1>4, <1>6
  <2> HIDE DEF a
  <2>4. Sound(a)
    BY <1>1, <2>2, StillTrying
  <2>5. Gated(a) = Gated(q)
    BY <2>2 DEF Gated
  <2>6. QED
    BY <1>1, <1>3, <2>2, <2>3, <2>4, <2>5 DEF Stats
<1>7. QED
  BY <1>5, <1>6

\* The trimmed copy is Target records long; what the log loses by it is
\* forgotten.
Trimmed(c) ==
  /\ req[c].pc = "trim" /\ UNCHANGED <<requests, made, spent, ungated>>
  /\ log' \in Seq(Record) /\ Len(log') = Target
  /\ dropped' = dropped + Len(log) - Target
  /\ forgotten' \in Nat /\ forgotten' >= forgotten
  /\ CostOf(log) + forgotten <= CostOf(log') + forgotten'
  /\ \E n : Sound(n) /\ Set(c, n) /\ n.pc = "append" /\ n.cost = req[c].cost /\ Gated(n) = Gated(req[c])

\* A log is a row of priced records.
LEMMA LogIsPriced ==
  ASSUME NEW s \in Seq(Record)
  PROVE  IsPriced(s) /\ CostOf(s) \in Nat
<1>1. \A x \in Record : x.cost \in Nat
  BY DEF Record
<1>2. \A i \in 1 .. Len(s) : s[i] \in Record
  OBVIOUS
<1>3. DOMAIN s = 1 .. Len(s) /\ Len(s) \in Nat
  OBVIOUS
<1>4. IsPriced(s)
  BY <1>1, <1>2, <1>3 DEF IsPriced
<1>5. QED
  BY <1>4, CostType

LEMMA NotBelowZero ==
  ASSUME NEW x \in Int
  PROVE  Max({0, x}) \in Nat /\ Max({0, x}) >= x
<1>1. \E m \in {0, x} : \A y \in {0, x} : m >= y
  OBVIOUS
<1>2. Max({0, x}) \in {0, x} /\ \A y \in {0, x} : Max({0, x}) >= y
  BY <1>1 DEF Max
<1>3. QED
  BY <1>2

LEMMA TrimMoves ==
  ASSUME StateOK, NEW c \in Callers, TrimUsageLog(c)
  PROVE  Trimmed(c)
<1> DEFINE q == req[c]
           n == [q EXCEPT !.pc = "append", !.kept = << >>]
<1>1. Sound(q) /\ q \in RequestState /\ q.pc = "trim" /\ q.pc \in Trying /\ q.outcome \in Outcomes /\ Len(q.kept) = Target
  BY DEF StateOK, TrimUsageLog, Trying, Sound, ToBeLogged
<1>2. q.kept \in Seq(Record) /\ log \in Seq(Record) /\ forgotten \in Nat
  BY <1>1 DEF RequestState, StateOK
<1>3. /\ log' = q.kept /\ dropped' = dropped + Len(log) - Len(q.kept) /\ Set(c, n)
      /\ forgotten' = forgotten + Max({0, CostOf(log) - CostOf(q.kept)})
      /\ UNCHANGED <<requests, made, spent, ungated>>
  BY DEF TrimUsageLog, Calls
<1>4. /\ n \in RequestState /\ n.pc = "append" /\ n.outcome = q.outcome /\ n.cost = q.cost /\ n.kind = q.kind
      /\ n.auto = q.auto /\ n.task = q.task /\ n.at = q.at /\ n.left = q.left
      /\ n.tried = q.tried /\ n.up = q.up
  <2>1. << >> \in Seq(Record)
    OBVIOUS
  <2>2. QED
    BY <1>1, <2>1 DEF RequestState, Stages
<1> HIDE DEF n
<1>5. Sound(n)
  BY <1>1, <1>4, StillTrying
<1>6. Gated(n) = Gated(q)
  BY <1>4 DEF Gated
<1>7. /\ forgotten' \in Nat /\ forgotten' >= forgotten
      /\ CostOf(log) + forgotten <= CostOf(log') + forgotten'
  <2> DEFINE x == CostOf(log)
             y == CostOf(q.kept)
             m == Max({0, x - y})
  <2>1. x \in Nat /\ y \in Nat
    BY <1>2, LogIsPriced
  <2>2. CostOf(log') = y /\ forgotten' = forgotten + m
    BY <1>3
  <2> HIDE DEF x, y
  <2>3. m \in Nat /\ m >= x - y
    <3>1. x - y \in Int
      BY <2>1
    <3>2. QED
      BY <3>1, NotBelowZero
  <2> HIDE DEF m
  <2>4. QED
    <3>1. CostOf(log) = x
      BY DEF x
    <3>2. QED
      BY <1>2, <2>1, <2>2, <2>3, <3>1
<1>8. QED
  BY <1>1, <1>2, <1>3, <1>4, <1>5, <1>6, <1>7 DEF Trimmed

\* One record joins the log, at what the call cost.
Appends(c) ==
  /\ req[c].pc = "append" /\ UNCHANGED <<requests, made, spent, ungated, dropped, forgotten>>
  /\ log' \in Seq(Record) /\ Len(log') = Len(log) + 1
  /\ CostOf(log') = CostOf(log) + req[c].cost
  /\ \E n : Sound(n) /\ Set(c, n) /\ n.pc \in {"gate", "done"}

LEMMA AppendMoves ==
  ASSUME StateOK, NEW c \in Callers, AppendUsage(c)
  PROVE  Appends(c)
<1> DEFINE q == req[c]
           x == [profile |-> q.at, cost |-> q.cost, ok |-> q.outcome \in {"good", "poor"}]
<1>1. /\ Sound(q) /\ q \in RequestState /\ q.pc = "append" /\ q.pc \in Trying
      /\ q.outcome \in Outcomes /\ q.at \in Profiles /\ log \in Seq(Record)
  BY DEF StateOK, AppendUsage, Trying, Sound, ToBeLogged
<1>2. x \in Record /\ x.cost = q.cost
  BY <1>1 DEF Record, RequestState
<1>3. log' = Append(log, x) /\ Continue(c, q)
      /\ UNCHANGED <<requests, made, spent, ungated, dropped, forgotten>>
  BY DEF AppendUsage, Calls, Trims
<1>4. \E n : Sound(n) /\ Set(c, n) /\ n.pc \in {"gate", "done"}
  <2>1. q.outcome \in Results
    BY <1>1 DEF Results
  <2>2. QED
    BY <1>1, <1>3, <2>1, ContinueSound
<1> HIDE DEF x
<1>5. log' \in Seq(Record) /\ Len(log') = Len(log) + 1
  BY <1>1, <1>2, <1>3
<1>6. CostOf(log') = CostOf(log) + x.cost
  <2>1. \A z \in Record : z.cost \in Nat
    BY DEF Record
  <2>2. QED
    BY <1>1, <1>2, <1>3, <2>1, CostOfAppend
<1>7. QED
  BY <1>1, <1>2, <1>3, <1>4, <1>5, <1>6 DEF Appends

\* A step of the routing is one of those.
LEMMA NextMoves ==
  ASSUME StateOK, Next
  PROVE  \E c \in Callers : Moves(c) \/ Answers(c) \/ Stats(c) \/ Trimmed(c) \/ Appends(c)
<1>1. PICK c \in Callers : Arrive(c) \/ Choose(c) \/ Serve(c) \/ LogUsage(c)
  BY DEF Next
<1>2. CASE Arrive(c)
  BY <1>2, ArriveMoves
<1>3. CASE Choose(c)
  BY <1>3, ChooseMoves
<1>4. CASE Serve(c)
  BY <1>4, CheckCapMoves, CheckBudgetMoves, ProviderAnswersMoves DEF Serve
<1>5. CASE LogUsage(c)
  BY <1>5, StatUsageMoves, TrimMoves, AppendMoves DEF LogUsage
<1>6. QED
  BY <1>1, <1>2, <1>3, <1>4, <1>5

LEMMA SoundStep ==
  ASSUME StateOK, NEW c \in Callers, NEW n, Sound(n), Set(c, n)
  PROVE  req' \in [Callers -> RequestState] /\ \A d \in Callers : Sound(req'[d])
<1>1. n \in RequestState
  BY DEF Sound
<1>2. \A d \in Callers : req'[d] = IF d = c THEN n ELSE req[d]
  BY DEF StateOK, Set
<1>3. QED
  BY <1>1, <1>2 DEF StateOK, Set

LEMMA StateStays ==
  ASSUME StateOK, NEW c \in Callers,
         Moves(c) \/ Answers(c) \/ Stats(c) \/ (Trimmed(c) /\ Target <= Len(log)) \/ Appends(c)
  PROVE  StateOK'
<1>1. CASE Moves(c)
  BY <1>1, SoundStep DEF StateOK, Moves
<1>2. CASE Answers(c)
  <2>1. PICK n : /\ Sound(n) /\ Set(c, n) /\ n.cost \in 0 .. Dearest
                 /\ made' = made + 1 /\ spent' = spent + n.cost
                 /\ ungated' = IF Gated(n) THEN ungated ELSE ungated + n.cost
    BY <1>2 DEF Answers
  <2>2. made' \in Nat /\ spent' \in Nat /\ ungated' \in Nat
    BY <2>1, DearestIs DEF StateOK
  <2>3. UNCHANGED <<log, requests, dropped, forgotten>>
    BY <1>2 DEF Answers
  <2>4. QED
    BY <2>1, <2>2, <2>3, SoundStep DEF StateOK
<1>3. CASE Stats(c)
  BY <1>3, SoundStep DEF StateOK, Stats
<1>4. CASE Trimmed(c) /\ Target <= Len(log)
  <2>1. dropped' \in Nat
    BY <1>4, TrimSizes DEF Trimmed, StateOK
  <2>2. QED
    BY <1>4, <2>1, SoundStep DEF StateOK, Trimmed
<1>5. CASE Appends(c)
  BY <1>5, SoundStep DEF StateOK, Appends
<1>6. QED
  BY <1>1, <1>2, <1>3, <1>4, <1>5

\* The callers in some of the stages, and how a step of one changes their number.
In(q, K) == {d \in Callers : q[d].pc \in K}

LEMMA InSize ==
  ASSUME NEW q, NEW K
  PROVE  Cardinality(In(q, K)) \in 0 .. Cardinality(Callers) /\ IsFiniteSet(In(q, K))
<1>1. IsFiniteSet(Callers) /\ In(q, K) \subseteq Callers
  BY RoutingAssumption DEF In
<1>2. /\ IsFiniteSet(In(q, K)) /\ Cardinality(In(q, K)) \in Nat /\ Cardinality(Callers) \in Nat
      /\ Cardinality(In(q, K)) <= Cardinality(Callers)
  BY <1>1, FS_Subset, FS_CardinalityType
<1>3. QED
  BY <1>2

LEMMA InStep ==
  ASSUME NEW q \in [Callers -> RequestState], NEW c \in Callers, NEW r \in RequestState, NEW K
  PROVE  LET p == [q EXCEPT ![c] = r] IN
         /\ (q[c].pc \in K <=> r.pc \in K) => In(p, K) = In(q, K)
         /\ q[c].pc \notin K /\ r.pc \in K => Cardinality(In(p, K)) = Cardinality(In(q, K)) + 1
         /\ q[c].pc \in K /\ r.pc \notin K => Cardinality(In(p, K)) = Cardinality(In(q, K)) - 1
<1> DEFINE p == [q EXCEPT ![c] = r]
<1>1. \A d \in Callers : p[d] = IF d = c THEN r ELSE q[d]
  OBVIOUS
<1> HIDE DEF p
<1>2. (q[c].pc \in K <=> r.pc \in K) => In(p, K) = In(q, K)
  BY <1>1 DEF In
<1>3. ASSUME q[c].pc \notin K, r.pc \in K
      PROVE  Cardinality(In(p, K)) = Cardinality(In(q, K)) + 1
  <2>1. In(p, K) = In(q, K) \cup {c} /\ c \notin In(q, K)
    BY <1>1, <1>3 DEF In
  <2>2. QED
    BY <2>1, InSize, FS_AddElement
<1>4. ASSUME q[c].pc \in K, r.pc \notin K
      PROVE  Cardinality(In(p, K)) = Cardinality(In(q, K)) - 1
  <2>1. In(p, K) = In(q, K) \ {c} /\ c \in In(q, K)
    BY <1>1, <1>4 DEF In
  <2>2. QED
    BY <2>1, InSize, FS_RemoveElement
<1>5. QED
  BY <1>2, <1>3, <1>4 DEF p

\* The log is as long as the trigger and the records under way allow, and
\* never shorter than a copy that will replace it.
Fits ==
  /\ Len(log) + Cardinality(In(req, {"append"})) <= Trigger + Cardinality(Callers)
  /\ \A c \in Callers : req[c].pc = "trim" => Target <= Len(log)

\* Every call that came back is in the log, on the way there, or was trimmed.
Counted == made = Len(log) + Cardinality(In(req, ToBeLogged)) + dropped

LEMMA FitsStays ==
  ASSUME StateOK, Fits, NEW c \in Callers,
         Moves(c) \/ Answers(c) \/ Stats(c) \/ Trimmed(c) \/ Appends(c)
  PROVE  Fits'
<1>1. req \in [Callers -> RequestState] /\ Len(log) \in Nat /\ Target \in Nat /\ Trigger \in Nat
      /\ Target <= Trigger /\ Cardinality(Callers) \in Nat
  BY TrimSizes, RowIs DEF StateOK
<1> DEFINE a == Cardinality(In(req, {"append"}))
           b == Cardinality(In(req', {"append"}))
           m == Cardinality(Callers)
<1>2. a \in 0 .. m /\ b \in 0 .. m
  BY InSize
<1>3. a' = b
  BY DEF In
<1>4. ASSUME NEW n, Sound(n), Set(c, n)
      PROVE  /\ (n.pc = req[c].pc \/ (n.pc # "append" /\ req[c].pc # "append")) => b = a
             /\ n.pc # "append" /\ req[c].pc = "append" => b = a - 1
             /\ \A d \in Callers : req'[d].pc = "trim" => n.pc = "trim" \/ req[d].pc = "trim"
  <2>1. n \in RequestState
    BY <1>4 DEF Sound
  <2>2. req' = [req EXCEPT ![c] = n]
    BY <1>4 DEF Set
  <2>3. QED
    BY <1>1, <2>1, <2>2, InStep
<1>5. Len(log) + a <= Trigger + m /\ \A d \in Callers : req[d].pc = "trim" => Target <= Len(log)
  BY DEF Fits
<1>6. SUFFICES /\ Len(log') + b <= Trigger + m
               /\ \A d \in Callers : req'[d].pc = "trim" => Target <= Len(log')
  BY <1>3 DEF Fits
<1>7. CASE Moves(c)
  <2>1. PICK n : Sound(n) /\ Set(c, n) /\ n.pc \notin ToBeLogged
    BY <1>7 DEF Moves
  <2>2. log' = log /\ req[c].pc # "append" /\ n.pc # "append" /\ n.pc # "trim"
    BY <1>7, <2>1 DEF Moves, ToBeLogged
  <2>3. b = a
    BY <1>4, <2>1, <2>2
  <2>4. \A d \in Callers : req'[d].pc = "trim" => req[d].pc = "trim"
    BY <1>4, <2>1, <2>2
  <2> HIDE DEF a, b, m
  <2>5. QED
    BY <1>5, <2>2, <2>3, <2>4
<1>8. CASE Answers(c)
  <2>1. PICK n : Sound(n) /\ Set(c, n) /\ n.pc = "stat"
    BY <1>8 DEF Answers
  <2>2. log' = log /\ req[c].pc # "append"
    BY <1>8 DEF Answers
  <2>3. b = a
    BY <1>4, <2>1, <2>2
  <2>4. \A d \in Callers : req'[d].pc = "trim" => req[d].pc = "trim"
    BY <1>4, <2>1
  <2> HIDE DEF a, b, m
  <2>5. QED
    BY <1>5, <2>2, <2>3, <2>4
<1>9. CASE Stats(c)
  <2>1. PICK n : /\ Sound(n) /\ Set(c, n)
                 /\ \/ n.pc = "trim" /\ Len(log) > Trigger
                    \/ n.pc = "append" /\ Len(log) <= Trigger
    BY <1>9 DEF Stats
  <2>2. log' = log /\ req[c].pc = "stat"
    BY <1>9 DEF Stats
  <2>3. CASE n.pc = "trim" /\ Len(log) > Trigger
    <3>1. b = a
      BY <1>4, <2>1, <2>2, <2>3
    <3> HIDE DEF a, b, m
    <3>2. QED
      BY <1>1, <1>5, <2>2, <2>3, <3>1
  <2>4. CASE n.pc = "append" /\ Len(log) <= Trigger
    <3>1. \A d \in Callers : req'[d].pc = "trim" => req[d].pc = "trim"
      BY <1>4, <2>1, <2>4
    <3> HIDE DEF a, b, m
    <3>2. Len(log) + b <= Trigger + m
      BY <1>1, <1>2, <2>4 DEF m
    <3>3. QED
      BY <1>5, <2>2, <3>1, <3>2
  <2>5. QED
    BY <2>1, <2>3, <2>4
<1>10. CASE Trimmed(c)
  <2>1. Len(log') = Target
    BY <1>10 DEF Trimmed
  <2> HIDE DEF a, b, m
  <2>2. QED
    BY <1>1, <1>2, <2>1 DEF m
<1>11. CASE Appends(c)
  <2>1. PICK n : Sound(n) /\ Set(c, n) /\ n.pc \in {"gate", "done"}
    BY <1>11 DEF Appends
  <2>2. Len(log') = Len(log) + 1 /\ req[c].pc = "append"
    BY <1>11 DEF Appends
  <2>3. b = a - 1
    BY <1>4, <2>1, <2>2
  <2>4. \A d \in Callers : req'[d].pc = "trim" => req[d].pc = "trim"
    BY <1>4, <2>1
  <2> HIDE DEF a, b, m
  <2>5. Len(log') + b <= Trigger + m
    BY <1>1, <1>2, <1>5, <2>2, <2>3
  <2>6. QED
    BY <1>1, <1>5, <2>2, <2>4, <2>5
<1>12. QED
  BY <1>7, <1>8, <1>9, <1>10, <1>11

LEMMA CountedStays ==
  ASSUME StateOK, Fits, Counted, NEW c \in Callers,
         Moves(c) \/ Answers(c) \/ Stats(c) \/ Trimmed(c) \/ Appends(c)
  PROVE  Counted'
<1>1. req \in [Callers -> RequestState] /\ Len(log) \in Nat /\ Target \in Nat
      /\ made \in Nat /\ dropped \in Nat
  BY TrimSizes DEF StateOK
<1> DEFINE a == Cardinality(In(req, ToBeLogged))
           b == Cardinality(In(req', ToBeLogged))
<1>2. a \in Nat /\ b \in Nat
  BY InSize, RowIs
<1>3. a' = b
  BY DEF In
<1>4. ASSUME NEW n, Sound(n), Set(c, n)
      PROVE  /\ (req[c].pc \in ToBeLogged <=> n.pc \in ToBeLogged) => b = a
             /\ req[c].pc \notin ToBeLogged /\ n.pc \in ToBeLogged => b = a + 1
             /\ req[c].pc \in ToBeLogged /\ n.pc \notin ToBeLogged => b = a - 1
  <2>1. n \in RequestState
    BY <1>4 DEF Sound
  <2>2. req' = [req EXCEPT ![c] = n]
    BY <1>4 DEF Set
  <2>3. QED
    BY <1>1, <2>1, <2>2, InStep
<1>5. made = Len(log) + a + dropped
  BY DEF Counted
<1>6. SUFFICES made' = Len(log') + b + dropped'
  BY <1>3 DEF Counted
<1>7. CASE Moves(c)
  <2>1. PICK n : Sound(n) /\ Set(c, n) /\ n.pc \notin ToBeLogged
    BY <1>7 DEF Moves
  <2>2. UNCHANGED <<log, made, dropped>> /\ req[c].pc \notin ToBeLogged
    BY <1>7 DEF Moves
  <2>3. b = a
    BY <1>4, <2>1, <2>2
  <2> HIDE DEF a, b
  <2>4. QED
    BY <1>5, <2>2, <2>3
<1>8. CASE Answers(c)
  <2>1. PICK n : Sound(n) /\ Set(c, n) /\ n.pc = "stat"
    BY <1>8 DEF Answers
  <2>2. UNCHANGED <<log, dropped>> /\ made' = made + 1 /\ req[c].pc = "provider"
    BY <1>8 DEF Answers
  <2>3. b = a + 1
    BY <1>4, <2>1, <2>2 DEF ToBeLogged
  <2> HIDE DEF a, b
  <2>4. QED
    BY <1>1, <1>2, <1>5, <2>2, <2>3
<1>9. CASE Stats(c)
  <2>1. PICK n : Sound(n) /\ Set(c, n) /\ n.pc \in {"trim", "append"}
    BY <1>9 DEF Stats
  <2>2. UNCHANGED <<log, made, dropped>> /\ req[c].pc = "stat"
    BY <1>9 DEF Stats
  <2>3. b = a
    BY <1>4, <2>1, <2>2 DEF ToBeLogged
  <2> HIDE DEF a, b
  <2>4. QED
    BY <1>5, <2>2, <2>3
<1>10. CASE Trimmed(c)
  <2>1. PICK n : Sound(n) /\ Set(c, n) /\ n.pc = "append"
    BY <1>10 DEF Trimmed
  <2>2. /\ Len(log') = Target /\ dropped' = dropped + Len(log) - Target
        /\ made' = made /\ req[c].pc = "trim"
    BY <1>10 DEF Trimmed
  <2>3. b = a
    BY <1>4, <2>1, <2>2 DEF ToBeLogged
  <2> HIDE DEF a, b
  <2>4. QED
    BY <1>1, <1>2, <1>5, <2>2, <2>3
<1>11. CASE Appends(c)
  <2>1. PICK n : Sound(n) /\ Set(c, n) /\ n.pc \in {"gate", "done"}
    BY <1>11 DEF Appends
  <2>2. UNCHANGED <<made, dropped>> /\ Len(log') = Len(log) + 1 /\ req[c].pc = "append"
    BY <1>11 DEF Appends
  <2>3. b = a - 1
    BY <1>4, <2>1, <2>2 DEF ToBeLogged
  <2> HIDE DEF a, b
  <2>4. QED
    BY <1>1, <1>2, <1>5, <2>2, <2>3
<1>12. QED
  BY <1>7, <1>8, <1>9, <1>10, <1>11

-----------------------------------------------------------------------------
(* What was spent, against what the log and the callers know.               *)

\* What waits to be logged costs at most what the dearest call does.
Cheap == \A c \in Callers : req[c].pc \in ToBeLogged => req[c].cost <= Dearest

\* What was spent is in the log, was forgotten, met no check, or is owed.
Behind == spent <= forgotten + ungated + CostOf(log) + CostOf(Owing(req))

\* A call was let through only while what the log lacked was owed by others:
\* with what is still awaited, no more than a call each beyond the limit.
Ahead == spent + CostOf(Awaited(req))
           < BlockAt + Cardinality(Callers) * Dearest + forgotten + ungated + CostOf(Owing(req))

\* The two sums before and after a step of c, by what the step makes of c.
LEMMA SumsStep ==
  ASSUME StateOK, NEW c \in Callers, NEW n, Sound(n), Set(c, n)
  PROVE  /\ CostOf(Owing(req')) + Owed(req[c]) = CostOf(Owing(req)) + Owed(n)
         /\ CostOf(Awaited(req')) + AtMost(req[c]) = CostOf(Awaited(req)) + AtMost(n)
         /\ CostOf(Owing(req)) \in Nat /\ CostOf(Owing(req')) \in Nat
         /\ CostOf(Awaited(req)) \in Nat /\ CostOf(Awaited(req')) \in Nat
         /\ Owed(req[c]) \in Nat /\ Owed(n) \in Nat /\ AtMost(req[c]) \in Nat /\ AtMost(n) \in Nat
<1>1. n \in RequestState /\ req \in [Callers -> RequestState] /\ req[c] \in RequestState
  BY DEF Sound, StateOK
<1>2. req' = [req EXCEPT ![c] = n]
  BY DEF Set
<1>3. req' \in [Callers -> RequestState] /\ \A d \in Callers : Sound(req'[d])
  BY SoundStep
<1>4. CostOf(Owing(req)) \in Nat /\ CostOf(Awaited(req)) \in Nat
  BY OwingBounds DEF StateOK
<1>5. CostOf(Owing(req')) \in Nat /\ CostOf(Awaited(req')) \in Nat
  BY <1>3, OwingBounds
<1>6. Owed(req[c]) \in Nat /\ Owed(n) \in Nat /\ AtMost(req[c]) \in Nat /\ AtMost(n) \in Nat
  BY <1>1, OwedType
<1>7. /\ CostOf(Owing([req EXCEPT ![c] = n])) + Owed(req[c]) = CostOf(Owing(req)) + Owed(n)
      /\ CostOf(Awaited([req EXCEPT ![c] = n])) + AtMost(req[c]) = CostOf(Awaited(req)) + AtMost(n)
  BY <1>1, OwingStep
<1>8. QED
  BY <1>2, <1>4, <1>5, <1>6, <1>7

\* All that is awaited costs at most a dearest call for each caller.
LEMMA AwaitedBound ==
  ASSUME NEW q \in [Callers -> RequestState],
         \A c \in Callers : q[c].pc \in ToBeLogged => q[c].cost <= Dearest
  PROVE  CostOf(Awaited(q)) <= Cardinality(Callers) * Dearest
<1>1. \A c \in Callers : AtMost(q[c]) <= Dearest
  BY DearestIs DEF AtMost, Owed
<1>2. \A i \in 1 .. Cardinality(Callers) : Awaited(q)[i].cost <= Dearest
  BY <1>1, OwingIs, RowIs
<1>3. QED
  BY <1>2, OwingIs, DearestIs, CostBound

LEMMA CheapStays ==
  ASSUME StateOK, Cheap, NEW c \in Callers,
         Moves(c) \/ Answers(c) \/ Stats(c) \/ Trimmed(c) \/ Appends(c)
  PROVE  Cheap'
<1>1. ASSUME NEW n, Set(c, n), n.pc \in ToBeLogged => n.cost <= Dearest
      PROVE  Cheap'
  <2>1. \A d \in Callers : req'[d] = IF d = c THEN n ELSE req[d]
    BY <1>1 DEF Set, StateOK
  <2>2. \A d \in Callers : req'[d].pc \in ToBeLogged => req'[d].cost <= Dearest
    BY <1>1, <2>1 DEF Cheap
  <2>3. QED
    BY <2>2 DEF Cheap
<1>2. CASE Moves(c)
  BY <1>1, <1>2 DEF Moves
<1>3. CASE Answers(c)
  BY <1>1, <1>3, DearestIs DEF Answers
<1>4. CASE Stats(c)
  <2>1. req[c].cost <= Dearest
    BY <1>4 DEF Stats, Cheap, ToBeLogged
  <2>2. QED
    BY <1>1, <1>4, <2>1 DEF Stats
<1>5. CASE Trimmed(c)
  <2>1. req[c].cost <= Dearest
    BY <1>5 DEF Trimmed, Cheap, ToBeLogged
  <2>2. QED
    BY <1>1, <1>5, <2>1 DEF Trimmed
<1>6. CASE Appends(c)
  BY <1>1, <1>6 DEF Appends, ToBeLogged
<1>7. QED
  BY <1>2, <1>3, <1>4, <1>5, <1>6

\* One step changes the books like this: what is spent, owed, awaited, logged,
\* forgotten and ungated, whatever the numbers are.
LEMMA SpendingStays ==
  ASSUME StateOK, Cheap, Behind, Ahead, NEW c \in Callers,
         Moves(c) \/ Answers(c) \/ Stats(c) \/ Trimmed(c) \/ Appends(c)
  PROVE  Behind' /\ Ahead'
<1> DEFINE s  == spent            ss == spent'
           f  == forgotten        ff == forgotten'
           u  == ungated          uu == ungated'
           l  == CostOf(log)      ll == CostOf(log')
           o  == CostOf(Owing(req))      oo == CostOf(Owing(req'))
           w  == CostOf(Awaited(req))    ww == CostOf(Awaited(req'))
           D  == Dearest
           K  == Cardinality(Callers) * Dearest
           B  == BlockAt
<1>1. /\ s \in Nat /\ f \in Nat /\ u \in Nat /\ l \in Nat /\ B \in Nat /\ D \in Nat /\ K \in Nat
  <2>1. l \in Nat
    BY LogIsPriced DEF StateOK
  <2>2. Cardinality(Callers) \in Nat /\ D \in Nat
    BY RowIs, DearestIs
  <2>3. K \in Nat
    BY <2>2
  <2>4. B \in Nat
    BY RoutingAssumption
  <2>5. QED
    BY <2>1, <2>2, <2>3, <2>4 DEF StateOK
<1>2. s <= f + u + l + o /\ s + w < B + K + f + u + o
  BY DEF Behind, Ahead
<1>3. SUFFICES ss <= ff + uu + ll + oo /\ ss + ww < B + K + ff + uu + oo
  BY DEF Behind, Ahead
<1>4. CASE Moves(c)
  <2>1. PICK n : /\ Sound(n) /\ Set(c, n) /\ n.pc \notin ToBeLogged
                 /\ n.pc = "provider" /\ Gated(n) => ~ BudgetBlocks(log)
    BY <1>4 DEF Moves
  <2> DEFINE x == AtMost(n)
  <2>2. ss = s /\ ff = f /\ uu = u /\ ll = l /\ req[c].pc \notin ToBeLogged \cup {"provider"}
    BY <1>4 DEF Moves
  <2>3. Owed(req[c]) = 0 /\ AtMost(req[c]) = 0 /\ Owed(n) = 0
    BY <2>1, <2>2 DEF Owed, AtMost
  <2>4. o \in Nat /\ oo \in Nat /\ w \in Nat /\ ww \in Nat /\ x \in Nat /\ oo + 0 = o + 0 /\ ww + 0 = w + x
    BY <2>1, <2>3, SumsStep
  <2>5. CASE n.pc = "provider" /\ Gated(n)
    <3>1. l < B
      BY <1>1, <2>1, <2>5 DEF BudgetBlocks
    <3>2. ww <= K
      <4>1. req' \in [Callers -> RequestState]
        BY <2>1, SoundStep
      <4>2. Cheap'
        BY <1>4, CheapStays
      <4>3. \A d \in Callers : req'[d].pc \in ToBeLogged => req'[d].cost <= Dearest
        BY <4>2 DEF Cheap
      <4>4. QED
        BY <4>1, <4>3, AwaitedBound
    <3> HIDE DEF s, ss, f, ff, u, uu, l, ll, o, oo, w, ww, D, K, B, x
    <3>3. QED
      BY <1>1, <1>2, <2>2, <2>4, <3>1, <3>2
  <2>6. CASE ~ (n.pc = "provider" /\ Gated(n))
    <3>1. x = 0
      BY <2>3, <2>6 DEF AtMost
    <3> HIDE DEF s, ss, f, ff, u, uu, l, ll, o, oo, w, ww, D, K, B, x
    <3>2. QED
      BY <1>1, <1>2, <2>2, <2>4, <3>1
  <2>7. QED
    BY <2>5, <2>6
<1>5. CASE Answers(c)
  <2>1. PICK n : /\ Sound(n) /\ Set(c, n) /\ n.pc = "stat" /\ n.cost \in 0 .. Dearest
                 /\ Gated(n) = Gated(req[c]) /\ spent' = spent + n.cost
                 /\ ungated' = IF Gated(n) THEN ungated ELSE ungated + n.cost
    BY <1>5 DEF Answers
  <2> DEFINE x == n.cost
             y == Owed(n)
             z == AtMost(req[c])
             a == AtMost(n)
  <2>2. ff = f /\ ll = l /\ ss = s + x /\ req[c].pc = "provider" /\ x \in Nat /\ x <= D
    BY <1>1, <1>5, <2>1 DEF Answers
  <2>3. Owed(req[c]) = 0 /\ a = y
    BY <2>1, <2>2 DEF Owed, AtMost, ToBeLogged
  <2>4. /\ o \in Nat /\ oo \in Nat /\ w \in Nat /\ ww \in Nat /\ oo + 0 = o + y /\ ww + z = w + y
        /\ z \in Nat /\ y \in Nat
    BY <2>1, <2>3, SumsStep
  <2>5. CASE Gated(n)
    <3>1. y = x /\ z = D /\ uu = u
      BY <2>1, <2>2, <2>5 DEF Owed, AtMost, ToBeLogged
    <3> HIDE DEF s, ss, f, ff, u, uu, l, ll, o, oo, w, ww, D, K, B, x, y, z
    <3>2. QED
      BY <1>1, <1>2, <2>2, <2>4, <3>1
  <2>6. CASE ~ Gated(n)
    <3>1. y = 0 /\ z = 0 /\ uu = u + x
      BY <2>1, <2>2, <2>6 DEF Owed, AtMost, ToBeLogged
    <3> HIDE DEF s, ss, f, ff, u, uu, l, ll, o, oo, w, ww, D, K, B, x, y, z
    <3>2. QED
      BY <1>1, <1>2, <2>2, <2>4, <3>1
  <2>7. QED
    BY <2>5, <2>6
<1>6. CASE Stats(c)
  <2>1. PICK n : /\ Sound(n) /\ Set(c, n) /\ n.cost = req[c].cost /\ Gated(n) = Gated(req[c])
                 /\ n.pc \in {"trim", "append"}
    BY <1>6 DEF Stats
  <2>2. ss = s /\ ff = f /\ uu = u /\ ll = l /\ req[c].pc = "stat"
    BY <1>6 DEF Stats
  <2>3. Owed(n) = Owed(req[c]) /\ AtMost(n) = AtMost(req[c])
    BY <2>1, <2>2 DEF Owed, AtMost, ToBeLogged
  <2> DEFINE x == Owed(n)
             y == AtMost(n)
  <2>4. /\ o \in Nat /\ oo \in Nat /\ w \in Nat /\ ww \in Nat /\ x \in Nat /\ y \in Nat
        /\ oo + x = o + x /\ ww + y = w + y
    BY <2>1, <2>3, SumsStep
  <2> HIDE DEF s, ss, f, ff, u, uu, l, ll, o, oo, w, ww, D, K, B, x, y
  <2>5. oo = o /\ ww = w
    BY <2>4
  <2>6. QED
    BY <1>2, <2>2, <2>5
<1>7. CASE Trimmed(c)
  <2>1. PICK n : Sound(n) /\ Set(c, n) /\ n.pc = "append" /\ n.cost = req[c].cost /\ Gated(n) = Gated(req[c])
    BY <1>7 DEF Trimmed
  <2>2. ss = s /\ uu = u /\ ff \in Nat /\ ff >= f /\ l + f <= ll + ff /\ req[c].pc = "trim"
    BY <1>7 DEF Trimmed
  <2>3. Owed(n) = Owed(req[c]) /\ AtMost(n) = AtMost(req[c])
    BY <2>1, <2>2 DEF Owed, AtMost, ToBeLogged
  <2>a. ll \in Nat
    BY <1>7, LogIsPriced DEF Trimmed
  <2> DEFINE x == Owed(n)
             y == AtMost(n)
  <2>4. /\ o \in Nat /\ oo \in Nat /\ w \in Nat /\ ww \in Nat /\ x \in Nat /\ y \in Nat
        /\ oo + x = o + x /\ ww + y = w + y
    BY <2>1, <2>3, SumsStep
  <2> HIDE DEF s, ss, f, ff, u, uu, l, ll, o, oo, w, ww, D, K, B, x, y
  <2>5. oo = o /\ ww = w
    BY <2>4
  <2>6. QED
    BY <1>1, <1>2, <2>2, <2>4, <2>5, <2>a
<1>8. CASE Appends(c)
  <2>1. PICK n : Sound(n) /\ Set(c, n) /\ n.pc \in {"gate", "done"}
    BY <1>8 DEF Appends
  <2> DEFINE x == Owed(req[c])
             y == req[c].cost
  <2>2. ss = s /\ uu = u /\ ff = f /\ ll = l + y /\ req[c].pc = "append"
    BY <1>8 DEF Appends
  <2>3. Owed(n) = 0 /\ AtMost(n) = 0 /\ AtMost(req[c]) = x
    BY <2>1, <2>2 DEF Owed, AtMost, ToBeLogged
  <2>a. y \in Nat /\ x <= y
    BY DEF StateOK, RequestState, Owed
  <2>4. /\ o \in Nat /\ oo \in Nat /\ w \in Nat /\ ww \in Nat /\ x \in Nat
        /\ oo + x = o + 0 /\ ww + x = w + 0
    BY <2>1, <2>3, SumsStep
  <2> HIDE DEF s, ss, f, ff, u, uu, l, ll, o, oo, w, ww, D, K, B, x, y
  <2>5. QED
    BY <1>1, <1>2, <2>2, <2>4, <2>a
<1>9. QED
  BY <1>4, <1>5, <1>6, <1>7, <1>8

-----------------------------------------------------------------------------
(* The invariant, and the properties it implies.                            *)

\* What every state of the routing satisfies: the types with the order of each
\* walk, the size of the log, the count of the calls, and the two bounds on
\* what was spent, of which neither is kept without the other.
Inv == StateOK /\ Fits /\ Counted /\ Cheap /\ Behind /\ Ahead

LEMMA InvInit ==
  ASSUME Init
  PROVE  Inv
<1>1. Idle \in RequestState
  BY DEF Idle, RequestState, Stages
<1>2. Idle.pc = "idle" /\ Idle.outcome = None /\ Idle.cost = 0
  BY DEF Idle
<1>3. Sound(Idle)
  BY <1>1, <1>2, NotTrying DEF Trying
<1>4. req \in [Callers -> RequestState] /\ \A c \in Callers : req[c] = Idle
  BY <1>1 DEF Init
<1>5. /\ log = << >> /\ requests = 0 /\ made = 0 /\ spent = 0 /\ ungated = 0
      /\ dropped = 0 /\ forgotten = 0
  BY DEF Init
<1>6. log \in Seq(Record) /\ Len(log) = 0 /\ requests \in 0 .. MaxRequests
  BY <1>5, RoutingAssumption
<1>7. StateOK
  BY <1>3, <1>4, <1>5, <1>6 DEF StateOK
<1>8. In(req, {"append"}) = {} /\ In(req, ToBeLogged) = {}
  BY <1>2, <1>4 DEF In, ToBeLogged
<1>9. Cardinality({}) = 0
  BY FS_EmptySet
<1>10. Fits
  <2>1. Trigger \in Nat /\ Cardinality(Callers) \in Nat
    BY TrimSizes, RowIs
  <2>2. Cardinality(In(req, {"append"})) = 0
    BY <1>8, <1>9
  <2>3. Len(log) + 0 <= Trigger + Cardinality(Callers)
    BY <1>6, <2>1
  <2>4. \A c \in Callers : req[c].pc # "trim"
    BY <1>2, <1>4
  <2>5. QED
    BY <2>2, <2>3, <2>4 DEF Fits
<1>11. Counted
  BY <1>5, <1>6, <1>8, <1>9 DEF Counted
<1>12. Cheap
  BY <1>2, <1>4 DEF Cheap, ToBeLogged
<1>13. CostOf(log) = 0
  BY <1>6, LogIsPriced, CostOfNothing
<1>14. CostOf(Owing(req)) \in Nat /\ CostOf(Awaited(req)) \in Nat
  BY <1>7, OwingBounds DEF StateOK
<1>15. CostOf(Awaited(req)) <= Cardinality(Callers) * 0
  <2>1. \A c \in Callers : AtMost(req[c]) = 0
    BY <1>2, <1>4 DEF AtMost, Owed, ToBeLogged
  <2>2. \A i \in 1 .. Cardinality(Callers) : Awaited(req)[i].cost <= 0
    BY <1>4, <2>1, OwingIs, RowIs
  <2>3. QED
    BY <1>4, <2>2, OwingIs, CostBound
<1>16. Behind
  BY <1>5, <1>13, <1>14 DEF Behind
<1>17. Ahead
  <2> DEFINE w == CostOf(Awaited(req))
             o == CostOf(Owing(req))
             n == Cardinality(Callers)
             K == n * Dearest
  <2>1. n \in Nat /\ K \in Nat /\ BlockAt \in Nat /\ BlockAt > 0
    <3>1. n \in Nat /\ Dearest \in Nat
      BY RowIs, DearestIs
    <3>2. n * Dearest \in Nat
      BY <3>1
    <3>3. BlockAt \in Nat /\ BlockAt > 0
      BY RoutingAssumption
    <3>4. QED
      BY <3>1, <3>2, <3>3
  <2>2. w = 0
    <3>1. n * 0 = 0
      BY <2>1
    <3> HIDE DEF w, n
    <3>2. w \in Nat /\ w <= n * 0
      BY <1>14, <1>15 DEF w, n
    <3>3. QED
      BY <3>1, <3>2
  <2>3. o \in Nat
    BY <1>14
  <2>4. spent + w < BlockAt + K + forgotten + ungated + o
    <3> HIDE DEF w, o, K, n
    <3>1. QED
      BY <1>5, <2>1, <2>2, <2>3
  <2>5. QED
    BY <2>4 DEF Ahead
<1>18. QED
  BY <1>7, <1>10, <1>11, <1>12, <1>16, <1>17 DEF Inv

LEMMA InvStays ==
  ASSUME Inv, [Next]_vars
  PROVE  Inv'
<1>1. CASE Next
  <2>1. PICK c \in Callers : Moves(c) \/ Answers(c) \/ Stats(c) \/ Trimmed(c) \/ Appends(c)
    BY <1>1, NextMoves DEF Inv
  <2>2. Trimmed(c) => Target <= Len(log)
    BY DEF Inv, Fits, Trimmed
  <2>3. StateOK'
    BY <2>1, <2>2, StateStays DEF Inv
  <2>4. Fits' /\ Counted' /\ Cheap'
    BY <2>1, FitsStays, CountedStays, CheapStays DEF Inv
  <2>5. Behind' /\ Ahead'
    BY <2>1, SpendingStays DEF Inv
  <2>6. QED
    BY <2>3, <2>4, <2>5 DEF Inv
<1>2. CASE UNCHANGED vars
  BY <1>2 DEF vars, Inv, StateOK, Fits, Counted, Cheap, Behind, Ahead, In
<1>3. QED
  BY <1>1, <1>2

LEMMA InvImplies ==
  ASSUME Inv
  PROVE  CallsAreLogged /\ OverrunIsBounded /\ WalkIsInOrder
<1>1. CallsAreLogged
  <2>1. Len(log) \in Nat /\ Trigger \in Nat /\ Cardinality(Callers) \in Nat
        /\ Cardinality(In(req, {"append"})) \in Nat
    BY TrimSizes, RowIs, InSize DEF Inv, StateOK
  <2>2. Len(log) <= Trigger + Cardinality(Callers)
    BY <2>1 DEF Inv, Fits
  <2>3. In(req, ToBeLogged) = Logging
    BY DEF In, Logging, ToBeLogged
  <2>4. TypeOK
    BY <2>2 DEF Inv, StateOK, TypeOK, RequestState
  <2>5. QED
    BY <2>3, <2>4 DEF Inv, Counted, CallsAreLogged
<1>2. OverrunIsBounded
  <2> DEFINE w == CostOf(Awaited(req))
             o == CostOf(Owing(req))
             K == Cardinality(Callers) * Dearest
  <2>1. o \in Nat /\ w \in Nat /\ o <= w
    BY OwingBounds DEF Inv, StateOK
  <2>2. spent + w < BlockAt + K + forgotten + ungated + o
    BY DEF Inv, Ahead
  <2>3. K \in Nat
    <3>1. Cardinality(Callers) \in Nat /\ Dearest \in Nat
      BY RowIs, DearestIs
    <3>2. QED
      BY <3>1
  <2>4. /\ spent \in Nat /\ forgotten \in Nat /\ ungated \in Nat /\ BlockAt \in Nat
    BY RoutingAssumption DEF Inv, StateOK
  <2>5. spent < BlockAt + K + forgotten + ungated
    <3> HIDE DEF w, o, K
    <3>1. QED
      BY <2>1, <2>2, <2>3, <2>4
  <2>6. QED
    BY <2>5 DEF OverrunIsBounded
<1>3. WalkIsInOrder
  <2>1. SUFFICES ASSUME NEW c \in Callers
                 PROVE  LET r == req[c] IN
                        /\ (Walks(r) /\ r.pc = "done" /\ r.outcome = "transient") =>
                             \A p \in Profiles :
                               Tier[p] = 0 /\ Usable(p, r.task) /\ Viable(p, r.up) => p \in r.tried
                        /\ (Walks(r) /\ r.pc \in {"gate", "provider"}) =>
                             /\ \A i \in DOMAIN r.left :
                                  Tier[r.left[i]] = Tier[r.at] => PaymentRank(r.at) <= PaymentRank(r.left[i])
                             /\ r.at \notin r.tried
                             /\ Range(r.left) \cap (r.tried \cup {r.at}) = {}
    BY DEF WalkIsInOrder
  <2> DEFINE r == req[c]
  <2>2. Sound(r)
    BY DEF Inv, StateOK
  <2> HIDE DEF r
  <2>3. ASSUME Walks(r), r.pc = "done", r.outcome = "transient"
        PROVE  \A p \in Profiles :
                 Tier[p] = 0 /\ Usable(p, r.task) /\ Viable(p, r.up) => p \in r.tried
    <3>1. \A p \in OfTier(0, r.task) : Viable(p, r.up) => p \in r.tried
      BY <2>2, <2>3 DEF Sound
    <3>2. QED
      BY <3>1 DEF OfTier
  <2>4. ASSUME Walks(r), r.pc \in {"gate", "provider"}
        PROVE  /\ \A i \in DOMAIN r.left :
                    Tier[r.left[i]] = Tier[r.at] => PaymentRank(r.at) <= PaymentRank(r.left[i])
               /\ r.at \notin r.tried
               /\ Range(r.left) \cap (r.tried \cup {r.at}) = {}
    <3>1. /\ r.at \in Profiles /\ r.left \in Seq(Profiles) /\ InOrder(<<r.at>> \o r.left)
          /\ Range(<<r.at>> \o r.left) \cap r.tried = {}
      BY <2>2, <2>4 DEF Sound, RequestState, Trying, Walk
    <3>2. Range(<<r.at>> \o r.left) = {r.at} \cup Range(r.left)
      BY <3>1, WalkIs
    <3>3. /\ r.at \notin Range(r.left)
          /\ \A i \in DOMAIN r.left :
               Tier[r.left[i]] = Tier[r.at] => PaymentRank(r.at) <= PaymentRank(r.left[i])
      BY <3>1, RestInOrder
    <3>4. QED
      BY <3>1, <3>2, <3>3
  <2>5. QED
    BY <2>3, <2>4 DEF r
<1>4. QED
  BY <1>1, <1>2, <1>3

-----------------------------------------------------------------------------
(* The page in the editor and its host.                                      *)

Letter == [type : {"request", "stream", "abort"}, id : Transit!Ids, page : 1 .. MaxPages]
Answer == [type : {"res", "err", "chunk", "done"}, id : Transit!Ids, from : Transit!Tokens, n : Nat]
Given  == [type : {"res", "err", "chunk", "done"}, from : Transit!Tokens, n : Nat]
Job    == [kind : {"none", "request", "stream"}, state : {"none", "open", "aborted", "over"},
           chunks : Nat]

TransitTyped ==
  /\ page \in 0 .. MaxPages /\ nextId \in 1 .. MaxId + 1
  /\ entry \in [Transit!Ids -> {"none", "request", "stream", "aborting"}]
  /\ toHost \in Seq(Letter) /\ toPage \in Seq(Answer)
  /\ job \in [Transit!Tokens -> Job]
  /\ inflight \in [Transit!Ids -> Transit!Tokens \cup {Transit!Nobody}]
  /\ got \in [Transit!Tokens -> Seq(Given)]
  /\ overlapped \in BOOLEAN

Asks(m) == m.type # "abort"
For(m)   == <<m.page, m.id>>

\* A call on its way is the only one of its number, and new to the host.
LettersOK ==
  /\ \A j \in DOMAIN toHost : Asks(toHost[j]) => job[For(toHost[j])] = Transit!NoJob
  /\ \A j, k \in DOMAIN toHost : Asks(toHost[j]) /\ Asks(toHost[k]) /\ For(toHost[j]) = For(toHost[k]) => j = k
  /\ page # 0 => \A j \in DOMAIN toHost : toHost[j].page = page /\ toHost[j].id < nextId

\* Answers of one call are on their way in their order, its end last.
AnswersOK ==
  /\ \A j \in DOMAIN toPage :
       LET m == toPage[j] IN
       /\ m.id = m.from[2]
       /\ page # 0 => m.from[1] = page
       /\ m.type \in {"res", "err"} => job[m.from].kind = "request" /\ job[m.from].state = "over"
       /\ m.type = "chunk" => job[m.from].kind = "stream" /\ m.n \in 1 .. job[m.from].chunks
       /\ m.type = "done" => job[m.from].kind = "stream" /\ job[m.from].state = "over"
  /\ \A j, k \in DOMAIN toPage : j < k /\ toPage[j].from = toPage[k].from =>
       /\ toPage[j].type = "chunk"
       /\ toPage[k].type = "chunk" => toPage[j].n < toPage[k].n

\* What a call was given.
GivenOK(t) ==
  \A k \in DOMAIN got[t] :
    LET m == got[t][k] IN
    /\ m.from = t
    /\ m.type \in {"res", "err"} => Len(got[t]) = 1 /\ job[t].kind = "request"
    /\ m.type = "chunk" => m.n = k /\ job[t].kind = "stream"
    /\ m.type = "done" => k = Len(got[t]) /\ job[t].kind = "stream"

JobOK(t) ==
  /\ job[t].kind = "none" => job[t] = Transit!NoJob
  /\ job[t].state = "none" => job[t].kind = "none"
  /\ page # 0 /\ job[t].state \in {"open", "aborted"} => t[1] = page
  /\ page # 0 /\ (t[1] > page \/ (t[1] = page /\ t[2] >= nextId)) => job[t] = Transit!NoJob /\ got[t] = << >>

\* A call the page still waits for was given its first chunks, the others are
\* on their way.
AwaitedOK(t) ==
  page # 0 /\ t[1] = page /\ entry[t[2]] # "none" =>
    /\ job[t].kind # "none" => (job[t].kind = "request" <=> entry[t[2]] = "request")
    /\ \A j \in DOMAIN toHost : Asks(toHost[j]) /\ For(toHost[j]) = t =>
         (toHost[j].type = "request" <=> entry[t[2]] = "request")
    /\ \A k \in DOMAIN got[t] : got[t][k].type = "chunk"
    /\ Len(got[t]) <= job[t].chunks
    /\ \A j \in DOMAIN toPage : toPage[j].from = t /\ toPage[j].type = "chunk" =>
         toPage[j].n > Len(got[t])
    /\ \A n \in Len(got[t]) + 1 .. job[t].chunks :
         \E j \in DOMAIN toPage : toPage[j].from = t /\ toPage[j].type = "chunk" /\ toPage[j].n = n

\* The numbers from nextId on were not given out.
FreshOK == page # 0 => \A i \in Transit!Ids : i >= nextId => entry[i] = "none"

InflightOK ==
  \A i \in Transit!Ids : inflight[i] # Transit!Nobody =>
    inflight[i][2] = i /\ job[inflight[i]].state \in {"open", "aborted"}

Orderly ==
  /\ LettersOK /\ AnswersOK /\ FreshOK /\ InflightOK
  /\ \A t \in Transit!Tokens : GivenOK(t) /\ JobOK(t) /\ AwaitedOK(t)

TransitInv == TransitTyped /\ (~ overlapped => Orderly)

LEMMA TransitConstants ==
  /\ MaxId \in Nat /\ MaxPages \in Nat /\ MaxPages > 0 /\ MaxChunks \in Nat /\ MaxQueue \in Nat
  /\ \A i \in Transit!Ids, p \in 1 .. MaxPages : <<p, i>> \in Transit!Tokens /\ <<p, i>>[1] = p /\ <<p, i>>[2] = i
  /\ \A t \in Transit!Tokens : t[1] \in 1 .. MaxPages /\ t[2] \in Transit!Ids /\ t = <<t[1], t[2]>> /\ t # Transit!Nobody
  /\ Transit!NoJob \in Job
<1>1. MaxId \in Nat /\ MaxPages \in Nat /\ MaxPages > 0 /\ MaxChunks \in Nat /\ MaxQueue \in Nat
  BY TransitAssumption
<1>2. \A i \in Transit!Ids, p \in 1 .. MaxPages : <<p, i>> \in Transit!Tokens /\ <<p, i>>[1] = p /\ <<p, i>>[2] = i
  BY DEF Transit!Tokens
<1>3. \A t \in Transit!Tokens : t[1] \in 1 .. MaxPages /\ t[2] \in Transit!Ids /\ t = <<t[1], t[2]>> /\ t # Transit!Nobody
  BY <1>1 DEF Transit!Tokens, Transit!Ids, Transit!Nobody
<1>4. QED
  BY <1>1, <1>2, <1>3 DEF Transit!NoJob, Job

LEMMA TransitInit == Transit!Init => TransitInv
<1> SUFFICES ASSUME Transit!Init PROVE TransitInv
  OBVIOUS
<1>1. /\ page = 1 /\ nextId = 1 /\ toHost = << >> /\ toPage = << >> /\ overlapped = FALSE
      /\ \A i \in Transit!Ids : entry[i] = "none" /\ inflight[i] = Transit!Nobody
      /\ \A t \in Transit!Tokens : job[t] = Transit!NoJob /\ got[t] = << >>
  BY DEF Transit!Init
<1>2. TransitTyped
  <2>1. page \in 0 .. MaxPages /\ nextId \in 1 .. MaxId + 1
    BY <1>1, TransitConstants
  <2>6. overlapped \in BOOLEAN
    BY <1>1, Zenon
  <2>2. toHost \in Seq(Letter) /\ toPage \in Seq(Answer) /\ << >> \in Seq(Given)
    BY <1>1
  <2>3. job \in [Transit!Tokens -> Job] /\ got \in [Transit!Tokens -> Seq(Given)]
    <3>1. job = [t \in Transit!Tokens |-> Transit!NoJob] /\ got = [t \in Transit!Tokens |-> << >>] /\ Transit!NoJob \in Job
      BY TransitConstants DEF Transit!Init
    <3>2. QED
      BY <2>2, <3>1
  <2>4. /\ entry \in [Transit!Ids -> {"none", "request", "stream", "aborting"}]
        /\ inflight \in [Transit!Ids -> Transit!Tokens \cup {Transit!Nobody}]
    BY DEF Transit!Init
  <2>5. QED
    BY <2>1, <2>2, <2>3, <2>4, <2>6 DEF TransitTyped
<1>3. LettersOK /\ AnswersOK /\ InflightOK /\ FreshOK
  BY <1>1 DEF LettersOK, AnswersOK, InflightOK, FreshOK
<1>4. ASSUME NEW t \in Transit!Tokens PROVE GivenOK(t) /\ JobOK(t) /\ AwaitedOK(t)
  BY <1>1, TransitConstants DEF GivenOK, JobOK, AwaitedOK, Transit!NoJob
<1>5. QED
  BY <1>2, <1>3, <1>4 DEF TransitInv, Orderly

\* What is appended to a queue stands after what is in it.
LEMMA Appended ==
  ASSUME NEW S, NEW s \in Seq(S), NEW x \in S
  PROVE  /\ Append(s, x) \in Seq(S) /\ Len(s) \in Nat
         /\ DOMAIN Append(s, x) = 1 .. Len(s) + 1 /\ DOMAIN s = 1 .. Len(s)
         /\ Len(Append(s, x)) = Len(s) + 1
         /\ \A j \in 1 .. Len(s) : Append(s, x)[j] = s[j]
         /\ Append(s, x)[Len(s) + 1] = x
  OBVIOUS

\* What is left of a queue is what stood after its head.
LEMMA Taken ==
  ASSUME NEW S, NEW s \in Seq(S), s # << >>
  PROVE  /\ Tail(s) \in Seq(S) /\ Len(s) \in Nat \ {0} /\ Head(s) \in S /\ Head(s) = s[1]
         /\ DOMAIN Tail(s) = 1 .. Len(s) - 1 /\ DOMAIN s = 1 .. Len(s)
         /\ Len(Tail(s)) = Len(s) - 1
         /\ \A j \in 1 .. Len(s) - 1 : Tail(s)[j] = s[j + 1]
  OBVIOUS

\* What is on its way, and what was given, of which type it is.
LEMMA TransitMembers ==
  ASSUME TransitTyped
  PROVE  /\ \A j \in DOMAIN toHost :
              /\ toHost[j] \in Letter /\ toHost[j].type \in {"request", "stream", "abort"}
              /\ toHost[j].id \in Transit!Ids /\ toHost[j].page \in 1 .. MaxPages
              /\ For(toHost[j]) \in Transit!Tokens
         /\ \A j \in DOMAIN toPage :
              /\ toPage[j] \in Answer /\ toPage[j].type \in {"res", "err", "chunk", "done"}
              /\ toPage[j].from \in Transit!Tokens /\ toPage[j].n \in Nat /\ toPage[j].id \in Transit!Ids
         /\ \A t \in Transit!Tokens :
              /\ got[t] \in Seq(Given) /\ Len(got[t]) \in Nat /\ DOMAIN got[t] = 1 .. Len(got[t])
              /\ \A k \in DOMAIN got[t] : got[t][k].type \in {"res", "err", "chunk", "done"}
         /\ \A t \in Transit!Tokens :
              /\ job[t] \in Job /\ job[t].chunks \in Nat
              /\ job[t].kind \in {"none", "request", "stream"}
<1>1. toHost \in Seq(Letter) /\ toPage \in Seq(Answer) /\ got \in [Transit!Tokens -> Seq(Given)]
      /\ job \in [Transit!Tokens -> Job]
  BY DEF TransitTyped
<1>2. ASSUME NEW j \in DOMAIN toHost
      PROVE  /\ toHost[j] \in Letter /\ toHost[j].type \in {"request", "stream", "abort"}
             /\ toHost[j].id \in Transit!Ids /\ toHost[j].page \in 1 .. MaxPages
             /\ For(toHost[j]) \in Transit!Tokens
  <2>1. toHost[j] \in Letter
    BY <1>1
  <2>2. QED
    BY <2>1, TransitConstants DEF Letter, For
<1>3. ASSUME NEW j \in DOMAIN toPage
      PROVE  /\ toPage[j] \in Answer /\ toPage[j].type \in {"res", "err", "chunk", "done"}
             /\ toPage[j].from \in Transit!Tokens /\ toPage[j].n \in Nat /\ toPage[j].id \in Transit!Ids
  <2>1. toPage[j] \in Answer
    BY <1>1
  <2>2. QED
    BY <2>1 DEF Answer
<1>4. ASSUME NEW t \in Transit!Tokens
      PROVE  /\ got[t] \in Seq(Given) /\ Len(got[t]) \in Nat /\ DOMAIN got[t] = 1 .. Len(got[t])
             /\ \A k \in DOMAIN got[t] : got[t][k].type \in {"res", "err", "chunk", "done"}
  <2>1. got[t] \in Seq(Given)
    BY <1>1
  <2>2. ASSUME NEW k \in DOMAIN got[t] PROVE got[t][k] \in Given
    BY <2>1
  <2>3. QED
    BY <2>1, <2>2 DEF Given
<1>5. ASSUME NEW t \in Transit!Tokens
      PROVE  /\ job[t] \in Job /\ job[t].chunks \in Nat
             /\ job[t].kind \in {"none", "request", "stream"}
  BY <1>1 DEF Job
<1>6. QED
  BY <1>2, <1>3, <1>4, <1>5

LEMMA CallKeeps ==
  ASSUME TransitInv, ~ overlapped, NEW kind \in {"request", "stream"}, Transit!Call(kind)
  PROVE  TransitInv'
<1> DEFINE m == [type |-> kind, id |-> nextId, page |-> page]
           new == <<page, nextId>>
           n == Len(toHost)
<1>1. TransitTyped /\ Orderly
  BY DEF TransitInv
<1>2. /\ page \in 1 .. MaxPages /\ nextId \in Transit!Ids
      /\ nextId' = nextId + 1 /\ toHost' = Append(toHost, m)
      /\ entry' = [entry EXCEPT ![nextId] = kind]
      /\ UNCHANGED <<page, job, inflight, toPage, got, overlapped>>
  BY <1>1, TransitConstants DEF Transit!Call, TransitTyped, Transit!Ids, Transit!Host
<1>3. m \in Letter /\ new \in Transit!Tokens /\ new[1] = page /\ new[2] = nextId
      /\ m.type = kind /\ m.type # "abort" /\ m.page = page /\ m.id = nextId
  BY <1>2, TransitConstants DEF Letter
<1>4. toHost \in Seq(Letter)
  BY <1>1 DEF TransitTyped
<1> HIDE DEF m
<1>5. /\ toHost' \in Seq(Letter) /\ n \in Nat /\ DOMAIN toHost = 1 .. n
      /\ DOMAIN toHost' = 1 .. n + 1 /\ toHost'[n + 1] = m
      /\ \A j \in 1 .. n : toHost'[j] = toHost[j] /\ toHost[j] \in Letter
  BY <1>2, <1>3, <1>4, Appended
<1>6. /\ For(toHost'[n + 1]) = new /\ Asks(toHost'[n + 1])
      /\ \A j \in 1 .. n : For(toHost'[j]) = For(toHost[j]) /\ (Asks(toHost'[j]) <=> Asks(toHost[j])) /\ For(toHost[j]) # new
  <2>1. \A j \in 1 .. n : toHost[j].id < nextId
    BY <1>1, <1>2, <1>5 DEF Orderly, LettersOK
  <2>2. \A j \in 1 .. n : toHost[j].id \in Nat /\ nextId \in Nat
    BY <1>2, <1>5 DEF Letter, Transit!Ids
  <2>3. \A j \in 1 .. n : toHost[j].id # nextId
    BY <2>1, <2>2
  <2>4. QED
    BY <1>2, <1>3, <1>5, <2>3 DEF For, Asks
<1>7. job[new] = Transit!NoJob /\ got[new] = << >>
  BY <1>1, <1>2, <1>3 DEF Orderly, JobOK, Transit!Ids
<1> HIDE DEF new, n
<1>8. TransitTyped'
  <2>1. nextId' \in 1 .. MaxId + 1
    BY <1>2, TransitConstants DEF Transit!Ids
  <2>2. entry' \in [Transit!Ids -> {"none", "request", "stream", "aborting"}]
    BY <1>1, <1>2 DEF TransitTyped
  <2>3. QED
    BY <1>1, <1>2, <1>5, <2>1, <2>2 DEF TransitTyped
<1>9. LettersOK'
  <2>1. ASSUME NEW j \in DOMAIN toHost', Asks(toHost'[j]) PROVE job'[For(toHost'[j])] = Transit!NoJob
    BY <1>1, <1>2, <1>5, <1>6, <1>7, <2>1 DEF Orderly, LettersOK
  <2>2. ASSUME NEW j \in DOMAIN toHost', NEW k \in DOMAIN toHost', Asks(toHost'[j]), Asks(toHost'[k]),
               For(toHost'[j]) = For(toHost'[k])
        PROVE  j = k
    BY <1>1, <1>5, <1>6, <2>2 DEF Orderly, LettersOK
  <2>3. ASSUME NEW j \in DOMAIN toHost' PROVE toHost'[j].page = page /\ toHost'[j].id < nextId'
    <3>1. CASE j = n + 1
      BY <1>2, <1>3, <1>5, <3>1 DEF Transit!Ids
    <3>2. CASE j \in 1 .. n
      <4>1. toHost[j].page = page /\ toHost[j].id < nextId /\ toHost[j].id \in Nat /\ nextId \in Nat
        BY <1>1, <1>2, <1>5, <3>2 DEF Orderly, LettersOK, Letter, Transit!Ids
      <4>2. QED
        BY <1>2, <1>5, <3>2, <4>1
    <3>3. QED
      BY <1>5, <3>1, <3>2
  <2>4. QED
    BY <1>2, <2>1, <2>2, <2>3 DEF LettersOK
<1>10. AnswersOK' /\ InflightOK'
  BY <1>1, <1>2 DEF Orderly, AnswersOK, InflightOK
<1>11. ASSUME NEW t \in Transit!Tokens PROVE GivenOK(t)' /\ JobOK(t)'
  <2>1. t[2] >= nextId' => t[2] >= nextId
    BY <1>2, TransitConstants DEF Transit!Ids
  <2>2. QED
    BY <1>1, <1>2, <2>1 DEF Orderly, GivenOK, JobOK
<1>12. ASSUME NEW t \in Transit!Tokens PROVE AwaitedOK(t)'
  <2>1. CASE t = new
    <3>1. \A j \in DOMAIN toPage : toPage[j].from # new
      <4>1. job[new].kind = "none"
        BY <1>7 DEF Transit!NoJob
      <4>2. QED
        BY <1>1, <4>1, TransitMembers DEF Orderly, AnswersOK
    <3>2. /\ job'[t].kind = "none" /\ job'[t].chunks = 0 /\ got'[t] = << >>
          /\ \A j \in DOMAIN toPage' : toPage'[j].from # t
      BY <1>2, <1>7, <2>1, <3>1 DEF Transit!NoJob
    <3>3. entry'[t[2]] = kind
      BY <1>1, <1>2, <1>3, <2>1 DEF TransitTyped
    <3>4. \A j \in DOMAIN toHost' : Asks(toHost'[j]) /\ For(toHost'[j]) = t => toHost'[j].type = kind
      BY <1>3, <1>5, <1>6, <2>1
    <3>5. QED
      BY <3>2, <3>3, <3>4 DEF AwaitedOK
  <2>2. CASE t # new
    <3>1. t[1] = page => entry'[t[2]] = entry[t[2]]
      BY <1>1, <1>2, <2>2, TransitConstants DEF TransitTyped, new
    <3>2. \A j \in DOMAIN toHost' : Asks(toHost'[j]) /\ For(toHost'[j]) = t =>
            j \in DOMAIN toHost /\ Asks(toHost[j]) /\ For(toHost[j]) = t /\ toHost'[j] = toHost[j]
      BY <1>5, <1>6, <2>2
    <3>3. AwaitedOK(t)
      BY <1>1 DEF Orderly
    <3>4. QED
      BY <1>2, <3>1, <3>2, <3>3 DEF AwaitedOK
  <2>3. QED
    BY <2>1, <2>2
<1>13. FreshOK'
  BY <1>1, <1>2 DEF Orderly, FreshOK, TransitTyped, Transit!Ids
<1>14. QED
  BY <1>8, <1>9, <1>10, <1>11, <1>12, <1>13 DEF TransitInv, Orderly

LEMMA AbortKeeps ==
  ASSUME TransitInv, ~ overlapped, NEW i \in Transit!Ids, Transit!Abort(i)
  PROVE  TransitInv'
<1> DEFINE m == [type |-> "abort", id |-> i, page |-> page]
           n == Len(toHost)
<1>1. TransitTyped /\ Orderly
  BY DEF TransitInv
<1>2. /\ page \in 1 .. MaxPages /\ entry[i] # "none"
      /\ toHost' = Append(toHost, m)
      /\ \A j \in Transit!Ids : entry'[j] = entry[j]
           \/ (j = i /\ entry[i] = "stream" /\ entry'[i] = "aborting")
           \/ entry'[j] = "none"
      /\ entry' \in [Transit!Ids -> {"none", "request", "stream", "aborting"}]
      /\ UNCHANGED <<page, nextId, job, inflight, toPage, got, overlapped>>
  BY <1>1, TransitConstants DEF Transit!Abort, TransitTyped, Transit!Host
<1>3. i < nextId /\ nextId \in Nat /\ i \in Nat
  <2>1. i \in Nat /\ nextId \in Nat
    BY <1>1 DEF TransitTyped, Transit!Ids
  <2>2. ASSUME i >= nextId PROVE FALSE
    BY <1>1, <1>2, <2>2 DEF Orderly, FreshOK
  <2>3. QED
    BY <2>1, <2>2
<1>4. m \in Letter /\ m.type = "abort" /\ m.page = page /\ m.id = i
  BY <1>2 DEF Letter
<1>5. toHost \in Seq(Letter)
  BY <1>1 DEF TransitTyped
<1> HIDE DEF m
<1>6. /\ toHost' \in Seq(Letter) /\ n \in Nat /\ DOMAIN toHost = 1 .. n
      /\ DOMAIN toHost' = 1 .. n + 1 /\ toHost'[n + 1] = m
      /\ \A j \in 1 .. n : toHost'[j] = toHost[j] /\ toHost[j] \in Letter
  BY <1>2, <1>4, <1>5, Appended
<1> HIDE DEF n
<1>7. \A j \in DOMAIN toHost' : Asks(toHost'[j]) => j \in DOMAIN toHost /\ toHost'[j] = toHost[j]
  BY <1>4, <1>6 DEF Asks
<1>8. TransitTyped'
  BY <1>1, <1>2, <1>6 DEF TransitTyped
<1>9. LettersOK'
  <2>1. ASSUME NEW j \in DOMAIN toHost', Asks(toHost'[j]) PROVE job'[For(toHost'[j])] = Transit!NoJob
    BY <1>1, <1>2, <1>7, <2>1 DEF Orderly, LettersOK
  <2>2. ASSUME NEW j \in DOMAIN toHost', NEW k \in DOMAIN toHost', Asks(toHost'[j]),
               Asks(toHost'[k]), For(toHost'[j]) = For(toHost'[k])
        PROVE  j = k
    BY <1>1, <1>7, <2>2 DEF Orderly, LettersOK
  <2>3. ASSUME NEW j \in DOMAIN toHost' PROVE toHost'[j].page = page /\ toHost'[j].id < nextId
    BY <1>1, <1>2, <1>3, <1>4, <1>6 DEF Orderly, LettersOK
  <2>4. QED
    BY <1>2, <2>1, <2>2, <2>3 DEF LettersOK
<1>10. AnswersOK' /\ InflightOK'
  BY <1>1, <1>2 DEF Orderly, AnswersOK, InflightOK
<1>11. FreshOK'
  BY <1>1, <1>2, <1>3 DEF Orderly, FreshOK
<1>12. ASSUME NEW t \in Transit!Tokens PROVE GivenOK(t)' /\ JobOK(t)' /\ AwaitedOK(t)'
  <2>1. AwaitedOK(t) /\ GivenOK(t) /\ JobOK(t) /\ t[2] \in Transit!Ids
    BY <1>1, TransitConstants DEF Orderly
  <2>2. entry'[t[2]] # "none" =>
          entry[t[2]] # "none" /\ (entry'[t[2]] = "request" <=> entry[t[2]] = "request")
    BY <1>2, <2>1
  <2>3. AwaitedOK(t)'
    BY <1>2, <1>7, <2>1, <2>2 DEF AwaitedOK
  <2>4. QED
    BY <1>2, <2>1, <2>3 DEF GivenOK, JobOK
<1>13. QED
  BY <1>8, <1>9, <1>10, <1>11, <1>12 DEF TransitInv, Orderly

LEMMA LeaveKeeps ==
  ASSUME TransitInv, ~ overlapped, NEW i \in Transit!Ids, Transit!LeaveStream(i)
  PROVE  TransitInv'
<1>1. TransitTyped /\ Orderly
  BY DEF TransitInv
<1>2. /\ entry' \in [Transit!Ids -> {"none", "request", "stream", "aborting"}]
      /\ \A j \in Transit!Ids : entry'[j] = entry[j] \/ entry'[j] = "none"
      /\ UNCHANGED <<page, nextId, toHost, job, inflight, toPage, got, overlapped>>
  BY <1>1 DEF Transit!LeaveStream, TransitTyped, Transit!Host
<1>3. TransitTyped'
  BY <1>1, <1>2 DEF TransitTyped
<1>4. LettersOK' /\ AnswersOK' /\ InflightOK' /\ FreshOK'
  BY <1>1, <1>2 DEF Orderly, LettersOK, AnswersOK, InflightOK, FreshOK
<1>5. ASSUME NEW t \in Transit!Tokens PROVE GivenOK(t)' /\ JobOK(t)' /\ AwaitedOK(t)'
  <2>1. AwaitedOK(t) /\ GivenOK(t) /\ JobOK(t) /\ t[2] \in Transit!Ids
    BY <1>1, TransitConstants DEF Orderly
  <2>2. AwaitedOK(t)'
    BY <1>2, <2>1 DEF AwaitedOK
  <2>3. QED
    BY <1>2, <2>1, <2>2 DEF GivenOK, JobOK
<1>6. QED
  BY <1>3, <1>4, <1>5 DEF TransitInv, Orderly

\* The host takes a letter: a call is opened under its number, an abort reaches
\* the call that is there.
LEMMA HostKeeps ==
  ASSUME TransitInv, ~ overlapped, Transit!HostReceives
  PROVE  TransitInv'
<1> DEFINE n == Len(toHost)
<1>1. TransitTyped /\ Orderly /\ toHost \in Seq(Letter) /\ toHost # << >>
  BY DEF TransitInv, TransitTyped, Transit!HostReceives
<1>2. PICK m \in Letter : m = Head(toHost)
  BY <1>1, Taken
<1>3. /\ toHost' \in Seq(Letter) /\ n \in Nat \ {0} /\ m = toHost[1]
      /\ DOMAIN toHost' = 1 .. n - 1 /\ DOMAIN toHost = 1 .. n
      /\ \A j \in 1 .. n - 1 : toHost'[j] = toHost[j + 1]
  BY <1>1, <1>2, Taken DEF Transit!HostReceives
<1> HIDE DEF n
<1>4. UNCHANGED <<page, nextId, entry, got, overlapped, toPage>>
  BY DEF Transit!HostReceives, Transit!Page
<1>5. \A j \in DOMAIN toHost' : j + 1 \in DOMAIN toHost /\ toHost'[j] = toHost[j + 1]
  BY <1>3
<1>6. m.id \in Transit!Ids /\ For(m) \in Transit!Tokens /\ For(m)[1] = m.page /\ For(m)[2] = m.id
  BY TransitConstants DEF Letter, For
<1>7. 1 \in DOMAIN toHost /\ toHost[1] = m
  BY <1>3
<1>8. /\ \A j \in DOMAIN toHost' : Asks(toHost'[j]) => job[For(toHost'[j])] = Transit!NoJob
      /\ \A j, k \in DOMAIN toHost' : Asks(toHost'[j]) /\ Asks(toHost'[k])
           /\ For(toHost'[j]) = For(toHost'[k]) => j = k
      /\ page # 0 => \A j \in DOMAIN toHost' : toHost'[j].page = page /\ toHost'[j].id < nextId
      /\ Asks(m) => \A j \in DOMAIN toHost' : Asks(toHost'[j]) => For(toHost'[j]) # For(m)
  <2>1. LettersOK
    BY <1>1 DEF Orderly
  <2>2. \A j, k \in DOMAIN toHost' : (j + 1 = k + 1 => j = k) /\ j + 1 # 1
    BY <1>3
  <2>3. QED
    BY <1>5, <1>7, <2>1, <2>2 DEF LettersOK
<1>9. CASE m.type = "abort"
  <2>1. /\ UNCHANGED inflight
        /\ inflight[m.id] # Transit!Nobody => job' = [job EXCEPT ![inflight[m.id]].state = "aborted"]
        /\ inflight[m.id] = Transit!Nobody => job' = job
    BY <1>2, <1>9 DEF Transit!HostReceives
  <2>2. inflight[m.id] # Transit!Nobody => inflight[m.id] \in Transit!Tokens
                                           /\ job[inflight[m.id]].state \in {"open", "aborted"}
    BY <1>1, <1>6 DEF TransitTyped, Orderly, InflightOK
  <2>3. job' \in [Transit!Tokens -> Job]
    BY <1>1, <2>1, <2>2 DEF TransitTyped, Job
  <2>4. \A t \in Transit!Tokens :
          /\ job'[t].kind = job[t].kind /\ job'[t].chunks = job[t].chunks
          /\ \/ job'[t] = job[t]
             \/ job'[t].state = "aborted" /\ job[t].state \in {"open", "aborted"}
    <3>1. job \in [Transit!Tokens -> Job]
      BY <1>1 DEF TransitTyped
    <3>2. QED
      BY <2>1, <2>2, <3>1 DEF Job
  <2>5. TransitTyped'
    BY <1>1, <1>3, <1>4, <2>1, <2>3 DEF TransitTyped
  <2>6. \A t \in Transit!Tokens : job[t] = Transit!NoJob <=> job'[t] = Transit!NoJob
    BY <2>4 DEF Transit!NoJob
  <2>7. LettersOK'
    <3>1. \A j \in DOMAIN toHost' : For(toHost'[j]) \in Transit!Tokens
      BY <1>1, <1>5, TransitMembers
    <3>2. QED
      BY <1>4, <1>8, <2>6, <3>1 DEF LettersOK
  <2>8. AnswersOK'
    <3>1. \A j \in DOMAIN toPage : toPage[j].from \in Transit!Tokens
      BY <1>1, TransitMembers
    <3>2. QED
      BY <1>1, <1>4, <2>4, <3>1 DEF Orderly, AnswersOK
  <2>9. InflightOK' /\ FreshOK'
    <3>1. \A i \in Transit!Ids : inflight[i] # Transit!Nobody => inflight[i] \in Transit!Tokens
      BY <1>1 DEF TransitTyped
    <3>2. QED
      BY <1>1, <1>4, <2>1, <2>4, <3>1 DEF Orderly, InflightOK, FreshOK
  <2>10. ASSUME NEW t \in Transit!Tokens PROVE GivenOK(t)' /\ JobOK(t)' /\ AwaitedOK(t)'
    <3>1. AwaitedOK(t) /\ GivenOK(t) /\ JobOK(t) /\ t[2] \in Transit!Ids
      BY <1>1, TransitConstants DEF Orderly
    <3>2. GivenOK(t)'
      BY <1>4, <2>4, <3>1 DEF GivenOK
    <3>3. JobOK(t)'
      BY <1>4, <2>4, <2>6, <3>1 DEF JobOK, Transit!NoJob
    <3>4. AwaitedOK(t)'
      BY <1>4, <1>5, <2>4, <3>1 DEF AwaitedOK
    <3>5. QED
      BY <3>2, <3>3, <3>4
  <2>11. QED
    BY <2>5, <2>7, <2>8, <2>9, <2>10 DEF TransitInv, Orderly
<1>10. CASE m.type # "abort"
  <2> DEFINE t0 == For(m)
  <2>1. /\ job' = [job EXCEPT ![t0].kind = m.type, ![t0].state = "open"]
        /\ inflight' = [inflight EXCEPT ![m.id] = t0]
    BY <1>2, <1>10 DEF Transit!HostReceives, For
  <2>2. job[t0] = Transit!NoJob /\ m.type \in {"request", "stream"} /\ Asks(m)
    BY <1>1, <1>7, <1>10 DEF Orderly, LettersOK, Asks, Letter
  <2>3. t0 \in Transit!Tokens /\ t0[2] = m.id /\ t0[1] = m.page
    BY <1>6
  <2> HIDE DEF t0
  <2>4. job'[t0] = [kind |-> m.type, state |-> "open", chunks |-> 0]
    <3>1. job \in [Transit!Tokens -> Job] /\ job[t0].chunks = 0
      BY <1>1, <2>2 DEF TransitTyped, Transit!NoJob
    <3>2. job[t0] \in Job /\ DOMAIN job = Transit!Tokens
      BY <2>3, <3>1
    <3>3. QED
      BY <2>1, <2>3, <3>1, <3>2 DEF Job
  <2>5. \A t \in Transit!Tokens : t # t0 => job'[t] = job[t]
    BY <1>1, <2>1, <2>3 DEF TransitTyped
  <2>6. TransitTyped'
    <3>1. job' \in [Transit!Tokens -> Job]
      BY <1>1, <2>1, <2>2, <2>3 DEF TransitTyped, Job
    <3>2. inflight' \in [Transit!Ids -> Transit!Tokens \cup {Transit!Nobody}]
      BY <1>1, <2>1, <2>3 DEF TransitTyped
    <3>3. QED
      BY <1>1, <1>3, <1>4, <3>1, <3>2 DEF TransitTyped
  <2>7. LettersOK'
    <3>1. \A j \in DOMAIN toHost' : For(toHost'[j]) \in Transit!Tokens
      BY <1>1, <1>5, TransitMembers
    <3>2. \A j \in DOMAIN toHost' : Asks(toHost'[j]) => For(toHost'[j]) # t0
      BY <1>8, <2>2 DEF t0
    <3>3. QED
      BY <1>4, <1>8, <2>5, <3>1, <3>2 DEF LettersOK
  <2>8. \A j \in DOMAIN toPage : toPage[j].from \in Transit!Tokens /\ toPage[j].from # t0
    <3>1. \A j \in DOMAIN toPage :
            toPage[j].from \in Transit!Tokens /\ toPage[j].type \in {"res", "err", "chunk", "done"}
      BY <1>1, TransitMembers
    <3>2. job[t0].kind = "none"
      BY <2>2 DEF Transit!NoJob
    <3>3. QED
      BY <1>1, <3>1, <3>2 DEF Orderly, AnswersOK
  <2>9. AnswersOK'
    BY <1>1, <1>4, <2>5, <2>8 DEF Orderly, AnswersOK
  <2>10. InflightOK' /\ FreshOK'
    <3>1. \A i \in Transit!Ids : inflight[i] # Transit!Nobody => inflight[i] \in Transit!Tokens
      BY <1>1 DEF TransitTyped
    <3>2. inflight \in [Transit!Ids -> Transit!Tokens \cup {Transit!Nobody}]
      BY <1>1 DEF TransitTyped
    <3>3. \A i \in Transit!Ids : inflight'[i] = IF i = m.id THEN t0 ELSE inflight[i]
      BY <2>1, <3>2
    <3>4. InflightOK'
      BY <1>1, <2>3, <2>4, <2>5, <3>1, <3>3 DEF Orderly, InflightOK
    <3>5. QED
      BY <1>1, <1>4, <3>4 DEF Orderly, FreshOK
  <2>11. ASSUME NEW t \in Transit!Tokens, t # t0 PROVE GivenOK(t)' /\ JobOK(t)' /\ AwaitedOK(t)'
    <3>1. AwaitedOK(t) /\ GivenOK(t) /\ JobOK(t) /\ t[2] \in Transit!Ids /\ job'[t] = job[t]
      BY <1>1, <2>5, <2>11, TransitConstants DEF Orderly
    <3>2. GivenOK(t)' /\ JobOK(t)'
      BY <1>4, <3>1 DEF GivenOK, JobOK
    <3>3. AwaitedOK(t)'
      BY <1>4, <1>5, <3>1 DEF AwaitedOK
    <3>4. QED
      BY <3>2, <3>3
  <2>12. GivenOK(t0)' /\ JobOK(t0)' /\ AwaitedOK(t0)'
    <3>1. AwaitedOK(t0) /\ GivenOK(t0) /\ JobOK(t0) /\ m.id \in Transit!Ids
      BY <1>1, <1>6, <2>3 DEF Orderly
    <3>2. page # 0 => m.page = page /\ m.id < nextId /\ nextId \in Nat /\ page \in Nat /\ m.id \in Nat
      BY <1>1, <1>6, <1>7 DEF Orderly, LettersOK, TransitTyped, Transit!Ids
    <3>3. \A k \in DOMAIN got[t0] : got[t0][k].type \in {"res", "err", "chunk", "done"}
      BY <1>1, <2>3, TransitMembers
    <3>4. got[t0] \in Seq(Given) /\ job[t0].kind = "none" /\ job[t0].chunks = 0
      BY <1>1, <2>2, <2>3 DEF TransitTyped, Transit!NoJob
    <3>5. \A k \in DOMAIN got[t0] : FALSE
      BY <3>1, <3>3, <3>4 DEF GivenOK
    <3>6. GivenOK(t0)'
      BY <1>4, <3>5 DEF GivenOK
    <3>7. JobOK(t0)'
      BY <1>4, <2>2, <2>3, <2>4, <3>2 DEF JobOK
    <3>8. page # 0 /\ entry[m.id] # "none" => (m.type = "request" <=> entry[m.id] = "request")
      BY <1>7, <2>2, <2>3, <3>1, <3>2, Zenon DEF AwaitedOK, t0
    <3>9. AwaitedOK(t0)'
      BY <1>4, <1>5, <2>3, <2>4, <2>8, <3>1, <3>4, <3>5, <3>8 DEF AwaitedOK
    <3>10. QED
      BY <3>6, <3>7, <3>9
  <2>13. QED
    BY <2>6, <2>7, <2>9, <2>10, <2>11, <2>12 DEF TransitInv, Orderly
<1>11. QED
  BY <1>9, <1>10

\* A call is over, and the page is told, or not.
LEMMA OverKeeps ==
  ASSUME TransitInv, ~ overlapped, NEW t \in Transit!Tokens, NEW type \in {"res", "err", "done"},
         job[t].kind = (IF type = "done" THEN "stream" ELSE "request"),
         job[t].state \in {"open", "aborted"}, Transit!OverWith(t),
         Transit!Post(type, t, 0) \/ UNCHANGED toPage,
         UNCHANGED <<Transit!Page, toHost>>
  PROVE  TransitInv'
<1> DEFINE m == [type |-> type, id |-> t[2], from |-> t, n |-> 0]
           n == Len(toPage)
<1>1. TransitTyped /\ Orderly /\ toPage \in Seq(Answer)
      /\ UNCHANGED <<page, nextId, entry, got, overlapped, toHost>>
  BY DEF TransitInv, TransitTyped, Transit!Page
<1>2. m \in Answer /\ m.type = type /\ m.type # "chunk" /\ m.from = t /\ m.id = t[2] /\ t[2] \in Transit!Ids
  BY TransitConstants DEF Answer
<1>3. toPage' = Append(toPage, m) \/ toPage' = toPage
  BY DEF Transit!Post
<1> HIDE DEF m
<1>4. /\ toPage' \in Seq(Answer) /\ n \in Nat /\ DOMAIN toPage = 1 .. n
      /\ \A j \in 1 .. n : toPage'[j] = toPage[j]
      /\ \/ DOMAIN toPage' = 1 .. n
         \/ DOMAIN toPage' = 1 .. n + 1 /\ toPage'[n + 1] = m
  BY <1>1, <1>2, <1>3, Appended
<1> HIDE DEF n
<1>5. /\ \A j \in DOMAIN toPage : j \in DOMAIN toPage' /\ toPage'[j] = toPage[j] /\ j \in Nat
      /\ \A j \in DOMAIN toPage' :
           \/ j \in DOMAIN toPage /\ toPage'[j] = toPage[j]
           \/ toPage'[j] = m /\ \A k \in DOMAIN toPage' : k > j => FALSE
  BY <1>4
<1>6. /\ job'[t] = [job[t] EXCEPT !.state = "over"]
      /\ \A u \in Transit!Tokens : u # t => job'[u] = job[u]
      /\ job' \in [Transit!Tokens -> Job]
  BY <1>1 DEF Transit!OverWith, TransitTyped, Job
<1>7. /\ job'[t].kind = job[t].kind /\ job'[t].chunks = job[t].chunks /\ job'[t].state = "over"
      /\ job[t].kind \in {"request", "stream"}
  BY <1>1, <1>6, TransitMembers DEF Job
<1>8. /\ inflight' \in [Transit!Ids -> Transit!Tokens \cup {Transit!Nobody}]
      /\ \A i \in Transit!Ids : inflight'[i] = IF i = t[2] THEN Transit!Nobody ELSE inflight[i]
  BY <1>1, <1>2 DEF Transit!OverWith, TransitTyped
<1>9. TransitTyped'
  BY <1>1, <1>4, <1>6, <1>8 DEF TransitTyped
<1>10. LettersOK'
  <2>1. \A j \in DOMAIN toHost : For(toHost[j]) \in Transit!Tokens
    BY <1>1, TransitMembers
  <2>2. job[t] # Transit!NoJob
    BY <1>7 DEF Transit!NoJob
  <2>3. QED
    BY <1>1, <1>6, <2>1, <2>2 DEF Orderly, LettersOK
<1>11. AnswersOK'
  <2>1. \A j \in DOMAIN toPage : toPage[j].from = t => toPage[j].type = "chunk"
    BY <1>1, TransitMembers DEF Orderly, AnswersOK
  <2>2. page # 0 => t[1] = page
    BY <1>1 DEF Orderly, JobOK
  <2>3. \A u \in Transit!Tokens : /\ job'[u].kind = job[u].kind /\ job'[u].chunks = job[u].chunks
                                  /\ job[u].state = "over" => job'[u].state = "over"
    BY <1>6, <1>7
  <2>4. \A j \in DOMAIN toPage : toPage[j].from \in Transit!Tokens
    BY <1>1, TransitMembers
  <2>5. ASSUME NEW j \in DOMAIN toPage'
        PROVE  LET x == toPage'[j] IN
               /\ x.id = x.from[2]
               /\ page # 0 => x.from[1] = page
               /\ x.type \in {"res", "err"} => job'[x.from].kind = "request" /\ job'[x.from].state = "over"
               /\ x.type = "chunk" => job'[x.from].kind = "stream" /\ x.n \in 1 .. job'[x.from].chunks
               /\ x.type = "done" => job'[x.from].kind = "stream" /\ job'[x.from].state = "over"
    <3>1. CASE j \in DOMAIN toPage /\ toPage'[j] = toPage[j]
      BY <1>1, <2>3, <2>4, <3>1 DEF Orderly, AnswersOK
    <3>2. CASE toPage'[j] = m
      BY <1>2, <1>7, <2>2, <3>2
    <3>3. QED
      BY <1>5, <3>1, <3>2
  <2>6. ASSUME NEW j \in DOMAIN toPage', NEW k \in DOMAIN toPage', j < k,
               toPage'[j].from = toPage'[k].from
        PROVE  toPage'[j].type = "chunk" /\ (toPage'[k].type = "chunk" => toPage'[j].n < toPage'[k].n)
    <3>1. j \in DOMAIN toPage /\ toPage'[j] = toPage[j]
      BY <1>4, <2>6
    <3>2. CASE k \in DOMAIN toPage /\ toPage'[k] = toPage[k]
      BY <1>1, <2>6, <3>1, <3>2 DEF Orderly, AnswersOK
    <3>3. CASE toPage'[k] = m
      BY <1>2, <2>1, <2>6, <3>1, <3>3
    <3>4. QED
      BY <1>5, <3>2, <3>3
  <2>7. QED
    BY <1>1, <2>5, <2>6 DEF AnswersOK
<1>12. InflightOK' /\ FreshOK'
  <2>1. \A i \in Transit!Ids : inflight[i] # Transit!Nobody => inflight[i] \in Transit!Tokens
    BY <1>1 DEF TransitTyped
  <2>2. QED
    BY <1>1, <1>6, <1>8, <2>1 DEF Orderly, InflightOK, FreshOK
<1>13. ASSUME NEW u \in Transit!Tokens PROVE GivenOK(u)' /\ JobOK(u)' /\ AwaitedOK(u)'
  <2>1. /\ GivenOK(u) /\ JobOK(u) /\ AwaitedOK(u)
        /\ job'[u].kind = job[u].kind /\ job'[u].chunks = job[u].chunks
    BY <1>1, <1>6, <1>7 DEF Orderly
  <2>2. GivenOK(u)'
    BY <1>1, <2>1 DEF GivenOK
  <2>3. JobOK(u)'
    <3>1. CASE u # t
      BY <1>1, <1>6, <2>1, <3>1 DEF JobOK
    <3>2. CASE u = t
      <4>1. job[t] # Transit!NoJob /\ job[t].state \in {"open", "aborted"} /\ job'[t].kind # "none"
        BY <1>1, <1>7 DEF Transit!NoJob
      <4>2. QED
        BY <1>1, <1>7, <2>1, <3>2, <4>1 DEF JobOK
    <3>3. QED
      BY <3>1, <3>2
  <2>4. AwaitedOK(u)'
    BY <1>1, <1>2, <1>5, <2>1 DEF AwaitedOK
  <2>5. QED
    BY <2>2, <2>3, <2>4
<1>14. QED
  BY <1>9, <1>10, <1>11, <1>12, <1>13 DEF TransitInv, Orderly

LEMMA ChunkKeeps ==
  ASSUME TransitInv, ~ overlapped, NEW t \in Transit!Tokens, Transit!StreamChunk(t)
  PROVE  TransitInv'
<1> DEFINE m == [type |-> "chunk", id |-> t[2], from |-> t, n |-> job[t].chunks + 1]
           n == Len(toPage)
<1>1. TransitTyped /\ Orderly /\ toPage \in Seq(Answer)
      /\ UNCHANGED <<page, nextId, entry, got, overlapped, toHost, inflight>>
      /\ job[t].kind = "stream" /\ job[t].state = "open" /\ job[t].chunks \in Nat
  BY TransitMembers DEF TransitInv, TransitTyped, Transit!Page, Transit!StreamChunk
<1>2. m \in Answer /\ m.type = "chunk" /\ m.from = t /\ m.id = t[2] /\ m.n = job[t].chunks + 1
  BY <1>1, TransitConstants DEF Answer
<1>3. toPage' = Append(toPage, m)
  BY DEF Transit!StreamChunk, Transit!Post
<1> HIDE DEF m
<1>4. /\ toPage' \in Seq(Answer) /\ n \in Nat /\ DOMAIN toPage = 1 .. n
      /\ \A j \in 1 .. n : toPage'[j] = toPage[j]
      /\ DOMAIN toPage' = 1 .. n + 1 /\ toPage'[n + 1] = m
  BY <1>1, <1>2, <1>3, Appended
<1> HIDE DEF n
<1>5. /\ \A j \in DOMAIN toPage : j \in DOMAIN toPage' /\ toPage'[j] = toPage[j] /\ j \in Nat
      /\ \A j \in DOMAIN toPage' :
           \/ j \in DOMAIN toPage /\ toPage'[j] = toPage[j]
           \/ toPage'[j] = m /\ \A k \in DOMAIN toPage' : k > j => FALSE
      /\ \E j \in DOMAIN toPage' : toPage'[j] = m
  BY <1>4
<1>6. /\ job'[t] = [job[t] EXCEPT !.chunks = job[t].chunks + 1]
      /\ \A u \in Transit!Tokens : u # t => job'[u] = job[u]
      /\ job' \in [Transit!Tokens -> Job]
  BY <1>1 DEF Transit!StreamChunk, TransitTyped, Job
<1>7. /\ job'[t].kind = "stream" /\ job'[t].chunks = job[t].chunks + 1 /\ job'[t].state = "open"
  BY <1>1, <1>6, TransitMembers DEF Job
<1>8. TransitTyped'
  BY <1>1, <1>4, <1>6 DEF TransitTyped
<1>9. LettersOK'
  <2>1. \A j \in DOMAIN toHost : For(toHost[j]) \in Transit!Tokens
    BY <1>1, TransitMembers
  <2>2. job[t] # Transit!NoJob
    BY <1>1 DEF Transit!NoJob
  <2>3. QED
    BY <1>1, <1>6, <2>1, <2>2 DEF Orderly, LettersOK
<1>10. AnswersOK'
  <2>1. \A j \in DOMAIN toPage : toPage[j].from = t =>
           toPage[j].type = "chunk" /\ toPage[j].n \in 1 .. job[t].chunks
    BY <1>1, TransitMembers DEF Orderly, AnswersOK
  <2>2. page # 0 => t[1] = page
    BY <1>1 DEF Orderly, JobOK
  <2>3. \A j \in DOMAIN toPage : toPage[j].from \in Transit!Tokens
    BY <1>1, TransitMembers
  <2>4. ASSUME NEW j \in DOMAIN toPage'
        PROVE  LET x == toPage'[j] IN
               /\ x.id = x.from[2]
               /\ page # 0 => x.from[1] = page
               /\ x.type \in {"res", "err"} => job'[x.from].kind = "request" /\ job'[x.from].state = "over"
               /\ x.type = "chunk" => job'[x.from].kind = "stream" /\ x.n \in 1 .. job'[x.from].chunks
               /\ x.type = "done" => job'[x.from].kind = "stream" /\ job'[x.from].state = "over"
    <3>1. CASE j \in DOMAIN toPage /\ toPage'[j] = toPage[j] /\ toPage[j].from # t
      BY <1>1, <1>6, <2>3, <3>1 DEF Orderly, AnswersOK
    <3>2. CASE j \in DOMAIN toPage /\ toPage'[j] = toPage[j] /\ toPage[j].from = t
      <4>1. toPage[j].n \in 1 .. job'[t].chunks /\ toPage[j].type = "chunk"
        BY <1>1, <1>7, <2>1, <3>2
      <4>2. toPage[j].id = t[2]
        BY <1>1, <3>2 DEF Orderly, AnswersOK
      <4>3. QED
        BY <1>7, <2>2, <3>2, <4>1, <4>2
    <3>3. CASE toPage'[j] = m
      <4>1. m.n \in 1 .. job'[t].chunks
        BY <1>1, <1>2, <1>7
      <4>2. QED
        BY <1>2, <1>7, <2>2, <3>3, <4>1
    <3>4. QED
      BY <1>5, <3>1, <3>2, <3>3
  <2>5. ASSUME NEW j \in DOMAIN toPage', NEW k \in DOMAIN toPage', j < k,
               toPage'[j].from = toPage'[k].from
        PROVE  toPage'[j].type = "chunk" /\ (toPage'[k].type = "chunk" => toPage'[j].n < toPage'[k].n)
    <3>1. j \in DOMAIN toPage /\ toPage'[j] = toPage[j]
      BY <1>4, <2>5
    <3>2. CASE k \in DOMAIN toPage /\ toPage'[k] = toPage[k]
      BY <1>1, <2>5, <3>1, <3>2 DEF Orderly, AnswersOK
    <3>3. CASE toPage'[k] = m
      <4>1. toPage[j].type = "chunk" /\ toPage[j].n \in 1 .. job[t].chunks
        BY <1>2, <2>1, <2>5, <3>1, <3>3
      <4>2. toPage[j].n < m.n
        BY <1>1, <1>2, <4>1
      <4>3. QED
        BY <3>1, <3>3, <4>1, <4>2
    <3>4. QED
      BY <1>5, <3>2, <3>3
  <2>6. QED
    BY <1>1, <2>4, <2>5 DEF AnswersOK
<1>11. InflightOK' /\ FreshOK'
  <2>1. \A i \in Transit!Ids : inflight[i] # Transit!Nobody => inflight[i] \in Transit!Tokens
    BY <1>1 DEF TransitTyped
  <2>2. QED
    BY <1>1, <1>6, <1>7, <2>1 DEF Orderly, InflightOK, FreshOK
<1>12. ASSUME NEW u \in Transit!Tokens PROVE GivenOK(u)' /\ JobOK(u)' /\ AwaitedOK(u)'
  <2>1. /\ GivenOK(u) /\ JobOK(u) /\ AwaitedOK(u) /\ job'[u].kind = job[u].kind
        /\ Len(got[u]) \in Nat /\ job[u].chunks \in Nat
    BY <1>1, <1>6, <1>7, TransitMembers DEF Orderly
  <2>2. GivenOK(u)'
    BY <1>1, <2>1 DEF GivenOK
  <2>3. JobOK(u)'
    <3>1. CASE u # t
      BY <1>1, <1>6, <2>1, <3>1 DEF JobOK
    <3>2. CASE u = t
      <4>1. job[t] # Transit!NoJob /\ job[t].state \in {"open", "aborted"} /\ job'[t].kind # "none"
        BY <1>1, <1>7 DEF Transit!NoJob
      <4>2. QED
        BY <1>1, <1>7, <2>1, <3>2, <4>1 DEF JobOK
    <3>3. QED
      BY <3>1, <3>2
  <2>4. AwaitedOK(u)'
    <3>1. CASE u # t
      <4>1. job'[u] = job[u]
        BY <1>6, <3>1
      <4>2. \A j \in DOMAIN toPage' : toPage'[j].from = u => j \in DOMAIN toPage /\ toPage'[j] = toPage[j]
        BY <1>2, <1>5, <3>1
      <4>3. \A j \in DOMAIN toPage : j \in DOMAIN toPage' /\ toPage'[j] = toPage[j]
        BY <1>5
      <4>4. QED
        BY <1>1, <2>1, <4>1, <4>2, <4>3 DEF AwaitedOK
    <3>2. CASE u = t
      <4> SUFFICES ASSUME page # 0, t[1] = page, entry[t[2]] # "none"
                   PROVE  AwaitedOK(t)'
        BY <1>1, <3>2 DEF AwaitedOK
      <4>1. /\ entry[t[2]] # "request"
            /\ \A j \in DOMAIN toHost : Asks(toHost[j]) /\ For(toHost[j]) = t =>
                 (toHost[j].type = "request" <=> entry[t[2]] = "request")
            /\ \A k \in DOMAIN got[t] : got[t][k].type = "chunk"
            /\ Len(got[t]) <= job[t].chunks
            /\ \A j \in DOMAIN toPage : toPage[j].from = t /\ toPage[j].type = "chunk" =>
                 toPage[j].n > Len(got[t])
            /\ \A x \in Len(got[t]) + 1 .. job[t].chunks :
                 \E j \in DOMAIN toPage : toPage[j].from = t /\ toPage[j].type = "chunk" /\ toPage[j].n = x
        BY <1>1, <2>1, <3>2 DEF AwaitedOK
      <4>2. Len(got[t]) <= job'[t].chunks /\ m.n > Len(got[t])
        BY <1>1, <1>2, <1>7, <2>1, <3>2, <4>1
      <4>3. \A j \in DOMAIN toPage' : toPage'[j].from = t /\ toPage'[j].type = "chunk" =>
              toPage'[j].n > Len(got[t])
        BY <1>5, <4>1, <4>2
      <4>4. ASSUME NEW x \in Len(got[t]) + 1 .. job'[t].chunks
            PROVE  \E j \in DOMAIN toPage' :
                     toPage'[j].from = t /\ toPage'[j].type = "chunk" /\ toPage'[j].n = x
        <5>1. CASE x = job[t].chunks + 1
          BY <1>2, <1>5, <5>1
        <5>2. CASE x # job[t].chunks + 1
          <6>1. x \in Len(got[t]) + 1 .. job[t].chunks
            BY <1>1, <1>7, <2>1, <3>2, <5>2
          <6>2. PICK j \in DOMAIN toPage :
                  toPage[j].from = t /\ toPage[j].type = "chunk" /\ toPage[j].n = x
            BY <4>1, <6>1
          <6>3. QED
            BY <1>5, <6>2
        <5>3. QED
          BY <5>1, <5>2
      <4>5. QED
        BY <1>1, <1>7, <4>1, <4>2, <4>3, <4>4 DEF AwaitedOK
    <3>3. QED
      BY <3>1, <3>2
  <2>5. QED
    BY <2>2, <2>3, <2>4
<1>13. QED
  BY <1>8, <1>9, <1>10, <1>11, <1>12 DEF TransitInv, Orderly

LEMMA ListenKeeps ==
  ASSUME TransitInv, ~ overlapped, Transit!PageReceives
  PROVE  TransitInv'
<1> DEFINE n == Len(toPage)
<1>1. TransitTyped /\ Orderly /\ toPage \in Seq(Answer) /\ toPage # << >>
      /\ UNCHANGED <<page, nextId, overlapped, toHost, job, inflight>>
  BY DEF TransitInv, TransitTyped, Transit!PageReceives, Transit!Host
<1>2. PICK m \in Answer : m = Head(toPage)
  BY <1>1, Taken
<1>3. /\ toPage' \in Seq(Answer) /\ n \in Nat \ {0} /\ m = toPage[1]
      /\ DOMAIN toPage' = 1 .. n - 1 /\ DOMAIN toPage = 1 .. n
      /\ \A j \in 1 .. n - 1 : toPage'[j] = toPage[j + 1]
  BY <1>1, <1>2, Taken DEF Transit!PageReceives
<1> HIDE DEF n
<1>4. /\ \A j \in DOMAIN toPage' : j + 1 \in DOMAIN toPage /\ toPage'[j] = toPage[j + 1] /\ 1 < j + 1
      /\ \A j, k \in DOMAIN toPage' : j < k => j + 1 < k + 1
      /\ \A j \in DOMAIN toPage : j # 1 => 1 < j /\ \E k \in DOMAIN toPage' : toPage'[k] = toPage[j]
      /\ 1 \in DOMAIN toPage /\ toPage[1] = m
  <2>1. \A j \in 1 .. n : j # 1 => j - 1 \in 1 .. n - 1 /\ j = (j - 1) + 1 /\ 1 < j
    BY <1>3
  <2>2. \A j \in 1 .. n - 1 : j + 1 \in 1 .. n /\ 1 < j + 1
    BY <1>3
  <2>3. \A j, k \in 1 .. n - 1 : j < k => j + 1 < k + 1
    BY <1>3
  <2>4. 1 \in 1 .. n
    BY <1>3
  <2>5. ASSUME NEW j \in 1 .. n, j # 1 PROVE \E k \in 1 .. n - 1 : toPage'[k] = toPage[j]
    BY <1>3, <2>1, <2>5
  <2>6. QED
    BY <1>3, <2>1, <2>2, <2>3, <2>4, <2>5
<1>5. m.from \in Transit!Tokens /\ m.id \in Transit!Ids /\ m.n \in Nat /\ m.id = m.from[2]
      /\ m.type \in {"res", "err", "chunk", "done"}
  BY <1>1, <1>4, TransitMembers DEF Orderly, AnswersOK
<1>6. AnswersOK'
  BY <1>1, <1>4 DEF Orderly, AnswersOK
<1>7. LettersOK' /\ InflightOK'
  BY <1>1 DEF Orderly, LettersOK, InflightOK
<1>8. \A u \in Transit!Tokens : GivenOK(u) /\ JobOK(u) /\ AwaitedOK(u) /\ u[2] \in Transit!Ids /\ u[1] \in 1 .. MaxPages
                                /\ u = <<u[1], u[2]>>
  BY <1>1, TransitConstants DEF Orderly
<1>9. CASE ~ (page # 0 /\ entry[m.id] # "none")
  <2>1. UNCHANGED <<entry, got>>
    BY <1>2, <1>9 DEF Transit!PageReceives
  <2>2. TransitTyped'
    BY <1>1, <1>3, <2>1 DEF TransitTyped
  <2>3. FreshOK'
    BY <1>1, <2>1 DEF Orderly, FreshOK
  <2>4. ASSUME NEW u \in Transit!Tokens PROVE GivenOK(u)' /\ JobOK(u)' /\ AwaitedOK(u)'
    <3>1. GivenOK(u)' /\ JobOK(u)'
      BY <1>1, <1>8, <2>1 DEF GivenOK, JobOK
    <3>2. AwaitedOK(u)'
      <4> SUFFICES ASSUME page # 0, u[1] = page, entry[u[2]] # "none"
                   PROVE  AwaitedOK(u)'
        BY <1>1, <2>1 DEF AwaitedOK
      <4>1. m.from # u
        BY <1>5, <1>9
      <4>2. \A j \in DOMAIN toPage : toPage[j].from = u =>
              \E k \in DOMAIN toPage' : toPage'[k] = toPage[j]
        BY <1>4, <4>1
      <4>3. \A x : (\E j \in DOMAIN toPage : toPage[j].from = u /\ toPage[j].type = "chunk" /\ toPage[j].n = x)
                => \E k \in DOMAIN toPage' : toPage'[k].from = u /\ toPage'[k].type = "chunk" /\ toPage'[k].n = x
        BY <4>2
      <4>4. \A j \in DOMAIN toPage' : toPage'[j].from = u /\ toPage'[j].type = "chunk" =>
              toPage'[j].n > Len(got[u])
        BY <1>4, <1>8 DEF AwaitedOK
      <4>5. /\ job[u].kind # "none" => (job[u].kind = "request" <=> entry[u[2]] = "request")
            /\ \A j \in DOMAIN toHost : Asks(toHost[j]) /\ For(toHost[j]) = u =>
                 (toHost[j].type = "request" <=> entry[u[2]] = "request")
            /\ \A k \in DOMAIN got[u] : got[u][k].type = "chunk"
            /\ Len(got[u]) <= job[u].chunks
            /\ \A y \in Len(got[u]) + 1 .. job[u].chunks :
                 \E j \in DOMAIN toPage : toPage[j].from = u /\ toPage[j].type = "chunk" /\ toPage[j].n = y
        BY <1>8, <2>1 DEF AwaitedOK
      <4>6. \A y \in Len(got[u]) + 1 .. job[u].chunks :
              \E k \in DOMAIN toPage' : toPage'[k].from = u /\ toPage'[k].type = "chunk" /\ toPage'[k].n = y
        BY <4>3, <4>5
      <4>7. QED
        BY <1>1, <2>1, <4>4, <4>5, <4>6 DEF AwaitedOK
    <3>3. QED
      BY <3>1, <3>2
  <2>5. QED
    BY <1>6, <1>7, <2>2, <2>3, <2>4 DEF TransitInv, Orderly
<1>10. CASE page # 0 /\ entry[m.id] # "none"
  <2> DEFINE t == m.from
             x == [type |-> m.type, from |-> m.from, n |-> m.n]
  <2>1. /\ t \in Transit!Tokens /\ t[1] = page /\ t[2] = m.id /\ t = <<page, m.id>>
        /\ x \in Given /\ x.from = t /\ x.type = m.type /\ x.n = m.n
    <3>1. t[1] = page
      BY <1>1, <1>4, <1>10 DEF Orderly, AnswersOK
    <3>2. QED
      BY <1>5, <1>8, <3>1 DEF Given
  <2>2. /\ job[t].kind # "none" => (job[t].kind = "request" <=> entry[m.id] = "request")
        /\ \A k \in DOMAIN got[t] : got[t][k].type = "chunk"
        /\ Len(got[t]) <= job[t].chunks
        /\ \A j \in DOMAIN toPage : toPage[j].from = t /\ toPage[j].type = "chunk" =>
             toPage[j].n > Len(got[t])
        /\ \A y \in Len(got[t]) + 1 .. job[t].chunks :
             \E j \in DOMAIN toPage : toPage[j].from = t /\ toPage[j].type = "chunk" /\ toPage[j].n = y
    BY <1>8, <1>10, <2>1 DEF AwaitedOK
  <2>3. /\ m.type \in {"res", "err"} => job[t].kind = "request"
        /\ m.type = "chunk" => job[t].kind = "stream" /\ m.n \in 1 .. job[t].chunks
        /\ m.type = "done" => job[t].kind = "stream"
        /\ \A j \in DOMAIN toPage : j # 1 /\ toPage[j].from = t =>
             m.type = "chunk" /\ (toPage[j].type = "chunk" => m.n < toPage[j].n)
    BY <1>1, <1>4 DEF Orderly, AnswersOK
  <2>4. got \in [Transit!Tokens -> Seq(Given)] /\ got[t] \in Seq(Given) /\ Len(got[t]) \in Nat
        /\ DOMAIN got[t] = 1 .. Len(got[t]) /\ job[t].chunks \in Nat
    BY <1>1, <2>1, TransitMembers DEF TransitTyped
  <2>5. /\ entry' = IF m.type = "chunk" THEN entry ELSE [entry EXCEPT ![m.id] = "none"]
        /\ got' = [got EXCEPT ![t] = Append(got[t], x)]
    <3>1. Transit!Listen(m)
      BY <1>2, <1>10 DEF Transit!PageReceives
    <3>2. Transit!Give(m.id, m) => got' = [got EXCEPT ![t] = Append(got[t], x)]
      BY <2>1, <2>4 DEF Transit!Give
    <3>3. CASE m.type \in {"res", "err"}
      BY <2>2, <2>3, <3>1, <3>2, <3>3 DEF Transit!Listen
    <3>4. CASE m.type = "chunk"
      BY <2>2, <2>3, <3>1, <3>2, <3>4 DEF Transit!Listen
    <3>5. CASE m.type = "done"
      BY <2>2, <2>3, <3>1, <3>2, <3>5 DEF Transit!Listen
    <3>6. QED
      BY <1>5, <3>3, <3>4, <3>5
  <2> DEFINE g == got[t]
             len == Len(got[t])
  <2> HIDE DEF t, x
  <2>6. /\ got' \in [Transit!Tokens -> Seq(Given)]
        /\ Append(g, x) \in Seq(Given) /\ got'[t] = Append(g, x)
        /\ \A u \in Transit!Tokens : u # t => got'[u] = got[u]
    <3>1. Append(g, x) \in Seq(Given)
      BY <2>1, <2>4, Appended
    <3>2. QED
      BY <2>1, <2>4, <2>5, <3>1
  <2>7. /\ DOMAIN got'[t] = 1 .. len + 1 /\ Len(got'[t]) = len + 1 /\ len \in Nat
        /\ \A k \in 1 .. len : got'[t][k] = got[t][k]
        /\ got'[t][len + 1] = x
    BY <2>1, <2>4, <2>6, Appended
  <2>8. /\ entry' \in [Transit!Ids -> {"none", "request", "stream", "aborting"}]
        /\ \A i \in Transit!Ids : entry'[i] = IF m.type # "chunk" /\ i = m.id THEN "none" ELSE entry[i]
    BY <1>1, <1>5, <2>5 DEF TransitTyped
  <2>9. TransitTyped' /\ FreshOK'
    BY <1>1, <1>3, <2>6, <2>8 DEF TransitTyped, Orderly, FreshOK
  <2>10. m.type = "chunk" => m.n = len + 1
    <3> SUFFICES ASSUME m.type = "chunk" PROVE m.n = len + 1
      OBVIOUS
    <3>1. m.n > len /\ m.n \in Nat /\ m.n <= job[t].chunks
      <4>1. toPage[1].from = t /\ toPage[1].type = "chunk" /\ 1 \in DOMAIN toPage /\ toPage[1] = m
        BY <1>4 DEF t
      <4>2. m.n > len
        BY <2>2, <4>1
      <4>3. m.n \in 1 .. job[t].chunks
        BY <2>3
      <4>4. QED
        BY <1>5, <2>4, <4>2, <4>3
    <3>2. len + 1 \in len + 1 .. job[t].chunks
      BY <2>4, <3>1
    <3>3. PICK j \in DOMAIN toPage : toPage[j].from = t /\ toPage[j].type = "chunk" /\ toPage[j].n = len + 1
      BY <2>2, <3>2
    <3>4. j # 1 => m.n < len + 1
      BY <2>3, <3>3
    <3>5. j = 1 => m.n = len + 1
      BY <1>4, <3>3
    <3>6. QED
      BY <2>4, <3>1, <3>4, <3>5
  <2> HIDE DEF g, len
  <2>11. ASSUME NEW u \in Transit!Tokens, u # t PROVE GivenOK(u)' /\ JobOK(u)' /\ AwaitedOK(u)'
    <3>1. GivenOK(u)' /\ JobOK(u)'
      BY <1>1, <1>8, <2>6, <2>11 DEF GivenOK, JobOK
    <3>2. AwaitedOK(u)'
      <4> SUFFICES ASSUME page # 0, u[1] = page, entry'[u[2]] # "none"
                   PROVE  AwaitedOK(u)'
        BY <1>1 DEF AwaitedOK
      <4>1. m.from # u /\ entry'[u[2]] = entry[u[2]] /\ got'[u] = got[u]
        BY <1>8, <2>6, <2>8, <2>11 DEF t
      <4>2. \A j \in DOMAIN toPage : toPage[j].from = u =>
              \E k \in DOMAIN toPage' : toPage'[k] = toPage[j]
        BY <1>4, <4>1
      <4>3. \A y : (\E j \in DOMAIN toPage : toPage[j].from = u /\ toPage[j].type = "chunk" /\ toPage[j].n = y)
                => \E k \in DOMAIN toPage' : toPage'[k].from = u /\ toPage'[k].type = "chunk" /\ toPage'[k].n = y
        BY <4>2
      <4>4. \A j \in DOMAIN toPage' : toPage'[j].from = u /\ toPage'[j].type = "chunk" =>
              toPage'[j].n > Len(got[u])
        BY <1>4, <1>8, <4>1 DEF AwaitedOK
      <4>5. /\ job[u].kind # "none" => (job[u].kind = "request" <=> entry[u[2]] = "request")
            /\ \A j \in DOMAIN toHost : Asks(toHost[j]) /\ For(toHost[j]) = u =>
                 (toHost[j].type = "request" <=> entry[u[2]] = "request")
            /\ \A k \in DOMAIN got[u] : got[u][k].type = "chunk"
            /\ Len(got[u]) <= job[u].chunks
            /\ \A y \in Len(got[u]) + 1 .. job[u].chunks :
                 \E j \in DOMAIN toPage : toPage[j].from = u /\ toPage[j].type = "chunk" /\ toPage[j].n = y
        BY <1>8, <4>1 DEF AwaitedOK
      <4>6. \A y \in Len(got[u]) + 1 .. job[u].chunks :
              \E k \in DOMAIN toPage' : toPage'[k].from = u /\ toPage'[k].type = "chunk" /\ toPage'[k].n = y
        BY <4>3, <4>5
      <4>7. QED
        BY <1>1, <4>1, <4>4, <4>5, <4>6 DEF AwaitedOK
    <3>3. QED
      BY <3>1, <3>2
  <2>12. GivenOK(t)'
    <3>1. GivenOK(t) /\ (m.type \in {"res", "err"} => len = 0)
      <4>1. GivenOK(t)
        BY <1>8, <2>1
      <4>2. \A k \in DOMAIN got[t] : m.type \notin {"res", "err"}
        BY <2>2, <2>3, <4>1 DEF GivenOK
      <4>3. len # 0 => 1 \in DOMAIN got[t]
        BY <2>4 DEF len
      <4>4. QED
        BY <4>1, <4>2, <4>3
    <3>2. ASSUME NEW k \in DOMAIN got'[t]
          PROVE  /\ got'[t][k].from = t
                 /\ got'[t][k].type \in {"res", "err"} => Len(got'[t]) = 1 /\ job[t].kind = "request"
                 /\ got'[t][k].type = "chunk" => got'[t][k].n = k /\ job[t].kind = "stream"
                 /\ got'[t][k].type = "done" => k = Len(got'[t]) /\ job[t].kind = "stream"
      <4>1. CASE k \in 1 .. len
        <5>1. k \in DOMAIN got[t] /\ got'[t][k] = got[t][k] /\ got[t][k].type = "chunk"
          BY <2>2, <2>4, <2>7, <4>1 DEF len
        <5>2. QED
          BY <3>1, <5>1 DEF GivenOK
      <4>2. CASE k = len + 1
        BY <2>1, <2>3, <2>7, <2>10, <3>1, <4>2
      <4>3. QED
        BY <2>7, <4>1, <4>2
    <3>3. QED
      BY <1>1, <3>2 DEF GivenOK
  <2>13. JobOK(t)'
    <3>1. job[t] # Transit!NoJob
      <4>1. job[t].kind # "none"
        BY <1>5, <2>3
      <4>2. QED
        BY <4>1 DEF Transit!NoJob
    <3>2. QED
      BY <1>1, <1>8, <2>1, <3>1 DEF JobOK
  <2>14. AwaitedOK(t)'
    <3>1. CASE m.type # "chunk"
      BY <1>5, <2>1, <2>8, <3>1 DEF AwaitedOK
    <3>2. CASE m.type = "chunk"
      <4>1. entry'[t[2]] = entry[m.id] /\ Len(got'[t]) = m.n /\ len + 1 = m.n
        BY <1>5, <2>1, <2>7, <2>8, <2>10, <3>2
      <4>2. \A k \in DOMAIN got'[t] : got'[t][k].type = "chunk"
        <5>1. ASSUME NEW k \in 1 .. len PROVE got'[t][k].type = "chunk"
          <6>1. DOMAIN got[t] = 1 .. len
            BY <2>4 DEF len
          <6>2. got[t][k].type = "chunk"
            BY <2>2, <6>1
          <6>3. got'[t][k] = got[t][k]
            BY <2>7
          <6>4. QED
            BY <6>2, <6>3
        <5>2. got'[t][len + 1].type = "chunk"
          BY <2>1, <2>7, <3>2
        <5>3. \A k \in 1 .. len + 1 : k \in 1 .. len \/ k = len + 1
          BY <2>7
        <5>4. DOMAIN got'[t] = 1 .. len + 1
          BY <2>7
        <5>5. ASSUME NEW k \in 1 .. len + 1 PROVE got'[t][k].type = "chunk"
          BY <5>1, <5>2, <5>3, Zenon
        <5>6. QED
          BY <5>4, <5>5, Zenon
      <4>3. \A j \in DOMAIN toPage' : toPage'[j].from = t /\ toPage'[j].type = "chunk" =>
              toPage'[j].n > m.n
        <5>1. \A j \in DOMAIN toPage : toPage[j].n \in Nat
          BY <1>1, TransitMembers
        <5>2. \A j \in DOMAIN toPage' :
                j + 1 \in DOMAIN toPage /\ j + 1 # 1 /\ toPage'[j] = toPage[j + 1]
          BY <1>3, <1>4
        <5>3. QED
          BY <1>5, <2>3, <5>1, <5>2
      <4>4. ASSUME NEW y \in m.n + 1 .. job[t].chunks
            PROVE  \E j \in DOMAIN toPage' :
                     toPage'[j].from = t /\ toPage'[j].type = "chunk" /\ toPage'[j].n = y
        <5>1. y \in len + 1 .. job[t].chunks /\ y # m.n
          BY <1>5, <2>4, <2>7, <4>1
        <5>2. PICK j \in DOMAIN toPage : toPage[j].from = t /\ toPage[j].type = "chunk" /\ toPage[j].n = y
          BY <2>2, <5>1 DEF len
        <5>3. j # 1
          BY <1>4, <5>1, <5>2
        <5>4. QED
          BY <1>4, <5>2, <5>3
      <4>5. m.n <= job[t].chunks
        BY <1>5, <2>3, <2>4, <3>2
      <4>6. \A j \in DOMAIN toHost : Asks(toHost[j]) /\ For(toHost[j]) = t =>
              (toHost[j].type = "request" <=> entry[m.id] = "request")
        BY <1>8, <1>10, <2>1 DEF AwaitedOK
      <4>7. QED
        BY <1>1, <2>2, <4>1, <4>2, <4>3, <4>4, <4>5, <4>6 DEF AwaitedOK
    <3>3. QED
      BY <3>1, <3>2
  <2>15. QED
    BY <1>6, <1>7, <2>9, <2>11, <2>12, <2>13, <2>14 DEF TransitInv, Orderly
<1>11. QED
  BY <1>9, <1>10

\* A page is loaded anew: nothing of the one before is claimed, unless it was over.
LEMMA RenderKeeps ==
  ASSUME TransitInv, ~ overlapped, Transit!Render
  PROVE  TransitInv'
<1>1. TransitTyped /\ Orderly
  BY DEF TransitInv
<1>2. /\ page \in 1 .. MaxPages - 1 /\ page' = page + 1 /\ nextId' = 1
      /\ entry' = [i \in Transit!Ids |-> "none"]
      /\ UNCHANGED <<toHost, job, inflight, toPage, got>>
  BY DEF Transit!Render, Transit!Host
<1>3. overlapped' \in BOOLEAN /\ (~ overlapped' => ~ Transit!Busy)
  BY <1>1 DEF Transit!Render, TransitTyped
<1>4. TransitTyped'
  <2>1. page' \in 0 .. MaxPages /\ nextId' \in 1 .. MaxId + 1
    BY <1>2, TransitConstants
  <2>2. entry' \in [Transit!Ids -> {"none", "request", "stream", "aborting"}]
    BY <1>2
  <2>3. QED
    BY <1>1, <1>2, <1>3, <2>1, <2>2 DEF TransitTyped
<1>5. ASSUME ~ overlapped' PROVE Orderly'
  <2>1. toHost = << >> /\ toPage = << >> /\ \A t \in Transit!Tokens : job[t].state \notin {"open", "aborted"}
    BY <1>3, <1>5 DEF Transit!Busy
  <2>2. LettersOK' /\ AnswersOK'
    BY <1>2, <2>1 DEF LettersOK, AnswersOK
  <2>3. InflightOK' /\ FreshOK'
    BY <1>1, <1>2 DEF Orderly, InflightOK, FreshOK
  <2>4. ASSUME NEW t \in Transit!Tokens PROVE GivenOK(t)' /\ JobOK(t)' /\ AwaitedOK(t)'
    <3>1. GivenOK(t) /\ JobOK(t) /\ t[1] \in Nat /\ t[2] \in Transit!Ids
      BY <1>1, TransitConstants DEF Orderly
    <3>2. GivenOK(t)'
      BY <1>2, <3>1 DEF GivenOK
    <3>3. t[1] > page' \/ (t[1] = page' /\ t[2] >= nextId') => t[1] > page
      BY <1>2, <3>1, TransitConstants
    <3>4. JobOK(t)'
      BY <1>2, <2>1, <3>1, <3>3 DEF JobOK
    <3>5. AwaitedOK(t)'
      BY <1>2, <3>1 DEF AwaitedOK
    <3>6. QED
      BY <3>2, <3>4, <3>5
  <2>5. QED
    BY <2>2, <2>3, <2>4 DEF Orderly
<1>6. QED
  BY <1>4, <1>5 DEF TransitInv

LEMMA DisposeKeeps ==
  ASSUME TransitInv, ~ overlapped, Transit!Dispose
  PROVE  TransitInv'
<1>1. TransitTyped /\ Orderly
  BY DEF TransitInv
<1>2. /\ page' = 0 /\ inflight' = [i \in Transit!Ids |-> Transit!Nobody]
      /\ UNCHANGED <<nextId, entry, toHost, toPage, got, overlapped>>
  BY DEF Transit!Dispose
<1>3. job' \in [Transit!Tokens -> Job]
      /\ \A t \in Transit!Tokens : /\ job'[t].kind = job[t].kind /\ job'[t].chunks = job[t].chunks
                                   /\ \/ job'[t] = job[t]
                                      \/ job[t].state = "open" /\ job'[t].state = "aborted"
  <2>1. job \in [Transit!Tokens -> Job]
    BY <1>1 DEF TransitTyped
  <2>2. QED
    BY <2>1 DEF Transit!Dispose, Job
<1>4. \A t \in Transit!Tokens : job[t] = Transit!NoJob => job'[t] = Transit!NoJob
  BY <1>3 DEF Transit!NoJob
<1>5. TransitTyped'
  <2>1. page' \in 0 .. MaxPages /\ inflight' \in [Transit!Ids -> Transit!Tokens \cup {Transit!Nobody}]
    BY <1>2, TransitConstants
  <2>2. QED
    BY <1>1, <1>2, <1>3, <2>1 DEF TransitTyped
<1>6. LettersOK'
  BY <1>1, <1>2, <1>4, TransitMembers DEF Orderly, LettersOK
<1>7. AnswersOK'
  <2>1. \A j \in DOMAIN toPage : toPage[j].from \in Transit!Tokens
    BY <1>1, TransitMembers
  <2>2. QED
    BY <1>1, <1>2, <1>3, <2>1 DEF Orderly, AnswersOK
<1>8. InflightOK' /\ FreshOK'
  BY <1>2 DEF InflightOK, FreshOK
<1>9. ASSUME NEW t \in Transit!Tokens PROVE GivenOK(t)' /\ JobOK(t)' /\ AwaitedOK(t)'
  <2>1. GivenOK(t) /\ JobOK(t)
    BY <1>1 DEF Orderly
  <2>2. GivenOK(t)'
    BY <1>2, <1>3, <2>1 DEF GivenOK
  <2>3. JobOK(t)'
    BY <1>2, <1>3, <1>4, <2>1 DEF JobOK
  <2>4. AwaitedOK(t)'
    BY <1>2 DEF AwaitedOK
  <2>5. QED
    BY <2>2, <2>3, <2>4
<1>10. QED
  BY <1>5, <1>6, <1>7, <1>8, <1>9 DEF TransitInv, Orderly

LEMMA TransitNext == TransitInv /\ [Transit!Next]_(Transit!vars) => TransitInv'
<1> SUFFICES ASSUME TransitInv, [Transit!Next]_(Transit!vars) PROVE TransitInv'
  OBVIOUS
<1>1. CASE UNCHANGED Transit!vars
  BY <1>1 DEF Transit!vars, TransitInv, TransitTyped, Orderly, LettersOK, AnswersOK, InflightOK, FreshOK,
              GivenOK, JobOK, AwaitedOK
<1>2. CASE ~ overlapped /\ \E kind \in {"request", "stream"} : Transit!Call(kind)
  BY <1>2, CallKeeps
<1>3. CASE ~ overlapped /\ \E i \in Transit!Ids : Transit!Abort(i) \/ Transit!LeaveStream(i)
  BY <1>3, AbortKeeps, LeaveKeeps
<1>4. CASE ~ overlapped /\ Transit!PageReceives
  BY <1>4, ListenKeeps
<1>5. CASE ~ overlapped /\ Transit!HostReceives
  BY <1>5, HostKeeps
<1>6. ASSUME ~ overlapped, NEW t \in Transit!Tokens,
             Transit!RequestAnswered(t) \/ Transit!RequestFails(t) \/ Transit!StreamChunk(t) \/ Transit!StreamEnds(t)
      PROVE  TransitInv'
  <2>1. CASE Transit!RequestAnswered(t)
    <3>1. /\ job[t].kind = (IF "res" = "done" THEN "stream" ELSE "request")
          /\ job[t].state \in {"open", "aborted"} /\ Transit!OverWith(t) /\ Transit!Post("res", t, 0)
          /\ UNCHANGED <<Transit!Page, toHost>>
      BY <2>1 DEF Transit!RequestAnswered
    <3>2. QED
      BY <1>6, <3>1, OverKeeps
  <2>2. CASE Transit!RequestFails(t)
    <3>1. /\ job[t].kind = (IF "err" = "done" THEN "stream" ELSE "request")
          /\ job[t].state \in {"open", "aborted"} /\ Transit!OverWith(t)
          /\ Transit!Post("err", t, 0) \/ UNCHANGED toPage
          /\ UNCHANGED <<Transit!Page, toHost>>
      BY <2>2 DEF Transit!RequestFails
    <3>2. QED
      BY <1>6, <3>1, OverKeeps
  <2>3. CASE Transit!StreamEnds(t)
    <3>1. /\ job[t].kind = (IF "done" = "done" THEN "stream" ELSE "request")
          /\ job[t].state \in {"open", "aborted"} /\ Transit!OverWith(t) /\ Transit!Post("done", t, 0)
          /\ UNCHANGED <<Transit!Page, toHost>>
      BY <2>3 DEF Transit!StreamEnds
    <3>2. QED
      BY <1>6, <3>1, OverKeeps
  <2>4. QED
    BY <1>6, <2>1, <2>2, <2>3, ChunkKeeps
<1>7. CASE ~ overlapped /\ (Transit!Render \/ Transit!Dispose)
  BY <1>7, RenderKeeps, DisposeKeeps
<1>8. CASE Transit!Ended
  BY <1>1, <1>8 DEF Transit!Ended
<1>9. QED
  BY <1>1, <1>2, <1>3, <1>4, <1>5, <1>6, <1>7, <1>8 DEF Transit!Next

\* Answers are a call's own.
LEMMA AnswersAreTheirs == Transit!Spec => []Transit!AnswersAreOwn
<1>1. TransitInv => Transit!AnswersAreOwn
  <2> SUFFICES ASSUME TransitInv, ~ overlapped
               PROVE  /\ \A t \in Transit!Tokens :
                           LET g == got[t]
                           IN \A k \in DOMAIN g :
                                /\ g[k].from = t
                                /\ g[k].type \in {"res", "err"} => Len(g) = 1 /\ job[t].kind = "request"
                                /\ g[k].type = "chunk" => g[k].n = k
                                /\ g[k].type = "done" => k = Len(g)
                      /\ \A i \in Transit!Ids : inflight[i] # Transit!Nobody =>
                           inflight[i][2] = i /\ job[inflight[i]].state \in {"open", "aborted"}
    BY DEF Transit!AnswersAreOwn
  <2>1. InflightOK /\ \A t \in Transit!Tokens : GivenOK(t)
    BY DEF TransitInv, Orderly
  <2>2. QED
    BY <2>1 DEF InflightOK, GivenOK
<1>2. QED
  BY <1>1, TransitInit, TransitNext, PTL DEF Transit!Spec

-----------------------------------------------------------------------------
(* The Ollama that is launched.                                              *)

\* The children are the first of them, and no shutdown came yet, or one did.
OneChild ==
  /\ process \in [Launch!Children -> {"none", "starting", "serving", "stopping", "gone"}]
  /\ ~ shutdowns => \A p \in Launch!Children : Launch!Alive(p) => spawnedChild = p

LEMMA OneIsLaunched == Launch!Spec => []Launch!OneOllama
<1>1. Launch!Init => OneChild
  BY DEF Launch!Init, OneChild, Launch!Alive
<1>2. OneChild /\ [Launch!Next]_(Launch!vars) => OneChild'
  <2> SUFFICES ASSUME OneChild, [Launch!Next]_(Launch!vars) PROVE OneChild'
    OBVIOUS
  <2>1. CASE UNCHANGED <<process, shutdowns, spawnedChild>>
    BY <2>1 DEF OneChild, Launch!Alive
  <2>2. ASSUME NEW c \in Callers, Launch!Launch(c) PROVE OneChild'
    <3>1. ~ shutdowns => \A p \in Launch!Children : ~ Launch!Alive(p)
      BY <2>2 DEF OneChild, Launch!Launch, Launch!Remembered
    <3>2. PICK p \in Launch!Children : /\ process' = [process EXCEPT ![p] = "starting"]
                                       /\ spawnedChild' = p
      BY <2>2 DEF Launch!Launch
    <3>3. shutdowns' = shutdowns
      BY <2>2 DEF Launch!Launch
    <3>4. QED
      BY <3>1, <3>2, <3>3 DEF OneChild, Launch!Alive
  <2>3. ASSUME NEW c \in Callers, Launch!LaunchThrows(c) PROVE OneChild'
    <3>1. ~ shutdowns => \A p \in Launch!Children : ~ Launch!Alive(p)
      BY <2>3 DEF OneChild, Launch!LaunchThrows, Launch!Remembered
    <3>2. QED
      BY <2>3, <3>1 DEF OneChild, Launch!LaunchThrows, Launch!Alive
  <2>4. ASSUME NEW p \in Launch!Children, Launch!Serves(p) \/ Launch!Exits(p) PROVE OneChild'
    BY <2>4 DEF OneChild, Launch!Serves, Launch!Exits, Launch!Alive
  <2>5. CASE Launch!Shutdown
    <3>1. process' \in [Launch!Children -> {"none", "starting", "serving", "stopping", "gone"}]
      BY <2>5 DEF OneChild, Launch!Shutdown
    <3>2. QED
      BY <2>5, <3>1, Zenon DEF OneChild, Launch!Shutdown
  <2>6. QED
    BY <2>1, <2>2, <2>3, <2>4, <2>5
       DEF Launch!Next, Launch!vars, Launch!Refused, Launch!ProbeFindsIt, Launch!InCooldown,
           Launch!JoinWait, Launch!WaitEnds, Launch!WaitTimesOut, Launch!Refetch,
           Launch!CooldownEnds, Launch!UserStartsOrStops
<1>3. OneChild => Launch!OneOllama
  BY DEF OneChild, Launch!OneOllama
<1>4. QED
  BY <1>1, <1>2, <1>3, PTL DEF Launch!Spec

-----------------------------------------------------------------------------
(* The theorems.                                                             *)

LEMMA RoutingInv ==
  Spec => []Inv
<1>1. Init => Inv
  BY InvInit
<1>2. Inv /\ [Next]_vars => Inv'
  BY InvStays
<1>3. QED
  BY <1>1, <1>2, PTL DEF Spec

\* Every provider call that came back is in the usage log, or on its way there,
\* or was removed by a trim, and the log outgrows its trigger by no more than a
\* record for each caller: completeProfile logs every outcome, and appendUsage
\* trims what it reads before it appends.
THEOREM EveryCallLogged == Spec => []CallsAreLogged
<1>1. Inv => CallsAreLogged
  BY InvImplies
<1>2. QED
  BY <1>1, RoutingInv, PTL

\* However the requests interleave with the log they are checked against, the
\* daily limit is overrun by less than one dearest call for each caller, beyond
\* what trims made the log forget and native streams spent unchecked.
THEOREM OverrunBounded == Spec => []OverrunIsBounded
<1>1. Inv => OverrunIsBounded
  BY InvImplies
<1>2. QED
  BY <1>1, RoutingInv, PTL

\* A walk takes its candidates in the order of their price within each tier,
\* none of them twice, and gives up on a transient failure only when each local
\* profile that was up and fits the task has been tried.
THEOREM WalksInOrder == Spec => []WalkIsInOrder
<1>1. Inv => WalkIsInOrder
  BY InvImplies
<1>2. QED
  BY <1>1, RoutingInv, PTL

CallNext == RoutingStep \/ StreamsStep \/ LaunchStep \/ TransitStep
callVars == <<part, vars, streamVars, launchVars, transitVars>>

\* While no page was replaced with calls of it under way, a request of the page is
\* given one answer, its own, and a stream its own chunks, in order and whole, and
\* then one end, whatever is aborted, fails or overtakes what (createVsCodeTransport,
\* createMessageRouter).
THEOREM AnswersOwn == CallSpec => []AnswersAreOwn
<1> DEFINE Mine == part = "transit"
<1>1. CallSpec => CallInit /\ [][CallNext]_callVars
  BY DEF CallSpec, CallNext, callVars
<1>2. CallInit /\ Mine => Transit!Init
  BY DEF CallInit
<1>3. Mine /\ [CallNext]_callVars => Mine' /\ [Transit!Next]_(Transit!vars)
  BY DEF CallNext, RoutingStep, StreamsStep, LaunchStep, TransitStep, callVars, transitVars,
         Transit!vars
<1>4. ~ Mine /\ [CallNext]_callVars => ~ Mine'
  BY DEF CallNext, RoutingStep, StreamsStep, LaunchStep, TransitStep, callVars
<1>5. Transit!Spec => []Transit!AnswersAreOwn
  BY AnswersAreTheirs
<1>6. (Mine => Transit!AnswersAreOwn) => AnswersAreOwn
  BY DEF AnswersAreOwn
<1> HIDE DEF Mine
<1>7. QED
  BY <1>1, <1>2, <1>3, <1>4, <1>5, <1>6, PTL DEF Transit!Spec
=============================================================================
