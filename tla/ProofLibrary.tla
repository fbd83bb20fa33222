---------------------------- MODULE ProofLibrary ----------------------------
(***************************************************************************)
(* Facts that the proofs about several components use: induction over the  *)
(* natural numbers, functions defined by recursion on a length, division.  *)
(*                                                                         *)
(* The induction theorems of the library have an operator as parameter,    *)
(* which no prover here can instantiate.  WFMin has none: a set of         *)
(* naturals that is not empty has a least element, so induction is stated  *)
(* over the SET of the numbers that have a property.                       *)
(***************************************************************************)
EXTENDS Prefixes, SequenceTheorems, WellFoundedInduction, TLAPS

LessThan == {ss \in Nat \X Nat : ss[1] < ss[2]}

\* No sequence of numbers decreases forever.
LEMMA LessThanWellFounded == IsWellFoundedOn(LessThan, Nat)
  BY NatLessThanWellFounded DEF OpToRel, LessThan

\* A set of numbers has a least element.
LEMMA LeastNat ==
  ASSUME NEW T \in SUBSET Nat, T # {}
  PROVE  \E x \in T : \A y \in T : x <= y
<1>1. \E x \in T : \A y \in T : <<y, x>> \notin LessThan
  BY LessThanWellFounded, WFMin, Zenon
<1>2. \A x, y \in Nat : <<y, x>> \notin LessThan => x <= y
  BY DEF LessThan
<1>3. QED BY <1>1, <1>2

\* Induction over the set of the numbers that have a property.
LEMMA SetInduction ==
  ASSUME NEW T, 0 \in T, \A n \in Nat : n \in T => n + 1 \in T
  PROVE  \A n \in Nat : n \in T
<1> DEFINE U == Nat \ T
<1>1. SUFFICES ASSUME U # {} PROVE FALSE
  OBVIOUS
<1>2. PICK n \in U : \A y \in U : n <= y
  BY <1>1, LeastNat
<1>3. n # 0 /\ n - 1 \in Nat /\ n - 1 \in T /\ n = (n - 1) + 1
  BY <1>2
<1>4. QED BY <1>2, <1>3

----------------------------------------------------------------------------
(* A function f on 0 .. n with f[0] = a and f[k] = step[k][f[k - 1]], with *)
(* values in S.  A recursive definition chooses such a function: one       *)
(* exists, and whatever follows the equations has its values in S.         *)

IsStep(n, S, a, step) == n \in Nat /\ a \in S /\ step \in [1 .. n -> [S -> S]]

Computes(f, n, S, a, step) ==
  f \in [0 .. n -> S] /\ f[0] = a /\ \A k \in 1 .. n : f[k] = step[k][f[k - 1]]

Follows(f, n, S, a, step) ==
  /\ f = [k \in 0 .. n |-> f[k]] /\ f[0] = a
  /\ \A k \in 1 .. n : f[k - 1] \in S => f[k] = step[k][f[k - 1]]

\* The function that a recursive definition asks for exists.
LEMMA RecursiveFunction ==
  ASSUME NEW n, NEW S, NEW a, NEW step, IsStep(n, S, a, step)
  PROVE  \E f : Computes(f, n, S, a, step)
<1> DEFINE Sol(m, f) == f[0] = a /\ \A k \in 1 .. m : f[k] = step[k][f[k - 1]]
           T == {m \in Nat : m <= n => \E f \in [0 .. m -> S] : Sol(m, f)}
<1> USE DEF IsStep
<1>1. 0 \in T
  <2> DEFINE f == [k \in 0 .. 0 |-> a]
  <2>1. f \in [0 .. 0 -> S] /\ Sol(0, f)
    OBVIOUS
  <2>2. \E h \in [0 .. 0 -> S] : Sol(0, h)
    <3> HIDE DEF f, Sol
    <3> QED BY <2>1
  <2>3. QED BY <2>2
<1>2. ASSUME NEW m \in Nat, m \in T PROVE m + 1 \in T
  <2>1. SUFFICES ASSUME m + 1 <= n PROVE \E h \in [0 .. m + 1 -> S] : Sol(m + 1, h)
    OBVIOUS
  <2>2. PICK f \in [0 .. m -> S] : Sol(m, f)
    BY <1>2, <2>1
  <2>3. step[m + 1][f[m]] \in S
    <3>1. f[m] \in S /\ m + 1 \in 1 .. n
      BY <2>1
    <3>2. QED BY <3>1
  <2> DEFINE g == [k \in 0 .. m + 1 |-> IF k = m + 1 THEN step[m + 1][f[m]] ELSE f[k]]
  <2>4. g \in [0 .. m + 1 -> S]
    BY <2>3
  <2>5. Sol(m + 1, g)
    BY <2>2
  <2> HIDE DEF g, Sol
  <2>6. QED BY <2>4, <2>5
<1>3. n \in T
  <2> HIDE DEF T
  <2> QED BY <1>1, <1>2, SetInduction
<1>4. QED BY <1>3 DEF Computes

\* A function that follows the equations has its values in S.
LEMMA RecursiveFunctionType ==
  ASSUME NEW n, NEW S, NEW a, NEW step, IsStep(n, S, a, step), NEW g, Follows(g, n, S, a, step)
  PROVE  Computes(g, n, S, a, step)
<1> DEFINE T == {m \in Nat : m <= n => g[m] \in S}
<1> USE DEF IsStep, Follows
<1>1. 0 \in T
  OBVIOUS
<1>2. ASSUME NEW m \in Nat, m \in T PROVE m + 1 \in T
  <2>1. SUFFICES ASSUME m + 1 <= n PROVE g[m + 1] \in S
    OBVIOUS
  <2>2. g[m] \in S /\ m + 1 \in 1 .. n /\ (m + 1) - 1 = m
    BY <1>2, <2>1
  <2>3. step[m + 1][g[m]] \in S
    BY <2>2
  <2>4. QED BY <2>2, <2>3
<1>3. \A m \in Nat : m \in T
  <2> HIDE DEF T
  <2> QED BY <1>1, <1>2, SetInduction
<1>4. \A k \in 0 .. n : g[k] \in S
  BY <1>3
<1>5. g \in [0 .. n -> S]
  BY <1>4
<1>6. \A k \in 1 .. n : k - 1 \in 0 .. n
  OBVIOUS
<1>7. QED BY <1>4, <1>5, <1>6 DEF Computes

----------------------------------------------------------------------------
(* Division by a number that is not a literal *)

\* Quotient and remainder.
LEMMA DivModDef ==
  ASSUME NEW m \in Nat \ {0}, NEW a \in Int
  PROVE  /\ a \div m \in Int /\ a % m \in 0 .. m - 1
         /\ a = m * (a \div m) + (a % m)
  OBVIOUS

\* Multiples of m are m apart.
LEMMA MulMono ==
  ASSUME NEW m \in Nat \ {0}, NEW q \in Int, NEW p \in Int, q + 1 <= p
  PROVE  m * q + m <= m * p
  OBVIOUS

\* There is one quotient and one remainder.
LEMMA DivModUnique ==
  ASSUME NEW m \in Nat \ {0}, NEW q \in Int, NEW r \in 0 .. m - 1, NEW a, a = m * q + r
  PROVE  a \div m = q /\ a % m = r
<1> DEFINE p == a \div m
<1>1. a \in Int /\ p \in Int /\ m * p \in Int /\ m * q \in Int
  OBVIOUS
<1>2. a = m * p + (a % m) /\ a % m \in 0 .. m - 1
  BY <1>1, DivModDef
<1>3. ~ (q + 1 <= p)
  BY <1>1, <1>2, MulMono
<1>4. ~ (p + 1 <= q)
  BY <1>1, <1>2, MulMono
<1>5. p = q
  BY <1>1, <1>3, <1>4
<1>6. QED BY <1>1, <1>2, <1>5

\* Adding m changes no remainder.
LEMMA ModPlus ==
  ASSUME NEW m \in Nat \ {0}, NEW a \in Int
  PROVE  (a + m) % m = a % m
<1> DEFINE q == a \div m
           r == a % m
<1>1. a = m * q + r /\ r \in 0 .. m - 1 /\ q \in Int
  BY DivModDef
<1>2. a + m = m * (q + 1) + r
  BY <1>1
<1> HIDE DEF q, r
<1>3. (a + m) % m = r
  BY <1>1, <1>2, DivModUnique
<1>4. QED BY <1>3 DEF r

\* The quotient stays the same up to the last remainder.
LEMMA DivNext ==
  ASSUME NEW m \in Nat \ {0}, NEW a \in Int, a % m # m - 1
  PROVE  (a + 1) \div m = a \div m /\ (a + 1) % m = (a % m) + 1
<1> DEFINE q == a \div m
           r == a % m
<1>1. a = m * q + r /\ r \in 0 .. m - 1 /\ q \in Int
  BY DivModDef
<1> DEFINE b == a + 1
           s == r + 1
<1>2. b = m * q + s /\ s \in 0 .. m - 1
  BY <1>1
<1>3. b \div m = q /\ b % m = s
  <2>1. q \in Int
    BY <1>1
  <2> HIDE DEF q, r, s, b
  <2>2. QED BY <2>1, <1>2, DivModUnique
<1>4. QED BY <1>3

----------------------------------------------------------------------------
(* Parts laid out one after another *)

\* Sums adds one number after another.
LEMMA SumsDef ==
  ASSUME NEW s \in Seq(Nat)
  PROVE  /\ Sums(s) \in [0 .. Len(s) -> Nat] /\ Sums(s)[0] = 0
         /\ \A k \in 1 .. Len(s) : Sums(s)[k] = Sums(s)[k - 1] + s[k]
<1> DEFINE n == Len(s)
           step == [k \in 1 .. n |-> [x \in Nat |-> x + s[k]]]
           Body(f) == [k \in 0 .. n |-> IF k = 0 THEN 0 ELSE f[k - 1] + s[k]]
           g == Sums(s)
<1>1. n \in Nat /\ IsStep(n, Nat, 0, step)
  BY DEF IsStep
<1>2. \A k \in 1 .. n, x \in Nat : step[k][x] = x + s[k]
  OBVIOUS
<1> HIDE DEF step
<1>3. PICK f : Computes(f, n, Nat, 0, step)
  BY <1>1, RecursiveFunction
<1>4. f = Body(f)
  <2>1. f = [k \in 0 .. n |-> f[k]] /\ f[0] = 0
    BY <1>3 DEF Computes
  <2>2. ASSUME NEW k \in 0 .. n, k # 0 PROVE f[k] = f[k - 1] + s[k]
    <3>1. k \in 1 .. n /\ k - 1 \in 0 .. n
      BY <1>1, <2>2
    <3>2. f[k - 1] \in Nat /\ f[k] = step[k][f[k - 1]]
      BY <1>3, <3>1 DEF Computes
    <3>3. QED BY <1>2, <3>1, <3>2
  <2>3. QED BY <2>1, <2>2, Zenon
<1>5. g = Body(g)
  BY <1>4, Zenon DEF Sums
<1> HIDE DEF g
<1>6. /\ g = [k \in 0 .. n |-> g[k]] /\ g[0] = 0
      /\ \A k \in 1 .. n : g[k] = g[k - 1] + s[k]
  BY <1>1, <1>5
<1>7. Computes(g, n, Nat, 0, step)
  <2>1. Follows(g, n, Nat, 0, step)
    BY <1>2, <1>6 DEF Follows
  <2>2. QED BY <1>1, <2>1, RecursiveFunctionType
<1>8. QED BY <1>6, <1>7 DEF Computes, g

\* Joins puts one sequence after another.
LEMMA JoinsDef ==
  ASSUME NEW X, NEW parts \in Seq(Seq(X))
  PROVE  /\ Joins(parts) \in [0 .. Len(parts) -> Seq(X)] /\ Joins(parts)[0] = <<>>
         /\ \A k \in 1 .. Len(parts) : Joins(parts)[k] = Joins(parts)[k - 1] \o parts[k]
<1> DEFINE n == Len(parts)
           S == Seq(X)
           e == <<>>
           step == [k \in 1 .. n |-> [x \in S |-> x \o parts[k]]]
           Body(f) == [k \in 0 .. n |-> IF k = 0 THEN e ELSE f[k - 1] \o parts[k]]
           g == Joins(parts)
<1>1. n \in Nat /\ IsStep(n, S, e, step)
  BY DEF IsStep
<1>2. \A k \in 1 .. n, x \in S : step[k][x] = x \o parts[k]
  OBVIOUS
<1> HIDE DEF step, S, e
<1>3. PICK f : Computes(f, n, S, e, step)
  BY <1>1, RecursiveFunction
<1>4. f = Body(f)
  <2>1. f = [k \in 0 .. n |-> f[k]] /\ f[0] = e
    BY <1>3 DEF Computes
  <2>2. ASSUME NEW k \in 0 .. n, k # 0 PROVE f[k] = f[k - 1] \o parts[k]
    <3>1. k \in 1 .. n /\ k - 1 \in 0 .. n
      BY <1>1, <2>2
    <3>2. f[k - 1] \in S /\ f[k] = step[k][f[k - 1]]
      BY <1>3, <3>1 DEF Computes
    <3>3. QED BY <1>2, <3>1, <3>2
  <2>3. QED BY <2>1, <2>2, Zenon
<1>5. g = Body(g)
  BY <1>4, Zenon DEF Joins, e
<1> HIDE DEF g
<1>6. /\ g = [k \in 0 .. n |-> g[k]] /\ g[0] = e
      /\ \A k \in 1 .. n : g[k] = g[k - 1] \o parts[k]
  <2>1. \A k \in 0 .. n : g[k] = IF k = 0 THEN e ELSE g[k - 1] \o parts[k]
    BY <1>5, Zenon
  <2>2. g = [k \in 0 .. n |-> g[k]]
    BY <1>5, <2>1, Zenon
  <2>3. \A k \in 1 .. n : k \in 0 .. n /\ k # 0
    BY <1>1
  <2> HIDE DEF n
  <2>4. \A k \in 1 .. n : g[k] = g[k - 1] \o parts[k]
    BY <2>1, <2>3, Zenon
  <2>5. 0 \in 0 .. n
    BY <1>1 DEF n
  <2>6. QED BY <2>1, <2>2, <2>4, <2>5
<1>7. Computes(g, n, S, e, step)
  <2>1. Follows(g, n, S, e, step)
    BY <1>2, <1>6 DEF Follows
  <2>2. QED BY <1>1, <2>1, RecursiveFunctionType
<1>8. QED BY <1>6, <1>7 DEF Computes, g, S, e

\* A sequence of elements of a set is one of a larger set.
LEMMA SeqOfMore ==
  ASSUME NEW S, NEW T, S \subseteq T, NEW s \in Seq(S)
  PROVE  s \in Seq(T)
<1>1. Len(s) \in Nat /\ s \in [1 .. Len(s) -> S]
  BY LenProperties
<1>2. s \in [1 .. Len(s) -> T]
  BY <1>1
<1>3. QED BY <1>1, <1>2, SeqDef

\* What is where in two sequences that are joined.
LEMMA ConcatPlaces ==
  ASSUME NEW X, NEW a \in Seq(X), NEW b \in Seq(X)
  PROVE  /\ a \o b \in Seq(X) /\ Len(a) \in Nat /\ Len(b) \in Nat /\ Len(a \o b) = Len(a) + Len(b)
         /\ \A i \in 1 .. Len(a) : (a \o b)[i] = a[i]
         /\ \A r \in 1 .. Len(b) : (a \o b)[Len(a) + r] = b[r]
  OBVIOUS

\* s is a, b, c and d, one after another.
AreJoined(s, X, a, b, c, d) ==
  LET la == Len(a)
      lb == la + Len(b)
      lc == lb + Len(c)
  IN  /\ s \in Seq(X) /\ Len(s) = lc + Len(d) /\ la \in Nat /\ lb \in Nat /\ lc \in Nat
      /\ \A r \in 1 .. Len(a) : s[r] = a[r]
      /\ \A r \in 1 .. Len(b) : s[la + r] = b[r]
      /\ \A r \in 1 .. Len(c) : s[lb + r] = c[r]
      /\ \A r \in 1 .. Len(d) : s[lc + r] = d[r]

\* What is where in four sequences that are joined.
LEMMA FourPlaces ==
  ASSUME NEW X, NEW a \in Seq(X), NEW b \in Seq(X), NEW c \in Seq(X), NEW d \in Seq(X)
  PROVE  AreJoined(a \o b \o c \o d, X, a, b, c, d)
<1> DEFINE ab == a \o b
           abc == ab \o c
           s == abc \o d
           la == Len(a)
           lb == la + Len(b)
           lc == lb + Len(c)
<1>1. /\ ab \in Seq(X) /\ la \in Nat /\ Len(b) \in Nat /\ lb \in Nat /\ Len(ab) = lb
      /\ \A i \in 1 .. la : ab[i] = a[i]
      /\ \A r \in 1 .. Len(b) : ab[la + r] = b[r]
  BY ConcatPlaces
<1> HIDE DEF ab
<1>2. /\ abc \in Seq(X) /\ Len(c) \in Nat /\ lc \in Nat /\ Len(abc) = lc
      /\ \A i \in 1 .. lb : abc[i] = ab[i]
      /\ \A r \in 1 .. Len(c) : abc[lb + r] = c[r]
  <2> HIDE DEF lb
  <2>0. ab \in Seq(X)
    BY <1>1
  <2>1. /\ abc \in Seq(X) /\ Len(c) \in Nat /\ Len(abc) = Len(ab) + Len(c)
        /\ \A i \in 1 .. Len(ab) : abc[i] = ab[i]
        /\ \A r \in 1 .. Len(c) : abc[Len(ab) + r] = c[r]
    BY <2>0, ConcatPlaces
  <2>2. QED BY <1>1, <2>1
<1> HIDE DEF abc
<1>3. /\ s \in Seq(X) /\ Len(d) \in Nat /\ Len(s) = lc + Len(d)
      /\ \A i \in 1 .. lc : s[i] = abc[i]
      /\ \A r \in 1 .. Len(d) : s[lc + r] = d[r]
  BY <1>2, ConcatPlaces
<1> HIDE DEF s
<1>4. /\ \A r \in 1 .. la : r \in 1 .. lb /\ r \in 1 .. lc
      /\ \A r \in 1 .. Len(b) : la + r \in 1 .. lb /\ la + r \in 1 .. lc
      /\ \A r \in 1 .. Len(c) : lb + r \in 1 .. lc
  BY <1>1, <1>2
<1> HIDE DEF la, lb, lc
<1>5. /\ \A r \in 1 .. la : s[r] = a[r]
      /\ \A r \in 1 .. Len(b) : s[la + r] = b[r]
      /\ \A r \in 1 .. Len(c) : s[lb + r] = c[r]
  BY <1>1, <1>2, <1>3, <1>4
<1>6. QED BY <1>1, <1>2, <1>3, <1>5 DEF AreJoined, s, abc, ab, la, lb, lc

\* Where the parts are: c has the first k of them joined, each at the place that
\* l, the sums of the lengths s, gives it.
ArePlaced(X, parts, s, n, c, l) ==
  /\ \A k \in 0 .. n : c[k] \in Seq(X) /\ Len(c[k]) = l[k]
  /\ \A j, k \in 1 .. n : \A r \in 1 .. s[j] : j <= k =>
       /\ l[j - 1] + r \in 1 .. l[k]
       /\ c[k][l[j - 1] + r] = parts[j][r]

\* Joins puts the parts where Sums says.
LEMMA JoinsPlaces ==
  ASSUME NEW X, NEW parts \in Seq(Seq(X)), NEW s \in Seq(Nat), NEW n, n = Len(parts), Len(s) = n,
         \A k \in 1 .. n : s[k] = Len(parts[k]),
         NEW c, c = Joins(parts), NEW l, l = Sums(s)
  PROVE  ArePlaced(X, parts, s, n, c, l)
<1> DEFINE At(j, k) == \A r \in 1 .. s[j] : l[j - 1] + r \in 1 .. l[k] /\ c[k][l[j - 1] + r] = parts[j][r]
           Placed(k) == Len(c[k]) = l[k] /\ \A j \in 1 .. n : j <= k => At(j, k)
           T == {k \in Nat : k <= n => Placed(k)}
<1>1. /\ n \in Nat /\ l \in [0 .. n -> Nat] /\ l[0] = 0
      /\ \A k \in 1 .. n : l[k] = l[k - 1] + s[k]
  BY SumsDef
<1>2. /\ c \in [0 .. n -> Seq(X)] /\ c[0] = <<>>
      /\ \A k \in 1 .. n : c[k] = c[k - 1] \o parts[k]
  BY JoinsDef
<1>3. \A k \in 1 .. n : s[k] \in Nat /\ parts[k] \in Seq(X) /\ s[k] = Len(parts[k])
  OBVIOUS
<1>4. 0 \in T
  BY <1>1, <1>2
<1>5. ASSUME NEW k \in Nat, k \in T PROVE k + 1 \in T
  <2>1. SUFFICES ASSUME k + 1 <= n PROVE Placed(k + 1)
    OBVIOUS
  <2>2. k + 1 \in 1 .. n /\ (k + 1) - 1 = k /\ k \in 0 .. n /\ k <= n
    BY <1>1, <2>1
  <2>3. Placed(k)
    BY <1>5, <2>2
  <2>4. c[k] \in Seq(X) /\ l[k] \in Nat /\ Len(c[k]) = l[k]
    BY <1>1, <1>2, <2>2, <2>3
  <2>5. l[k + 1] = l[k] + s[k + 1] /\ s[k + 1] \in Nat
    BY <1>1, <1>3, <2>2
  <2>6. c[k + 1] = c[k] \o parts[k + 1] /\ parts[k + 1] \in Seq(X) /\ s[k + 1] = Len(parts[k + 1])
    BY <1>2, <1>3, <2>2
  <2>7. /\ Len(c[k + 1]) = l[k + 1]
        /\ \A i \in 1 .. l[k] : c[k + 1][i] = c[k][i]
        /\ \A r \in 1 .. s[k + 1] : c[k + 1][l[k] + r] = parts[k + 1][r]
    <3> DEFINE a == c[k]
               b == parts[k + 1]
    <3>1. a \in Seq(X) /\ b \in Seq(X)
      BY <2>4, <2>6
    <3> HIDE DEF a, b
    <3>2. /\ Len(a) \in Nat /\ Len(b) \in Nat /\ Len(a \o b) = Len(a) + Len(b)
          /\ \A i \in 1 .. Len(a) : (a \o b)[i] = a[i]
          /\ \A r \in 1 .. Len(b) : (a \o b)[Len(a) + r] = b[r]
      BY <3>1, ConcatPlaces
    <3>3. c[k + 1] = a \o b /\ Len(a) = l[k] /\ Len(b) = s[k + 1]
      BY <2>4, <2>6 DEF a, b
    <3>4. QED BY <2>5, <3>2, <3>3 DEF a, b
  <2>8. ASSUME NEW j \in 1 .. n, j <= k PROVE At(j, k + 1)
    <3>1. At(j, k)
      BY <2>3, <2>8
    <3>2. \A i \in 1 .. l[k] : i \in 1 .. l[k + 1]
      BY <2>4, <2>5, SMTT(30)
    <3>3. QED BY <2>7, <3>1, <3>2
  <2>9. At(k + 1, k + 1)
    <3>1. ASSUME NEW r \in 1 .. s[k + 1] PROVE l[k] + r \in 1 .. l[k + 1]
      <4>1. \A x, y, z \in Nat : \A t \in 1 .. y : z = x + y => x + t \in 1 .. z
        OBVIOUS
      <4>2. l[k + 1] \in Nat
        BY <2>4, <2>5
      <4>3. QED BY <2>4, <2>5, <4>1, <4>2
    <3>2. QED BY <2>2, <2>7, <3>1
  <2>10. \A j \in 1 .. n : j <= k + 1 => j <= k \/ j = k + 1
    BY <1>1
  <2>11. QED
    <3> HIDE DEF At
    <3> QED BY <2>7, <2>8, <2>9, <2>10
<1>6. \A k \in Nat : k \in T
  <2> HIDE DEF T
  <2> QED BY <1>4, <1>5, SetInduction
<1>7. ASSUME NEW k \in 0 .. n PROVE c[k] \in Seq(X) /\ Placed(k)
  <2>1. k \in T /\ k <= n
    BY <1>1, <1>6, SMTT(30)
  <2>2. QED BY <1>2, <2>1
<1>8. \A j, k \in 1 .. n : j <= k => At(j, k)
  <2>1. \A k \in 1 .. n : k \in 0 .. n
    BY <1>1
  <2> HIDE DEF At
  <2>2. QED BY <1>7, <2>1
<1>9. QED BY <1>7, <1>8 DEF ArePlaced
=============================================================================
